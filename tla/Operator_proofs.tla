--------------------------- MODULE Operator_proofs --------------------------
(* Proofs about what the operator uses.  BotWizards: what the wizards save is   *)
(* complete, over its market's minimum and on a market that exists, a wizard    *)
(* saves once, and no secret becomes a parameter, for any exchanges, pairs,     *)
(* amounts and minima and any sequence of buttons, texts, expiries, faults and  *)
(* restarts.  BotCommands: a stop reaches every item it addresses and the last  *)
(* button for an item wins, for any items, failures and crashes.  ReleaseDeploy:*)
(* a completed script is in service and a rollback undoes the deploy, for any   *)
(* units and versions and wherever scripts are interrupted.                     *)
EXTENDS Operator, FiniteSetTheorems, FunctionTheorems, SequenceTheorems,
        WellFoundedInduction, TLAPS

\* A record of a wizard's map.
Draft(w) == [step : Steps[w], exchange : Offered \cup {None}, symbol : Symbols \cup {None},
             given : Quotes \cup {None}, picked : SUBSET Parameters[w],
             table : Tables \cup {None}]

\* An amount over the minimum of its market in one of the tables, if there is
\* such a market.
Over(t, q, x, s) == t \in Tables /\ (<<x, s>> \in Markets => q > In(t)[<<x, s>>])

\* What a DCA knows at each step: the amount was checked against the pair it
\* has, and the parameters asked for so far are there.
DcaSound(s) ==
    /\ s.step \in {"interval", "budget_cap", "duration_cap"}
         => s.given \in Quotes /\ Over(s.table, s.given, s.exchange, s.symbol)
    /\ s.step \in {"budget_cap", "duration_cap"} => "interval" \in s.picked
    /\ s.step = "duration_cap" => "cap" \in s.picked

\* A record a strategy's wizard may hold.
Sound(k, s) == s \in Draft(k) /\ (k = "DCA" => DcaSound(s))

\* A request that may be sent.
Asked(r) ==
    /\ r \in Request
    /\ r.kind # "GRID" => r.picked = Parameters[r.kind]
    /\ r.by = "wizard" /\ r.kind # "MM" => Over(r.table, r.quote, r.exchange, r.symbol)
    /\ r.by = "wizard" => r.exchange \in Offered \cup {None}
    /\ r.by = "command" => \E m \in Modes : r.exchange = ModeMarket[m][1]

\* What TypeOK says, made inductive.
Types ==
    /\ wizard \in [Wizards -> (UNION {Draft(w) : w \in Wizards}) \cup {NoWizard}]
    /\ \A w \in Wizards : wizard[w] \in Draft(w) \cup {NoWizard}
    /\ prompt \in Offered \cup {None, "number"}
    /\ keys \in [Offered -> {None, "key", "number"}]
    /\ opened \subseteq Kinds

Drafts == "DCA" \in Kinds => DcaSound(wizard["DCA"])
Saving == saving # None => Asked(saving)
Saved == config # None => Asked(config) /\ Accepts(config)

\* A wizard that is pending was opened since it saved, or is just saving.
Once ==
    \A k \in Kinds :
      wizard[k] # NoWizard
        => k \in opened \/ (saving # None /\ saving.kind = k /\ saving.by = "wizard")

\* While a secret is asked for, the keys wizard waits for it, or the bot has
\* forgotten every wizard.
Private == prompt \in Offered => AtText("KEYS") \/ Pending = {}

IInv == Types /\ Drafts /\ Saving /\ Saved /\ Once /\ Private

-----------------------------------------------------------------------------
(* The blocks every action is made of *)

\* The names of the wizards and of their steps are what they look like.
LEMMA Names ==
    /\ Kinds \subseteq {"DCA", "GRID", "MM"} /\ "KEYS" \notin Kinds
    /\ "KEYS" \in Wizards /\ Kinds \subseteq Wizards
    /\ Steps["DCA"] = {"exchange", "pair", "budget", "interval", "budget_cap", "duration_cap"}
    /\ Steps["GRID"] = {"exchange", "pair", "levels", "step", "budget"}
    /\ Steps["MM"] = {"exchange", "pair", "spread", "order", "orders_per_side"}
    /\ Steps["KEYS"] = {"exchange", "apiKey", "apiSecret"}
    /\ Parameters["DCA"] = {"interval", "cap"} /\ Parameters["GRID"] = {"levels", "step"}
    /\ Parameters["MM"] = {"spread", "ops"} /\ Parameters["KEYS"] = {"key", "number"}
    /\ TextSteps["DCA"] = {"budget", "interval", "budget_cap", "duration_cap"}
    /\ TextSteps["GRID"] = {"levels", "step", "budget"}
    /\ TextSteps["MM"] = {"spread", "order"} /\ TextSteps["KEYS"] = {"apiKey", "apiSecret"}
    /\ Rank["KEYS"] = 1 /\ Rank["DCA"] = 2 /\ Rank["GRID"] = 3 /\ Rank["MM"] = 4
  BY BotAssumption DEF Wizards, Steps, Parameters, TextSteps, Rank

\* No wizard is at a step before it is opened.
LEMMA NoWizardIsNone ==
    /\ NoWizard.step = "none" /\ NoWizard.exchange = None /\ NoWizard.symbol = None
    /\ NoWizard.given = None /\ NoWizard.picked = {} /\ NoWizard.table = None
    /\ \A w \in Wizards : \A s \in Draft(w) : s # NoWizard
<1>1. \A w \in Wizards : "none" \notin Steps[w]
  BY Names DEF Wizards
<1> QED
  BY <1>1 DEF NoWizard, Draft

\* A message asks for a number, or for nothing.
LEMMA AsksNoSecret == \A k, s : Asks(k, s) \in {None, "number"} /\ Asks(k, s) \notin Offered
  BY BotAssumption DEF Asks

\* Moving a wizard on to a sound record keeps the invariant.
LEMMA PutKeeps ==
  ASSUME IInv, Idle, NEW k \in Kinds, k \in Pending, NEW s, Sound(k, s), Put(k, s)
  PROVE  IInv'
<1> USE DEF IInv
<1>1. s \in Draft(k) /\ k \in Wizards /\ k # "KEYS" /\ wizard' = [wizard EXCEPT ![k] = s]
  BY Names DEF Sound, Put
<1>2. Types'
  BY <1>1, AsksNoSecret DEF Put, Types
<1>3. Drafts'
  BY <1>1 DEF Put, Drafts, Sound, Types
<1>4. Once'
  BY <1>1 DEF Put, Once, Idle, Pending, Types
<1>5. Saving' /\ Saved'
  BY DEF Put, Saving, Saved
<1>6. Private'
  BY AsksNoSecret DEF Put, Private
<1> QED
  BY <1>2, <1>3, <1>4, <1>5, <1>6

\* So does forgetting a wizard,
LEMMA ForgetKeeps ==
  ASSUME IInv, NEW w \in Wizards, Forget(w)
  PROVE  IInv'
<1> USE DEF IInv
<1>1. wizard' = [wizard EXCEPT ![w] = NoWizard]
  BY DEF Forget
<1>2. Types'
  BY <1>1 DEF Forget, Types
<1>3. Drafts'
  BY <1>1, NoWizardIsNone, Names DEF Drafts, DcaSound, Types
<1>4. Once'
  BY <1>1, Names DEF Forget, Once, Types
<1>5. Saving' /\ Saved' /\ Private'
  BY BotAssumption DEF Forget, Saving, Saved, Private
<1> QED
  BY <1>2, <1>3, <1>4, <1>5

\* and sending what the wizard has, when it is complete and over the minimum.
LEMMA SendKeeps ==
  ASSUME IInv, Idle, NEW k \in Kinds, NEW s \in Draft(k), NEW q \in Quotes, Send(k, s, q),
         k # "GRID" => s.picked = Parameters[k],
         k # "MM" => Over(s.table, q, s.exchange, s.symbol)
  PROVE  IInv'
<1> USE DEF IInv
<1>1. Asked(saving')
  <2>1. s.picked \subseteq {"interval", "cap", "levels", "step", "spread", "ops"}
    BY Names DEF Draft
  <2>2. /\ s.exchange \in Offered \cup {None} /\ s.symbol \in Symbols \cup {None}
        /\ s.table \in Tables \cup {None}
    BY DEF Draft
  <2>3. saving' \in Request
    BY <2>1, <2>2 DEF Send, Request
  <2> QED
    BY <2>2, <2>3 DEF Asked, Send
<1>2. Types' /\ Drafts'
  BY DEF Send, Types, Drafts
<1>3. Once'
  <2>1. saving' # None
    BY <1>1, BotAssumption DEF Asked
  <2> QED
    BY <2>1 DEF Send, Once, Idle
<1>4. Saving' /\ Saved'
  BY <1>1 DEF Send, Saving, Saved
<1>5. Private'
  BY DEF Send, Private, AtText, Pending
<1> QED
  BY <1>1, <1>2, <1>3, <1>4, <1>5
-----------------------------------------------------------------------------
(* The actions *)

\* What is pending is sound.
LEMMA PendingIsSound ==
  ASSUME IInv, NEW k \in Kinds, k \in Pending
  PROVE  Sound(k, wizard[k])
  BY Names DEF IInv, Types, Drafts, Sound, Pending

\* Showing something, opening a wizard, and finding one too old.
LEMMA OpenSteps ==
  ASSUME IInv, Look \/ \E k \in Kinds : Open(k) \/ Expire(k)
  PROVE  IInv'
<1> USE DEF IInv
<1>1. CASE Look
  BY <1>1, BotAssumption
  DEF Look, Types, Drafts, Saving, Saved, Once, Private, Pending, AtText
<1>2. ASSUME NEW k \in Kinds, Open(k) PROVE IInv'
  <2> DEFINE s == [NoWizard EXCEPT !.step = "exchange"]
  <2>1. s \in Draft(k) /\ s.step = "exchange" /\ k \in Wizards
    BY Names DEF NoWizard, Draft
  <2> HIDE DEF s
  <2>2. wizard' = [wizard EXCEPT ![k] = s]
    BY <1>2 DEF Open, s
  <2>3. Types'
    BY <1>2, <2>1, <2>2 DEF Open, Types
  <2>4. Drafts'
    BY <2>1, <2>2, Names DEF Drafts, DcaSound, Types
  <2>5. Once'
    BY <1>2, <2>2, Names DEF Open, Once, Types, Idle
  <2>6. Saving' /\ Saved' /\ Private'
    BY <1>2, BotAssumption DEF Open, Saving, Saved, Private
  <2> QED
    BY <2>3, <2>4, <2>5, <2>6
<1>3. ASSUME NEW k \in Kinds, Expire(k) PROVE IInv'
  BY <1>3, ForgetKeeps, Names DEF Expire
<1> QED
  BY <1>1, <1>2, <1>3

\* Choosing an exchange, a pair, or a parameter that is not an amount.
LEMMA ChoiceSteps ==
  ASSUME IInv,
         \/ \E k \in Kinds, x \in Offered : PressExchange(k, x)
         \/ \E k \in Kinds, p \in Symbols : PressPair(k, p)
         \/ PressParameter
  PROVE  IInv'
<1>1. ASSUME NEW k \in Kinds, NEW x \in Offered, PressExchange(k, x) PROVE IInv'
  <2>1. wizard[k] \in Draft(k) /\ k \in Pending /\ Idle /\ Put(k, WithExchange(k, wizard[k], x))
    BY <1>1, PendingIsSound DEF PressExchange, Sound
  <2>2. CASE k = "DCA"
    <3>1. Sound(k, [NoWizard EXCEPT !.step = "pair", !.exchange = x])
      BY <2>2, Names DEF Sound, Draft, NoWizard, DcaSound
    <3> QED
      BY <2>1, <2>2, <3>1, PutKeeps DEF WithExchange
  <2>3. CASE k # "DCA"
    <3>1. "pair" \in Steps[k]
      BY <2>3, Names
    <3>2. Sound(k, [wizard[k] EXCEPT !.step = "pair", !.exchange = x])
      BY <2>1, <2>3, <3>1 DEF Sound, Draft
    <3> QED
      BY <2>1, <2>3, <3>2, PutKeeps DEF WithExchange
  <2> QED
    BY <2>2, <2>3
<1>2. ASSUME NEW k \in Kinds, NEW p \in Symbols, PressPair(k, p) PROVE IInv'
  <2>1. wizard[k] \in Draft(k) /\ k \in Pending /\ Idle /\ Put(k, WithPair(k, wizard[k], p))
    BY <1>2, PendingIsSound DEF PressPair, Sound
  <2>2. CASE k = "DCA"
    <3>1. Sound(k, [NoWizard EXCEPT !.step = "budget", !.symbol = p,
                                    !.exchange = wizard[k].exchange])
      BY <2>1, <2>2, Names DEF Sound, Draft, NoWizard, DcaSound
    <3> QED
      BY <2>1, <2>2, <3>1, PutKeeps DEF WithPair
  <2>3. ASSUME k # "DCA", NEW n \in Steps[k], Put(k, [wizard[k] EXCEPT !.step = n, !.symbol = p])
        PROVE  IInv'
    <3>1. Sound(k, [wizard[k] EXCEPT !.step = n, !.symbol = p])
      BY <2>1, <2>3 DEF Sound, Draft
    <3> QED
      BY <2>1, <2>3, <3>1, PutKeeps
  <2> QED
    BY <2>1, <2>2, <2>3, Names DEF WithPair
<1>3. ASSUME NEW k \in Kinds, k # "DCA", NEW c \in Parameters[k], NEW n \in Steps[k], Pick(k, c, n)
      PROVE  IInv'
  <2>1. Sound(k, [wizard[k] EXCEPT !.step = n, !.picked = @ \cup {c}])
    BY <1>3, PendingIsSound DEF Pick, Sound, Draft
  <2> QED
    BY <1>3, <2>1, PutKeeps DEF Pick
<1>4. CASE PressParameter
  BY <1>3, <1>4, Names DEF PressParameter
<1> QED
  BY <1>1, <1>2, <1>4

\* Saving after a look at keys and funds.
LEMMA CheckKeeps ==
  ASSUME IInv, Idle, NEW k \in Kinds, NEW s \in Draft(k), NEW q \in Quotes, CheckAndSend(k, s, q),
         k # "GRID" => s.picked = Parameters[k],
         k # "MM" => Over(s.table, q, s.exchange, s.symbol)
  PROVE  IInv'
  BY ForgetKeeps, SendKeeps, Names DEF CheckAndSend

\* What was compared with the prompt's minimum is an amount, and over the
\* market's.
LEMMA Compared ==
  ASSUME NEW t \in Tables, NEW q \in Quotes \cup {NaN}, NEW x, NEW s
  PROVE  /\ ~(q <= MinOf(t, x, s)) => q \in Quotes /\ Over(t, q, x, s)
         /\ q > MinOf(t, x, s) => q \in Quotes /\ Over(t, q, x, s)
         /\ ~(q <= MmMinOf(t, x, s)) => q \in Quotes
<1>1. In(t) \in [Markets -> Nat] /\ q \in Int /\ Quotes \subseteq Nat
  BY BotAssumption DEF In, NaN
<1>2. MinOf(t, x, s) \in Nat /\ MmMinOf(t, x, s) \in Nat
  BY <1>1, BotAssumption DEF MinOf, MmMinOf
<1>3. q >= 0 => q \in Quotes
  BY <1>1 DEF NaN
<1>4. <<x, s>> \in Markets => MinOf(t, x, s) = In(t)[<<x, s>>]
  BY DEF MinOf
<1> QED
  BY <1>1, <1>2, <1>3, <1>4 DEF Over

\* The amount of a GRID, pressed or typed.
LEMMA GridQuoteKeeps ==
  ASSUME IInv, Idle, "GRID" \in Kinds, "GRID" \in Pending, NEW q \in Quotes \cup {NaN},
         CompleteGrid(q)
  PROVE  IInv'
<1> DEFINE s == wizard["GRID"]
<1>1. Sound("GRID", s) /\ s \in Draft("GRID")
  BY PendingIsSound DEF Sound
<1>2. CASE Put("GRID", s)
  BY <1>1, <1>2, PutKeeps
<1>3. ASSUME NEW t \in Tables, ~(q <= MinOf(t, s.exchange, s.symbol)),
             CheckAndSend("GRID", [s EXCEPT !.table = t], q)
      PROVE  IInv'
  <2> DEFINE u == [s EXCEPT !.table = t]
  <2>1. q \in Quotes /\ Over(t, q, s.exchange, s.symbol)
    BY <1>3, Compared
  <2>2. u \in Draft("GRID") /\ u.table = t /\ u.exchange = s.exchange /\ u.symbol = s.symbol
    BY <1>1 DEF Draft
  <2>3. CheckAndSend("GRID", u, q)
    BY <1>3
  <2> HIDE DEF u
  <2> QED
    BY <2>1, <2>2, <2>3, CheckKeeps
<1> QED
  BY <1>2, <1>3 DEF CompleteGrid

\* The amount of an MM.
LEMMA MmQuoteKeeps ==
  ASSUME IInv, Idle, "MM" \in Kinds, "MM" \in Pending, NEW q \in Quotes \cup {NaN}, MmQuote(q)
  PROVE  IInv'
<1> DEFINE s == wizard["MM"]
           t == [s EXCEPT !.step = "orders_per_side", !.given = q]
<1>1. Sound("MM", s) /\ s \in Draft("MM")
  BY PendingIsSound DEF Sound
<1>2. CASE Put("MM", s)
  BY <1>1, <1>2, PutKeeps
<1>3. ASSUME NEW o \in Tables, ~(q <= MmMinOf(o, s.exchange, s.symbol)), Put("MM", t)
      PROVE  IInv'
  <2>1. q \in Quotes
    BY <1>3, Compared
  <2>2. Sound("MM", t)
    BY <1>1, <2>1, Names DEF Sound, Draft
  <2> QED
    BY <1>3, <2>2, PutKeeps
<1> QED
  BY <1>2, <1>3 DEF MmQuote

\* The orders per side: what is sent has its spread.
LEMMA OpsKeeps ==
  ASSUME IInv, PressOps
  PROVE  IInv'
<1> DEFINE s == [wizard["MM"] EXCEPT !.picked = @ \cup {"ops"}]
<1>1. "MM" \in Kinds /\ Idle /\ "MM" \in Pending
  BY DEF PressOps
<1>2. s \in Draft("MM")
  BY <1>1, PendingIsSound, Names DEF Sound, Draft
<1>3. CASE Forget("MM")
  BY <1>1, <1>3, ForgetKeeps, Names
<1>4. CASE ~MmMissing(s) /\ CheckAndSend("MM", s, s.given)
  <2>1. s.picked = Parameters["MM"]
    <3>1. "spread" \in s.picked /\ "ops" \in s.picked
      BY <1>1, <1>4, PendingIsSound DEF MmMissing, Sound, Draft
    <3>2. s.picked \subseteq Parameters["MM"]
      BY <1>2 DEF Draft
    <3> QED
      BY <3>1, <3>2, Names
  <2>2. s.given \in Quotes
    BY <1>2, <1>4 DEF MmMissing, Draft
  <2> HIDE DEF s
  <2> QED
    BY <1>1, <1>2, <1>4, <2>1, <2>2, CheckKeeps
<1> QED
  BY <1>3, <1>4 DEF PressOps

\* The keys wizard leaves the strategies' records as they are, and while it
\* asks for a secret it waits for one.
LEMMA KeysKeep ==
  ASSUME IInv, NEW s \in Draft("KEYS") \cup {NoWizard}, wizard' = [wizard EXCEPT !["KEYS"] = s],
         prompt' \in Offered \cup {None}, prompt' \in Offered => s.step \in TextSteps["KEYS"],
         keys' \in [Offered -> {None, "key", "number"}], UNCHANGED <<saving, config, opened>>
  PROVE  IInv'
<1> USE DEF IInv
<1>1. wizard'["KEYS"] = s /\ \A k \in Kinds : wizard'[k] = wizard[k]
  BY Names DEF Types
<1>2. Types'
  BY <1>1, Names DEF Types
<1>3. Drafts' /\ Saving' /\ Saved' /\ Once'
  BY <1>1, Names DEF Drafts, Saving, Saved, Once
<1>4. Private'
  BY <1>1, BotAssumption DEF Private, AtText
<1> QED
  BY <1>2, <1>3, <1>4

\* Its commands and buttons.
LEMMA KeysSteps ==
  ASSUME IInv, OpenKeys \/ \E x \in Offered : PressKeysExchange(x) \/ ClearKeys(x)
  PROVE  IInv'
<1>1. CASE OpenKeys
  <2> DEFINE s == [NoWizard EXCEPT !.step = "exchange"]
  <2>1. s \in Draft("KEYS")
    BY Names DEF NoWizard, Draft
  <2> HIDE DEF s
  <2>2. wizard' = [wizard EXCEPT !["KEYS"] = s]
    BY <1>1 DEF OpenKeys, s
  <2> QED
    BY <1>1, <2>1, <2>2, KeysKeep, BotAssumption DEF OpenKeys, IInv, Types
<1>2. ASSUME NEW x \in Offered, PressKeysExchange(x) PROVE IInv'
  <2> DEFINE s == [NoWizard EXCEPT !.step = "apiKey", !.exchange = x]
  <2>1. s \in Draft("KEYS") /\ s.step \in TextSteps["KEYS"]
    BY Names DEF NoWizard, Draft
  <2> HIDE DEF s
  <2>2. wizard' = [wizard EXCEPT !["KEYS"] = s]
    BY <1>2 DEF PressKeysExchange, s
  <2> QED
    BY <1>2, <2>1, <2>2, KeysKeep DEF PressKeysExchange, IInv, Types
<1>3. ASSUME NEW x \in Offered, ClearKeys(x) PROVE IInv'
  <2>1. keys' \in [Offered -> {None, "key", "number"}]
    BY <1>3 DEF ClearKeys, IInv, Types
  <2> QED
    BY <1>3, <2>1, BotAssumption
    DEF ClearKeys, IInv, Types, Drafts, Saving, Saved, Once, Private
<1> QED
  BY <1>1, <1>2, <1>3

\* A text it takes.
LEMMA TypeKeyKeeps ==
  ASSUME IInv, AtText("KEYS"), "KEYS" \in Pending, TypeKey
  PROVE  IInv'
<1> DEFINE s == wizard["KEYS"]
           t == [s EXCEPT !.step = "apiSecret", !.picked = {TypedFor}]
<1>1. s \in Draft("KEYS") /\ s.step \in TextSteps["KEYS"]
  BY Names DEF IInv, Types, Pending, AtText
<1>2. CASE s.step = "apiKey"
  <2>1. t \in Draft("KEYS") /\ t.step \in TextSteps["KEYS"]
    BY <1>1, Names DEF Draft, TypedFor
  <2>2. wizard' = [wizard EXCEPT !["KEYS"] = t]
    BY <1>2 DEF TypeKey
  <2>3. prompt' \in Offered \cup {None} /\ UNCHANGED <<keys, saving, config, opened>>
    BY <1>1, <1>2 DEF TypeKey, Draft
  <2> HIDE DEF t
  <2> QED
    BY <2>1, <2>2, <2>3, KeysKeep DEF IInv, Types
<1>3. CASE s.step # "apiKey"
  <2>1. keys' \in [Offered -> {None, "key", "number"}]
    BY <1>3 DEF TypeKey, IInv, Types
  <2> QED
    BY <1>3, <2>1, KeysKeep, BotAssumption DEF TypeKey
<1> QED
  BY <1>2, <1>3

\* A text the DCA wizard takes: what it sends after its last question has every
\* parameter and an amount that was compared with its pair's minimum.
LEMMA TypeDcaKeeps ==
  ASSUME IInv, Idle, "DCA" \in Kinds, "DCA" \in Pending, NEW n \in Quotes \cup {NaN}, TypeDca(n)
  PROVE  IInv'
<1> DEFINE s == wizard["DCA"]
<1>1. Sound("DCA", s) /\ s \in Draft("DCA") /\ DcaSound(s)
  BY PendingIsSound DEF Sound
<1>2. CASE s.step = "duration_cap" /\ Send("DCA", s, s.given)
  <2>1. s.given \in Quotes /\ Over(s.table, s.given, s.exchange, s.symbol)
    BY <1>1, <1>2 DEF DcaSound
  <2>2. s.picked = Parameters["DCA"]
    BY <1>1, <1>2, Names DEF DcaSound, Draft
  <2> QED
    BY <1>1, <1>2, <2>1, <2>2, SendKeeps
<1>3. CASE Put("DCA", s)
  BY <1>1, <1>3, PutKeeps
<1>4. ASSUME NEW t \in Tables, s.step = "budget", n > MinOf(t, s.exchange, s.symbol),
             Put("DCA", [s EXCEPT !.step = "interval", !.given = n, !.table = t])
      PROVE  IInv'
  <2>1. n \in Quotes /\ Over(t, n, s.exchange, s.symbol)
    BY <1>4, Compared
  <2>2. Sound("DCA", [s EXCEPT !.step = "interval", !.given = n, !.table = t])
    BY <1>1, <2>1, Names DEF Sound, Draft, DcaSound
  <2> QED
    BY <1>4, <2>2, PutKeeps
<1>5. ASSUME s.step = "interval",
             Put("DCA", [s EXCEPT !.step = "budget_cap", !.picked = @ \cup {"interval"}])
      PROVE  IInv'
  <2>1. Sound("DCA", [s EXCEPT !.step = "budget_cap", !.picked = @ \cup {"interval"}])
    BY <1>1, <1>5, Names DEF Sound, Draft, DcaSound
  <2> QED
    BY <1>5, <2>1, PutKeeps
<1>6. ASSUME s.step = "budget_cap",
             Put("DCA", [s EXCEPT !.step = "duration_cap", !.picked = @ \cup {"cap"}])
      PROVE  IInv'
  <2>1. Sound("DCA", [s EXCEPT !.step = "duration_cap", !.picked = @ \cup {"cap"}])
    BY <1>1, <1>6, Names DEF Sound, Draft, DcaSound
  <2> QED
    BY <1>6, <2>1, PutKeeps
<1> QED
  BY <1>2, <1>3, <1>4, <1>5, <1>6 DEF TypeDca

\* A text the GRID wizard takes.
LEMMA TypeGridKeeps ==
  ASSUME IInv, Idle, "GRID" \in Kinds, "GRID" \in Pending, NEW n \in Quotes \cup {NaN}, TypeGrid(n)
  PROVE  IInv'
<1> DEFINE s == wizard["GRID"]
<1>1. Sound("GRID", s) /\ s \in Draft("GRID")
  BY PendingIsSound DEF Sound
<1>2. CASE Put("GRID", s)
  BY <1>1, <1>2, PutKeeps
<1>3. ASSUME NEW c \in Parameters["GRID"], NEW next \in Steps["GRID"],
             Put("GRID", [s EXCEPT !.step = next, !.picked = @ \cup {c}])
      PROVE  IInv'
  <2>1. Sound("GRID", [s EXCEPT !.step = next, !.picked = @ \cup {c}])
    BY <1>1 DEF Sound, Draft
  <2> QED
    BY <1>3, <2>1, PutKeeps
<1>4. CASE CompleteGrid(n)
  BY <1>4, GridQuoteKeeps
<1> QED
  BY <1>2, <1>3, <1>4, Names DEF TypeGrid

\* A text, whichever wizard takes it or finds itself too old.
LEMMA TextKeeps ==
  ASSUME IInv, NEW n \in Quotes \cup {NaN}, Text(n)
  PROVE  IInv'
<1>1. PICK w \in Pending :
        /\ Idle
        /\ \/ Forget(w)
           \/ AtText(w) /\ w = "KEYS" /\ TypeKey
           \/ AtText(w) /\ w = "DCA" /\ TypeDca(n)
           \/ AtText(w) /\ w = "GRID" /\ TypeGrid(n)
           \/ AtText(w) /\ w = "MM" /\ TypeMm(n)
  BY DEF Text
<1>2. w \in Wizards /\ (w # "KEYS" => w \in Kinds)
  BY DEF Pending, Wizards
<1>3. CASE Forget(w)
  BY <1>2, <1>3, ForgetKeeps
<1>4. CASE AtText(w) /\ w = "KEYS" /\ TypeKey
  BY <1>4, TypeKeyKeeps
<1>5. CASE w = "DCA" /\ TypeDca(n)
  BY <1>1, <1>2, <1>5, TypeDcaKeeps
<1>6. CASE w = "GRID" /\ TypeGrid(n)
  BY <1>1, <1>2, <1>6, TypeGridKeeps
<1>7. CASE w = "MM" /\ TypeMm(n)
  <2>1. "MM" \in Kinds /\ "MM" \in Pending /\ Idle
    BY <1>1, <1>2, <1>7
  <2>2. CASE MmQuote(n)
    BY <2>1, <2>2, MmQuoteKeeps
  <2>3. CASE Put("MM", wizard["MM"])
    BY <2>1, <2>3, PendingIsSound, PutKeeps
  <2> QED
    BY <1>7, <2>2, <2>3 DEF TypeMm
<1> QED
  BY <1>1, <1>3, <1>4, <1>5, <1>6, <1>7

\* The command that needs no wizard.
LEMMA DcaSetKeeps ==
  ASSUME IInv, NEW m \in Modes, NEW q \in Quotes, DcaSet(m, q)
  PROVE  IInv'
<1> USE DEF IInv
<1>1. ModeMarket[m] \in Markets
  BY BotAssumption
<1>2. Asked(saving')
  <2>1. saving' \in Request
    BY <1>1, Names DEF DcaSet, Request
  <2> QED
    BY <2>1 DEF Asked, DcaSet
<1>3. Types' /\ Drafts' /\ Private'
  BY DEF DcaSet, Types, Drafts, Private, AtText, Pending
<1>4. Saving' /\ Saved'
  BY <1>2 DEF DcaSet, Saving, Saved
<1>5. Once'
  BY DEF DcaSet, Once, Idle
<1> QED
  BY <1>3, <1>4, <1>5

\* The answer ends the wizard that asked, whatever became of the request.
LEMMA ReplyKeeps ==
  ASSUME IInv, Reply
  PROVE  IInv'
<1> USE DEF IInv
<1>1. Asked(saving) /\ saving.kind \in Kinds /\ saving.by \in {"wizard", "command"}
  BY DEF Reply, Saving, Asked, Request
<1>2. Saved' /\ Saving'
  BY <1>1 DEF Reply, Saved, Saving
<1>3. CASE saving.by = "wizard"
  <2>1. wizard' = [wizard EXCEPT ![saving.kind] = NoWizard]
    BY <1>3 DEF Reply
  <2>2. Types'
    BY <1>1, <2>1, Names DEF Reply, Types
  <2>3. Drafts'
    BY <2>1, NoWizardIsNone, Names DEF Drafts, DcaSound, Types
  <2>4. Once'
    BY <1>1, <2>1, Names DEF Reply, Once, Types
  <2> QED
    BY <1>2, <2>2, <2>3, <2>4, BotAssumption DEF Reply, Private
<1>4. CASE saving.by = "command"
  BY <1>2, <1>4, BotAssumption DEF Reply, Types, Drafts, Once, Private
<1> QED
  BY <1>1, <1>3, <1>4

\* A restart forgets every wizard.
LEMMA CrashKeeps ==
  ASSUME IInv, Crash
  PROVE  IInv'
<1> USE DEF IInv
<1>1. Types'
  BY DEF Crash, Types
<1>2. Drafts'
  BY NoWizardIsNone, Names DEF Crash, Drafts, DcaSound
<1>3. Saving' /\ Saved'
  BY DEF Crash, Saving, Saved
<1>4. Once' /\ Private'
  BY Names DEF Crash, Once, Private, Pending
<1> QED
  BY <1>1, <1>2, <1>3, <1>4

-----------------------------------------------------------------------------
(* The invariant and what follows *)

\* Every step keeps the invariant.
LEMMA IInvStep == IInv /\ [Next]_vars => IInv'
<1> SUFFICES ASSUME IInv, [Next]_vars PROVE IInv'
  OBVIOUS
<1>1. CASE PressParameter
  BY <1>1, ChoiceSteps
<1>2. ASSUME NEW q \in Quotes, PressGridQuote(q) \/ PressMmQuote(q) PROVE IInv'
  BY <1>2, GridQuoteKeeps, MmQuoteKeeps DEF PressGridQuote, PressMmQuote
<1>3. CASE UNCHANGED vars
  BY <1>3 DEF vars, IInv, Types, Drafts, Saving, Saved, Once, Private, AtText, Pending
<1>4. CASE PressOps \/ OpenKeys \/ Reply \/ Crash
  BY <1>4, OpsKeeps, KeysSteps, ReplyKeeps, CrashKeeps
<1>5. CASE Look \/ \E k \in Kinds : Open(k) \/ Expire(k)
  BY <1>5, OpenSteps
<1>6. ASSUME NEW k \in Kinds, NEW x \in Offered, PressExchange(k, x) PROVE IInv'
  BY <1>6, ChoiceSteps
<1>7. ASSUME NEW k \in Kinds, NEW p \in Symbols, PressPair(k, p) PROVE IInv'
  BY <1>7, ChoiceSteps
<1>8. ASSUME NEW x \in Offered, PressKeysExchange(x) \/ ClearKeys(x) PROVE IInv'
  BY <1>8, KeysSteps
<1> QED
  BY <1>1, <1>2, <1>3, <1>4, <1>5, <1>6, <1>7, <1>8, TextKeeps, DcaSetKeeps DEF Next

\* At the start no wizard is pending and nothing was saved.
LEMMA IInvInit == Init => IInv
<1> SUFFICES ASSUME Init PROVE IInv
  OBVIOUS
<1>1. Types
  BY DEF Init, Types
<1>2. Drafts
  BY NoWizardIsNone, Names DEF Init, Drafts, DcaSound
<1>3. Saving /\ Saved /\ Once /\ Private
  BY Names, BotAssumption DEF Init, Saving, Saved, Once, Private
<1> QED
  BY <1>1, <1>2, <1>3 DEF IInv

\* The strengthened invariant holds in every reachable state.
LEMMA IInvHolds == Spec => []IInv
  BY IInvInit, IInvStep, PTL DEF Spec

\* No wizard is at a step of another or carries a parameter it does not have.
THEOREM TypeCorrect == Spec => []TypeOK
<1>1. IInv => TypeOK
  <2> SUFFICES ASSUME IInv PROVE TypeOK
    OBVIOUS
  <2>1. \A w \in Wizards :
          /\ wizard[w] # NoWizard => wizard[w].step \in Steps[w]
          /\ wizard[w].exchange \in Offered \cup {None}
          /\ wizard[w].symbol \in Symbols \cup {None}
          /\ wizard[w].given \in Quotes \cup {None}
          /\ wizard[w].picked \subseteq Parameters[w]
          /\ wizard[w].table \in Tables \cup {None}
    BY NoWizardIsNone DEF IInv, Types, Draft
  <2> QED
    BY <2>1 DEF TypeOK, IInv, Types, Saving, Saved, Asked
<1> QED
  BY <1>1, IInvHolds, PTL

\* A DCA or GRID that its wizard saved orders more than the minimum of its own
\* market, in the registry or, without one, in the bot's table.
THEOREM AmountsFit == Spec => []QuoteFits
<1>1. IInv => QuoteFits
  BY DEF IInv, Saved, Asked, Accepts, Over, QuoteFits
<1> QED
  BY <1>1, IInvHolds, PTL

\* What is saved has its parameters, in whatever order buttons were pressed.
THEOREM SavedIsComplete == Spec => []CompleteWhenSaved
<1>1. IInv => CompleteWhenSaved
  BY DEF IInv, Saved, Asked, CompleteWhenSaved
<1> QED
  BY <1>1, IInvHolds, PTL

\* What the wizards save is complete, over the minimum of its market and on a
\* market that exists and may trade, whichever old keyboards were used; only
\* /dca_set saves for an exchange that is disabled.
THEOREM ConfigurationsAreSound == Spec => []SavedIsSound
<1>1. IInv => OnlyRealMarkets
  BY BotAssumption DEF IInv, Saved, Asked, Accepts, Request, OnlyRealMarkets
<1> QED
  BY <1>1, IInvHolds, AmountsFit, SavedIsComplete, PTL DEF SavedIsSound

-----------------------------------------------------------------------------
(* The action properties *)

\* What a block of a wizard saves.
LEMMA BlocksSave ==
  ASSUME NEW k \in Kinds, NEW s, NEW q
  PROVE  /\ Put(k, s) \/ Forget(k) => saving' = saving
         /\ Send(k, s, q) => saving'.kind = k
         /\ CheckAndSend(k, s, q) => saving' = saving \/ saving'.kind = k
  BY DEF Put, Forget, Send, CheckAndSend

\* Only a wizard that is pending sends a request of its own.
LEMMA OnlyPendingSends ==
  ASSUME IInv, Next, saving = None, saving' # None, saving'.by = "wizard"
  PROVE  \E k \in Kinds : k \in Pending /\ saving'.kind = k
<1> SUFFICES ASSUME saving' # saving
             PROVE  \E k \in Kinds : k \in Pending /\ saving'.kind = k
  OBVIOUS
<1>1. ASSUME NEW q, PressGridQuote(q) PROVE "GRID" \in Kinds /\ "GRID" \in Pending /\ saving'.kind = "GRID"
  BY <1>1, BlocksSave DEF PressGridQuote, CompleteGrid
<1>2. ASSUME PressOps PROVE "MM" \in Kinds /\ "MM" \in Pending /\ saving'.kind = "MM"
  BY <1>2, BlocksSave DEF PressOps
<1>3. ASSUME NEW n \in Quotes \cup {NaN}, Text(n)
      PROVE  \E k \in Kinds : k \in Pending /\ saving'.kind = k
  <2>1. PICK w \in Pending :
          \/ Forget(w)
          \/ w = "KEYS" /\ TypeKey
          \/ w = "DCA" /\ TypeDca(n)
          \/ w = "GRID" /\ TypeGrid(n)
          \/ w = "MM" /\ TypeMm(n)
    BY <1>3 DEF Text
  <2>2. ~Forget(w) /\ ~TypeKey
    BY DEF Forget, TypeKey
  <2>3. w \in Kinds
    BY <2>1, <2>2 DEF Pending, Wizards
  <2>4. w = "DCA" => saving'.kind = "DCA"
    BY <2>1, <2>2, <2>3, BlocksSave DEF TypeDca
  <2>5. w = "GRID" => saving'.kind = "GRID"
    BY <2>1, <2>2, <2>3, BlocksSave DEF TypeGrid, CompleteGrid
  <2>6. w = "MM" => saving'.kind = "MM"
    BY <2>1, <2>2, <2>3, BlocksSave DEF TypeMm, MmQuote
  <2> QED
    BY <2>1, <2>2, <2>3, <2>4, <2>5, <2>6
<1>4. ~(\E m \in Modes, q \in Quotes : DcaSet(m, q))
  BY DEF DcaSet
<1>5. ~Look /\ ~OpenKeys /\ ~Reply /\ ~Crash /\ ~PressParameter
  BY BlocksSave DEF Look, OpenKeys, Reply, Crash, PressParameter, Pick
<1>6. \A k \in Kinds : ~Open(k) /\ ~Expire(k)
  BY BlocksSave DEF Open, Expire
<1>7. \A k \in Kinds, x \in Offered : ~PressExchange(k, x)
  BY BlocksSave DEF PressExchange
<1>8. \A k \in Kinds, p \in Symbols : ~PressPair(k, p)
  BY BlocksSave DEF PressPair
<1>9. \A q \in Quotes : ~PressMmQuote(q)
  BY BlocksSave DEF PressMmQuote, MmQuote
<1>10. \A x \in Offered : ~PressKeysExchange(x) /\ ~ClearKeys(x)
  BY DEF PressKeysExchange, ClearKeys
<1> QED
  BY <1>1, <1>2, <1>3, <1>4, <1>5, <1>6, <1>7, <1>8, <1>9, <1>10 DEF Next

\* Between two saves of one kind the user opened its wizard again: no second
\* tap and no try after an error saves twice.
THEOREM OneSaveEach == Spec => DoubleTapIsHarmless
<1>1. IInv /\ [Next]_vars
        => [(saving = None /\ saving' # None /\ saving'.by = "wizard")
              => saving'.kind \in opened]_vars
  <2> SUFFICES ASSUME IInv, Next, saving = None, saving' # None, saving'.by = "wizard"
               PROVE  saving'.kind \in opened
    OBVIOUS
  <2> QED
    BY OnlyPendingSends DEF IInv, Once, Pending
<1> QED
  BY <1>1, IInvHolds, PTL DEF Spec, DoubleTapIsHarmless

\* A text that answers the question for a key or a secret never becomes a
\* parameter of a strategy, whichever wizards were left half-way.
THEOREM SecretsAreKept == Spec => SecretsStayPrivate
<1>1. IInv /\ [Next]_vars
        => [(prompt \in Offered /\ \E n \in Quotes \cup {NaN} : Text(n))
              => saving' = saving /\ \A k \in Kinds : wizard'[k] = wizard[k]]_vars
  <2> SUFFICES ASSUME IInv, prompt \in Offered, NEW n \in Quotes \cup {NaN}, Text(n)
               PROVE  saving' = saving /\ \A k \in Kinds : wizard'[k] = wizard[k]
    OBVIOUS
  <2>1. PICK w \in Pending :
          /\ \A v \in Pending : Rank[v] < Rank[w] => ~AtText(v)
          /\ Forget(w) \/ (w = "KEYS" /\ TypeKey) \/ w # "KEYS"
    BY DEF Text
  <2>2. AtText("KEYS") /\ "KEYS" \in Pending
    BY Names, NoWizardIsNone DEF IInv, Private, AtText, Pending
  <2>3. w = "KEYS"
    <3>1. w \in {"KEYS", "DCA", "GRID", "MM"}
      BY Names DEF Pending, Wizards
    <3> QED
      BY <2>1, <2>2, <3>1, Names
  <2>4. CASE Forget("KEYS")
    BY <2>4, Names DEF Forget, IInv, Types
  <2>5. CASE TypeKey
    BY <2>5, Names DEF TypeKey, IInv, Types
  <2> QED
    BY <2>1, <2>3, <2>4, <2>5
<1> QED
  BY <1>1, IInvHolds, PTL DEF Spec, SecretsStayPrivate

-----------------------------------------------------------------------------
(* The commands and buttons *)

\* The instance counts as the library does.
LEMMA SameCount == \A S : Cmd!Cardinality(S) = Cardinality(S)
  BY DEF Cmd!Cardinality, Cardinality

\* The numbers are well-founded by their order.
LEMMA LessIsWellFounded == IsWellFoundedOn({p \in Nat \X Nat : p[1] < p[2]}, Nat)
  BY NatLessThanWellFounded DEF OpToRel

\* A set of numbers that is not empty has a least one.
LEMMA Least ==
  ASSUME NEW S \in SUBSET Nat, S # {}
  PROVE  \E x \in S : \A y \in S : x <= y
<1> DEFINE R == {p \in Nat \X Nat : p[1] < p[2]}
<1>1. \E x \in S : \A y \in S : <<y, x>> \notin R
  <2>1. IsWellFoundedOn(R, Nat)
    BY LessIsWellFounded
  <2> HIDE DEF R
  <2> QED
    BY <2>1, WFMin
<1>2. PICK x \in S : \A y \in S : <<y, x>> \notin R
  BY <1>1
<1>3. ASSUME NEW y \in S PROVE x <= y
  <2>1. x \in Nat /\ y \in Nat /\ <<y, x>> \notin R
    BY <1>2
  <2> QED
    BY <2>1
<1> QED
  BY <1>3

\* What is built up from the left is what the recursion says.
Built(ss, f, n) == f = [i \in 1..n |-> IF i = 1 THEN ss[i] ELSE f[i - 1] \o ss[i]]

\* Such a function exists for any length: the least length without one has none.
LEMMA BuiltExists == ASSUME NEW ss, NEW n \in Nat PROVE \E f : Built(ss, f, n)
<1> DEFINE Bad == {m \in Nat : ~ \E f : Built(ss, f, m)}
<1> SUFFICES ASSUME Bad # {} PROVE FALSE
  OBVIOUS
<1>1. PICK m \in Bad : \A k \in Bad : m <= k
  BY Least
<1>2. CASE m = 0
  <2> DEFINE f == [i \in 1..0 |-> IF i = 1 THEN ss[i] ELSE {}]
  <2>1. Built(ss, f, 0)
    BY DEF Built
  <2> QED BY <1>1, <1>2, <2>1
<1>3. CASE m # 0
  <2>1. m - 1 \in Nat /\ m - 1 \notin Bad
    BY <1>1, <1>3
  <2>2. PICK f : Built(ss, f, m - 1)
    BY <2>1
  <2> DEFINE g == [i \in 1..m |-> IF i = m THEN (IF i = 1 THEN ss[i] ELSE f[i - 1] \o ss[i]) ELSE f[i]]
  <2>3. \A i \in 1..m : g[i] = IF i = 1 THEN ss[i] ELSE g[i - 1] \o ss[i]
    <3> SUFFICES ASSUME NEW i \in 1..m PROVE g[i] = IF i = 1 THEN ss[i] ELSE g[i - 1] \o ss[i]
      OBVIOUS
    <3>1. CASE i = m
      BY <2>1, <3>1
    <3>2. CASE i # m
      <4>1. i \in 1..(m - 1)
        BY <3>2, <2>1
      <4>2. f[i] = IF i = 1 THEN ss[i] ELSE f[i - 1] \o ss[i]
        BY <2>2, <4>1 DEF Built
      <4>3. i # 1 => g[i - 1] = f[i - 1]
        BY <4>1, <2>1
      <4> QED
        BY <3>2, <4>2, <4>3
    <3> QED BY <3>1, <3>2
  <2>4. Built(ss, g, m)
    BY <2>3 DEF Built
  <2> QED BY <1>1, <2>4
<1> QED BY <1>2, <1>3

\* FlattenSeq is the last value of what is built up.
LEMMA FlattenIs ==
  ASSUME NEW ss, Len(ss) \in Nat \ {0}
  PROVE  \E f : Built(ss, f, Len(ss)) /\ Cmd!FlattenSeq(ss) = f[Len(ss)]
<1> DEFINE f == CHOOSE g : g = [i \in 1..Len(ss) |-> IF i = 1 THEN ss[i] ELSE g[i - 1] \o ss[i]]
<1>1. \E g : g = [i \in 1..Len(ss) |-> IF i = 1 THEN ss[i] ELSE g[i - 1] \o ss[i]]
  BY BuiltExists DEF Built
<1>2. Built(ss, f, Len(ss))
  <2>1. f = [i \in 1..Len(ss) |-> IF i = 1 THEN ss[i] ELSE f[i - 1] \o ss[i]]
    BY <1>1
  <2> HIDE DEF f
  <2> QED BY <2>1 DEF Built
<1>3. Cmd!FlattenSeq(ss) = f[Len(ss)]
  BY DEF Cmd!FlattenSeq
<1> QED BY <1>2, <1>3

-----------------------------------------------------------------------------
(* What is said to the trade-api, and in what order. *)

\* What a request does; the verbs that start and that stop; the calls that disable an item or lead
\* to it; where a call goes; every call there is.
Doing == {"enable", "disable", "cancel"}
Starting == {"start", "startall", "/start"}
Stops == {"stop", "stopall", "exchange"}
Stopping == {"disable", "stop", "stopall", "list DCA", "list rest"}
Places == Cmd!Range(Menu) \union {ExchangeOf[i] : i \in Items} \union {"any"}
Calls == [do : Doing \union {"/start", "/stop", "stop", "stopall", "list DCA", "list rest"},
          at : Places, items : SUBSET Items, again : BOOLEAN]

\* Of GRID and MM the orders are cancelled by a call of its own.
Apart == Cmd!Of("GRID") \union Cmd!Of("MM")

\* A call that may follow from an update.
Belongs(u, c) ==
    /\ c \in Calls /\ c.items \subseteq u.items
    /\ c.do \in Doing \union {"stop"} => \E i \in Items : c.items = {i}
    /\ IF u.verb \in Starting THEN c.do \in {"enable", "/start"} ELSE c.do \notin {"enable", "/start"}
    /\ c.do = "list DCA" => c.items \subseteq Cmd!Of("DCA")
    /\ c.do = "list rest" => c.items \subseteq Apart
    /\ c.do \in {"/start", "/stop"} => c.do = u.verb
    /\ u.verb = "exchange" => c.items \subseteq Cmd!At(c.at)

\* The cancellation of an item comes right after its disable.
Paired(q) ==
    \A n \in 1..Len(q) :
      /\ q[n].do = "disable" /\ q[n].items \intersect Apart # {}
           => n < Len(q) /\ q[n + 1].do = "cancel" /\ q[n + 1].items = q[n].items
      /\ q[n].do = "cancel" /\ n # 1 => q[n - 1].do = "disable" /\ q[n - 1].items = q[n].items

\* What is left of a plan.
Rest(u, q) == q \in Seq(Calls) /\ (\A n \in 1..Len(q) : Belongs(u, q[n])) /\ Paired(q)

\* A plan that begins with no cancellation.
Whole(u, q) == Rest(u, q) /\ (q # <<>> => q[1].do # "cancel")

\* A call of a sequence that does one of D with an item.
Has(q, i, D) == \E n \in 1..Len(q) : i \in q[n].items /\ q[n].do \in D

\* One plan after another is a plan, and does what either does.
LEMMA ConcatFits ==
  ASSUME NEW u, NEW p, NEW q, Whole(u, p), Whole(u, q)
  PROVE  /\ Whole(u, p \o q)
         /\ \A i, D : Has(p, i, D) \/ Has(q, i, D) => Has(p \o q, i, D)
<1>1. /\ p \in Seq(Calls) /\ q \in Seq(Calls) /\ p \o q \in Seq(Calls) /\ Len(p \o q) = Len(p) + Len(q)
      /\ Len(p) \in Nat /\ Len(q) \in Nat
      /\ \A n \in 1..Len(p \o q) : (p \o q)[n] = IF n <= Len(p) THEN p[n] ELSE q[n - Len(p)]
  BY ConcatProperties, LenProperties DEF Whole, Rest
<1>2. \A n \in 1..Len(p \o q) : Belongs(u, (p \o q)[n])
  BY <1>1 DEF Whole, Rest
<1>3. Paired(p \o q)
  <2> SUFFICES ASSUME NEW n \in 1..Len(p \o q)
               PROVE  /\ (p \o q)[n].do = "disable" /\ (p \o q)[n].items \intersect Apart # {}
                           => /\ n < Len(p \o q) /\ (p \o q)[n + 1].do = "cancel"
                              /\ (p \o q)[n + 1].items = (p \o q)[n].items
                      /\ (p \o q)[n].do = "cancel" /\ n # 1
                           => (p \o q)[n - 1].do = "disable" /\ (p \o q)[n - 1].items = (p \o q)[n].items
    BY DEF Paired
  <2> DEFINE r == p \o q
  <2>1. CASE n <= Len(p)
    <3>1. n \in 1..Len(p) /\ r[n] = p[n] /\ (n < Len(p) => r[n + 1] = p[n + 1]) /\ (n # 1 => r[n - 1] = p[n - 1])
      BY <1>1, <2>1
    <3> HIDE DEF r
    <3>2. /\ p[n].do = "disable" /\ p[n].items \intersect Apart # {}
               => n < Len(p) /\ p[n + 1].do = "cancel" /\ p[n + 1].items = p[n].items
          /\ p[n].do = "cancel" /\ n # 1 => p[n - 1].do = "disable" /\ p[n - 1].items = p[n].items
      BY <3>1 DEF Whole, Rest, Paired
    <3>3. n < Len(p) => n < Len(r)
      BY <1>1 DEF r
    <3> QED
      BY <3>1, <3>2, <3>3 DEF r
  <2>2. CASE n > Len(p)
    <3> DEFINE m == n - Len(p)
    <3>1. /\ m \in 1..Len(q) /\ r[n] = q[m] /\ (m # 1 => r[n - 1] = q[m - 1])
          /\ m < Len(q) => n < Len(r) /\ r[n + 1] = q[m + 1]
      BY <1>1, <2>2
    <3> HIDE DEF r, m
    <3>2. /\ q[m].do = "disable" /\ q[m].items \intersect Apart # {}
               => m < Len(q) /\ q[m + 1].do = "cancel" /\ q[m + 1].items = q[m].items
          /\ q[m].do = "cancel" /\ m # 1 => q[m - 1].do = "disable" /\ q[m - 1].items = q[m].items
      BY <3>1 DEF Whole, Rest, Paired
    <3>3. m = 1 => q[m].do # "cancel"
      BY <3>1, <1>1 DEF Whole
    <3> QED
      BY <3>1, <3>2, <3>3 DEF r
  <2> QED BY <1>1, <2>1, <2>2
<1>4. p \o q # <<>> => (p \o q)[1].do # "cancel"
  <2>1. CASE p = <<>>
    BY <1>1, <2>1, ConcatEmptySeq DEF Whole
  <2>2. CASE p # <<>>
    <3>1. Len(p) > 0
      BY <1>1, <2>2, EmptySeq
    <3> QED BY <1>1, <2>2, <3>1 DEF Whole
  <2> QED BY <2>1, <2>2
<1>5. ASSUME NEW i, NEW D, NEW n \in 1..Len(p), i \in p[n].items /\ p[n].do \in D
      PROVE  Has(p \o q, i, D)
  <2>1. n \in 1..Len(p \o q) /\ (p \o q)[n] = p[n]
    BY <1>1
  <2> QED BY <2>1, <1>5 DEF Has
<1>6. ASSUME NEW i, NEW D, NEW n \in 1..Len(q), i \in q[n].items /\ q[n].do \in D
      PROVE  Has(p \o q, i, D)
  <2>1. n + Len(p) \in 1..Len(p \o q) /\ (p \o q)[n + Len(p)] = q[n]
    BY <1>1
  <2> QED BY <2>1, <1>6 DEF Has
<1> QED
  BY <1>1, <1>2, <1>3, <1>4, <1>5, <1>6 DEF Whole, Rest, Has

\* So is a sequence of plans: the least prefix that were none does not exist.
LEMMA FlattenFits ==
  ASSUME NEW u, NEW ss, Len(ss) \in Nat, Len(ss) = 0 => ss = <<>>,
         \A k \in 1..Len(ss) : Whole(u, ss[k])
  PROVE  /\ Whole(u, Cmd!FlattenSeq(ss))
         /\ \A k \in 1..Len(ss) : \A i, D : Has(ss[k], i, D) => Has(Cmd!FlattenSeq(ss), i, D)
<1>1. CASE Len(ss) = 0
  <2>1. Cmd!FlattenSeq(ss) = <<>>
    BY <1>1 DEF Cmd!FlattenSeq
  <2> QED
    BY <1>1, <2>1 DEF Whole, Rest, Paired
<1>2. CASE Len(ss) # 0
  <2>1. PICK f : Built(ss, f, Len(ss)) /\ Cmd!FlattenSeq(ss) = f[Len(ss)]
    BY <1>2, FlattenIs
  <2> DEFINE Fine(n) == Whole(u, f[n]) /\ \A k \in 1..n : \A i, D : Has(ss[k], i, D) => Has(f[n], i, D)
             Bad == {n \in 1..Len(ss) : ~Fine(n)}
  <2>2. ASSUME Bad # {} PROVE FALSE
    <3>1. Bad \in SUBSET Nat
      OBVIOUS
    <3>2. PICK n \in Bad : \A m \in Bad : n <= m
      <4> HIDE DEF Bad
      <4> QED BY <2>2, <3>1, Least
    <3>3. n \in 1..Len(ss) /\ ~Fine(n) /\ Whole(u, ss[n])
          /\ f[n] = IF n = 1 THEN ss[n] ELSE f[n - 1] \o ss[n]
      BY <2>1 DEF Built
    <3>4. CASE n = 1
      <4>1. Fine(1)
        BY <3>3, <3>4
      <4> QED BY <3>3, <3>4, <4>1
    <3>5. CASE n # 1
      <4>1. n - 1 \in 1..Len(ss) /\ ~(n <= n - 1)
        BY <3>3, <3>5
      <4>2. Fine(n - 1)
        BY <3>2, <4>1
      <4>3. f[n] = f[n - 1] \o ss[n]
        BY <3>3, <3>5
      <4>4. Whole(u, f[n]) /\ \A i, D : Has(f[n - 1], i, D) \/ Has(ss[n], i, D) => Has(f[n], i, D)
        <5>1. Whole(u, f[n - 1])
          BY <4>2
        <5> HIDE DEF Fine
        <5> QED BY <3>3, <4>3, <5>1, ConcatFits
      <4>5. \A k \in 1..n : k = n \/ k \in 1..(n - 1)
        BY <3>3
      <4>6. Fine(n)
        BY <4>2, <4>4, <4>5
      <4> QED BY <3>3, <4>6
    <3> QED BY <3>4, <3>5
  <2>3. Fine(Len(ss))
    BY <1>2, <2>2
  <2> QED BY <2>1, <2>3
<1> QED BY <1>1, <1>2

\* SetToSeq lists the elements of a finite set.
LEMMA ListsAll ==
  ASSUME NEW S, IsFiniteSet(S)
  PROVE  /\ Cardinality(S) \in Nat
         /\ Cmd!SetToSeq(S) \in [1..Cardinality(S) -> S]
         /\ \A i \in S : \E n \in 1..Cardinality(S) : Cmd!SetToSeq(S)[n] = i
<1>1. Cardinality(S) \in Nat /\ ExistsBijection(1..Cardinality(S), S)
  BY FS_CardinalityType
<1>2. \E f \in [1..Cardinality(S) -> S] : Cmd!IsInjective(f)
  BY <1>1 DEF ExistsBijection, Bijection, Injection, IsInjective, Cmd!IsInjective
<1>3. Cmd!SetToSeq(S) \in [1..Cardinality(S) -> S] /\ Cmd!IsInjective(Cmd!SetToSeq(S))
  <2>1. Cmd!SetToSeq(S) = CHOOSE f \in [1..Cardinality(S) -> S] : Cmd!IsInjective(f)
    BY SameCount DEF Cmd!SetToSeq
  <2> QED BY <1>2, <2>1
<1>4. Cmd!SetToSeq(S) \in Injection(1..Cardinality(S), S)
  BY <1>3 DEF Injection, IsInjective, Cmd!IsInjective
<1>5. Cmd!SetToSeq(S) \in Surjection(1..Cardinality(S), S)
  <2>1. IsFiniteSet(1..Cardinality(S)) /\ Cardinality(1..Cardinality(S)) = Cardinality(S)
    BY <1>1, FS_Interval
  <2> QED BY <1>4, <2>1, FS_Injection
<1> QED
  BY <1>1, <1>3, <1>5 DEF Surjection

\* Some calls for each of a set of items.
LEMMA EachFits ==
  ASSUME NEW u, NEW S, IsFiniteSet(S), NEW D, NEW f, \A i \in S : Whole(u, f[i]) /\ Has(f[i], i, D),
         NEW q, q = Cmd!FlattenSeq([n \in 1..Cardinality(S) |-> f[Cmd!SetToSeq(S)[n]]])
  PROVE  Whole(u, q) /\ \A i \in S : Has(q, i, D)
<1> DEFINE ss == [n \in 1..Cardinality(S) |-> f[Cmd!SetToSeq(S)[n]]]
<1>1. Cardinality(S) \in Nat /\ Len(ss) = Cardinality(S)
  BY ListsAll
<1>2. \A k \in 1..Len(ss) : Whole(u, ss[k])
  BY <1>1, ListsAll
<1>3. Len(ss) = 0 => ss = <<>>
  BY <1>1
<1>4. \A i \in S : \E k \in 1..Len(ss) : ss[k] = f[i]
  BY <1>1, ListsAll
<1>5. q = Cmd!FlattenSeq(ss)
  OBVIOUS
<1> HIDE DEF ss
<1>6. /\ Whole(u, Cmd!FlattenSeq(ss))
      /\ \A k \in 1..Len(ss) : \A i : Has(ss[k], i, D) => Has(Cmd!FlattenSeq(ss), i, D)
  BY <1>1, <1>2, <1>3, FlattenFits
<1> QED
  BY <1>4, <1>5, <1>6

-----------------------------------------------------------------------------
(* Every plan is whole and leaves none of its items out. *)

\* What the model assumes of its constants.
CommandsSound == Cmd!CommandsAssumption

\* What may be pressed addresses items that exist.
LEMMA Addressed ==
  ASSUME NEW u \in Cmd!Pressable
  PROVE  /\ u.items \subseteq Items /\ u.items # {}
         /\ u.verb \in Starting \union Stops \union {"/stop"}
         /\ u.verb \in {"start", "stop"} => \E i \in Items : u.items = {i}
         /\ u.verb \in {"/start", "/stop"} => \E s \in {"DCA", "GRID", "MM"} : u.items = Cmd!Of(s)
         /\ u.verb = "stopall" => \E s \in {"GRID", "MM", "DEVMM"} : u.items = Cmd!Of(s)
         /\ u.verb = "startall" => u.items = Cmd!Of("DEVMM")
  BY DEF Cmd!Pressable, Cmd!Buttons, Cmd!Of, Cmd!At, Starting, Stops

\* A plan of one call.
LEMMA Single ==
  ASSUME NEW u, NEW c, Belongs(u, c), c.do # "cancel",
         c.do = "disable" => c.items \intersect Apart = {}
  PROVE  Whole(u, <<c>>) /\ \A i \in c.items : \A D : c.do \in D => Has(<<c>>, i, D)
<1>1. c \in Calls
  BY DEF Belongs
<1>2. <<c>> \in Seq(Calls) /\ Len(<<c>>) = 1 /\ <<c>>[1] = c
  BY <1>1
<1>3. Paired(<<c>>)
  BY <1>2 DEF Paired
<1> QED
  BY <1>2, <1>3 DEF Whole, Rest, Has

\* A plan of two, the second of which cancels.
LEMMA Double ==
  ASSUME NEW u, NEW c, NEW d, Belongs(u, c), Belongs(u, d), c.do = "disable", d.do = "cancel",
         c.items = d.items
  PROVE  Whole(u, <<c, d>>) /\ \A i \in c.items : Has(<<c, d>>, i, {"disable"})
<1>1. <<c, d>> \in Seq(Calls) /\ Len(<<c, d>>) = 2 /\ <<c, d>>[1] = c /\ <<c, d>>[2] = d
  BY DEF Belongs
<1>2. \A n \in 1..2 : n = 1 \/ n = 2
  OBVIOUS
<1>3. Paired(<<c, d>>)
  BY <1>1, <1>2 DEF Paired
<1> QED
  BY <1>1, <1>2, <1>3 DEF Whole, Rest, Has

\* To start an item, or to stop one whose route cancels.
LEMMA OneFits ==
  ASSUME NEW u, NEW i \in Items, i \in u.items, NEW d \in {"enable", "disable"},
         d = "enable" <=> u.verb \in Starting, d = "disable" => i \notin Apart
  PROVE  Whole(u, Cmd!One(d, i)) /\ Has(Cmd!One(d, i), i, {d})
<1> DEFINE c == Cmd!Call(d, ExchangeOf[i], {i}, FALSE)
<1>1. c \in Calls /\ c.do = d /\ c.items = {i} /\ c.items \subseteq Cmd!At(c.at)
  BY DEF Cmd!Call, Calls, Doing, Places, Cmd!At
<1> HIDE DEF c
<1>2. Belongs(u, c)
  BY <1>1 DEF Belongs, Doing
<1>3. Whole(u, <<c>>) /\ Has(<<c>>, i, {d})
  BY <1>1, <1>2, Single
<1> QED
  BY <1>3 DEF Cmd!One, c

\* To stop an item and to cancel its orders.
LEMMA TwoFit ==
  ASSUME NEW u, NEW i \in Items, i \in u.items, u.verb \notin Starting, NEW a \in BOOLEAN
  PROVE  LET q == <<Cmd!Call("disable", ExchangeOf[i], {i}, FALSE), Cmd!Call("cancel", ExchangeOf[i], {i}, a)>>
         IN  Whole(u, q) /\ Has(q, i, {"disable"})
<1> DEFINE c == Cmd!Call("disable", ExchangeOf[i], {i}, FALSE)
           d == Cmd!Call("cancel", ExchangeOf[i], {i}, a)
<1>1. /\ c \in Calls /\ c.do = "disable" /\ c.items = {i} /\ c.items \subseteq Cmd!At(c.at)
      /\ d \in Calls /\ d.do = "cancel" /\ d.items = {i} /\ d.items \subseteq Cmd!At(d.at)
  BY DEF Cmd!Call, Calls, Doing, Places, Cmd!At
<1> HIDE DEF c, d
<1>2. Belongs(u, c) /\ Belongs(u, d)
  BY <1>1 DEF Belongs, Doing
<1>3. Whole(u, <<c, d>>) /\ Has(<<c, d>>, i, {"disable"})
  BY <1>1, <1>2, Double
<1> QED
  BY <1>3 DEF c, d

\* Each way to stop an item is a plan, and disables it.
LEMMA StopsFit ==
  ASSUME NEW u, NEW i \in Items, i \in u.items, u.verb \notin Starting
  PROVE  /\ Whole(u, Cmd!StopConfig(i)) /\ Has(Cmd!StopConfig(i), i, {"disable"})
         /\ Whole(u, Cmd!StopDca(i)) /\ Has(Cmd!StopDca(i), i, {"disable"})
         /\ i \notin Apart => Whole(u, Cmd!StopDevmm(i)) /\ Has(Cmd!StopDevmm(i), i, {"disable"})
         /\ Strategy[i] # "DEVMM" => Whole(u, Cmd!StopFirmly(i)) /\ Has(Cmd!StopFirmly(i), i, {"disable"})
<1>1. \A a : Cmd!One("disable", i) \o <<Cmd!Call("cancel", ExchangeOf[i], {i}, a)>>
               = <<Cmd!Call("disable", ExchangeOf[i], {i}, FALSE), Cmd!Call("cancel", ExchangeOf[i], {i}, a)>>
  <2>1. ASSUME NEW x, NEW y PROVE <<x>> \o <<y>> = <<x, y>>
    <3>1. <<x>> \in Seq({x, y}) /\ <<y>> \in Seq({x, y}) /\ <<x, y>> \in Seq({x, y})
      OBVIOUS
    <3>2. /\ <<x>> \o <<y>> \in Seq({x, y}) /\ Len(<<x>> \o <<y>>) = 2
          /\ \A n \in 1..2 : (<<x>> \o <<y>>)[n] = <<x, y>>[n]
      BY <3>1, ConcatProperties
    <3> QED BY <3>1, <3>2, SeqEqual
  <2> QED BY <2>1 DEF Cmd!One
<1>2. Cmd!StopConfig(i) = Cmd!One("disable", i) \o <<Cmd!Call("cancel", ExchangeOf[i], {i}, FALSE)>>
      /\ Cmd!StopDca(i) = Cmd!One("disable", i) \o <<Cmd!Call("cancel", ExchangeOf[i], {i}, FALSE)>>
  BY DEF Cmd!StopConfig, Cmd!StopDca, Cmd!One
<1>3. Cmd!StopDevmm(i) = Cmd!One("disable", i)
  BY DEF Cmd!StopDevmm
<1>4. CASE Strategy[i] = "DCA"
  <2>1. Cmd!StopFirmly(i) = Cmd!One("disable", i) /\ i \notin Apart
    BY <1>4 DEF Cmd!StopFirmly, Apart, Cmd!Of
  <2> QED BY <1>1, <1>2, <1>3, <2>1, OneFits, TwoFit
<1>5. CASE Strategy[i] # "DCA"
  <2>1. Cmd!StopFirmly(i) = Cmd!One("disable", i) \o <<Cmd!Call("cancel", ExchangeOf[i], {i}, TRUE)>>
    BY <1>5 DEF Cmd!StopFirmly
  <2> QED BY <1>1, <1>2, <1>3, <2>1, OneFits, TwoFit
<1> QED BY <1>4, <1>5

\* The items are finitely many, and counted alike.
LEMMA Finite ==
  ASSUME CommandsSound, NEW S \in SUBSET Items
  PROVE  IsFiniteSet(S) /\ Cmd!Cardinality(S) = Cardinality(S)
<1>1. IsFiniteSet(Items)
  <2>1. Cmd!IsFiniteSet(Items)
    BY DEF CommandsSound, Cmd!CommandsAssumption
  <2> QED BY <2>1 DEF IsFiniteSet, Cmd!IsFiniteSet
<1> QED BY <1>1, FS_Subset, SameCount

\* Stop All of a strategy stops each of its items.
LEMMA StopConfigs ==
  ASSUME CommandsSound, NEW u, NEW S \in SUBSET Items, S \subseteq u.items, u.verb \notin Starting
  PROVE  /\ Whole(u, Cmd!ForEach(S, Cmd!StopConfig))
         /\ \A i \in S : Has(Cmd!ForEach(S, Cmd!StopConfig), i, {"disable"})
<1> DEFINE f == [i \in S |-> Cmd!StopConfig(i)]
<1>1. \A i \in S : f[i] = Cmd!StopConfig(i) /\ Whole(u, f[i]) /\ Has(f[i], i, {"disable"})
  BY StopsFit
<1>2. Cmd!ForEach(S, Cmd!StopConfig)
        = Cmd!FlattenSeq([n \in 1..Cardinality(S) |-> f[Cmd!SetToSeq(S)[n]]])
  <2>1. Cmd!ForEach(S, Cmd!StopConfig)
          = Cmd!FlattenSeq([n \in 1..Cardinality(S) |-> Cmd!StopConfig(Cmd!SetToSeq(S)[n])])
    BY Finite DEF Cmd!ForEach
  <2>2. \A n \in 1..Cardinality(S) : Cmd!StopConfig(Cmd!SetToSeq(S)[n]) = f[Cmd!SetToSeq(S)[n]]
    BY Finite, ListsAll
  <2>3. [n \in 1..Cardinality(S) |-> Cmd!StopConfig(Cmd!SetToSeq(S)[n])]
          = [n \in 1..Cardinality(S) |-> f[Cmd!SetToSeq(S)[n]]]
    BY <2>2
  <2> QED BY <2>1, <2>3
<1>3. IsFiniteSet(S)
  BY Finite
<1> HIDE DEF f
<1> QED BY <1>1, <1>2, <1>3, EachFits

\* The stop menu stops each item of an exchange that ran.
LEMMA StopsFirmly ==
  ASSUME CommandsSound, NEW u, NEW S \in SUBSET Items, S \subseteq u.items, u.verb \notin Starting,
         \A i \in S : Strategy[i] # "DEVMM"
  PROVE  /\ Whole(u, Cmd!ForEach(S, Cmd!StopFirmly))
         /\ \A i \in S : Has(Cmd!ForEach(S, Cmd!StopFirmly), i, {"disable"})
<1> DEFINE f == [i \in S |-> Cmd!StopFirmly(i)]
<1>1. \A i \in S : f[i] = Cmd!StopFirmly(i) /\ Whole(u, f[i]) /\ Has(f[i], i, {"disable"})
  BY StopsFit
<1>2. Cmd!ForEach(S, Cmd!StopFirmly)
        = Cmd!FlattenSeq([n \in 1..Cardinality(S) |-> f[Cmd!SetToSeq(S)[n]]])
  <2>1. Cmd!ForEach(S, Cmd!StopFirmly)
          = Cmd!FlattenSeq([n \in 1..Cardinality(S) |-> Cmd!StopFirmly(Cmd!SetToSeq(S)[n])])
    BY Finite DEF Cmd!ForEach
  <2>2. \A n \in 1..Cardinality(S) : Cmd!StopFirmly(Cmd!SetToSeq(S)[n]) = f[Cmd!SetToSeq(S)[n]]
    BY Finite, ListsAll
  <2>3. [n \in 1..Cardinality(S) |-> Cmd!StopFirmly(Cmd!SetToSeq(S)[n])]
          = [n \in 1..Cardinality(S) |-> f[Cmd!SetToSeq(S)[n]]]
    BY <2>2
  <2> QED BY <2>1, <2>3
<1>3. IsFiniteSet(S)
  BY Finite
<1> HIDE DEF f
<1> QED BY <1>1, <1>2, <1>3, EachFits

\* Every DEVMM asked for is stopped.
LEMMA StopDevmms ==
  ASSUME CommandsSound, NEW u, NEW S \in SUBSET Items, S \subseteq u.items, u.verb \notin Starting,
         S \intersect Apart = {}
  PROVE  /\ Whole(u, Cmd!ForEach(S, Cmd!StopDevmm))
         /\ \A i \in S : Has(Cmd!ForEach(S, Cmd!StopDevmm), i, {"disable"})
<1> DEFINE f == [i \in S |-> Cmd!StopDevmm(i)]
<1>1. \A i \in S : f[i] = Cmd!StopDevmm(i) /\ Whole(u, f[i]) /\ Has(f[i], i, {"disable"})
  BY StopsFit
<1>2. Cmd!ForEach(S, Cmd!StopDevmm)
        = Cmd!FlattenSeq([n \in 1..Cardinality(S) |-> f[Cmd!SetToSeq(S)[n]]])
  <2>1. Cmd!ForEach(S, Cmd!StopDevmm)
          = Cmd!FlattenSeq([n \in 1..Cardinality(S) |-> Cmd!StopDevmm(Cmd!SetToSeq(S)[n])])
    BY Finite DEF Cmd!ForEach
  <2>2. \A n \in 1..Cardinality(S) : Cmd!StopDevmm(Cmd!SetToSeq(S)[n]) = f[Cmd!SetToSeq(S)[n]]
    BY Finite, ListsAll
  <2>3. [n \in 1..Cardinality(S) |-> Cmd!StopDevmm(Cmd!SetToSeq(S)[n])]
          = [n \in 1..Cardinality(S) |-> f[Cmd!SetToSeq(S)[n]]]
    BY <2>2
  <2> QED BY <2>1, <2>3
<1>3. IsFiniteSet(S)
  BY Finite
<1> HIDE DEF f
<1> QED BY <1>1, <1>2, <1>3, EachFits

\* Every DEVMM asked for is started.
LEMMA StartDevmms ==
  ASSUME CommandsSound, NEW u, NEW S \in SUBSET Items, S \subseteq u.items, u.verb \in Starting
  PROVE  /\ Whole(u, Cmd!ForEach(S, Cmd!StartDevmm))
         /\ \A i \in S : Has(Cmd!ForEach(S, Cmd!StartDevmm), i, {"enable"})
<1> DEFINE f == [i \in S |-> Cmd!StartDevmm(i)]
<1>1. \A i \in S : f[i] = Cmd!StartDevmm(i) /\ Whole(u, f[i]) /\ Has(f[i], i, {"enable"})
  BY OneFits DEF Cmd!StartDevmm
<1>2. Cmd!ForEach(S, Cmd!StartDevmm)
        = Cmd!FlattenSeq([n \in 1..Cardinality(S) |-> f[Cmd!SetToSeq(S)[n]]])
  <2>1. Cmd!ForEach(S, Cmd!StartDevmm)
          = Cmd!FlattenSeq([n \in 1..Cardinality(S) |-> Cmd!StartDevmm(Cmd!SetToSeq(S)[n])])
    BY Finite DEF Cmd!ForEach
  <2>2. \A n \in 1..Cardinality(S) : Cmd!StartDevmm(Cmd!SetToSeq(S)[n]) = f[Cmd!SetToSeq(S)[n]]
    BY Finite, ListsAll
  <2>3. [n \in 1..Cardinality(S) |-> Cmd!StartDevmm(Cmd!SetToSeq(S)[n])]
          = [n \in 1..Cardinality(S) |-> f[Cmd!SetToSeq(S)[n]]]
    BY <2>2
  <2> QED BY <2>1, <2>3
<1>3. IsFiniteSet(S)
  BY Finite
<1> HIDE DEF f
<1> QED BY <1>1, <1>2, <1>3, EachFits

\* Two listings.
LEMMA Listings ==
  ASSUME NEW u, NEW c, NEW d, Belongs(u, c), Belongs(u, d),
         {c.do, d.do} \intersect {"disable", "cancel"} = {},
         NEW D, c.do \in D, d.do \in D
  PROVE  Whole(u, <<c, d>>) /\ \A i \in c.items \union d.items : Has(<<c, d>>, i, D)
<1>1. c \in Calls /\ d \in Calls
  BY DEF Belongs
<1>2. <<c, d>> \in Seq(Calls) /\ Len(<<c, d>>) = 2 /\ <<c, d>>[1] = c /\ <<c, d>>[2] = d
  BY <1>1
<1>3. \A n \in 1..2 : n = 1 \/ n = 2
  OBVIOUS
<1>4. Paired(<<c, d>>)
  BY <1>2, <1>3 DEF Paired
<1>5. Whole(u, <<c, d>>)
  BY <1>2, <1>3, <1>4 DEF Whole, Rest
<1>6. \A i \in c.items : Has(<<c, d>>, i, D)
  BY <1>2 DEF Has
<1>7. \A i \in d.items : Has(<<c, d>>, i, D)
  BY <1>2 DEF Has
<1> QED BY <1>5, <1>6, <1>7

\* The stop menu at one exchange reaches each item of the exchange.
LEMMA StopAtFits ==
  ASSUME CommandsSound, NEW u \in Cmd!Pressable, u.verb = "exchange", NEW x \in Places
  PROVE  /\ Whole(u, Cmd!StopAt(x, u.items))
         /\ \A i \in u.items \intersect Cmd!At(x) : Has(Cmd!StopAt(x, u.items), i, Stopping)
<1> DEFINE here == u.items \intersect Cmd!At(x)
           c == Cmd!Call("list DCA", x, here \intersect Cmd!Of("DCA"), FALSE)
           d == Cmd!Call("list rest", x, here \intersect (Cmd!Of("GRID") \union Cmd!Of("MM")), FALSE)
           q == Cmd!ForEach(here \intersect Cmd!Of("DEVMM"), Cmd!StopDevmm)
<1>1. u.items \subseteq Items /\ u.verb \notin Starting
  BY Addressed DEF Starting
<1>2. /\ c \in Calls /\ c.do = "list DCA" /\ c.items = here \intersect Cmd!Of("DCA")
      /\ d \in Calls /\ d.do = "list rest" /\ d.items = here \intersect Apart
      /\ c.at = x /\ d.at = x
  BY <1>1 DEF Cmd!Call, Calls, Doing, Apart
<1>3. Belongs(u, c) /\ Belongs(u, d)
  BY <1>1, <1>2 DEF Belongs, Doing
<1>4. Cmd!StopAt(x, u.items) = <<c, d>> \o q
  BY DEF Cmd!StopAt
<1>5. Whole(u, q) /\ \A i \in here \intersect Cmd!Of("DEVMM") : Has(q, i, {"disable"})
  <2>1. (here \intersect Cmd!Of("DEVMM")) \intersect Apart = {}
    BY DEF Apart, Cmd!Of
  <2>2. here \intersect Cmd!Of("DEVMM") \in SUBSET Items /\ here \intersect Cmd!Of("DEVMM") \subseteq u.items
    BY <1>1
  <2> QED BY <1>1, <2>1, <2>2, StopDevmms
<1> HIDE DEF c, d, q
<1>6. Whole(u, <<c, d>>) /\ \A i \in c.items \union d.items : Has(<<c, d>>, i, Stopping)
  BY <1>2, <1>3, Listings DEF Stopping
<1>7. \A i \in here : i \in c.items \union d.items \/ i \in here \intersect Cmd!Of("DEVMM")
  BY <1>1, <1>2 DEF CommandsSound, Cmd!CommandsAssumption, Apart, Cmd!Of
<1>8. \A i : Has(q, i, {"disable"}) => Has(q, i, Stopping)
  BY DEF Has, Stopping
<1> QED BY <1>4, <1>5, <1>6, <1>7, <1>8, ConcatFits

\* The stop menu at all exchanges reaches every item.
LEMMA StopMenuFits ==
  ASSUME CommandsSound, NEW u \in Cmd!Pressable, u.verb = "exchange"
  PROVE  Whole(u, Cmd!StopMenu(u)) /\ \A i \in u.items : Has(Cmd!StopMenu(u), i, Stopping)
<1> DEFINE ss == [n \in 1..Len(Menu) |-> Cmd!StopAt(Menu[n], u.items)]
<1>1. Len(Menu) \in Nat /\ DOMAIN Menu = 1..Len(Menu)
  BY DEF CommandsSound, Cmd!CommandsAssumption
<1>2. Len(ss) = Len(Menu) /\ (Len(ss) = 0 => ss = <<>>)
      /\ \A n \in 1..Len(ss) : ss[n] = Cmd!StopAt(Menu[n], u.items)
  BY <1>1
<1>3. Cmd!StopMenu(u) = Cmd!FlattenSeq(ss)
  BY DEF Cmd!StopMenu
<1> HIDE DEF ss
<1>7. \A n \in 1..Len(ss) : Menu[n] \in Places
  BY <1>1, <1>2 DEF Places, Cmd!Range
<1>4. \A n \in 1..Len(ss) : Whole(u, ss[n])
  BY <1>2, <1>7, StopAtFits
<1>5. /\ Whole(u, Cmd!FlattenSeq(ss))
      /\ \A n \in 1..Len(ss) : \A i, D : Has(ss[n], i, D) => Has(Cmd!FlattenSeq(ss), i, D)
  BY <1>1, <1>2, <1>4, FlattenFits
<1>6. ASSUME NEW i \in u.items PROVE Has(Cmd!FlattenSeq(ss), i, Stopping)
  <2>1. i \in Items
    BY Addressed
  <2>2. PICK n \in 1..Len(Menu) : Menu[n] = ExchangeOf[i]
    BY <1>1, <2>1 DEF CommandsSound, Cmd!CommandsAssumption, Cmd!Range
  <2>3. i \in u.items \intersect Cmd!At(Menu[n])
    BY <2>1, <2>2 DEF Cmd!At
  <2>4. Has(ss[n], i, Stopping)
    BY <1>2, <1>7, <2>2, <2>3, StopAtFits
  <2> QED BY <1>2, <1>5, <2>4
<1> QED BY <1>3, <1>5, <1>6

\* A listing that a plan begins with.
LEMMA ListingFits ==
  ASSUME NEW u \in Cmd!Pressable, u.verb \in {"/start", "/stop", "stop", "stopall"}
  PROVE  /\ Whole(u, <<Cmd!Call(u.verb, "any", u.items, FALSE)>>)
         /\ \A i \in u.items : \A D : u.verb \in D => Has(<<Cmd!Call(u.verb, "any", u.items, FALSE)>>, i, D)
<1> DEFINE c == Cmd!Call(u.verb, "any", u.items, FALSE)
<1>1. c \in Calls /\ c.do = u.verb /\ c.items = u.items
  BY Addressed DEF Cmd!Call, Calls, Places
<1>2. Belongs(u, c)
  BY <1>1, Addressed DEF Belongs, Doing, Starting
<1> HIDE DEF c
<1>3. Whole(u, <<c>>) /\ \A i \in c.items : \A D : c.do \in D => Has(<<c>>, i, D)
  BY <1>1, <1>2, Single
<1> QED BY <1>1, <1>3 DEF c

\* What an update begins with is a plan; a start leads to each of its items, a stop too.
LEMMA PlanFits ==
  ASSUME CommandsSound, NEW u \in Cmd!Pressable
  PROVE  /\ Whole(u, Cmd!Plan(u))
         /\ u.verb \in {"start", "startall"} => \A i \in u.items : Has(Cmd!Plan(u), i, {"enable"})
         /\ u.verb \in Stops => \A i \in u.items : Has(Cmd!Plan(u), i, Stopping)
<1>1. \A q, i : Has(q, i, {"disable"}) => Has(q, i, Stopping)
  BY DEF Has, Stopping
<1>2. CASE u.verb = "exchange"
  <2>1. Cmd!Plan(u) = Cmd!StopMenu(u)
    BY <1>2 DEF Cmd!Plan
  <2> QED BY <1>2, <2>1, StopMenuFits
<1>3. CASE u.verb \in {"/start", "/stop"}
  <2>1. Cmd!Plan(u) = <<Cmd!Call(u.verb, "any", u.items, FALSE)>>
    BY <1>3 DEF Cmd!Plan
  <2> QED BY <1>3, <2>1, ListingFits DEF Stops
<1>4. CASE u.verb \in {"start", "stop", "startall", "stopall"}
  <2>1. Cmd!Plan(u) = CASE u.items \subseteq Cmd!Of("DCA") -> Cmd!DcaButton(u)
                        [] u.items \subseteq Cmd!Of("DEVMM") -> Cmd!DevmmButton(u)
                        [] OTHER -> Cmd!ConfigButton(u)
    BY <1>4 DEF Cmd!Plan
  <2>2. \A r, s \in {"DCA", "GRID", "MM", "DEVMM"} : r # s => Cmd!Of(r) \intersect Cmd!Of(s) = {}
    BY DEF Cmd!Of
  <2>3. CASE u.items \subseteq Cmd!Of("DCA")
    <3>1. Cmd!Plan(u) = Cmd!DcaButton(u)
      <4>1. ~(u.items \subseteq Cmd!Of("DEVMM"))
        BY <2>2, <2>3, Addressed
      <4> QED BY <2>1, <2>3, <4>1
    <3>2. PICK i \in Items : u.items = {i}
      BY <1>4, <2>2, <2>3, Addressed
    <3>3. Cmd!Only(u.items) = i
      BY <3>2 DEF Cmd!Only
    <3>4. u.verb \in {"start", "stop"}
      BY <1>4, <2>2, <2>3, Addressed
    <3>5. CASE u.verb = "start"
      BY <3>1, <3>2, <3>3, <3>5, OneFits DEF Cmd!DcaButton, Starting, Stops
    <3>6. CASE u.verb = "stop"
      BY <1>1, <3>1, <3>2, <3>3, <3>6, StopsFit DEF Cmd!DcaButton, Starting, Stops
    <3> QED BY <3>4, <3>5, <3>6
  <2>4. CASE ~(u.items \subseteq Cmd!Of("DCA")) /\ u.items \subseteq Cmd!Of("DEVMM")
    <3>1. Cmd!Plan(u) = Cmd!DevmmButton(u)
      BY <2>1, <2>4
    <3>2. u.items \intersect Apart = {} /\ u.items \in SUBSET Items
      BY <2>2, <2>4, Addressed DEF Apart
    <3>3. CASE u.verb \in {"start", "startall"}
      BY <3>1, <3>2, <3>3, StartDevmms DEF Cmd!DevmmButton, Starting, Stops
    <3>4. CASE u.verb \in {"stop", "stopall"}
      BY <1>1, <3>1, <3>2, <3>4, StopDevmms DEF Cmd!DevmmButton, Starting, Stops
    <3> QED BY <1>4, <3>3, <3>4
  <2>5. CASE ~(u.items \subseteq Cmd!Of("DCA")) /\ ~(u.items \subseteq Cmd!Of("DEVMM"))
    <3>1. Cmd!Plan(u) = Cmd!ConfigButton(u)
      BY <2>1, <2>5
    <3>2. CASE u.verb = "start"
      <4>1. PICK i \in Items : u.items = {i}
        BY <3>2, Addressed
      <4>2. Cmd!Only(u.items) = i
        BY <4>1 DEF Cmd!Only
      <4> QED
        BY <3>1, <3>2, <4>1, <4>2, OneFits DEF Cmd!ConfigButton, Starting, Stops
    <3>3. CASE u.verb \in {"stop", "stopall"}
      BY <3>1, <3>3, ListingFits DEF Cmd!ConfigButton, Starting, Stops, Stopping
    <3>4. u.verb # "startall"
      BY <2>5, Addressed
    <3> QED BY <1>4, <3>2, <3>3, <3>4
  <2> QED BY <2>3, <2>4, <2>5
<1> QED BY <1>2, <1>3, <1>4, Addressed DEF Starting, Stops

\* What follows from a listing.
LEMMA FollowFits ==
  ASSUME CommandsSound, NEW u \in Cmd!Pressable, NEW c, Belongs(u, c), Cmd!IsListing(c)
  PROVE  /\ Whole(u, Cmd!Follow(c))
         /\ c.do \in Stopping => \A i \in c.items : enabled[i] => Has(Cmd!Follow(c), i, {"disable"})
<1>1. /\ c.items \subseteq Items /\ c.items \subseteq u.items
      /\ c.do \in {"/start", "/stop", "stop", "stopall", "list DCA", "list rest"}
  BY DEF Belongs, Calls, Cmd!IsListing, Doing
<1>2. Whole(u, <<>>)
  BY DEF Whole, Rest, Paired
<1>3. \A S \in SUBSET Items : Cardinality(S) = 1 => Cmd!Only(S) \in S
  <2> SUFFICES ASSUME NEW S \in SUBSET Items, S = {}, Cardinality(S) = 1 PROVE FALSE
    BY DEF Cmd!Only
  <2> QED BY FS_EmptySet
<1>4. \A S \in SUBSET Items : Cmd!Running(S) \in SUBSET S /\ \A i \in S : enabled[i] => i \in Cmd!Running(S)
  BY DEF Cmd!Running
<1>5. CASE c.do = "/start"
  <2>1. u.verb \in Starting
    BY <1>5 DEF Belongs
  <2>2. Whole(u, Cmd!StartTheDca(c.items))
    BY <1>1, <1>2, <1>3, <2>1, Finite, OneFits DEF Cmd!StartTheDca
  <2>3. Whole(u, Cmd!StartTheIdle(c.items))
    BY <1>1, <1>2, <1>3, <2>1, Finite, OneFits DEF Cmd!StartTheIdle
  <2> QED BY <1>5, <2>2, <2>3 DEF Cmd!Follow, Stopping
<1>6. CASE c.do # "/start"
  <2>1. u.verb \notin Starting
    BY <1>1, <1>6 DEF Belongs
  <2>2. CASE c.do = "/stop"
    <3>1. Whole(u, Cmd!StopTheRunning(c.items))
      <4> DEFINE R == Cmd!Running(c.items)
      <4>1. R \in SUBSET Items /\ R \subseteq u.items /\ Cmd!Cardinality(R) = Cardinality(R)
        BY <1>1, <1>4, Finite
      <4>2. CASE Cardinality(R) # 1
        BY <1>2, <4>1, <4>2 DEF Cmd!StopTheRunning
      <4>3. CASE Cardinality(R) = 1
        <5>1. Cmd!Only(R) \in R
          BY <1>3, <4>1, <4>3
        <5>2. Whole(u, Cmd!StopDca(Cmd!Only(R))) /\ Whole(u, Cmd!StopConfig(Cmd!Only(R)))
          BY <2>1, <4>1, <5>1, StopsFit
        <5> QED BY <4>1, <4>3, <5>2 DEF Cmd!StopTheRunning
      <4> QED BY <4>2, <4>3
    <3> QED BY <2>2, <3>1 DEF Cmd!Follow, Stopping
  <2>3. CASE c.do = "stop"
    <3>1. PICK i \in Items : c.items = {i}
      BY <2>3 DEF Belongs
    <3>2. Cmd!Only(c.items) = i /\ i \in u.items
      BY <1>1, <3>1 DEF Cmd!Only
    <3> QED BY <2>1, <2>3, <3>1, <3>2, StopsFit DEF Cmd!Follow
  <2>4. CASE c.do = "stopall"
    <3>1. Cmd!Follow(c) = Cmd!ForEach(Cmd!Running(c.items), Cmd!StopConfig)
      BY <2>4 DEF Cmd!Follow, Cmd!StopAllOf
    <3>2. Cmd!Running(c.items) \in SUBSET Items /\ Cmd!Running(c.items) \subseteq u.items
      BY <1>1, <1>4
    <3>3. \A i \in c.items : enabled[i] => i \in Cmd!Running(c.items)
      BY <1>1, <1>4
    <3> QED BY <2>1, <3>1, <3>2, <3>3, StopConfigs
  <2>5. CASE c.do = "list DCA"
    <3>1. Cmd!Follow(c) = Cmd!ForEach(Cmd!Running(c.items), Cmd!StopFirmly)
      BY <2>5 DEF Cmd!Follow
    <3>2. Cmd!Running(c.items) \in SUBSET Items /\ Cmd!Running(c.items) \subseteq u.items
      BY <1>1, <1>4
    <3>3. \A i \in Cmd!Running(c.items) : Strategy[i] # "DEVMM"
      BY <1>1, <1>4, <2>5 DEF Belongs, Cmd!Of
    <3>4. \A i \in c.items : enabled[i] => i \in Cmd!Running(c.items)
      BY <1>1, <1>4
    <3> QED BY <2>1, <3>1, <3>2, <3>3, <3>4, StopsFirmly
  <2>6. CASE c.do = "list rest"
    <3> DEFINE R == Cmd!Running(c.items)
               p == Cmd!ForEach(R \intersect Cmd!Of("GRID"), Cmd!StopFirmly)
               q == Cmd!ForEach(R \intersect Cmd!Of("MM"), Cmd!StopFirmly)
    <3>1. Cmd!Follow(c) = p \o q
      BY <2>6 DEF Cmd!Follow
    <3>2. R \in SUBSET Items /\ R \subseteq u.items
      BY <1>1, <1>4
    <3>3. /\ \A i \in R \intersect Cmd!Of("GRID") : Strategy[i] # "DEVMM"
          /\ \A i \in R \intersect Cmd!Of("MM") : Strategy[i] # "DEVMM"
      BY DEF Cmd!Of
    <3>4. Whole(u, p) /\ \A i \in R \intersect Cmd!Of("GRID") : Has(p, i, {"disable"})
      <4> HIDE DEF R
      <4> QED BY <2>1, <3>2, <3>3, StopsFirmly
    <3>5. Whole(u, q) /\ \A i \in R \intersect Cmd!Of("MM") : Has(q, i, {"disable"})
      <4> HIDE DEF R
      <4> QED BY <2>1, <3>2, <3>3, StopsFirmly
    <3> HIDE DEF p, q
    <3>6. /\ Whole(u, p \o q)
          /\ \A i : Has(p, i, {"disable"}) \/ Has(q, i, {"disable"}) => Has(p \o q, i, {"disable"})
      BY <3>4, <3>5, ConcatFits
    <3>7. \A i \in c.items : enabled[i] => i \in R \intersect Cmd!Of("GRID") \/ i \in R \intersect Cmd!Of("MM")
      BY <1>1, <1>4, <2>6 DEF Belongs, Apart
    <3> QED BY <3>1, <3>4, <3>5, <3>6, <3>7
  <2> QED BY <1>1, <1>6, <2>2, <2>3, <2>4, <2>5, <2>6
<1> QED BY <1>5, <1>6

-----------------------------------------------------------------------------
(* The inductive invariant. *)

\* What the variables hold.
CmdTypes ==
    /\ enabled \in [Items -> BOOLEAN] /\ owes \subseteq Items
    /\ inbox \in Seq(Cmd!Pressable) /\ got \in 0..Len(inbox) /\ done \in 0..got
    /\ busy \in BOOLEAN
    /\ errors \subseteq Items /\ touched \subseteq Items /\ sought \subseteq Items
    /\ \A c \in stray : c \in Calls /\ c.do \in Doing /\ \E i \in Items : c.items = {i}
    /\ lines \in Seq([at : Places, items : SUBSET Items])

\* What is to do follows from the update that is being handled.
Working == IF busy THEN done < got /\ Rest(Cmd!Current, todo) ELSE todo = <<>>

\* What a stop still owes an item: to disable it, to cancel its orders, or nothing.
Met(i) ==
    \/ enabled[i] /\ Has(todo, i, Stopping)
    \/ ~enabled[i] /\ i \in Apart /\ Has(todo, i, {"cancel"})
    \/ ~enabled[i] /\ (i \in sought => i \notin owes)

\* Of a stop that is being handled each item is met, unless an error was reported of it or something
\* else has touched it.
Owed ==
    busy /\ Cmd!Current.verb \in Stops
      => \A i \in Cmd!Current.items \ (errors \union touched) : Met(i)

\* A failure of the current update is on its list, for the stop menu at the exchange of the item.
OnTheList(i) ==
    \E n \in 1..Len(lines) :
      i \in lines[n].items /\ (Cmd!Current.verb = "exchange" => lines[n].at = ExchangeOf[i])
Reported == busy => \A i \in errors \intersect Cmd!Current.items : OnTheList(i)

\* A start has enabled its items, or is about to.
Started ==
    busy /\ Cmd!Current.verb \in {"start", "startall"}
      => \A i \in Cmd!Current.items \ (errors \union touched) : enabled[i] \/ Has(todo, i, {"enable"})

\* Of what has been handled, the last word for an item that is not at work is obeyed.
Heeded(i, n) ==
    /\ inbox[n].verb \in {"start", "startall"} => enabled[i]
    /\ inbox[n].verb \in Stops => ~enabled[i]

\* Update n is the last of the first d for item i.
LastFor(i, n, d) == i \in inbox[n].items /\ \A m \in (n + 1)..d : i \notin inbox[m].items

\* What has been handled is obeyed, unless it is being handled again.
Obeyed ==
    \A i \in Items \ (errors \union touched) : \A n \in 1..done :
      LastFor(i, n, done) /\ ~(busy /\ i \in Cmd!Current.items) => Heeded(i, n)

\* The inductive invariant.
CmdInv == CmdTypes /\ Working /\ Cmd!CancelsOnlyStopped /\ Owed /\ Reported /\ Started /\ Obeyed

\* The first call, and those after it.
LEMMA TailFits ==
  ASSUME NEW u, NEW q, Rest(u, q), q # <<>>, NEW c, c = Head(q), NEW p, p = Tail(q)
  PROVE  /\ Belongs(u, c) /\ Rest(u, p)
         /\ c.do # "disable" => Whole(u, p)
         /\ p # <<>> /\ Head(p).do = "cancel" => c.do = "disable" /\ Head(p).items = c.items
         /\ c.do = "disable" /\ c.items \intersect Apart # {}
              => p # <<>> /\ Head(p).do = "cancel" /\ Head(p).items = c.items
         /\ \A i, D : Has(q, i, D) => (i \in c.items /\ c.do \in D) \/ Has(p, i, D)
<1>1. q \in Seq(Calls) /\ Len(q) \in Nat \ {0} /\ c = q[1]
  BY EmptySeq, LenProperties, HeadTailProperties DEF Rest
<1>2. p \in Seq(Calls) /\ Len(p) = Len(q) - 1 /\ \A n \in 1..Len(p) : p[n] = q[n + 1]
  BY <1>1, HeadTailProperties
<1>3. p # <<>> => 1 \in 1..Len(p) /\ Head(p) = p[1]
  BY <1>1, <1>2, EmptySeq, HeadTailProperties
<1>4. Len(p) # 0 => p # <<>>
  BY <1>2, EmptySeq
<1>5. Belongs(u, c) /\ \A n \in 1..Len(p) : Belongs(u, p[n])
  <2>1. 1 \in 1..Len(q) /\ \A n \in 1..Len(p) : n + 1 \in 1..Len(q)
    BY <1>1, <1>2
  <2> QED BY <1>1, <1>2, <2>1 DEF Rest
<1>6. ASSUME NEW n \in 1..Len(q)
      PROVE  /\ q[n].do = "disable" /\ q[n].items \intersect Apart # {}
                  => n < Len(q) /\ q[n + 1].do = "cancel" /\ q[n + 1].items = q[n].items
             /\ q[n].do = "cancel" /\ n # 1 => q[n - 1].do = "disable" /\ q[n - 1].items = q[n].items
  BY DEF Rest, Paired
<1>7. Paired(p)
  <2> SUFFICES ASSUME NEW n \in 1..Len(p)
               PROVE  /\ p[n].do = "disable" /\ p[n].items \intersect Apart # {}
                           => n < Len(p) /\ p[n + 1].do = "cancel" /\ p[n + 1].items = p[n].items
                      /\ p[n].do = "cancel" /\ n # 1 => p[n - 1].do = "disable" /\ p[n - 1].items = p[n].items
    BY DEF Paired
  <2>1. n + 1 \in 1..Len(q) /\ p[n] = q[n + 1] /\ (n < Len(p) => p[n + 1] = q[n + 2])
        /\ (n + 1 < Len(q) => n < Len(p)) /\ (n # 1 => p[n - 1] = q[n])
        /\ n + 1 # 1 /\ (n + 1) + 1 = n + 2 /\ (n + 1) - 1 = n
    BY <1>1, <1>2
  <2> QED BY <1>6, <2>1
<1>8. p # <<>> /\ p[1].do = "cancel" => c.do = "disable" /\ p[1].items = c.items
  <2> SUFFICES ASSUME p # <<>>, p[1].do = "cancel" PROVE c.do = "disable" /\ p[1].items = c.items
    OBVIOUS
  <2>1. 2 \in 1..Len(q) /\ q[2] = p[1] /\ 2 - 1 = 1
    BY <1>1, <1>2, <1>3
  <2> QED BY <1>1, <1>6, <2>1
<1>9. c.do = "disable" /\ c.items \intersect Apart # {}
        => p # <<>> /\ p[1].do = "cancel" /\ p[1].items = c.items
  <2> SUFFICES ASSUME c.do = "disable", c.items \intersect Apart # {}
               PROVE  p # <<>> /\ p[1].do = "cancel" /\ p[1].items = c.items
    OBVIOUS
  <2>1. 1 < Len(q) /\ q[1 + 1].do = "cancel" /\ q[1 + 1].items = c.items
    BY <1>1, <1>6
  <2>2. 1 \in 1..Len(p) /\ p # <<>>
    BY <1>1, <1>2, <1>4, <2>1
  <2> QED BY <1>2, <2>1, <2>2
<1>10. ASSUME NEW i, NEW D, Has(q, i, D) PROVE (i \in c.items /\ c.do \in D) \/ Has(p, i, D)
  <2>1. PICK n \in 1..Len(q) : i \in q[n].items /\ q[n].do \in D
    BY <1>10 DEF Has
  <2>2. CASE n = 1
    BY <1>1, <2>1, <2>2
  <2>3. CASE n # 1
    <3>1. n - 1 \in 1..Len(p) /\ p[n - 1] = q[n]
      BY <1>1, <1>2, <2>3
    <3> QED BY <2>1, <3>1 DEF Has
  <2> QED BY <2>2, <2>3
<1>11. Rest(u, p)
  BY <1>2, <1>5, <1>7 DEF Rest
<1>12. c.do # "disable" => Whole(u, p)
  BY <1>8, <1>11 DEF Whole
<1> QED BY <1>3, <1>5, <1>8, <1>9, <1>10, <1>11, <1>12

\* A call put before others.
LEMMA Prefixed ==
  ASSUME NEW d \in Calls, NEW p \in Seq(Calls), NEW r, r = <<d>> \o p
  PROVE  r \in Seq(Calls) /\ Len(r) = Len(p) + 1 /\ r[1] = d /\ \A n \in 1..Len(p) : r[n + 1] = p[n]
  OBVIOUS

\* A call tried again.
Retried(c) == [c EXCEPT !.again = FALSE]

\* A plan stays one when its first call is tried again.
LEMMA AgainFits ==
  ASSUME NEW u, NEW q, Rest(u, q), q # <<>>, NEW c, c = Head(q), NEW p, p = Tail(q),
         NEW r, r = <<Retried(c)>> \o p
  PROVE  /\ Rest(u, r) /\ r # <<>> /\ Head(r).do = c.do /\ Head(r).items = c.items
         /\ \A i, D : Has(q, i, D) => Has(r, i, D)
<1> DEFINE d == Retried(c)
<1>1. q \in Seq(Calls) /\ Len(q) \in Nat \ {0} /\ c = q[1] /\ c \in Calls
  BY EmptySeq, LenProperties, HeadTailProperties DEF Rest
<1>2. p \in Seq(Calls) /\ Len(p) = Len(q) - 1 /\ \A n \in 1..Len(p) : p[n] = q[n + 1]
  BY <1>1, HeadTailProperties
<1>3. d \in Calls /\ d.do = c.do /\ d.items = c.items /\ d.at = c.at
  BY <1>1 DEF Calls, Retried
<1>5. r \in Seq(Calls) /\ Len(r) = Len(p) + 1 /\ r[1] = d /\ \A n \in 1..Len(p) : r[n + 1] = p[n]
  BY <1>2, <1>3, Prefixed
<1>6. Len(r) = Len(q)
  BY <1>1, <1>2, <1>5
<1>7. \A n \in 1..Len(q) : r[n].do = q[n].do /\ r[n].items = q[n].items /\ r[n].at = q[n].at
  <2> SUFFICES ASSUME NEW n \in 1..Len(q)
               PROVE  r[n].do = q[n].do /\ r[n].items = q[n].items /\ r[n].at = q[n].at
    OBVIOUS
  <2>1. CASE n = 1
    BY <1>1, <1>3, <1>5, <2>1
  <2>2. CASE n # 1
    <3>1. n - 1 \in 1..Len(p) /\ (n - 1) + 1 = n
      BY <1>1, <1>2, <2>2
    <3>2. r[(n - 1) + 1] = p[n - 1] /\ p[n - 1] = q[(n - 1) + 1]
      BY <1>2, <1>5, <3>1
    <3> QED BY <3>1, <3>2
  <2> QED BY <2>1, <2>2
<1>8. \A n \in 1..Len(r) : Belongs(u, r[n])
  <2> SUFFICES ASSUME NEW n \in 1..Len(r) PROVE Belongs(u, r[n])
    OBVIOUS
  <2>1. /\ n \in 1..Len(q) /\ Belongs(u, q[n]) /\ r[n] \in Calls
        /\ r[n].do = q[n].do /\ r[n].items = q[n].items /\ r[n].at = q[n].at
    <3>1. n \in 1..Len(q)
      BY <1>6
    <3>2. r[n] \in Calls
      BY <1>5, ElementOfSeq
    <3> QED BY <1>7, <3>1, <3>2 DEF Rest
  <2> QED BY <2>1 DEF Belongs
<1>9. Paired(r)
  <2> SUFFICES ASSUME NEW n \in 1..Len(r)
               PROVE  /\ r[n].do = "disable" /\ r[n].items \intersect Apart # {}
                           => n < Len(r) /\ r[n + 1].do = "cancel" /\ r[n + 1].items = r[n].items
                      /\ r[n].do = "cancel" /\ n # 1 => r[n - 1].do = "disable" /\ r[n - 1].items = r[n].items
    BY DEF Paired
  <2>1. /\ q[n].do = "disable" /\ q[n].items \intersect Apart # {}
             => n < Len(q) /\ q[n + 1].do = "cancel" /\ q[n + 1].items = q[n].items
        /\ q[n].do = "cancel" /\ n # 1 => q[n - 1].do = "disable" /\ q[n - 1].items = q[n].items
    BY <1>6 DEF Rest, Paired
  <2>2. n \in 1..Len(q) /\ (n < Len(q) => n + 1 \in 1..Len(q)) /\ (n # 1 => n - 1 \in 1..Len(q))
    BY <1>1, <1>6
  <2> QED BY <1>6, <1>7, <2>1, <2>2
<1>10. r # <<>> /\ Head(r) = r[1]
  BY <1>1, <1>5, <1>6, EmptySeq, HeadTailProperties
<1>11. Head(r).do = c.do /\ Head(r).items = c.items
  <2>1. 1 \in 1..Len(q)
    BY <1>1
  <2> QED BY <1>1, <1>7, <1>10, <2>1
<1>12. ASSUME NEW i, NEW D, Has(q, i, D) PROVE Has(r, i, D)
  BY <1>6, <1>7, <1>12 DEF Has
<1> QED BY <1>5, <1>8, <1>9, <1>10, <1>11, <1>12 DEF Rest

\* What a call does in the trade-api.
LEMMA Does ==
  ASSUME CommandsSound, CmdTypes, NEW c, NEW j \in Items, c.items = {j}, c.do \in Doing, Cmd!Effect(c)
  PROVE  /\ enabled' \in [Items -> BOOLEAN] /\ owes' \subseteq Items
         /\ \A i \in Items \ {j} : enabled'[i] = enabled[i] /\ (i \in owes' => i \in owes)
         /\ c.do = "enable" => enabled'[j]
         /\ c.do = "disable" => ~enabled'[j] /\ (j \notin Apart => j \notin owes')
         /\ c.do = "cancel" => enabled' = enabled /\ (~enabled[j] => j \notin owes')
         /\ c.do # "enable" => owes' \subseteq owes
<1>1. Cmd!Only(c.items) = j
  BY DEF Cmd!Only
<1>2. CASE c.do = "enable"
  <2>1. enabled' = [enabled EXCEPT ![j] = TRUE] /\ owes' = owes \union {j}
    BY <1>1, <1>2 DEF Cmd!Effect
  <2> QED BY <1>2, <2>1 DEF CmdTypes
<1>3. CASE c.do = "disable"
  <2>1. enabled' = [enabled EXCEPT ![j] = FALSE]
    BY <1>1, <1>3 DEF Cmd!Effect
  <2>2. owes' = IF Strategy[j] \in {"DCA", "DEVMM"} THEN owes \ {j} ELSE owes
    BY <1>1, <1>3 DEF Cmd!Effect
  <2>3. j \notin Apart => Strategy[j] \in {"DCA", "DEVMM"}
    BY DEF CommandsSound, Cmd!CommandsAssumption, Apart, Cmd!Of
  <2> QED BY <1>3, <2>1, <2>2, <2>3 DEF CmdTypes
<1>4. CASE c.do = "cancel"
  <2>1. enabled' = enabled
    BY <1>4 DEF Cmd!Effect
  <2>2. owes' = IF ~enabled[j] THEN owes \ {j} ELSE owes
    BY <1>1, <1>4 DEF Cmd!Effect
  <2> QED BY <1>4, <2>1, <2>2 DEF CmdTypes
<1> QED BY <1>2, <1>3, <1>4 DEF Doing

\* The update that is being handled is one of the inbox.
LEMMA CurrentIs ==
  ASSUME CmdTypes, done < got
  PROVE  /\ Cmd!Current = inbox[done + 1] /\ Cmd!Current \in Cmd!Pressable
         /\ Cmd!Current.items \subseteq Items
         /\ done + 1 \in 1..got /\ 1..got \subseteq 1..Len(inbox)
<1>1. done + 1 \in 1..got /\ 1..got \subseteq 1..Len(inbox)
  BY LenProperties DEF CmdTypes
<1>2. Cmd!Current \in Cmd!Pressable
  BY <1>1, ElementOfSeq DEF CmdTypes, Cmd!Current
<1> QED BY <1>1, <1>2, Addressed DEF Cmd!Current

\* The first of the calls to do.
LEMMA Doable ==
  ASSUME CmdInv, todo # <<>>
  PROVE  /\ busy /\ done < got /\ Rest(Cmd!Current, todo)
         /\ Belongs(Cmd!Current, Head(todo)) /\ Head(todo) \in Calls
         /\ ~Cmd!IsListing(Head(todo)) => Head(todo).do \in Doing /\ \E i \in Items : Head(todo).items = {i}
<1>1. busy /\ done < got /\ Rest(Cmd!Current, todo)
  BY DEF CmdInv, Working
<1>2. Belongs(Cmd!Current, Head(todo))
  BY <1>1, TailFits
<1> QED BY <1>1, <1>2 DEF Belongs, Cmd!IsListing, Doing

\* It holds at first.
LEMMA CmdInit == Cmd!Init => CmdInv
<1> SUFFICES ASSUME Cmd!Init PROVE CmdInv
  OBVIOUS
<1>1. <<>> \in Seq(Cmd!Pressable) /\ Len(<<>>) = 0
  OBVIOUS
<1>2. CmdTypes
  <2>1. inbox \in Seq(Cmd!Pressable) /\ got \in 0..Len(inbox) /\ done \in 0..got
    BY <1>1 DEF Cmd!Init
  <2>2. enabled \in [Items -> BOOLEAN] /\ owes \subseteq Items /\ busy \in BOOLEAN /\ stray = {}
    BY DEF Cmd!Init
  <2>3. errors \subseteq Items /\ touched \subseteq Items /\ sought \subseteq Items
    BY DEF Cmd!Init
  <2>4. lines \in Seq([at : Places, items : SUBSET Items])
    BY DEF Cmd!Init
  <2> QED BY <2>1, <2>2, <2>3, <2>4 DEF CmdTypes
<1>3. ~busy /\ todo = <<>> /\ done = 0
  BY DEF Cmd!Init
<1>4. Working /\ Cmd!CancelsOnlyStopped
  BY <1>3 DEF Working, Cmd!CancelsOnlyStopped
<1>5. Owed /\ Reported /\ Started
  BY <1>3 DEF Owed, Reported, Started
<1>6. Obeyed
  BY <1>3 DEF Obeyed
<1> QED BY <1>2, <1>4, <1>5, <1>6 DEF CmdInv

\* What goes on aside from the handler touches the items it changes.
LEMMA Aside ==
  ASSUME CmdInv, CmdTypes', UNCHANGED <<busy, todo, got, done, errors, lines, sought>>,
         touched \subseteq touched',
         \A i \in Items \ touched' : enabled'[i] = enabled[i] /\ (i \in owes' => i \in owes),
         \A n \in 1..got : inbox'[n] = inbox[n]
  PROVE  CmdInv'
<1>1. busy => Cmd!Current' = Cmd!Current /\ Cmd!Current.items \subseteq Items
  BY CurrentIs DEF CmdInv, Working, Cmd!Current
<1>2. Working'
  BY <1>1 DEF CmdInv, Working
<1>3. Cmd!CancelsOnlyStopped'
  <2> SUFFICES ASSUME todo # <<>>, Head(todo).do = "cancel", NEW i \in Head(todo).items
               PROVE  ~enabled'[i] \/ i \in touched'
    BY DEF Cmd!CancelsOnlyStopped
  <2>1. i \in Items
    BY Doable DEF Calls
  <2> QED BY <2>1 DEF CmdInv, Cmd!CancelsOnlyStopped
<1>4. Owed'
  BY <1>1 DEF CmdInv, Owed, Met
<1>5. Reported' /\ Started'
  BY <1>1 DEF CmdInv, Reported, OnTheList, Started
<1>6. Obeyed'
  <2> SUFFICES ASSUME NEW i \in Items \ (errors \union touched'), NEW n \in 1..done,
                      LastFor(i, n, done)', ~(busy /\ i \in Cmd!Current'.items)
               PROVE  Heeded(i, n)'
    BY DEF Obeyed
  <2>1. \A m \in 1..done : inbox'[m] = inbox[m]
    BY DEF CmdInv, CmdTypes
  <2>2. LastFor(i, n, done)
    BY <2>1 DEF LastFor, CmdInv, CmdTypes
  <2>3. Heeded(i, n)
    BY <1>1, <2>2 DEF CmdInv, Obeyed
  <2> QED BY <2>1, <2>3 DEF Heeded
<1> QED BY <1>2, <1>3, <1>4, <1>5, <1>6 DEF CmdInv

\* A button that is pressed.
LEMMA PressKeeps == ASSUME CmdInv, NEW u \in Cmd!Pressable, Cmd!Press(u) PROVE CmdInv'
<1>1. inbox' \in Seq(Cmd!Pressable) /\ Len(inbox') = Len(inbox) + 1 /\ Len(inbox) \in Nat
      /\ \A n \in 1..Len(inbox) : inbox'[n] = inbox[n]
  BY AppendProperties, LenProperties DEF CmdInv, CmdTypes, Cmd!Press
<1>2. UNCHANGED <<enabled, owes, got, done, busy, todo, errors, lines, stray, touched, sought>>
  BY DEF Cmd!Press, Cmd!flags
<1>3. CmdTypes'
  BY <1>1, <1>2 DEF CmdInv, CmdTypes
<1>4. \A n \in 1..got : inbox'[n] = inbox[n]
  BY <1>1 DEF CmdInv, CmdTypes
<1> QED BY <1>2, <1>3, <1>4, Aside

\* A batch that is fetched: nothing of it has been handled.
LEMMA FetchKeeps == ASSUME CmdInv, Cmd!Fetch PROVE CmdInv'
<1>1. inbox' \in Seq(Cmd!Pressable) /\ Len(inbox') \in Nat
  <2>1. inbox \in Seq(Cmd!Pressable) /\ done \in Nat /\ Len(inbox) \in Nat
    BY LenProperties DEF CmdInv, CmdTypes
  <2>2. inbox' = SubSeq(inbox, done + 1, Len(inbox))
    BY DEF Cmd!Fetch
  <2>3. \A n \in (done + 1)..Len(inbox) : inbox[n] \in Cmd!Pressable
    BY <2>1
  <2>4. inbox' \in Seq(Cmd!Pressable)
    BY <2>1, <2>2, <2>3, SubSeqProperties
  <2> QED BY <2>4, LenProperties
<1>2. got' = Len(inbox') /\ done' = 0 /\ errors' = {} /\ touched' = {} /\ ~busy
      /\ UNCHANGED <<enabled, owes, busy, todo, lines, stray, sought>>
  BY DEF Cmd!Fetch, Cmd!flags
<1>3. CmdTypes'
  BY <1>1, <1>2 DEF CmdInv, CmdTypes
<1>4. Working' /\ todo' = <<>>
  BY <1>2 DEF CmdInv, Working
<1> QED BY <1>2, <1>3, <1>4 DEF CmdInv, Cmd!CancelsOnlyStopped, Owed, Reported, Started, Obeyed

\* An update that is begun: its plan meets every item.
LEMMA BeginKeeps == ASSUME CommandsSound, CmdInv, Cmd!Begin PROVE CmdInv'
<1> DEFINE u == Cmd!Current
<1>1. /\ ~busy /\ busy' /\ done < got /\ todo' = Cmd!Plan(u) /\ errors' = errors \ u.items
      /\ touched' = touched \ u.items /\ sought' = Cmd!Running(u.items) /\ lines' = <<>>
      /\ UNCHANGED <<enabled, owes, inbox, got, done, stray>>
  BY DEF Cmd!Begin, Cmd!flags, Cmd!queue
<1>2. u' = u /\ u \in Cmd!Pressable /\ u.items \subseteq Items
  BY <1>1, CurrentIs DEF CmdInv, Cmd!Current
<1> HIDE DEF u
<1>3. CmdTypes'
  BY <1>1, <1>2 DEF CmdInv, CmdTypes, Cmd!Running, Cmd!Begin
<1>4. /\ Whole(u, todo')
      /\ u.verb \in {"start", "startall"} => \A i \in u.items : Has(todo', i, {"enable"})
      /\ u.verb \in Stops => \A i \in u.items : Has(todo', i, Stopping)
  BY <1>1, <1>2, PlanFits
<1>5. Cmd!Current' = u
  BY <1>2 DEF u
<1>6. Working'
  BY <1>1, <1>4, <1>5 DEF Working, Whole
<1>7. Cmd!CancelsOnlyStopped'
  <2>1. todo' # <<>> => Head(todo').do # "cancel"
    BY <1>4, HeadTailProperties DEF Whole, Rest
  <2> QED BY <2>1 DEF Cmd!CancelsOnlyStopped
<1>8. Owed'
  <2> SUFFICES ASSUME u.verb \in Stops, NEW i \in u.items PROVE Met(i)'
    BY <1>5 DEF Owed
  <2>1. i \in Items /\ enabled[i] \in BOOLEAN /\ (~enabled[i] => i \notin sought')
    BY <1>1, <1>2 DEF CmdInv, CmdTypes, Cmd!Running
  <2> QED BY <1>1, <1>4, <2>1 DEF Met
<1>9. Reported' /\ Started'
  BY <1>1, <1>4, <1>5 DEF Reported, Started
<1>10. Obeyed'
  <2> SUFFICES ASSUME NEW i \in Items \ (errors' \union touched'), NEW n \in 1..done,
                      LastFor(i, n, done)', i \notin u.items
               PROVE  Heeded(i, n)'
    BY <1>1, <1>5 DEF Obeyed
  <2>1. i \notin errors /\ i \notin touched /\ LastFor(i, n, done)
    BY <1>1 DEF LastFor
  <2> QED BY <1>1, <2>1 DEF CmdInv, Obeyed, Heeded
<1> QED BY <1>3, <1>6, <1>7, <1>8, <1>9, <1>10 DEF CmdInv

\* What is obeyed stays so while the items of the current update alone are changed.
LEMMA StaysObeyed ==
  ASSUME CmdInv, busy, busy', done < got, UNCHANGED <<inbox, done>>, errors \subseteq errors',
         touched \subseteq touched',
         \A i \in Items \ Cmd!Current.items : enabled'[i] = enabled[i]
  PROVE  Obeyed'
<1> SUFFICES ASSUME NEW i \in Items \ (errors' \union touched'), NEW n \in 1..done,
                    LastFor(i, n, done)', i \notin Cmd!Current'.items
             PROVE  Heeded(i, n)'
  BY DEF Obeyed
<1>1. Cmd!Current' = Cmd!Current
  BY DEF Cmd!Current
<1>2. LastFor(i, n, done)
  BY DEF LastFor
<1> QED BY <1>1, <1>2 DEF CmdInv, Obeyed, Heeded

\* A listing that is answered: what follows meets the items that run.
LEMMA ListedKeeps == ASSUME CommandsSound, CmdInv, Cmd!Listed PROVE CmdInv'
<1> DEFINE u == Cmd!Current
           c == Head(todo)
           p == Tail(todo)
           f == Cmd!Follow(c)
<1>1. /\ todo # <<>> /\ Cmd!IsListing(c) /\ todo' = f \o p
      /\ UNCHANGED <<enabled, owes, inbox, got, done, busy, errors, lines, stray, touched, sought>>
  BY DEF Cmd!Listed, Cmd!flags, Cmd!queue
<1>2. busy /\ done < got /\ Rest(u, todo) /\ u' = u /\ u \in Cmd!Pressable
  BY <1>1, Doable, CurrentIs DEF CmdInv, Cmd!Current
<1>3. /\ Belongs(u, c) /\ Whole(u, p)
      /\ \A i, D : Has(todo, i, D) => (i \in c.items /\ c.do \in D) \/ Has(p, i, D)
  <2>1. c.do # "disable"
    BY <1>1 DEF Cmd!IsListing
  <2> QED BY <1>1, <1>2, <2>1, TailFits
<1>4. Whole(u, f) /\ (c.do \in Stopping => \A i \in c.items : enabled[i] => Has(f, i, {"disable"}))
  BY <1>1, <1>2, <1>3, FollowFits
<1>5. Whole(u, todo') /\ \A i, D : Has(f, i, D) \/ Has(p, i, D) => Has(todo', i, D)
  <2> HIDE DEF u, f, p
  <2> QED BY <1>1, <1>3, <1>4, ConcatFits
<1>6. Cmd!Current' = u
  BY <1>2 DEF u
<1>7. CmdTypes'
  BY <1>1 DEF CmdInv, CmdTypes
<1>8. Working'
  BY <1>1, <1>2, <1>5, <1>6 DEF Working, Whole
<1>9. Cmd!CancelsOnlyStopped'
  <2>1. todo' # <<>> => Head(todo').do # "cancel"
    BY <1>5, HeadTailProperties DEF Whole, Rest
  <2> QED BY <2>1 DEF Cmd!CancelsOnlyStopped
<1>10. c.do \notin {"cancel", "enable", "disable"}
  BY <1>1 DEF Cmd!IsListing
<1> HIDE DEF u, c, p, f
<1>11. Owed'
  <2> SUFFICES ASSUME u.verb \in Stops, NEW i \in u.items \ (errors \union touched) PROVE Met(i)'
    BY <1>1, <1>6 DEF Owed
  <2>1. Met(i)
    BY <1>2 DEF CmdInv, Owed, u
  <2>2. \A q : Has(q, i, {"disable"}) => Has(q, i, Stopping)
    BY DEF Has, Stopping
  <2>3. enabled[i] /\ Has(todo, i, Stopping) => Has(todo', i, Stopping)
    BY <1>3, <1>4, <1>5, <2>2
  <2>4. Has(todo, i, {"cancel"}) => Has(todo', i, {"cancel"})
    BY <1>3, <1>5, <1>10
  <2> QED BY <1>1, <2>1, <2>3, <2>4 DEF Met
<1>12. Started'
  <2> SUFFICES ASSUME u.verb \in {"start", "startall"}, NEW i \in u.items \ (errors \union touched),
                      ~enabled[i]
               PROVE  Has(todo', i, {"enable"})
    BY <1>1, <1>6 DEF Started
  <2>1. Has(todo, i, {"enable"})
    BY <1>2 DEF CmdInv, Started, u
  <2> QED BY <1>3, <1>5, <1>10, <2>1
<1>13. Obeyed'
  BY <1>1, <1>2, StaysObeyed
<1>14. Reported'
  BY <1>1, <1>2, <1>6 DEF CmdInv, Reported, OnTheList, u
<1> QED BY <1>7, <1>8, <1>9, <1>11, <1>12, <1>13, <1>14 DEF CmdInv

\* A call that is answered: an item it disables has its cancellation next.
LEMMA AnsweredKeeps == ASSUME CommandsSound, CmdInv, Cmd!Answered PROVE CmdInv'
<1> DEFINE u == Cmd!Current
           c == Head(todo)
<1>1. /\ todo # <<>> /\ ~Cmd!IsListing(c) /\ todo' = Tail(todo) /\ Cmd!Effect(c)
      /\ UNCHANGED <<inbox, got, done, busy, errors, lines, stray, touched, sought>>
  BY DEF Cmd!Answered, Cmd!queue
<1>2. busy /\ done < got /\ Rest(u, todo) /\ u' = u /\ u \in Cmd!Pressable /\ u.items \subseteq Items
  BY <1>1, Doable, CurrentIs DEF CmdInv, Cmd!Current
<1>3. PICK j \in Items : c.items = {j} /\ c.do \in Doing
  BY <1>1, Doable
<1>4. /\ enabled' \in [Items -> BOOLEAN] /\ owes' \subseteq Items
      /\ \A i \in Items \ {j} : enabled'[i] = enabled[i] /\ (i \in owes' => i \in owes)
      /\ c.do = "enable" => enabled'[j]
      /\ c.do = "disable" => ~enabled'[j] /\ (j \notin Apart => j \notin owes')
      /\ c.do = "cancel" => enabled' = enabled /\ (~enabled[j] => j \notin owes')
      /\ c.do # "enable" => owes' \subseteq owes
  BY <1>1, <1>3, Does DEF CmdInv
<1>5. /\ Belongs(u, c) /\ Rest(u, todo')
      /\ todo' # <<>> /\ Head(todo').do = "cancel" => c.do = "disable" /\ Head(todo').items = c.items
      /\ c.do = "disable" /\ j \in Apart => todo' # <<>> /\ Head(todo').do = "cancel" /\ Head(todo').items = c.items
      /\ \A i, D : Has(todo, i, D) => (i \in c.items /\ c.do \in D) \/ Has(todo', i, D)
  BY <1>1, <1>2, <1>3, TailFits
<1>6. Cmd!Current' = u
  BY <1>2 DEF u
<1>7. CmdTypes'
  BY <1>1, <1>4 DEF CmdInv, CmdTypes
<1>8. Working'
  BY <1>1, <1>2, <1>5, <1>6 DEF Working
<1>9. Cmd!CancelsOnlyStopped'
  BY <1>3, <1>4, <1>5 DEF Cmd!CancelsOnlyStopped
<1>10. j \in u.items /\ (u.verb \in Starting => c.do = "enable") /\ (u.verb \notin Starting => c.do # "enable")
  BY <1>3, <1>5 DEF Belongs, Doing
<1>11. Owed'
  <2> SUFFICES ASSUME u.verb \in Stops, NEW i \in u.items \ (errors \union touched) PROVE Met(i)'
    BY <1>1, <1>6 DEF Owed
  <2>1. Met(i) /\ i \in Items /\ c.do \in {"disable", "cancel"} /\ owes' \subseteq owes
    BY <1>2, <1>3, <1>4, <1>10 DEF CmdInv, Owed, Stops, Starting, Doing
  <2>2. CASE i = j /\ c.do = "disable"
    <3>1. CASE j \in Apart
      <4>1. todo' # <<>> /\ Head(todo').do = "cancel" /\ Head(todo').items = {j}
        BY <1>3, <1>5, <2>2, <3>1
      <4>2. todo' \in Seq(Calls)
        BY <1>5 DEF Rest
      <4>3. 1 \in 1..Len(todo') /\ todo'[1] = Head(todo')
        BY <4>1, <4>2, EmptySeq, HeadTailProperties, LenProperties
      <4>4. Has(todo', j, {"cancel"})
        BY <4>1, <4>3 DEF Has
      <4> QED BY <1>4, <2>2, <3>1, <4>4 DEF Met
    <3>2. CASE j \notin Apart
      BY <1>4, <2>2, <3>2 DEF Met
    <3> QED BY <3>1, <3>2
  <2>3. CASE i = j /\ c.do = "cancel"
    <3>1. ~enabled[j]
      BY <1>1, <1>3, <2>3 DEF CmdInv, Cmd!CancelsOnlyStopped
    <3> QED BY <1>4, <2>3, <3>1 DEF Met
  <2>4. CASE i # j
    <3>1. enabled'[i] = enabled[i] /\ \A D : Has(todo, i, D) => Has(todo', i, D)
      BY <1>3, <1>4, <1>5, <2>1, <2>4
    <3> QED BY <1>1, <2>1, <3>1 DEF Met
  <2> QED BY <2>1, <2>2, <2>3, <2>4
<1>12. Started'
  <2> SUFFICES ASSUME u.verb \in {"start", "startall"}, NEW i \in u.items \ (errors \union touched),
                      ~enabled'[i]
               PROVE  Has(todo', i, {"enable"})
    BY <1>1, <1>6 DEF Started
  <2>1. i \in Items /\ c.do = "enable" /\ i # j
    BY <1>2, <1>4, <1>10 DEF Starting
  <2>2. enabled[i] \/ Has(todo, i, {"enable"})
    BY <1>2 DEF CmdInv, Started
  <2> QED BY <1>3, <1>4, <1>5, <2>1, <2>2
<1>13. Obeyed'
  BY <1>1, <1>2, <1>4, <1>10, StaysObeyed
<1>14. Reported'
  BY <1>1, <1>2, <1>6 DEF CmdInv, Reported, OnTheList
<1> QED BY <1>7, <1>8, <1>9, <1>11, <1>12, <1>13, <1>14 DEF CmdInv

\* The items of which a call that fails is noted.
Blamed(c) == IF Cmd!Noted(c) THEN c.items ELSE {}

\* A call that fails: the items that lose a call are reported.
LEMMA FailedKeeps == ASSUME CommandsSound, CmdInv, Cmd!Failed PROVE CmdInv'
<1> DEFINE u == Cmd!Current
           c == Head(todo)
           p == Tail(todo)
<1>1. /\ todo # <<>> /\ todo' = Cmd!AfterFailure /\ errors' = errors \union Blamed(c)
      /\ lines' = IF Cmd!Noted(c) THEN Append(lines, [at |-> c.at, items |-> c.items]) ELSE lines
      /\ stray' \in {stray} \union (IF Cmd!IsListing(c) THEN {} ELSE {stray \union {c}})
      /\ UNCHANGED <<enabled, owes, inbox, got, done, busy, touched, sought>>
  BY DEF Cmd!Failed, Cmd!flags, Cmd!queue, Blamed
<1>2. /\ busy /\ done < got /\ Rest(u, todo) /\ u' = u /\ u \in Cmd!Pressable /\ u.items \subseteq Items
      /\ c \in Calls /\ (~Cmd!IsListing(c) => c.do \in Doing /\ \E i \in Items : c.items = {i})
  BY <1>1, Doable, CurrentIs DEF CmdInv, Cmd!Current
<1>3. /\ Belongs(u, c) /\ Rest(u, p)
      /\ p # <<>> /\ Head(p).do = "cancel" => c.do = "disable" /\ Head(p).items = c.items
      /\ \A i, D : Has(todo, i, D) => (i \in c.items /\ c.do \in D) \/ Has(p, i, D)
  BY <1>1, <1>2, TailFits
<1>4. Cmd!Current' = u
  BY <1>2 DEF u
<1>5. Blamed(c) \subseteq Items
  BY <1>2 DEF Blamed, Calls
<1>6. CmdTypes'
  <2>1. \A d \in stray' : d \in Calls /\ d.do \in Doing /\ \E i \in Items : d.items = {i}
    BY <1>1, <1>2 DEF CmdInv, CmdTypes
  <2>2. errors' \subseteq Items
    BY <1>1, <1>5 DEF CmdInv, CmdTypes
  <2>3. lines' \in Seq([at : Places, items : SUBSET Items])
    <3>1. [at |-> c.at, items |-> c.items] \in [at : Places, items : SUBSET Items]
      BY <1>2 DEF Calls
    <3> HIDE DEF c
    <3> QED BY <1>1, <3>1, AppendProperties DEF CmdInv, CmdTypes
  <2> QED BY <1>1, <2>1, <2>2, <2>3 DEF CmdInv, CmdTypes
\* What fails is on the list.
<1>14. Reported'
  <2> DEFINE l == [at |-> c.at, items |-> c.items]
  <2>1. /\ l.items = c.items /\ l.at = c.at /\ l \in [at : Places, items : SUBSET Items]
        /\ u.verb = "exchange" => c.items \subseteq Cmd!At(c.at)
    BY <1>2, <1>3 DEF Calls, Belongs
  <2>2. CASE Cmd!Noted(c)
    <3>1. /\ Len(lines') = Len(lines) + 1 /\ Len(lines) \in Nat /\ lines'[Len(lines) + 1] = l
          /\ \A n \in 1..Len(lines) : lines'[n] = lines[n]
      <4> HIDE DEF l
      <4>1. lines' = Append(lines, l)
        BY <1>1, <2>2 DEF l
      <4> QED BY <2>1, <4>1, AppendProperties, LenProperties DEF CmdInv, CmdTypes
    <3> SUFFICES ASSUME NEW i \in errors' \intersect u.items PROVE OnTheList(i)'
      BY <1>4 DEF Reported
    <3>2. CASE i \in errors
      <4>1. OnTheList(i)
        BY <1>2, <3>2 DEF CmdInv, Reported
      <4>2. PICK n \in 1..Len(lines) :
              i \in lines[n].items /\ (u.verb = "exchange" => lines[n].at = ExchangeOf[i])
        BY <4>1 DEF OnTheList
      <4>3. n \in 1..Len(lines') /\ lines'[n] = lines[n]
        BY <3>1
      <4> HIDE DEF u
      <4> QED BY <1>4, <4>2, <4>3 DEF OnTheList
    <3>3. CASE i \notin errors
      <4>1. i \in c.items
        BY <1>1, <3>3 DEF Blamed
      <4>2. u.verb = "exchange" => c.at = ExchangeOf[i]
        BY <2>1, <4>1 DEF Cmd!At
      <4>3. Len(lines) + 1 \in 1..Len(lines') /\ lines'[Len(lines) + 1].items = c.items
            /\ lines'[Len(lines) + 1].at = c.at
        BY <2>1, <3>1
      <4> HIDE DEF u, c
      <4> QED BY <1>4, <4>1, <4>2, <4>3 DEF OnTheList
    <3> QED BY <3>2, <3>3
  <2>3. CASE ~Cmd!Noted(c)
    <3>1. errors' = errors /\ lines' = lines
      BY <1>1, <2>3 DEF Blamed
    <3> QED BY <1>1, <1>2, <1>4, <3>1 DEF CmdInv, Reported, OnTheList
  <2> QED BY <2>2, <2>3
<1> DEFINE Again == c.do = "cancel" /\ c.again
           Skip == c.do = "disable" /\ p # <<>> /\ Head(p).do = "cancel"
\* Nothing is dropped but calls for the items blamed, and cancellations of a DCA.
<1>7. /\ Rest(u, todo')
      /\ todo' # <<>> /\ Head(todo').do = "cancel" => c.do = "cancel" /\ Head(todo').items = c.items
      /\ \A i, D : Has(todo, i, D) => \/ i \in Blamed(c) \/ Has(todo', i, D)
                                      \/ c.do = "cancel" /\ i \in Cmd!Of("DCA") /\ "cancel" \in D
  <2>1. CASE Again
    <3>1. todo' = <<[c EXCEPT !.again = FALSE]>> \o p
      BY <1>1, <2>1 DEF Cmd!AfterFailure
    <3>2. todo' = <<Retried(c)>> \o p
      BY <3>1 DEF Retried
    <3>3. /\ Rest(u, todo') /\ todo' # <<>> /\ Head(todo').do = c.do /\ Head(todo').items = c.items
          /\ \A i, D : Has(todo, i, D) => Has(todo', i, D)
      BY <1>1, <1>2, <3>2, AgainFits
    <3> QED BY <2>1, <3>3
  <2>2. CASE ~Again /\ Skip
    <3>1. todo' = Tail(p) /\ Blamed(c) = c.items
      BY <1>1, <2>2 DEF Cmd!AfterFailure, Blamed, Cmd!Noted
    <3>2. Head(p).items = c.items
      BY <1>3, <2>2
    <3> DEFINE d == Head(p)
    <3>3. /\ Rest(u, todo')
          /\ todo' # <<>> /\ Head(todo').do = "cancel" => d.do = "disable"
          /\ \A i, D : Has(p, i, D) => (i \in d.items /\ d.do \in D) \/ Has(todo', i, D)
      <4> HIDE DEF p, c, u
      <4> QED BY <1>3, <2>2, <3>1, TailFits
    <3> QED BY <1>3, <2>2, <3>1, <3>2, <3>3
  <2>3. CASE ~Again /\ ~Skip
    <3>1. todo' = p
      BY <1>1, <2>3 DEF Cmd!AfterFailure
    <3>2. c.do = "cancel" /\ ~c.again /\ ~(c.items \subseteq Cmd!Of("DCA")) => Blamed(c) = c.items
      BY DEF Blamed, Cmd!Noted
    <3>3. c.do # "cancel" => Blamed(c) = c.items
      BY DEF Blamed, Cmd!Noted
    <3>4. todo' # <<>> => Head(todo').do # "cancel"
      BY <1>3, <2>3, <3>1
    <3>5. ASSUME NEW i, NEW D, Has(todo, i, D)
          PROVE  \/ i \in Blamed(c) \/ Has(todo', i, D)
                 \/ c.do = "cancel" /\ i \in Cmd!Of("DCA") /\ "cancel" \in D
      <4>1. (i \in c.items /\ c.do \in D) \/ Has(p, i, D)
        BY <1>3, <3>5
      <4> HIDE DEF c, p
      <4> QED BY <2>3, <3>1, <3>2, <3>3, <4>1
    <3> QED BY <1>3, <3>1, <3>4, <3>5
  <2> QED BY <2>1, <2>2, <2>3
<1>8. Working'
  BY <1>1, <1>2, <1>4, <1>7 DEF Working
<1>9. Cmd!CancelsOnlyStopped'
  BY <1>1, <1>7 DEF CmdInv, Cmd!CancelsOnlyStopped
<1>10. errors \subseteq errors' /\ Blamed(c) \subseteq errors'
  BY <1>1
<1> HIDE DEF u, c, p, Again, Skip
<1>11. Owed'
  <2> SUFFICES ASSUME u.verb \in Stops, NEW i \in u.items \ (errors' \union touched) PROVE Met(i)'
    BY <1>1, <1>4 DEF Owed
  <2>1. Met(i) /\ i \in Items /\ i \notin Blamed(c)
    BY <1>2, <1>10 DEF CmdInv, Owed, u
  <2>2. Has(todo, i, Stopping) => Has(todo', i, Stopping)
    <3>1. "cancel" \notin Stopping
      BY DEF Stopping
    <3> QED BY <1>7, <2>1, <3>1
  <2>3. i \in Apart /\ Has(todo, i, {"cancel"}) => Has(todo', i, {"cancel"})
    <3>1. i \in Apart => i \notin Cmd!Of("DCA")
      BY DEF Apart, Cmd!Of
    <3> QED BY <1>7, <2>1, <3>1
  <2> QED BY <1>1, <2>1, <2>2, <2>3 DEF Met
<1>12. Started'
  <2> SUFFICES ASSUME u.verb \in {"start", "startall"},
                      NEW i \in u.items \ (errors' \union touched), ~enabled[i]
               PROVE  Has(todo', i, {"enable"})
    BY <1>1, <1>4 DEF Started
  <2>1. Has(todo, i, {"enable"}) /\ i \notin Blamed(c)
    BY <1>2, <1>10 DEF CmdInv, Started, u
  <2> QED BY <1>7, <2>1
<1>13. Obeyed'
  BY <1>1, <1>2, <1>10, StaysObeyed
<1> QED BY <1>6, <1>8, <1>9, <1>11, <1>12, <1>13, <1>14 DEF CmdInv

\* An update that is finished: with nothing to do, what was met is done.
LEMMA FinishKeeps == ASSUME CmdInv, Cmd!Finish PROVE CmdInv'
<1> DEFINE u == Cmd!Current
<1>1. /\ busy /\ busy' = FALSE /\ todo = <<>> /\ done' = done + 1 /\ sought' = {} /\ lines' = <<>>
      /\ UNCHANGED <<enabled, owes, inbox, got, todo, errors, stray, touched>>
  BY DEF Cmd!Finish, Cmd!flags
<1>2. done < got /\ u = inbox[done + 1] /\ u.items \subseteq Items /\ done \in Nat /\ got \in Nat
  BY <1>1, CurrentIs, LenProperties DEF CmdInv, Working, CmdTypes
<1>3. CmdTypes'
  <2>1. got \in 0..Len(inbox) /\ done + 1 \in 0..got
    BY <1>2 DEF CmdInv, CmdTypes
  <2>2. lines' \in Seq([at : Places, items : SUBSET Items])
    BY <1>1
  <2> QED BY <1>1, <2>1, <2>2 DEF CmdInv, CmdTypes
<1>4. \A i, D : ~Has(todo, i, D)
  BY <1>1 DEF Has
<1>5. Obeyed'
  <2> SUFFICES ASSUME NEW i \in Items \ (errors \union touched), NEW n \in 1..(done + 1),
                      LastFor(i, n, done + 1)
               PROVE  Heeded(i, n)
    BY <1>1 DEF Obeyed, LastFor, Heeded
  <2>1. CASE n = done + 1
    <3>1. i \in u.items
      BY <1>2, <2>1 DEF LastFor
    <3>2. u.verb \in Stops => ~enabled[i]
      BY <1>1, <1>4, <3>1 DEF CmdInv, Owed, Met
    <3>3. u.verb \in {"start", "startall"} => enabled[i]
      BY <1>1, <1>4, <3>1 DEF CmdInv, Started
    <3> QED BY <1>2, <2>1, <3>2, <3>3 DEF Heeded
  <2>2. CASE n # done + 1
    <3>1. n \in 1..done /\ LastFor(i, n, done) /\ i \notin inbox[done + 1].items
      BY <1>2, <2>2 DEF LastFor
    <3> QED BY <1>2, <3>1 DEF CmdInv, Obeyed
  <2> QED BY <2>1, <2>2
<1> QED BY <1>1, <1>3, <1>5 DEF CmdInv, Working, Cmd!CancelsOnlyStopped, Owed, Reported, Started

\* A request that arrives late touches its item.
LEMMA StrayKeeps == ASSUME CommandsSound, CmdInv, Cmd!StrayArrives PROVE CmdInv'
<1>1. PICK c \in stray : /\ stray' = stray \ {c} /\ Cmd!Effect(c) /\ touched' = touched \union c.items
                         /\ UNCHANGED <<inbox, got, done, busy, todo, errors, lines, sought>>
  BY DEF Cmd!StrayArrives, Cmd!queue
<1>2. c.do \in Doing /\ \E i \in Items : c.items = {i}
  BY DEF CmdInv, CmdTypes
<1>3. PICK j \in Items : c.items = {j}
  BY <1>2
<1>4. /\ enabled' \in [Items -> BOOLEAN] /\ owes' \subseteq Items
      /\ \A i \in Items \ {j} : enabled'[i] = enabled[i] /\ (i \in owes' => i \in owes)
  BY <1>1, <1>2, <1>3, Does DEF CmdInv
<1>5. CmdTypes'
  BY <1>1, <1>3, <1>4 DEF CmdInv, CmdTypes
<1>6. \A i \in Items \ touched' : enabled'[i] = enabled[i] /\ (i \in owes' => i \in owes)
  BY <1>1, <1>3, <1>4
<1> QED BY <1>1, <1>5, <1>6, Aside

\* A runner that stops its configuration touches it.
LEMMA RunnerKeeps == ASSUME CmdInv, NEW i \in Items, Cmd!RunnerStops(i) PROVE CmdInv'
<1>1. /\ enabled' = [enabled EXCEPT ![i] = FALSE] /\ owes' = owes \ {i} /\ touched' = touched \union {i}
      /\ UNCHANGED <<inbox, got, done, busy, todo, errors, lines, stray, sought>>
  BY DEF Cmd!RunnerStops, Cmd!queue
<1>2. CmdTypes'
  BY <1>1 DEF CmdInv, CmdTypes
<1>3. \A j \in Items \ touched' : enabled'[j] = enabled[j] /\ (j \in owes' => j \in owes)
  BY <1>1 DEF CmdInv, CmdTypes
<1> QED BY <1>1, <1>2, <1>3, Aside

\* A crash: the batch will be handled again.
LEMMA CmdCrashKeeps == ASSUME CmdInv, Cmd!Crash PROVE CmdInv'
<1>1. /\ got' = 0 /\ done' = 0 /\ busy' = FALSE /\ todo' = <<>> /\ sought' = {} /\ lines' = <<>>
      /\ stray' = stray \union (IF todo = <<>> \/ Cmd!IsListing(Head(todo)) THEN {} ELSE {Head(todo)})
      /\ UNCHANGED <<enabled, owes, inbox, errors, touched>>
  BY DEF Cmd!Crash, Cmd!flags
<1>2. \A c \in stray' : c \in Calls /\ c.do \in Doing /\ \E i \in Items : c.items = {i}
  BY <1>1, Doable DEF CmdInv, CmdTypes
<1>3. CmdTypes'
  <2>1. Len(inbox) \in Nat
    BY LenProperties DEF CmdInv, CmdTypes
  <2>2. got' = 0 /\ done' = 0 /\ busy' = FALSE /\ 0 \in 0..Len(inbox) /\ 0 \in 0..0
    BY <1>1, <2>1
  <2>3. got' \in 0..Len(inbox) /\ done' \in 0..got'
    BY <2>2
  <2>4. lines' \in Seq([at : Places, items : SUBSET Items])
    BY <1>1
  <2> QED BY <1>1, <1>2, <2>2, <2>3, <2>4 DEF CmdInv, CmdTypes
<1> QED BY <1>1, <1>3 DEF CmdInv, Working, Cmd!CancelsOnlyStopped, Owed, Reported, Started, Obeyed

\* Every step keeps the invariant.
LEMMA CmdNext == ASSUME CommandsSound, CmdInv, [Cmd!Next]_(Cmd!vars) PROVE CmdInv'
<1>1. CASE Cmd!Next
  BY <1>1, PressKeeps, FetchKeeps, BeginKeeps, ListedKeeps, AnsweredKeeps, FailedKeeps,
     FinishKeeps,
     StrayKeeps, CmdCrashKeeps, RunnerKeeps DEF Cmd!Next
<1>2. CASE UNCHANGED Cmd!vars
  <2>1. UNCHANGED <<enabled, owes, inbox, got, done, busy, todo, errors, lines, stray, touched,
                    sought>>
    BY <1>2 DEF Cmd!vars
  <2>2. CmdTypes'
    BY <2>1 DEF CmdInv, CmdTypes
  <2> QED BY <2>1, <2>2, Aside
<1> QED BY <1>1, <1>2

\* It holds in every reachable state.
LEMMA CmdHolds == ASSUME CommandsSound PROVE Cmd!Spec => []CmdInv
<1>1. CmdInv /\ [Cmd!Next]_(Cmd!vars) => CmdInv'
  BY CmdNext
<1> QED BY CmdInit, <1>1, PTL DEF Cmd!Spec

\* A failure that is on the list is in the answer, or its exchange has more than the answer names.
LEMMA ToldOrCrowded ==
  ASSUME CmdInv, Cmd!Current.verb \in Stops, NEW i \in Items, OnTheList(i)
  PROVE  i \in Cmd!Named \/ Cmd!Crowded(ExchangeOf[i])
<1>1. PICK n \in 1..Len(lines) :
        i \in lines[n].items /\ (Cmd!Current.verb = "exchange" => lines[n].at = ExchangeOf[i])
  BY DEF OnTheList
<1>2. DOMAIN lines = 1..Len(lines) /\ Len(lines) \in Nat
  BY LenProperties DEF CmdInv, CmdTypes
<1>3. CASE Cmd!Told(n)
  BY <1>1, <1>2, <1>3 DEF Cmd!Named
<1>4. CASE ~Cmd!Told(n)
  <2> DEFINE F == Cmd!FailuresAt(ExchangeOf[i])
             E == {m \in F : m < n}
  <2>1. Cmd!Current.verb = "exchange" /\ lines[n].at = ExchangeOf[i] /\ ~(Cmd!Cardinality(E) < 2)
    BY <1>1, <1>4 DEF Cmd!Told
  <2>2. n \in F /\ F \subseteq 1..Len(lines)
    BY <1>2, <2>1 DEF Cmd!FailuresAt
  <2>3. IsFiniteSet(F) /\ IsFiniteSet(E) /\ Cardinality(E) \in Nat /\ Cardinality(F) \in Nat
    <3>1. IsFiniteSet(1..Len(lines))
      BY <1>2, FS_Interval
    <3>2. IsFiniteSet(F)
      BY <2>2, <3>1, FS_Subset
    <3>3. IsFiniteSet(E)
      BY <3>2, FS_Subset
    <3> QED BY <3>2, <3>3, FS_CardinalityType
  <2>4. n \notin E /\ E \union {n} \subseteq F
    BY <2>2
  <2> HIDE DEF E, F
  <2>5. IsFiniteSet(E \union {n}) /\ Cardinality(E \union {n}) = Cardinality(E) + 1
    BY <2>3, <2>4, FS_AddElement
  <2>6. Cardinality(E \union {n}) <= Cardinality(F)
    BY <2>3, <2>4, FS_Subset
  <2>7. Cmd!Cardinality(E) = Cardinality(E) /\ Cmd!Cardinality(F) = Cardinality(F)
    BY SameCount
  <2>8. Cmd!Cardinality(F) > 2
    BY <2>1, <2>3, <2>5, <2>6, <2>7
  <2> QED BY <2>1, <2>8 DEF Cmd!Crowded, F
<1> QED BY <1>3, <1>4

\* A stop is heard by every strategy it addresses and by that one's orders, or its answer names the
\* failure, or two others of the same exchange; however the calls fail, the bot crashes or requests
\* arrive late, for any items, exchanges and sequence of buttons.
THEOREM StopsAreHeard == ASSUME CommandsSound PROVE Cmd!Spec => []StopIsHeard
<1>1. CmdInv => StopIsHeard
  <2> SUFFICES ASSUME CmdInv PROVE StopIsHeard
    OBVIOUS
  <2>1. Cmd!StopReaches
    <3> SUFFICES ASSUME busy, todo = <<>>, Cmd!Current.verb \in Stops,
                        NEW i \in Cmd!Current.items \ touched
                 PROVE  Cmd!Stopped(i) \/ i \in Cmd!Named \/ Cmd!Crowded(ExchangeOf[i])
      BY DEF Cmd!StopReaches, Stops
    <3>1. CASE i \notin errors
      <4>1. Met(i) /\ \A D : ~Has(todo, i, D)
        BY <3>1 DEF CmdInv, Owed, Has
      <4> QED BY <4>1 DEF Met, Cmd!Stopped
    <3>2. CASE i \in errors
      <4>1. i \in Items /\ OnTheList(i)
        BY <3>2 DEF CmdInv, CmdTypes, Reported
      <4> QED BY <4>1, ToldOrCrowded
    <3> QED BY <3>1, <3>2
  <2> QED BY <2>1 DEF CmdInv, StopIsHeard, Cmd!StopIsHeard
<1> QED BY <1>1, CmdHolds, PTL

\* The last update that addresses an item.
LEMMA LastExists ==
  ASSUME NEW S \in SUBSET Nat, S # {}, NEW b \in Nat, \A n \in S : n <= b
  PROVE  \E n \in S : \A m \in S : m <= n
<1> DEFINE T == {k \in Nat : b - k \in S}
<1>1. T \in SUBSET Nat /\ T # {}
  <2>1. PICK n \in S : TRUE
    OBVIOUS
  <2>2. b - n \in Nat /\ b - (b - n) = n
    BY <2>1
  <2> QED BY <2>1, <2>2
<1>2. PICK k \in T : \A j \in T : k <= j
  <2> HIDE DEF T
  <2> QED BY <1>1, Least
<1>3. ASSUME NEW m \in S PROVE m <= b - k
  <2>1. b - m \in T
    <3>1. b - m \in Nat /\ b - (b - m) = m
      OBVIOUS
    <3> QED BY <3>1
  <2>2. k <= b - m /\ k \in Nat
    BY <1>2, <2>1
  <2> QED BY <2>2
<1> QED BY <1>2, <1>3

\* When everything pressed has been handled, the last button for an item wins, though the bot
\* crashed and handled a batch again.
THEOREM LastWordsWin == ASSUME CommandsSound PROVE Cmd!Spec => []LastWordWins
<1>1. CmdInv => LastWordWins
  <2> SUFFICES ASSUME CmdInv, ~busy, done = Len(inbox), NEW i \in Items \ (errors \union touched),
                      Cmd!Addressing(i) # {}
               PROVE  /\ Cmd!LastWord(i) \in {"start", "startall"} => enabled[i]
                      /\ Cmd!LastWord(i) \in {"stop", "stopall", "exchange"} => ~enabled[i]
    BY DEF LastWordWins, Cmd!LastWordWins
  <2> DEFINE S == Cmd!Addressing(i)
             n == CHOOSE n \in S : \A m \in S : m <= n
  <2>1. done \in Nat /\ S = {k \in 1..done : i \in inbox[k].items}
    BY LenProperties DEF CmdInv, CmdTypes, Cmd!Addressing
  <2>2. \E k \in S : \A m \in S : m <= k
    <3>1. S \in SUBSET Nat /\ \A k \in S : k <= done
      BY <2>1
    <3> HIDE DEF S
    <3> QED BY <2>1, <3>1, LastExists DEF S
  <2>3. n \in S /\ \A m \in S : m <= n
    BY <2>2
  <2>4. Cmd!LastWord(i) = inbox[n].verb
    BY DEF Cmd!LastWord
  <2> HIDE DEF n
  <2>5. n \in 1..done /\ LastFor(i, n, done)
    BY <2>1, <2>3 DEF LastFor
  <2>6. Heeded(i, n)
    BY <2>5 DEF CmdInv, Obeyed
  <2> QED BY <2>4, <2>6 DEF Heeded, Stops
<1> QED BY <1>1, CmdHolds, PTL

-----------------------------------------------------------------------------
(* The release scripts *)

\* What the variables hold; a directory of number 0 is none.
Directories == Release!Names \union {0}

\* What the scripts keep.
Scripts ==
    [kind : {"none", "deploy", "rollback"},
     at : {"idle", "preflight", "mkdir", "copy", "link", "back", "restart",
           "postflight", "smoke", "complete"},
     to : Directories, todo : SUBSET Units, warned : SUBSET Units, allow : BOOLEAN]

\* What the variables hold.
ReleaseTypes ==
    /\ packed \subseteq Versions
    /\ tree \in [Release!Names -> {"none", "partial", "whole"}]
    /\ holds \in [Release!Names -> Versions \union {Release!NoVersion}]
    /\ current \in Directories /\ undo \in Directories
    /\ runs \in [Units -> Directories] /\ up \subseteq Units
    /\ script \in Scripts

\* What the link points at and what runs is there, and what listens is no faulty version.
OnDisk ==
    /\ \A r \in {current, undo} : r # 0 => Release!Exists(r)
    /\ \A u \in Units : runs[u] # 0 => Release!Exists(runs[u])
    /\ \A u \in up : runs[u] # 0 /\ holds[runs[u]] \notin Faulty

\* A deploy links what it has copied, the newest directory; a rollback has one to go back to.
Linking == {"copy", "link"}
Prepared ==
    /\ script.at \in Linking =>
         /\ script.to \in Release!Names /\ script.to # current
         /\ tree[script.to] = (IF script.at = "copy" THEN "partial" ELSE "whole")
         /\ \A r \in Release!Names : Release!Exists(r) => r <= script.to
    /\ script.at \in {"preflight", "mkdir"} \union Linking => script.kind = "deploy"
    /\ script.at = "back" => script.kind = "rollback" /\ current # 0 /\ Release!Earlier # {}

\* From the link on: a unit runs the release, is down, was warned of, or is still to be restarted.
Serving == {"restart", "postflight", "smoke", "complete"}
Restarted ==
    /\ script.at \in Serving =>
         \A u \in Units \ (script.todo \union script.warned) : runs[u] \in {0, current}
    /\ script.at \in Serving \ {"restart"} => script.todo = {}

\* What a deploy replaced comes right before what it put in its place.
UndoIsNext ==
    undo # 0 => undo < current /\ \A r \in Release!Earlier : r <= undo

\* The inductive invariant.
ReleaseInv == ReleaseTypes /\ OnDisk /\ Prepared /\ Restarted /\ UndoIsNext /\ Release!CompleteAnswers

\* A set of numbers up to some n has a largest.
LEMMA HasMax ==
  ASSUME NEW n \in Nat, NEW S \in SUBSET (0..n), S # {}
  PROVE  Release!Max(S) \in S /\ \A y \in S : y <= Release!Max(S)
<1> DEFINE T == {n - x : x \in S}
           R == {p \in Nat \X Nat : p[1] < p[2]}
<1>1. T \subseteq Nat /\ T # {}
  <2>1. \A x \in S : n - x \in Nat
    OBVIOUS
  <2>2. PICK x \in S : TRUE
    OBVIOUS
  <2>3. n - x \in T
    BY <2>2
  <2> QED BY <2>1, <2>3
<1>2. \E m \in T : \A k \in T : <<k, m>> \notin R
  <2>1. IsWellFoundedOn(R, Nat)
    BY LessIsWellFounded
  <2> HIDE DEF T, R
  <2> QED BY <1>1, <2>1, WFMin
<1>3. PICK m \in T : \A k \in T : <<k, m>> \notin R
  BY <1>2
<1>4. PICK x \in S : m = n - x
  BY <1>3
<1>5. ASSUME NEW y \in S PROVE x >= y
  <2>1. n - y \in T /\ n - y \in Nat /\ m \in Nat /\ x \in 0..n /\ y \in 0..n
    BY <1>3
  <2>2. <<n - y, m>> \notin R
    BY <1>3, <2>1
  <2> QED BY <1>4, <2>1, <2>2
<1> HIDE DEF T, R
<1>6. \A y \in S : Release!Max(S) >= y
  BY <1>5 DEF Release!Max
<1>7. Release!Max(S) \in S
  BY <1>5 DEF Release!Max
<1> QED
  BY <1>6, <1>7

\* What the model assumes of its constants.
ReleaseSound == Release!DeployAssumption

LEMMA RelNumbers ==
  ASSUME ReleaseSound
  PROVE  Directories \subseteq 0..(2 * Seconds + 1) /\ Seconds \in Nat /\ Directories \subseteq Nat
                    /\ 0 \notin Release!Names
  BY DEF ReleaseSound, Release!DeployAssumption, Directories, Release!Names

\* It holds at first.
LEMMA RelInit == ASSUME ReleaseSound, Release!Init PROVE ReleaseInv
  BY DEF Release!Init, Release!Idle, ReleaseInv, ReleaseTypes, Scripts, Directories, OnDisk,
     Prepared, Restarted, UndoIsNext, Linking, Serving,
     Release!CompleteAnswers

\* A step that moves the script alone.
LEMMA Moves ==
  ASSUME ReleaseSound, ReleaseInv, UNCHANGED <<tree, holds, current, undo, runs, up>>,
         packed' \subseteq Versions,
         script' \in Scripts, script'.at \notin {"back"} \union Linking,
         script'.at \in {"preflight", "mkdir"} => script'.kind = "deploy",
         script'.at \in Serving =>
            /\ script.at \in Serving /\ script'.warned = script.warned /\ script'.todo = script.todo
            /\ script'.at \in Serving \ {"restart"} => script.todo = {},
         script'.at = "complete" => script.at = "complete" \/ Release!Answers
  PROVE  ReleaseInv'
<1> USE DEF ReleaseInv
<1>1. ReleaseTypes' /\ OnDisk' /\ UndoIsNext'
  BY DEF ReleaseTypes, OnDisk, UndoIsNext, Release!Exists, Release!Earlier
<1>2. Prepared'
  BY DEF Prepared, Linking
<1>3. Restarted'
  BY DEF Restarted
<1>4. Release!CompleteAnswers'
  <2> SUFFICES ASSUME script'.at = "complete", SmokeSet, Main \notin script.warned
               PROVE  holds[current] \notin Faulty
    BY DEF Release!CompleteAnswers, Serving
  <2>1. CASE script.at = "complete"
    BY <2>1 DEF Release!CompleteAnswers
  <2>2. CASE Release!Answers
    <3>1. Main \in up /\ Main \in Units
      BY <2>2 DEF Release!Answers, ReleaseSound, Release!DeployAssumption
    <3>2. runs[Main] \in {0, current}
      BY <3>1 DEF Restarted, Serving
    <3> QED
      BY <3>1, <3>2 DEF OnDisk
  <2> QED BY <2>1, <2>2
<1> QED BY <1>1, <1>2, <1>3, <1>4

\* The steps of the scripts that change nothing else.
LEMMA ScriptKeeps ==
  ASSUME ReleaseSound, ReleaseInv,
         \/ \E v \in Versions : Release!Pack(v)
         \/ \E allow \in BOOLEAN : Release!Deploy(allow)
         \/ Release!Preflight \/ Release!RestartFails \/ Release!RestartsDone
         \/ Release!Postflight \/ Release!SmokeTest \/ Release!Exit \/ Release!Interrupt
  PROVE  ReleaseInv'
<1> USE DEF ReleaseInv
<1>1. script \in Scripts /\ packed \subseteq Versions /\ Release!Idle \in Scripts
  BY DEF ReleaseTypes, Release!Idle, Scripts, Directories
<1>2. ASSUME NEW v \in Versions, Release!Pack(v) PROVE ReleaseInv'
  <2>1. script.at = "complete" => Release!CompleteAnswers
    OBVIOUS
  <2>2. UNCHANGED <<tree, holds, current, undo, runs, up, script>> /\ packed' \subseteq Versions
    BY <1>1, <1>2 DEF Release!Pack, Release!host
  <2> QED
    BY <2>2 DEF ReleaseTypes, OnDisk, Prepared, Restarted, UndoIsNext, Release!Exists,
       Release!Earlier,
                Release!CompleteAnswers
<1>3. ASSUME NEW allow \in BOOLEAN, Release!Deploy(allow) PROVE ReleaseInv'
  BY <1>1, <1>3, Moves DEF Release!Deploy, Release!Idle, Release!disk, Release!host, Scripts,
     Linking, Serving, Directories
<1>4. ASSUME script' = Release!Idle, UNCHANGED <<packed, tree, holds, current, undo, runs, up>>
      PROVE  ReleaseInv'
  BY <1>1, <1>4, Moves DEF Release!Idle, Linking, Serving
<1>5. CASE Release!RestartFails \/ Release!Exit \/ Release!Interrupt
  BY <1>4, <1>5 DEF Release!RestartFails, Release!Exit, Release!Interrupt, Release!disk,
     Release!host
<1>6. ASSUME script' = [script EXCEPT !.at = "mkdir"], Release!Preflight PROVE ReleaseInv'
  BY <1>1, <1>6, Moves DEF Release!Preflight, Release!disk, Release!host, Prepared, Scripts,
     Linking, Serving
<1>7. CASE Release!RestartsDone
  BY <1>1, <1>7, Moves DEF Release!RestartsDone, Release!disk, Release!host, Scripts, Linking,
     Serving
<1>8. ASSUME script' = [script EXCEPT !.at = "smoke"], Release!Postflight PROVE ReleaseInv'
  BY <1>1, <1>8, Moves DEF Release!Postflight, Release!disk, Release!host, Restarted, Scripts,
     Linking, Serving
<1>9. ASSUME script' = [script EXCEPT !.at = "complete"], Release!SmokeTest, Release!Answers
      PROVE  ReleaseInv'
  BY <1>1, <1>9, Moves DEF Release!SmokeTest, Release!disk, Release!host, Restarted, Scripts,
     Linking, Serving
<1> QED
  BY <1>2, <1>3, <1>4, <1>5, <1>6, <1>7, <1>8, <1>9 DEF Release!Preflight, Release!Postflight,
     Release!SmokeTest,
     Release!disk, Release!host

\* A rollback has a directory to go back to when it begins.
LEMMA RollbackKeeps ==
  ASSUME ReleaseSound, ReleaseInv, NEW allow \in BOOLEAN, Release!Rollback(allow)
  PROVE  ReleaseInv'
<1> USE DEF ReleaseInv
<1>1. script' = [Release!Idle EXCEPT !.kind = "rollback", !.at = "back", !.allow = allow]
  BY DEF Release!Rollback
<1>2. script' \in Scripts /\ script'.kind = "rollback" /\ script'.at = "back"
  BY <1>1 DEF Release!Idle, Scripts, Directories
<1> QED
  BY <1>2 DEF Release!Rollback, Release!disk, Release!host, ReleaseTypes, OnDisk, Prepared,
     Restarted, UndoIsNext,
     Release!Exists, Release!Earlier, Release!CompleteAnswers, Linking, Serving

\* A new directory is newer than every other.
LEMMA MakeKeeps == ASSUME ReleaseSound, ReleaseInv, Release!MakeDirectory PROVE ReleaseInv'
<1> USE DEF ReleaseInv
<1>1. PICK s \in 1..Seconds, v \in packed :
         /\ \A r \in Release!Names : Release!Exists(r) => r <= 2 * s
         /\ tree' = [tree EXCEPT ![Release!NameOf(s)] = "partial"]
         /\ holds' = [holds EXCEPT ![Release!NameOf(s)] = v]
         /\ script' = [script EXCEPT !.at = "copy", !.to = Release!NameOf(s)]
  BY DEF Release!MakeDirectory
<1> DEFINE d == Release!NameOf(s)
<1>2. d \in Release!Names /\ ~Release!Exists(d) /\ \A r \in Release!Names : Release!Exists(r) => r <= d
  BY <1>1, RelNumbers DEF Release!NameOf, Release!Names, Release!Exists
<1> HIDE DEF d
<1>3. script' = [script EXCEPT !.at = "copy", !.to = d] /\ tree' = [tree EXCEPT ![d] = "partial"]
      /\ holds' = [holds EXCEPT ![d] = v] /\ UNCHANGED <<packed, current, undo, runs, up>>
  BY <1>1 DEF Release!MakeDirectory, Release!host, d
<1>4. script.at = "mkdir" /\ script.kind = "deploy"
  BY DEF Release!MakeDirectory, Prepared
<1>5. script' \in Scripts /\ script'.at = "copy" /\ script'.to = d /\ script'.kind = "deploy"
  BY <1>2, <1>3, <1>4 DEF ReleaseTypes, Scripts, Directories
<1>6. \A r \in Release!Names : r # d => tree'[r] = tree[r] /\ holds'[r] = holds[r]
  BY <1>2, <1>3 DEF ReleaseTypes
<1>7. tree'[d] = "partial"
  BY <1>2, <1>3 DEF ReleaseTypes
<1>8. d # current /\ d # undo /\ \A u \in Units : runs[u] # d
  BY <1>2, RelNumbers DEF OnDisk
<1>9. ReleaseTypes'
  BY <1>2, <1>3, <1>5 DEF ReleaseTypes
<1>10. OnDisk'
  BY <1>3, <1>6, <1>8 DEF OnDisk, ReleaseTypes, Directories, Release!Exists
<1>11. Prepared'
  BY <1>2, <1>3, <1>5, <1>6, <1>7, <1>8 DEF Prepared, Linking, Release!Exists, Release!Names
<1>12. Restarted' /\ Release!CompleteAnswers'
  BY <1>5 DEF Restarted, Serving, Release!CompleteAnswers
<1>13. UndoIsNext'
  <2> SUFFICES ASSUME undo # 0 PROVE undo < current /\ \A r \in Release!Earlier' : r <= undo
    BY <1>3 DEF UndoIsNext
  <2>1. undo < current /\ \A r \in Release!Earlier : r <= undo
    BY DEF UndoIsNext
  <2>2. current \in Release!Names /\ Release!Exists(current)
    BY <2>1, RelNumbers DEF ReleaseTypes, Directories, OnDisk
  <2>3. ~(d < current)
    BY <1>2, <2>2 DEF Release!Names
  <2> QED
    BY <1>3, <1>6, <2>1, <2>3 DEF Release!Earlier, Release!Exists
<1> QED BY <1>9, <1>10, <1>11, <1>12, <1>13

\* What is copied is whole before it is linked.
LEMMA CopyKeeps == ASSUME ReleaseSound, ReleaseInv, Release!CopyTree PROVE ReleaseInv'
<1> USE DEF ReleaseInv
<1>1. /\ script.at = "copy" /\ script' = [script EXCEPT !.at = "link"] /\ tree' = [tree EXCEPT ![script.to] = "whole"]
      /\ UNCHANGED <<packed, holds, current, undo, runs, up>>
  BY DEF Release!CopyTree, Release!host
<1>2. script.to \in Release!Names /\ tree[script.to] = "partial" /\ script.kind = "deploy"
  BY <1>1 DEF Prepared, Linking
<1>3. script' \in Scripts /\ script'.at = "link" /\ script'.to = script.to /\ script'.kind = "deploy"
  BY <1>1, <1>2 DEF ReleaseTypes, Scripts
<1>4. \A r \in Release!Names : tree'[r] = IF r = script.to THEN "whole" ELSE tree[r]
  BY <1>1, <1>2 DEF ReleaseTypes
<1>5. \A r \in Release!Names : (tree'[r] = "none") <=> (tree[r] = "none")
  BY <1>2, <1>4
<1>6. ReleaseTypes'
  BY <1>1, <1>2, <1>3 DEF ReleaseTypes
<1>7. OnDisk' /\ UndoIsNext'
  BY <1>1, <1>5 DEF OnDisk, UndoIsNext, ReleaseTypes, Directories, Release!Exists,
     Release!Earlier
<1>8. Prepared'
  BY <1>1, <1>2, <1>3, <1>4, <1>5 DEF Prepared, Linking, Release!Exists
<1>9. Restarted' /\ Release!CompleteAnswers'
  BY <1>3 DEF Restarted, Serving, Release!CompleteAnswers
<1> QED BY <1>6, <1>7, <1>8, <1>9

\* The link is switched, by a deploy or a rollback.
LEMMA SwitchKeeps ==
  ASSUME ReleaseSound, ReleaseInv, NEW r \in Release!Names, Release!SwitchTo(r), Release!Exists(r),
         script.kind = "deploy" => script.at = "link" /\ r = script.to,
         script.at \notin Serving
  PROVE  ReleaseInv'
<1> USE DEF ReleaseInv
<1>1. PICK found \in SUBSET Units :
         script' = [script EXCEPT !.at = "restart", !.todo = found, !.warned = Units \ found]
  BY DEF Release!SwitchTo, Release!UnitsIn
<1>2. /\ current' = r /\ UNCHANGED <<packed, tree, holds, runs, up>>
      /\ undo' = IF script.kind = "deploy" /\ current = Release!NewestBut(r) THEN current ELSE 0
  BY DEF Release!SwitchTo, Release!disk, Release!host
<1>3. script' \in Scripts /\ script'.at = "restart" /\ script'.todo \union script'.warned = Units
  BY <1>1 DEF ReleaseTypes, Scripts
<1>4. ReleaseTypes'
  BY <1>2, <1>3 DEF ReleaseTypes, Directories
<1>5. OnDisk'
  BY <1>2 DEF OnDisk, Release!Exists
<1>6. Prepared' /\ Restarted' /\ Release!CompleteAnswers'
  BY <1>3 DEF Prepared, Linking, Restarted, Serving, Release!CompleteAnswers
<1>7. UndoIsNext'
  <2> SUFFICES ASSUME undo' # 0 PROVE current < r /\ \A q \in Release!Earlier' : q <= current
    BY <1>2 DEF UndoIsNext
  <2>1. script.kind = "deploy" /\ current = Release!NewestBut(r) /\ current # 0
    BY <1>2
  <2>2. r = script.to /\ r # current /\ \A q \in Release!Names : Release!Exists(q) => q <= r
    BY <2>1 DEF Prepared, Linking
  <2>3. current \in Release!Names /\ Release!Exists(current)
    BY <2>1 DEF ReleaseTypes, Directories, OnDisk
  <2>4. current < r
    BY <2>2, <2>3, RelNumbers DEF Directories
  <2>5. \A q \in Release!Names \ {r} : Release!Exists(q) => q <= current
    <3> DEFINE S == {0} \union {q \in Release!Names \ {r} : Release!Exists(q)}
    <3>1. S \in SUBSET (0..(2 * Seconds + 1)) /\ S # {} /\ 2 * Seconds + 1 \in Nat
      BY RelNumbers DEF Directories
    <3> HIDE DEF S
    <3>2. \A q \in S : q <= Release!Max(S)
      BY <3>1, HasMax
    <3> USE DEF S
    <3> QED BY <2>1, <3>2 DEF Release!NewestBut
  <2> QED
    BY <1>2, <2>4, <2>5, RelNumbers DEF Release!Earlier, Release!Exists, Directories
<1> QED BY <1>4, <1>5, <1>6, <1>7

\* A rollback goes to the newest of the earlier directories.
LEMMA PreviousIs ==
  ASSUME ReleaseSound, ReleaseInv, Release!LinkBack
  PROVE  Release!Previous \in Release!Earlier /\ \A r \in Release!Earlier : r <= Release!Previous
<1>1. Release!Earlier # {} /\ Release!Earlier \in SUBSET (0..(2 * Seconds + 1)) /\ 2 * Seconds + 1 \in Nat
  BY RelNumbers DEF Release!LinkBack, ReleaseInv, Prepared, Release!Earlier, Directories
<1> QED
  BY <1>1, HasMax DEF Release!Previous

\* A unit that is restarted runs what is linked, and one taken for absent is warned of.
LEMMA RestartKeeps == ASSUME ReleaseSound, ReleaseInv, Release!RestartUnit PROVE ReleaseInv'
<1> USE DEF ReleaseInv
<1>1. PICK u \in script.todo : Release!RestartOf(u) \/ Release!TakenForAbsent(u)
  BY DEF Release!RestartUnit
<1>2. script.at = "restart" /\ u \in Units /\ UNCHANGED <<packed, tree, holds, current, undo>>
  BY DEF Release!RestartUnit, Release!disk, ReleaseTypes, Scripts
<1>3. CASE Release!RestartOf(u)
  <2>1. script' = [script EXCEPT !.todo = @ \ {u}] /\ runs' = [runs EXCEPT ![u] = current] /\ up' = up \ {u}
    BY <1>3 DEF Release!RestartOf, Release!Started
  <2>2. script' \in Scripts /\ script'.at = "restart" /\ script'.todo = script.todo \ {u} /\ script'.warned = script.warned
    BY <1>2, <2>1 DEF ReleaseTypes, Scripts
  <2>3. \A v \in Units : runs'[v] = IF v = u THEN current ELSE runs[v]
    BY <1>2, <2>1 DEF ReleaseTypes
  <2>4. ReleaseTypes'
    BY <1>2, <2>1, <2>2 DEF ReleaseTypes
  <2>5. OnDisk'
    BY <1>2, <2>1, <2>3 DEF OnDisk, Release!Exists, ReleaseTypes
  <2>6. Restarted'
    BY <1>2, <2>1, <2>2, <2>3 DEF Restarted, Serving
  <2>7. Prepared' /\ UndoIsNext' /\ Release!CompleteAnswers'
    BY <1>2, <2>2 DEF Prepared, Linking, UndoIsNext, Release!Earlier, Release!Exists,
       Release!CompleteAnswers
  <2> QED BY <2>4, <2>5, <2>6, <2>7
<1>4. CASE Release!TakenForAbsent(u)
  <2>1. script' = [script EXCEPT !.todo = @ \ {u}, !.warned = @ \union {u}] /\ UNCHANGED <<runs, up>>
    BY <1>4 DEF Release!TakenForAbsent, Release!host
  <2>2. script' \in Scripts /\ script'.at = "restart" /\ script'.todo = script.todo \ {u}
        /\ script'.warned = script.warned \union {u}
    BY <1>2, <2>1 DEF ReleaseTypes, Scripts
  <2>3. ReleaseTypes' /\ OnDisk'
    BY <1>2, <2>1, <2>2 DEF ReleaseTypes, OnDisk, Release!Exists
  <2>4. Restarted'
    BY <1>2, <2>1, <2>2 DEF Restarted, Serving
  <2>5. Prepared' /\ UndoIsNext' /\ Release!CompleteAnswers'
    BY <1>2, <2>2 DEF Prepared, Linking, UndoIsNext, Release!Earlier, Release!Exists,
       Release!CompleteAnswers
  <2> QED BY <2>3, <2>4, <2>5
<1> QED BY <1>1, <1>3, <1>4

\* What a unit does by itself.
LEMMA UnitKeeps ==
  ASSUME ReleaseSound, ReleaseInv, NEW u \in Units,
         Release!UnitListens(u) \/ Release!UnitDies(u) \/ Release!SystemdStarts(u)
  PROVE  ReleaseInv'
<1> USE DEF ReleaseInv
<1>1. UNCHANGED <<packed, tree, holds, current, undo, script>>
  BY DEF Release!UnitListens, Release!UnitDies, Release!SystemdStarts, Release!disk
<1>2. \A v \in Units : runs'[v] = runs[v] \/ (v = u /\ v \notin up' /\ runs'[v] \in {0, current})
  BY DEF Release!UnitListens, Release!UnitDies, Release!SystemdStarts, Release!Started,
     ReleaseTypes
<1>3. runs' \in [Units -> Directories] /\ up' \subseteq Units
  BY DEF Release!UnitListens, Release!UnitDies, Release!SystemdStarts, Release!Started,
     ReleaseTypes, Directories
<1>4. \A v \in up' : runs'[v] # 0 /\ holds[runs'[v]] \notin Faulty
  BY DEF Release!UnitListens, Release!UnitDies, Release!SystemdStarts, Release!Started,
     ReleaseTypes, OnDisk
<1>5. ReleaseTypes' /\ OnDisk'
  BY <1>1, <1>2, <1>3, <1>4 DEF ReleaseTypes, OnDisk, Release!Exists
<1>6. Restarted'
  BY <1>1, <1>2 DEF Restarted
<1>7. Prepared' /\ UndoIsNext' /\ Release!CompleteAnswers'
  BY <1>1 DEF Prepared, UndoIsNext, Release!Earlier, Release!Exists, Release!CompleteAnswers
<1> QED BY <1>5, <1>6, <1>7

\* Every step keeps the invariant.
LEMMA RelNext ==
  ASSUME ReleaseSound, ReleaseInv, [Release!Next]_(Release!vars)
  PROVE  ReleaseInv'
<1>1. CASE UNCHANGED Release!vars
  BY <1>1 DEF Release!vars, ReleaseInv, ReleaseTypes, OnDisk, Prepared, Restarted, UndoIsNext,
     Release!Earlier, Release!Exists, Release!CompleteAnswers
<1>2. CASE Release!Link
  <2>1. script.at = "link" /\ script.kind = "deploy" /\ Release!SwitchTo(script.to)
    BY <1>2 DEF Release!Link
  <2>2. script.to \in Release!Names /\ Release!Exists(script.to)
    BY <2>1 DEF ReleaseInv, Prepared, Linking, Release!Exists
  <2> QED BY <2>1, <2>2, SwitchKeeps DEF Serving
<1>3. CASE Release!LinkBack
  <2>1. /\ Release!Previous \in Release!Earlier /\ script.kind = "rollback" /\ script.at = "back"
        /\ Release!SwitchTo(Release!Previous)
    BY <1>3, PreviousIs DEF Release!LinkBack, ReleaseInv, Prepared
  <2> QED BY <2>1, SwitchKeeps DEF Serving, Release!Earlier
<1> QED
  BY <1>1, <1>2, <1>3, ScriptKeeps, RollbackKeeps, MakeKeeps, CopyKeeps, RestartKeeps, UnitKeeps
     DEF Release!Next

\* It holds in every reachable state.
LEMMA RelHolds == ASSUME ReleaseSound PROVE Release!Spec => []ReleaseInv
<1>1. Release!Init => ReleaseInv
  BY RelInit
<1>2. ReleaseInv /\ [Release!Next]_(Release!vars) => ReleaseInv'
  BY RelNext
<1> QED
  BY <1>1, <1>2, PTL DEF Release!Spec

\* When a script says that it is complete, every unit it found runs the release that is current,
\* whatever units, versions and interrupts there are.
THEOREM ReleasesAreInService ==
  ASSUME ReleaseSound
  PROVE  Release!Spec => []CompleteIsTrue
<1>1. ReleaseInv => CompleteIsTrue
  BY DEF ReleaseInv, Restarted, Serving, CompleteIsTrue, Release!CompleteIsTrue, Release!CompleteRunsCurrent
<1> QED
  BY <1>1, RelHolds, PTL

\* Only the two links move the link.
LEMMA LinkChanges ==
  ASSUME ReleaseInv, Release!Next
  PROVE  \/ Release!Link \/ Release!LinkBack
         \/ UNCHANGED current
  BY DEF Release!Next, Release!Pack, Release!Deploy, Release!Preflight, Release!MakeDirectory,
     Release!CopyTree,
     Release!Rollback, Release!RestartUnit, Release!RestartFails, Release!RestartsDone,
     Release!Postflight,
     Release!SmokeTest, Release!Exit, Release!Interrupt, Release!UnitListens, Release!UnitDies,
     Release!SystemdStarts

\* Only a deploy changes the directories.
LEMMA DiskChanges ==
  ASSUME ReleaseInv, Release!Next
  PROVE  Release!MakeDirectory \/ Release!CopyTree \/ UNCHANGED <<tree, holds>>
  BY DEF Release!Next, Release!Pack, Release!Deploy, Release!Preflight, Release!MakeDirectory,
     Release!CopyTree,
     Release!Link, Release!LinkBack, Release!SwitchTo,
     Release!Rollback, Release!RestartUnit, Release!RestartFails, Release!RestartsDone,
     Release!Postflight,
     Release!SmokeTest, Release!Exit, Release!Interrupt, Release!UnitListens, Release!UnitDies,
     Release!SystemdStarts,
     Release!disk

\* A step that goes back goes back to what the last deploy replaced.
LEMMA Undoes == ASSUME ReleaseSound, ReleaseInv, Release!Next PROVE Release!UndoesDeploy
<1> USE DEF ReleaseInv
<1>1. Release!WholeIsKept
  <2>1. CASE Release!MakeDirectory
    <3>1. PICK s \in 1..Seconds, v \in packed :
         /\ \A r \in Release!Names : Release!Exists(r) => r <= 2 * s
         /\ tree' = [tree EXCEPT ![Release!NameOf(s)] = "partial"]
         /\ holds' = [holds EXCEPT ![Release!NameOf(s)] = v]
      BY <2>1 DEF Release!MakeDirectory
    <3>2. tree[Release!NameOf(s)] = "none"
      BY <3>1, RelNumbers DEF Release!NameOf, Release!Names, Release!Exists
    <3> QED
      BY <3>1, <3>2 DEF Release!WholeIsKept, ReleaseTypes
  <2>2. CASE Release!CopyTree
    BY <2>2 DEF Release!CopyTree, Release!WholeIsKept, ReleaseTypes
  <2>3. CASE UNCHANGED <<tree, holds>>
    BY <2>3 DEF Release!WholeIsKept
  <2> QED BY <2>1, <2>2, <2>3, DiskChanges
<1>2. CASE Release!Link
  <2>1. current' = script.to /\ tree' = tree /\ script.kind = "deploy" /\ tree[script.to] = "whole"
    BY <1>2 DEF Release!Link, Release!SwitchTo, Release!disk, Prepared, Linking
  <2> QED BY <1>1, <2>1 DEF Release!UndoesDeploy, Release!LinksWhole, Release!GoesBack
<1>3. CASE Release!LinkBack
  <2>1. current' = Release!Previous /\ script.kind = "rollback"
    BY <1>3 DEF Release!LinkBack, Release!SwitchTo, Prepared
  <2>2. ASSUME undo # 0 PROVE Release!Previous = undo
    <3>1. undo \in Release!Earlier
      BY <2>2 DEF UndoIsNext, ReleaseTypes, Directories, OnDisk, Release!Earlier
    <3>2. Release!Previous \in Release!Earlier /\ undo <= Release!Previous /\ Release!Previous <= undo
      BY <1>3, <2>2, <3>1, PreviousIs DEF UndoIsNext
    <3> QED
      BY <3>1, <3>2, RelNumbers DEF Release!Earlier, Directories
  <2> QED BY <1>1, <2>1, <2>2 DEF Release!UndoesDeploy, Release!LinksWhole, Release!GoesBack
<1>4. CASE UNCHANGED current
  BY <1>1, <1>4 DEF Release!UndoesDeploy, Release!LinksWhole, Release!GoesBack
<1> QED BY <1>2, <1>3, <1>4, LinkChanges

\* A rollback right after a deploy puts back what that deploy replaced, and a release is never
\* changed once it is whole.
THEOREM RollbacksUndo == ASSUME ReleaseSound PROVE Release!Spec => RollbackUndoes
<1>1. ReleaseInv /\ [Release!Next]_(Release!vars) => [Release!UndoesDeploy]_(Release!vars)
  BY Undoes
<1> QED
  BY <1>1, RelHolds, PTL DEF Release!Spec, RollbackUndoes, Release!RollbackUndoes
=============================================================================
