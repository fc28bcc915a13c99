------------------------------ MODULE BotWizards ------------------------------
(****************************************************************************)
(* The conversations in which a user of the Telegram bot sets up exchange    *)
(* keys and the DCA, GRID and MM strategies (services/trade-bot/src).  Each  *)
(* wizard keeps one record per user in a map of its own; the records stay    *)
(* until the wizard ends, or until an update finds them older than fifteen   *)
(* minutes, so several wizards may be pending at once.  A text carries no    *)
(* address: bot.ts offers it to the wizards in turn.  A button of an old     *)
(* message may be pressed at any time, and its value is taken at face value. *)
(*                                                                           *)
(* One user is modelled: the maps are keyed by user.  grammY handles one     *)
(* update after the other, so an update whose request is under way (saving)  *)
(* holds back the next.  An update delivered again after a crash is one more *)
(* press of the same button, which the user may do anyway.  Amounts are      *)
(* small numbers, of the parameters that are not amounts only the fact that  *)
(* they were chosen is kept.                                                 *)
(****************************************************************************)
EXTENDS Integers, FiniteSets

CONSTANTS
    Kinds,           \* the strategies with a wizard: some of DCA, GRID, MM
    Offered,         \* the exchanges on the keyboards
    Symbols,         \* the pairs on the keyboards
    Quotes,          \* amounts per order, on the keyboards and typed
    Minimum,         \* the minimum of each market <<exchange, symbol>>, in the
                     \* registry of trade-api
    OwnMinimum,      \* and in the bot's own table, used when it has no other
    DefaultMinimum,  \* that of a pair which neither has
    MmMinimum,       \* the one MM uses on some exchanges, whatever the tables say
    Disabled,        \* exchanges the registry marks as disabled
    FundsChecked,    \* exchanges whose balance is checked before saving
    Modes,           \* the modes of /dca_set
    ModeMarket,      \* the market of each mode, in the API
    None

Markets == DOMAIN Minimum
Wizards == Kinds \cup {"KEYS"}
Tables == {"registry", "own"}
NaN == -1

(* A request that saves a configuration. *)
Request ==
    [kind : Kinds, exchange : {m[1] : m \in Markets} \cup Offered \cup {None},
     symbol : {m[2] : m \in Markets} \cup Symbols \cup {None}, quote : Quotes,
     picked : SUBSET {"interval", "cap", "levels", "step", "spread", "ops"},
     table : Tables \cup {None}, by : {"wizard", "command"}]

ASSUME BotAssumption ==
    /\ Kinds \subseteq {"DCA", "GRID", "MM"}
    /\ Offered \cap {None, "number"} = {}
    /\ Quotes \subseteq Nat
    /\ None \notin Symbols /\ None \notin Quotes /\ None \notin Request
    /\ {Minimum, OwnMinimum} \subseteq [Markets -> Nat] /\ DefaultMinimum \in Nat
    /\ MmMinimum \in [DOMAIN MmMinimum -> Nat]
    /\ (Offered \cup {None}) \cap Disabled = {} /\ None \notin Tables
    /\ ModeMarket \in [Modes -> Markets]

VARIABLES
    wizard,   \* pendingKeys, pendingDca, pendingGrid, pendingMm
    prompt,   \* what the last message in the chat asks the user to type:
              \* the keys of an exchange, a number, or nothing
    keys,     \* what was stored as the keys of each exchange
    saving,   \* the request that saves a configuration, while it is under way
    config,   \* the configuration row written last
    opened    \* the wizards opened since their last save

vars == <<wizard, prompt, keys, saving, config, opened>>

Parameters == [DCA |-> {"interval", "cap"}, GRID |-> {"levels", "step"},
               MM |-> {"spread", "ops"}, KEYS |-> {"key", "number"}]
Steps == [DCA |-> {"exchange", "pair", "budget", "interval", "budget_cap",
                   "duration_cap"},
          GRID |-> {"exchange", "pair", "levels", "step", "budget"},
          MM |-> {"exchange", "pair", "spread", "order", "orders_per_side"},
          KEYS |-> {"exchange", "apiKey", "apiSecret"}]

(* The steps at which a wizard takes a text, and the order of the handlers. *)
TextSteps == [DCA |-> {"budget", "interval", "budget_cap", "duration_cap"},
              GRID |-> {"levels", "step", "budget"},
              MM |-> {"spread", "order"},
              KEYS |-> {"apiKey", "apiSecret"}]
StrategiesFirst == [KEYS |-> 4, DCA |-> 1, GRID |-> 2, MM |-> 3]  \* a mutant
Rank == [KEYS |-> 1, DCA |-> 2, GRID |-> 3, MM |-> 4]

NoWizard == [step |-> "none", exchange |-> None, symbol |-> None,
             given |-> None, picked |-> {}, table |-> None]
Pending == {w \in Wizards : wizard[w] # NoWizard}
Idle == saving = None

(* The minimum an amount is compared with, of the exchange and the pair the  *)
(* wizard has.  The bot asks trade-api for it each time, or uses an answer   *)
(* of the last seconds; when that fails it uses its own table (t).           *)
In(t) == IF t = "registry" THEN Minimum ELSE OwnMinimum
MinOfExchange(t, x, s) ==  \* a mutant: any pair's
    LET all == {In(t)[m] : m \in {n \in Markets : n[1] = x}}
    IN IF all = {} THEN DefaultMinimum ELSE CHOOSE n \in all : \A o \in all : n <= o
MinOf(t, x, s) == IF <<x, s>> \in Markets THEN In(t)[<<x, s>>] ELSE DefaultMinimum
MmMinOf(t, x, s) == IF x \in DOMAIN MmMinimum THEN MmMinimum[x] ELSE MinOf(t, x, s)

(* The helper looks the pair up in the table of the exchange, which throws   *)
(* when a pair was pressed before any exchange.                              *)
LookupThrows(s) == s.exchange = None /\ s.symbol # None

Init ==
    /\ wizard = [w \in Wizards |-> NoWizard]
    /\ prompt = None
    /\ keys \in [Offered -> {None, "key"}]
    /\ saving = None
    /\ config = None
    /\ opened = {}

------------------------------------------------------------------------------
(* Moving a wizard on: the new record, and the message that follows. *)
Asks(k, s) == IF s.step \in TextSteps[k] \ {"spread"} THEN "number" ELSE None

Put(k, s) ==
    /\ wizard' = [wizard EXCEPT ![k] = s]
    /\ prompt' = Asks(k, s)
    /\ UNCHANGED <<keys, saving, config, opened>>

Forget(w) ==
    /\ wizard' = [wizard EXCEPT ![w] = NoWizard]
    /\ prompt' = None
    /\ UNCHANGED <<keys, saving, config, opened>>

(* A command or a button that only shows something. *)
Look == Idle /\ prompt' = None /\ UNCHANGED <<wizard, keys, saving, config, opened>>

(* A button of a wizard that is older than fifteen minutes. *)
Expire(k) == Idle /\ k \in Pending /\ Forget(k)

(* Sends the configuration of wizard k; the wizard ends with the answer.     *)
(* The table its amount was compared with is noted, for DCA and GRID.        *)
Send(k, s, q) ==
    /\ saving' = [kind |-> k, exchange |-> s.exchange, symbol |-> s.symbol,
                  quote |-> q, picked |-> s.picked, table |-> s.table,
                  by |-> "wizard"]
    /\ opened' = opened \ {k}
    /\ UNCHANGED <<wizard, prompt, keys, config>>

(* Before GRID and MM are saved: no keys, or too little money, ends the      *)
(* wizard; a check that fails is logged and the configuration is saved.      *)
CheckAndSend(k, s, q) ==
    \/ /\ \/ s.exchange = None
          \/ s.exchange \in FundsChecked
          \/ s.exchange # None /\ keys[s.exchange] = None
       /\ Forget(k)
    \/ Send(k, s, q)

------------------------------------------------------------------------------
(* Buttons and commands of the strategy wizards. *)
Open(k) ==
    /\ Idle
    /\ wizard' = [wizard EXCEPT ![k] = [NoWizard EXCEPT !.step = "exchange"]]
    /\ opened' = opened \cup {k}
    /\ prompt' = None
    /\ UNCHANGED <<keys, saving, config>>

(* DCA starts over with the exchange; GRID and MM keep what was chosen. *)
WithExchange(k, s, x) ==
    IF k = "DCA" THEN [NoWizard EXCEPT !.step = "pair", !.exchange = x]
                 ELSE [s EXCEPT !.step = "pair", !.exchange = x]

PressExchange(k, x) ==
    Idle /\ k \in Pending /\ Put(k, WithExchange(k, wizard[k], x))

(* DCA accepts a pair of its exchange and drops the amounts chosen before;   *)
(* GRID and MM accept any pair.                                              *)
WithPair(k, s, p) ==
    CASE k = "DCA"  -> [NoWizard EXCEPT !.step = "budget", !.symbol = p,
                                        !.exchange = s.exchange]
      [] k = "GRID" -> [s EXCEPT !.step = "levels", !.symbol = p]
      [] k = "MM"   -> [s EXCEPT !.step = "spread", !.symbol = p]

PressPair(k, p) ==
    /\ Idle /\ k \in Pending
    /\ k = "DCA" => <<wizard[k].exchange, p>> \in Markets
    /\ Put(k, WithPair(k, wizard[k], p))

(* Levels and step of a GRID, the spread of an MM. *)
Pick(k, parameter, next) ==
    /\ Idle /\ k \in Pending
    /\ Put(k, [wizard[k] EXCEPT !.step = next, !.picked = @ \cup {parameter}])

PressParameter ==
    \/ "GRID" \in Kinds /\ Pick("GRID", "levels", "step")
    \/ "GRID" \in Kinds /\ Pick("GRID", "step", "budget")
    \/ "MM" \in Kinds /\ Pick("MM", "spread", "order")

(* completeGridConfig *)
CompleteGrid(q) ==
    LET s == wizard["GRID"] IN
    \E t \in Tables :
      IF LookupThrows(s) \/ q <= MinOf(t, s.exchange, s.symbol)
      THEN Put("GRID", s)
      ELSE CheckAndSend("GRID", [s EXCEPT !.table = t], q)

PressGridQuote(q) == "GRID" \in Kinds /\ Idle /\ "GRID" \in Pending /\ CompleteGrid(q)

(* The quote of an MM, pressed or typed. *)
MmQuote(q) ==
    LET s == wizard["MM"] IN
    \E t \in Tables :
      IF LookupThrows(s) \/ q <= MmMinOf(t, s.exchange, s.symbol)
      THEN Put("MM", s)
      ELSE Put("MM", [s EXCEPT !.step = "orders_per_side", !.given = q])

PressMmQuote(q) == "MM" \in Kinds /\ Idle /\ "MM" \in Pending /\ MmQuote(q)

MmMissing(s) ==
    s.exchange = None \/ s.symbol = None \/ "spread" \notin s.picked \/ s.given = None

(* Orders per side, the last step of an MM. *)
PressOps ==
    LET s == [wizard["MM"] EXCEPT !.picked = @ \cup {"ops"}] IN
    /\ "MM" \in Kinds /\ Idle /\ "MM" \in Pending
    /\ IF MmMissing(s) THEN Forget("MM") ELSE CheckAndSend("MM", s, s.given)

------------------------------------------------------------------------------
(* The keys wizard. *)
OpenKeys ==
    /\ Idle
    /\ wizard' = [wizard EXCEPT !["KEYS"] = [NoWizard EXCEPT !.step = "exchange"]]
    /\ prompt' = None
    /\ UNCHANGED <<keys, saving, config, opened>>

(* Works without a wizard, and starts over when there is one. *)
PressKeysExchange(x) ==
    /\ Idle
    /\ wizard' = [wizard EXCEPT !["KEYS"] = [NoWizard EXCEPT !.step = "apiKey",
                                                            !.exchange = x]]
    /\ prompt' = x
    /\ UNCHANGED <<keys, saving, config, opened>>

ClearKeys(x) ==
    /\ Idle
    /\ keys' \in {keys, [keys EXCEPT ![x] = None]}
    /\ prompt' = None
    /\ UNCHANGED <<wizard, saving, config, opened>>

(* What a text is taken for by a reader of the chat. *)
TypedFor == IF prompt = "number" THEN "number" ELSE "key"

TypeKey ==
    LET s == wizard["KEYS"] IN
    IF s.step = "apiKey"
    THEN /\ wizard' = [wizard EXCEPT !["KEYS"].step = "apiSecret",
                                     !["KEYS"].picked = {TypedFor}]
         /\ prompt' = s.exchange
         /\ UNCHANGED <<keys, saving, config, opened>>
    ELSE /\ keys' \in {keys, [keys EXCEPT ![s.exchange] =
                         IF "number" \in s.picked \cup {TypedFor} THEN "number" ELSE "key"]}
         /\ wizard' = [wizard EXCEPT !["KEYS"] = NoWizard]
         /\ prompt' = None
         /\ UNCHANGED <<saving, config, opened>>

------------------------------------------------------------------------------
(* A text: the first handler that takes it keeps it.  A handler takes it at  *)
(* a step that asks for one, or to say that its wizard is too old.           *)
AtText(w) == wizard[w].step \in TextSteps[w]

TypeDca(n) ==
    \E t \in Tables :
      LET s == wizard["DCA"]
          next == CASE s.step = "budget" /\ n > MinOf(t, s.exchange, s.symbol) ->
                         [s EXCEPT !.step = "interval", !.given = n, !.table = t]
                    [] s.step = "interval" /\ n >= 1 ->
                         [s EXCEPT !.step = "budget_cap", !.picked = @ \cup {"interval"}]
                    [] s.step = "budget_cap" /\ n # NaN ->
                         [s EXCEPT !.step = "duration_cap", !.picked = @ \cup {"cap"}]
                    [] OTHER -> s
      IN IF s.step = "duration_cap" /\ n # NaN THEN Send("DCA", s, s.given)
                                               ELSE Put("DCA", next)

TypeGrid(n) ==
    LET s == wizard["GRID"] IN
    CASE s.step = "levels" /\ n >= 1 ->
           Put("GRID", [s EXCEPT !.step = "step", !.picked = @ \cup {"levels"}])
      [] s.step = "step" /\ n >= 1 ->
           Put("GRID", [s EXCEPT !.step = "budget", !.picked = @ \cup {"step"}])
      [] s.step = "budget" -> CompleteGrid(n)
      [] OTHER -> Put("GRID", s)

TypeMm(n) == IF wizard["MM"].step = "order" THEN MmQuote(n) ELSE Put("MM", wizard["MM"])

Text(n) ==
    \E w \in Pending :
      /\ Idle
      /\ \A v \in Pending : Rank[v] < Rank[w] => ~AtText(v)
      /\ \/ Forget(w)
         \/ AtText(w) /\ w = "KEYS" /\ TypeKey
         \/ AtText(w) /\ w = "DCA" /\ TypeDca(n)
         \/ AtText(w) /\ w = "GRID" /\ TypeGrid(n)
         \/ AtText(w) /\ w = "MM" /\ TypeMm(n)

------------------------------------------------------------------------------
(* /dca_set: the bot looks the mode up as if it were a pair, which no table  *)
(* has; the API chooses the market, for one mode that of an exchange which   *)
(* is disabled.                                                              *)
DcaSet(m, q) ==
    /\ Idle /\ "DCA" \in Kinds
    /\ q > DefaultMinimum
    /\ saving' = [kind |-> "DCA", exchange |-> ModeMarket[m][1],
                  symbol |-> ModeMarket[m][2], quote |-> q,
                  picked |-> Parameters["DCA"], table |-> None, by |-> "command"]
    /\ UNCHANGED <<wizard, prompt, keys, config, opened>>

(* The routes that save: a market the exchange has; GRID and MM also refuse  *)
(* an exchange that is disabled.                                             *)
Accepts(r) ==
    /\ <<r.exchange, r.symbol>> \in Markets
    /\ r.kind # "DCA" => r.exchange \notin Disabled

(* The answer, the refusal, or an error, of a request that may have been     *)
(* carried out all the same: the wizard is over.                             *)
ReplyKeepsOnError ==  \* a mutant: the wizard survives an error
    /\ saving # None
    /\ \/ /\ Accepts(saving) /\ config' = saving
          /\ wizard' = IF saving.by = "wizard"
                       THEN [wizard EXCEPT ![saving.kind] = NoWizard] ELSE wizard
       \/ config' = config /\ wizard' = wizard
    /\ saving' = None
    /\ prompt' = None
    /\ UNCHANGED <<keys, opened>>
Reply ==
    /\ saving # None
    /\ \/ Accepts(saving) /\ config' = saving
       \/ config' = config
    /\ wizard' = IF saving.by = "wizard"
                 THEN [wizard EXCEPT ![saving.kind] = NoWizard] ELSE wizard
    /\ saving' = None
    /\ prompt' = None
    /\ UNCHANGED <<keys, opened>>

(* The bot stops and starts again: the wizards were in memory, the chat and  *)
(* the request that is under way are not.                                    *)
Crash ==
    /\ wizard' = [w \in Wizards |-> NoWizard]
    /\ \/ saving # None /\ Accepts(saving) /\ config' = saving
       \/ config' = config
    /\ saving' = None
    /\ UNCHANGED <<prompt, keys, opened>>

Next ==
    \/ Look
    \/ \E k \in Kinds : Open(k) \/ Expire(k)
    \/ \E k \in Kinds, x \in Offered : PressExchange(k, x)
    \/ \E k \in Kinds, p \in Symbols : PressPair(k, p)
    \/ PressParameter
    \/ \E q \in Quotes : PressGridQuote(q) \/ PressMmQuote(q)
    \/ PressOps
    \/ OpenKeys
    \/ \E x \in Offered : PressKeysExchange(x) \/ ClearKeys(x)
    \/ \E n \in Quotes \cup {NaN} : Text(n)
    \/ \E m \in Modes, q \in Quotes : DcaSet(m, q)
    \/ Reply
    \/ Crash

Spec == Init /\ [][Next]_vars

------------------------------------------------------------------------------
(* Properties. *)

(* The variables hold what the maps and the chat can hold: no wizard is at a  *)
(* step of another, or carries a parameter it does not have.                  *)
TypeOK ==
    /\ \A w \in Wizards :
         /\ wizard[w] # NoWizard => wizard[w].step \in Steps[w]
         /\ wizard[w].exchange \in Offered \cup {None}
         /\ wizard[w].symbol \in Symbols \cup {None}
         /\ wizard[w].given \in Quotes \cup {None}
         /\ wizard[w].picked \subseteq Parameters[w]
         /\ wizard[w].table \in Tables \cup {None}
    /\ prompt \in Offered \cup {None, "number"}
    /\ keys \in [Offered -> {None, "key", "number"}]
    /\ {saving, config} \subseteq Request \cup {None}
    /\ opened \subseteq Kinds

(* While the bot's last message asks for an API key or a secret, what the     *)
(* user types never becomes a parameter of a strategy, whichever wizards were *)
(* left half-way and however long ago: the keys handler comes first and keeps *)
(* even the text it refuses.                                                  *)
SecretsStayPrivate ==
    [][(prompt \in Offered /\ \E n \in Quotes \cup {NaN} : Text(n))
         => saving' = saving /\ \A k \in Kinds : wizard'[k] = wizard[k]]_vars

(* A DCA or GRID saved by its wizard orders more than the minimum of the      *)
(* market it trades on, whatever old buttons were pressed in between: the     *)
(* minimum checked is that of the pair chosen last.  It is the registry's,    *)
(* or the bot's own if the registry could not be had when the amount was      *)
(* given.  An MM keeps its amount when another pair is pressed, and may be    *)
(* saved below that one's minimum.                                            *)
QuoteFits ==
    (config # None /\ config.by = "wizard" /\ config.kind # "MM")
        => /\ config.table \in Tables
           /\ config.quote > In(config.table)[<<config.exchange, config.symbol>>]

(* A pair pressed on the keyboard of another exchange never makes a           *)
(* configuration of a market that does not exist; only /dca_set makes one of  *)
(* an exchange that is disabled.                                              *)
OnlyRealMarkets ==
    config # None
        => /\ <<config.exchange, config.symbol>> \in Markets
           /\ config.exchange \in Disabled => config.by = "command"

(* A DCA or MM is saved with all of its parameters chosen, in whatever order  *)
(* the buttons of old messages were pressed.                                  *)
CompleteWhenSaved ==
    config # None /\ config.kind # "GRID"
        => config.picked = Parameters[config.kind]

(* What a wizard saves is complete, over its market's minimum and on a market *)
(* that may trade.                                                            *)
SavedIsSound == QuoteFits /\ CompleteWhenSaved /\ OnlyRealMarkets

(* A wizard saves once: between two saves of the same kind the user opened    *)
(* the wizard again, so a second tap on the last button, or a try after an    *)
(* error of unknown outcome, does not save again.                             *)
DoubleTapIsHarmless ==
    [][(saving = None /\ saving' # None /\ saving'.by = "wizard")
         => saving'.kind \in opened]_vars
===============================================================================
