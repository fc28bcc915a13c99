------------------------------ MODULE SendPage ------------------------------
(***************************************************************************)
(* The send page of the web wallet in the tabs of one browser, beside the  *)
(* gateway it asks for outputs and hands transactions to.  A job is one    *)
(* call of handlePrimarySend or refreshUtxoState: the code between two of  *)
(* its awaits is one action.  The tabs share the marks on spent outputs in *)
(* local storage; the phase, which disables the buttons, is of the page    *)
(* that a tab shows, and starts anew when the user has left it meanwhile.  *)
(***************************************************************************)
EXTENDS Integers, FiniteSets, FiniteSetsExt

CONSTANTS
  Tabs,
  Jobs,        \* at most so many calls are under way at once
  Coins,       \* the outputs of the wallet's address: there are never more
  Deposits,    \* the worth of those there are at first: a function
  Forms,       \* what the form may hold: amount, fee, and whether it pays the fee
  Dust,        \* DUST_ATOMIC
  MaxInputs,   \* MAX_INPUTS
  Retries,     \* UTXO_RETRY_ATTEMPTS
  Troubles     \* what may happen besides: a failure of the "gateway", a "reload"
               \* of a tab, a "leave" of its page, the end of a mark's "time"

PageAssumption == DOMAIN Deposits \subseteq Coins /\ \A c \in DOMAIN Deposits : Deposits[c] \in Nat

VARIABLES
  phase,    \* React state of the page of each tab
  at,       \* what a job awaits, or "free"
  tab, ask, tries, shown, ins,  \* its locals: shown is the listing on its way
  here,     \* a job's page is still the one that its tab shows
  erred,    \* the phase a refresh closed over was "error"
  verdict,  \* the node's word on a job's transaction
  marks,    \* pepew_recent_spent_outpoints
  life, worth,  \* outputs: who knows of them, and their values
  late,     \* transactions on their way whose senders gave up
  told,     \* history: outputs a job learned that it spent, until the marks' time is up
  overlap,  \* history: two listings were under way at once
  reopened  \* history: tabs whose page's phase a refresh cleared under a send

page == <<phase, at, tab, here, ask, tries, shown, ins, erred>>
gateway == <<life, worth, verdict, late>>
history == <<told, overlap, reopened>>
vars == <<page, gateway, marks, history>>

Phases == {"idle", "loading", "fetching", "signing", "broadcasting", "broadcasted", "error"}
Listing == {"listing", "listed", "relisting", "relisted"}
Spending == {"fetching", "signing", "broadcasting"}
Sending == {"listing", "listed", "pause"} \union Spending

\* The phases that disable the buttons and the form; and without the last of them.
BusyUntilSigned == {"loading", "fetching", "signing"}
BusyPhases == {"loading", "fetching", "signing", "broadcasting"}

\* The sends of the page that a tab shows.
Sends(t) == {j \in Jobs : at[j] \in Sending /\ tab[j] = t /\ here[j]}
Listed == {c \in Coins : life[c] \in {"open", "stale"}}
SumOf(C) == MapThenSumSet(LAMBDA c : worth[c], C)

\* recipientAmountAtomic and totalSpentAtomic of the form.
Recipient(a) == IF a.less THEN a.amount - a.fee ELSE a.amount
Total(a) == IF a.less THEN a.amount ELSE a.amount + a.fee
Valid(a) == Recipient(a) > Dust

\* The locals of a job that is not under way.
SomeTab == CHOOSE t \in Tabs : TRUE
SomeForm == CHOOSE a \in Forms : TRUE

Init ==
  /\ phase = [t \in Tabs |-> "idle"]
  /\ at = [j \in Jobs |-> "free"]
  /\ tab = [j \in Jobs |-> SomeTab] /\ here = [j \in Jobs |-> TRUE]
  /\ ask = [j \in Jobs |-> SomeForm] /\ tries = [j \in Jobs |-> 0]
  /\ shown = [j \in Jobs |-> {}] /\ ins = [j \in Jobs |-> {}]
  /\ erred = [j \in Jobs |-> FALSE] /\ verdict = [j \in Jobs |-> "none"]
  /\ marks = {}
  /\ life = [c \in Coins |-> IF c \in DOMAIN Deposits THEN "open" ELSE "none"]
  /\ worth = [c \in Coins |-> IF c \in DOMAIN Deposits THEN Deposits[c] ELSE 0]
  /\ late = {} /\ told = {} /\ overlap = FALSE /\ reopened = {}
-----------------------------------------------------------------------------
(* The steps of a job *)

Show(t, p) == phase' = [phase EXCEPT ![t] = p]
\* A job of a page that was left shows nothing any more.
Shows(j, p) == IF here[j] THEN Show(tab[j], p) ELSE UNCHANGED phase
Go(j, s) == at' = [at EXCEPT ![j] = s]

\* A job that is over leaves nothing behind.
Ends(j) ==
  /\ Go(j, "free") /\ shown' = [shown EXCEPT ![j] = {}] /\ ins' = [ins EXCEPT ![j] = {}]
  /\ tries' = [tries EXCEPT ![j] = 0] /\ erred' = [erred EXCEPT ![j] = FALSE]
  /\ verdict' = [verdict EXCEPT ![j] = "none"]
  /\ tab' = [tab EXCEPT ![j] = SomeTab] /\ ask' = [ask EXCEPT ![j] = SomeForm]
  /\ here' = [here EXCEPT ![j] = TRUE]

\* A request for the outputs leaves.
Lists(j, s) ==
  /\ Go(j, s)
  /\ overlap' = (overlap \/ \E k \in Jobs \ {j} : at[k] \in Listing)

\* The form: its inputs and its buttons are disabled while the tab is busy.
Enabled(t) == phase[t] \notin BusyPhases

\* handlePrimarySend with a form that validates: buildSignedTx begins.
PressSend(t, j) ==
  /\ Enabled(t) /\ at[j] = "free"
  /\ \E a \in Forms : Valid(a) /\ ask' = [ask EXCEPT ![j] = a]
  /\ tab' = [tab EXCEPT ![j] = t] /\ Show(t, "loading") /\ Lists(j, "listing")
  /\ UNCHANGED <<here, tries, shown, ins, erred, gateway, marks, told, reopened>>

\* refreshUtxoState: it shows no phase, and keeps the one that it closed over.
PressRefresh(t, j) ==
  /\ Enabled(t) /\ at[j] = "free"
  /\ tab' = [tab EXCEPT ![j] = t] /\ erred' = [erred EXCEPT ![j] = phase[t] = "error"]
  /\ Lists(j, "relisting")
  /\ UNCHANGED <<phase, here, ask, tries, shown, ins, gateway, marks, told, reopened>>

\* reconcileRecentSpentOutpoints drops a mark whose output is not listed; and one
\* that drops those that are.
KeptIfGone(L) == marks \ L
Kept(L) == marks \intersect L

\* selectUtxos: the largest first, until they make up the target.
Selections(S, target) ==
  {P \in SUBSET S :
     /\ SumOf(P) >= target
     /\ \A p \in P, u \in S \ P : worth[p] >= worth[u]
     /\ \E p \in P : SumOf(P \ {p}) < target /\ \A q \in P : worth[q] >= worth[p]}

Fails(j) == Ends(j) /\ Shows(j, "error")

\* The listing reaches buildSignedTx: it marks, waits for more, gives up or selects.
SendListed(j) ==
  /\ at[j] = "listed"
  /\ marks' = Kept(shown[j])
  /\ LET S == {c \in shown[j] \ Kept(shown[j]) : worth[c] > 0}
         short == SumOf(S) < Total(ask[j])
     IN  \/ /\ short /\ tries[j] < Retries
            /\ Go(j, "pause") /\ tries' = [tries EXCEPT ![j] = @ + 1]
            /\ shown' = [shown EXCEPT ![j] = {}]
            /\ UNCHANGED <<phase, tab, here, ask, ins, erred, verdict>>
         \/ /\ short /\ tries[j] = Retries /\ Fails(j)
         \/ /\ ~short
            /\ \E P \in Selections(S, Total(ask[j])) :
                 \/ Cardinality(P) > MaxInputs /\ Fails(j)
                 \/ /\ Cardinality(P) <= MaxInputs
                    /\ ins' = [ins EXCEPT ![j] = P] /\ shown' = [shown EXCEPT ![j] = {}]
                    /\ Go(j, "fetching") /\ Shows(j, "fetching")
                    /\ UNCHANGED <<tab, here, ask, tries, erred, verdict>>
  /\ UNCHANGED <<life, worth, late, history>>

Resume(j) ==
  /\ at[j] = "pause" /\ Lists(j, "listing")
  /\ UNCHANGED <<phase, tab, here, ask, tries, shown, ins, erred, gateway, marks, told, reopened>>

\* A request for outputs or for a previous transaction fails or is aborted, or
\* what is selected cannot be signed.
SendFails(j) ==
  /\ at[j] \in {"listing", "listed", "fetching", "signing"} /\ "gateway" \in Troubles
  /\ Fails(j)
  /\ UNCHANGED <<life, worth, late, marks, history>>

\* fetchCoreUtxosWithLimit has every previous transaction.
PreviousFetched(j) ==
  /\ at[j] = "fetching" /\ Go(j, "signing") /\ Shows(j, "signing")
  /\ UNCHANGED <<tab, here, ask, tries, shown, ins, erred, gateway, marks, history>>

\* buildAndSignP2PKH, and broadcast sends its result.
Sign(j) ==
  /\ at[j] = "signing" /\ Go(j, "broadcasting") /\ Shows(j, "broadcasting")
  /\ UNCHANGED <<tab, here, ask, tries, shown, ins, erred, gateway, marks, history>>

\* saveRecentSpentOutpoints adds to what the tabs have written so far; and one
\* that writes over it.
SavedOver(C) == C
Saved(C) == marks \union C

\* The gateway's answer: success is marked, and anything else is an error.
Answered(j) ==
  /\ at[j] = "broadcasting" /\ verdict[j] # "none"
  /\ IF verdict[j] = "accepted"
     THEN marks' = Saved(ins[j]) /\ told' = told \union ins[j] /\ Shows(j, "broadcasted")
     ELSE UNCHANGED <<marks, told>> /\ Shows(j, "error")
  /\ Ends(j)
  /\ UNCHANGED <<life, worth, late, overlap, reopened>>

\* What the gateway has not taken yet of a job's transaction may still reach it.
Tx(j) == [ins |-> ins[j], change |-> SumOf(ins[j]) - Recipient(ask[j]) - ask[j].fee]
Orphans(J) == {Tx(j) : j \in {k \in J : at[k] = "broadcasting" /\ verdict[k] = "none"}}

\* fetchWithTimeout aborts after its time, or the connection breaks.
Unanswered(j) ==
  /\ at[j] = "broadcasting" /\ "gateway" \in Troubles
  /\ late' = late \union Orphans({j}) /\ Fails(j)
  /\ UNCHANGED <<life, worth, marks, history>>

\* The refresh has its listing, or goes on without it.
RefreshListed(j) ==
  /\ at[j] = "relisted" /\ marks' = Kept(shown[j])
  /\ Go(j, "balance") /\ shown' = [shown EXCEPT ![j] = {}]
  /\ UNCHANGED <<phase, tab, here, ask, tries, ins, erred, gateway, history>>
RefreshFails(j) ==
  /\ at[j] \in {"relisting", "relisted"} /\ "gateway" \in Troubles
  /\ Go(j, "balance") /\ shown' = [shown EXCEPT ![j] = {}]
  /\ UNCHANGED <<phase, tab, here, ask, tries, ins, erred, gateway, marks, history>>

\* refreshBalance ends, and an error that was shown at the start is taken back,
\* whatever is shown now.
RefreshDone(j) ==
  /\ at[j] = "balance" /\ Ends(j)
  /\ IF erred[j] THEN Shows(j, "idle") ELSE UNCHANGED phase
  /\ reopened' = IF erred[j] /\ here[j] /\ Sends(tab[j]) # {} THEN reopened \union {tab[j]} ELSE reopened
  /\ UNCHANGED <<life, worth, late, marks, told, overlap>>

\* The form is edited or cleared.
Edit(t) ==
  /\ Enabled(t) /\ phase[t] # "idle" /\ Show(t, "idle")
  /\ UNCHANGED <<at, tab, here, ask, tries, shown, ins, erred, gateway, marks, history>>

\* The tab is closed or loaded again: what is in local storage remains.
Reload(t) ==
  LET mine == {j \in Jobs : tab[j] = t /\ at[j] # "free"} IN
  /\ mine # {} /\ "reload" \in Troubles
  /\ late' = late \union Orphans(mine)
  /\ at' = [j \in Jobs |-> IF j \in mine THEN "free" ELSE at[j]]
  /\ shown' = [j \in Jobs |-> IF j \in mine THEN {} ELSE shown[j]]
  /\ ins' = [j \in Jobs |-> IF j \in mine THEN {} ELSE ins[j]]
  /\ tries' = [j \in Jobs |-> IF j \in mine THEN 0 ELSE tries[j]]
  /\ erred' = [j \in Jobs |-> IF j \in mine THEN FALSE ELSE erred[j]]
  /\ verdict' = [j \in Jobs |-> IF j \in mine THEN "none" ELSE verdict[j]]
  /\ tab' = [j \in Jobs |-> IF j \in mine THEN SomeTab ELSE tab[j]]
  /\ ask' = [j \in Jobs |-> IF j \in mine THEN SomeForm ELSE ask[j]]
  /\ here' = [j \in Jobs |-> IF j \in mine THEN TRUE ELSE here[j]]
  /\ Show(t, "idle") /\ reopened' = reopened \ {t}
  /\ UNCHANGED <<life, worth, marks, told, overlap>>

\* A link of the header leaves the page, whose jobs go on: back on it, all is idle.
Leave(t) ==
  LET mine == {j \in Jobs : tab[j] = t /\ at[j] # "free"} IN
  /\ (\E j \in mine : here[j]) /\ "leave" \in Troubles
  /\ here' = [j \in Jobs |-> IF j \in mine THEN FALSE ELSE here[j]]
  /\ Show(t, "idle") /\ reopened' = reopened \ {t}
  /\ UNCHANGED <<at, tab, ask, tries, shown, ins, erred, gateway, marks, told, overlap>>

\* SPENT_OUTPOINT_TTL_MS after it was made.
MarkExpires ==
  /\ "time" \in Troubles
  /\ \E c \in marks \union told : marks' = marks \ {c} /\ told' = told \ {c}
  /\ UNCHANGED <<page, gateway, overlap, reopened>>
-----------------------------------------------------------------------------
(* The gateway: it lists what its indexer knows, which lags behind the node   *)
(* but never goes back.  An output is "new" or "stale" while the two differ.  *)

outside == <<phase, tab, here, ask, tries, erred, marks, history>>

ReadListing(j) ==
  /\ at[j] \in {"listing", "relisting"}
  /\ Go(j, IF at[j] = "listing" THEN "listed" ELSE "relisted")
  /\ shown' = [shown EXCEPT ![j] = Listed]
  /\ UNCHANGED <<outside, ins, gateway>>

Unspent(C) == \A c \in C : life[c] \in {"new", "open"}

\* The node takes a transaction: its inputs are spent, its change is an output.
Takes(x) ==
  /\ Unspent(x.ins)
  /\ LET spent == [c \in Coins |-> IF c \notin x.ins THEN life[c]
                                   ELSE IF life[c] = "open" THEN "stale" ELSE "gone"]
     IN  IF x.change = 0 THEN life' = spent /\ UNCHANGED worth
         ELSE \E c \in Coins :
                /\ life[c] = "none" /\ life' = [spent EXCEPT ![c] = "new"]
                /\ worth' = [worth EXCEPT ![c] = x.change]

NodeAnswers(j) ==
  /\ at[j] = "broadcasting" /\ verdict[j] = "none"
  /\ \/ Takes(Tx(j)) /\ verdict' = [verdict EXCEPT ![j] = "accepted"]
     \/ /\ Unspent(ins[j]) => "gateway" \in Troubles
        /\ verdict' = [verdict EXCEPT ![j] = "refused"] /\ UNCHANGED <<life, worth>>
  /\ UNCHANGED <<page, late, marks, history>>

\* A transaction whose sender gave up arrives, or never does.
LateArrives ==
  /\ \E x \in late : late' = late \ {x} /\ (Takes(x) \/ UNCHANGED <<life, worth>>)
  /\ UNCHANGED <<page, verdict, marks, history>>

IndexerCatchesUp ==
  /\ \E c \in Coins :
       \/ life[c] = "new" /\ life' = [life EXCEPT ![c] = "open"]
       \/ life[c] = "stale" /\ life' = [life EXCEPT ![c] = "gone"]
  /\ UNCHANGED <<page, worth, verdict, late, marks, history>>

Step(j) ==
  \/ SendListed(j) \/ Resume(j) \/ SendFails(j) \/ PreviousFetched(j) \/ Sign(j)
  \/ Answered(j) \/ Unanswered(j)
  \/ RefreshListed(j) \/ RefreshFails(j) \/ RefreshDone(j)
  \/ ReadListing(j) \/ NodeAnswers(j)

Next ==
  \/ \E t \in Tabs :
       \/ Edit(t) \/ Reload(t) \/ Leave(t)
       \/ \E j \in Jobs : PressSend(t, j) \/ PressRefresh(t, j)
  \/ \E j \in Jobs : Step(j)
  \/ MarkExpires \/ LateArrives \/ IndexerCatchesUp

Spec == Init /\ [][Next]_vars
-----------------------------------------------------------------------------
(* Properties *)

TypeOK ==
  /\ phase \in [Tabs -> Phases]
  /\ at \in [Jobs -> Sending \union Listing \union {"free", "balance"}]
  /\ tab \in [Jobs -> Tabs] /\ here \in [Jobs -> BOOLEAN]
  /\ shown \in [Jobs -> SUBSET Coins] /\ ins \in [Jobs -> SUBSET Coins]
  /\ erred \in [Jobs -> BOOLEAN]
  /\ verdict \in [Jobs -> {"none", "accepted", "refused"}]
  /\ marks \subseteq Coins /\ told \subseteq Coins /\ reopened \subseteq Tabs
  /\ life \in [Coins -> {"none", "new", "open", "stale", "gone"}]
  /\ overlap \in BOOLEAN

\* The page of a tab has one send under way at a time, although what disables the
\* button is a phase that every job of the page writes and an edit clears; except
\* where a refresh that began in an error ended under a send, which enables the
\* button too early.  A page that was left has no button, and the next one that
\* the tab shows knows nothing of the send that goes on.
OneSendPerTab ==
  \A j, k \in Jobs :
    /\ j # k /\ tab[j] = tab[k] /\ here[j] /\ here[k]
    /\ at[j] \in Sending /\ at[k] \in Sending
    => tab[j] \in reopened

\* An output that some tab has been told it spent, no tab selects again while the
\* time of its mark lasts, however long the gateway goes on listing it and whatever
\* the other tabs send meanwhile; unless two listings were under way together, of
\* which the older may bring back an output whose mark the younger has dropped.
SelectsUnspent ==
  \A j \in Jobs :
    at[j] # "fetching" /\ at'[j] = "fetching" /\ ~overlap => ins'[j] \intersect told = {}
AvoidsSpent == [][SelectsUnspent]_vars

\* The marks lock nothing away: a marked output is spent.
NothingIsLockedAway == \A c \in marks : life[c] \in {"stale", "gone"}
=============================================================================
