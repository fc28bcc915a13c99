---------------------------- MODULE DevmmRunner ----------------------------
(***************************************************************************)
(* The developer-fee market maker of services/trade-api on one exchange:   *)
(* its tick, POST start, stop and cancel-unknown-orders, and the exchange. *)
(* A tick keeps one buy and one sell:                                      *)
(*                                                                         *)
(*   market -> list -> listed -> (surplus ->) stray -> check (-> query)    *)
(*     -> stale (-> confirm -> place) -> place -> creating -> verify       *)
(*                                                                         *)
(* runningExchanges admits one tick, so its locals are single variables.   *)
(* Memory keeps the orders not yet seen in a listing (pending) and the     *)
(* orders placed since the process began (placed); devmm_state keeps one   *)
(* order id per side (tracked).  Prices, funds, caps and market guards are *)
(* the choices they lead to.                                               *)
(***************************************************************************)
EXTENDS Integers, FiniteSetsExt

CONSTANTS
  Exchanges,         \* which of the three exchanges the instance may be about
  Jobs,              \* concurrent stop and cancel-unknown-orders requests
  SoftMax,           \* DEVMM_MAX_OPEN_ORDERS_SOFT: none is placed from there on
  Bounds             \* what bounds a behaviour: copies, per side the numbers that
                     \*   tell the strategy's orders apart, foreign, the other orders
                     \*   of the account on the market, faults, how many of the
                     \*   network and of the process there are, and total,
                     \*   MAX_TOTAL_ORDERS: more managed orders are cancelled

Sides == {"BUY", "SELL"}
Other(s) == IF s = "BUY" THEN "SELL" ELSE "BUY"
OwnIn(b) == UNION {[side : {s}, copy : b.copies[s]] : s \in Sides}
Own == UNION {OwnIn(b) : b \in Bounds}
Foreign == UNION {b.foreign : b \in Bounds}
Orders == Own \union Foreign
NoOrder == [side |-> "none", copy |-> 0]

ASSUME ExchangesAreKnown == Exchanges \subseteq {"nonkyc", "nestex", "dextrade"}
ASSUME BoundsAreKnown ==
  \A b \in Bounds : b.copies \in [Sides -> SUBSET Nat] /\ b.faults \in Nat /\ b.total \in Nat
ASSUME ForeignAreOrders == \A o \in Foreign : o.side \in Sides /\ o \notin Own /\ o # NoOrder
ASSUME DevmmBounds == SoftMax \in Nat

VARIABLES
  exchange, bounds,        \* of the behaviour, never changed
  enabled, tracked,        \* devmm_config, devmm_state
  boot, pending, over,     \* memory: bootstrap window open, orders not yet visible,
  placed,                  \*   those whose grace has passed, locally placed orders
  sent, live, unseen,      \* the exchange: on their way, open, shown in no listing yet
  filled,                  \*   and filled
  running, pc,             \* runningExchanges; the call the tick awaits
  st, raw, blind, todo,    \* locals of the tick: state, rawOpenOrders, a misleading listing
  side, unmanaged, suppressed, plan, cur, refresh, made, verdict,
  jpc, mode, known, tried, ids, calm,   \* the requests
  hidden,                  \* history: unseen when the process died, nor since by a tick
  lost,                    \* history: orders the bookkeeping has lost to a fault
  booked,                  \* history: orders this tick recorded as filled
  stopped,                 \* history: a calm stop is complete
  faults

setting == <<exchange, bounds>>
db     == <<enabled, tracked>>
memory == <<boot, pending, over, placed>>
book   == <<sent, live, unseen, filled>>
locals == <<st, raw, blind, todo, side, unmanaged, suppressed, plan, cur, refresh, made, verdict>>
tick   == <<running, pc, locals>>
jobs   == <<jpc, mode, known, tried, ids, calm>>
history == <<hidden, lost, booked, stopped>>
vars == <<setting, db, memory, book, tick, jobs, history, faults>>

OnBook == sent \union live
Untracked == [s \in Sides |-> NoOrder]
IdsOf(t) == {t[s] : s \in Sides} \ {NoOrder}

TypeOK ==
  /\ exchange \in Exchanges /\ bounds \in Bounds /\ enabled \in BOOLEAN /\ boot \in BOOLEAN
  /\ \A t \in {tracked, st} : t \in [Sides -> Own \union {NoOrder}] /\ \A s \in Sides : t[s].side \in {s, "none"}
  /\ pending \subseteq Own /\ over \subseteq pending /\ placed \subseteq Own
  /\ sent \subseteq Own /\ live \subseteq Orders /\ sent \intersect live = {}
  /\ unseen \subseteq live /\ filled \subseteq Orders
  /\ running = (pc # "idle")
  /\ pc \in {"idle", "market", "list", "listed", "surplus", "stray", "check", "query", "stale",
             "relist", "relisted", "confirm", "plan", "place", "creating", "verify"}
  /\ \A S \in {raw, todo} : S \subseteq Orders
  /\ \A c \in {blind, unmanaged, refresh, made, stopped} : c \in BOOLEAN
  /\ side \in Sides /\ suppressed \subseteq Sides /\ plan \subseteq Sides
  /\ cur \in Own \union {NoOrder} /\ verdict \in {"none", "made", "refused"}
  /\ jpc \in [Jobs -> {"idle", "list", "cancel", "sweep", "again", "end"}]
  /\ mode \in [Jobs -> {"managed", "unknown"}]
  /\ \A f \in {known, tried, ids} : f \in [Jobs -> SUBSET Orders]
  /\ calm \in [Jobs -> BOOLEAN]
  /\ \A S \in {hidden, lost, booked} : S \subseteq Own
  /\ faults \in 0..bounds.faults

\* Something fails that need not: a listing, a cancel, a reply, the process.
Fault == faults < bounds.faults /\ faults' = faults + 1

NoLocals ==
  /\ st = Untracked /\ raw = {} /\ blind = FALSE /\ todo = {} /\ side = "BUY"
  /\ unmanaged = FALSE /\ suppressed = {} /\ plan = {} /\ cur = NoOrder
  /\ refresh = FALSE /\ made = FALSE /\ verdict = "none"
IdleJobs ==
  /\ jpc = [j \in Jobs |-> "idle"] /\ mode = [j \in Jobs |-> "managed"]
  /\ known = [j \in Jobs |-> {}] /\ tried = [j \in Jobs |-> {}] /\ ids = [j \in Jobs |-> {}]
  /\ calm = [j \in Jobs |-> FALSE]

Init ==
  /\ exchange \in Exchanges /\ bounds \in Bounds
  /\ enabled = FALSE /\ tracked = Untracked
  /\ boot = FALSE /\ pending = {} /\ over = {} /\ placed = {}
  /\ sent = {} /\ live = bounds.foreign /\ unseen = {} /\ filled = {}
  /\ running = FALSE /\ pc = "idle" /\ NoLocals /\ IdleJobs
  /\ hidden = {} /\ lost = {} /\ booked = {} /\ stopped = FALSE /\ faults = 0
-----------------------------------------------------------------------------
(* Vocabulary of the tick *)

First(S) == CHOOSE o \in S : TRUE
OfSide(s, S) == {o \in S : o.side = s}

\* An id may stand for a new order once nothing refers to the old one.
Fresh(o) == o \notin OnBook \union IdsOf(tracked) \union IdsOf(st) \union pending \union raw
                     \union UNION {known[j] \union tried[j] \union ids[j] : j \in Jobs}

Spare(s) == \E o \in OfSide(s, OwnIn(bounds)) : Fresh(o)     \* the bound on orders

\* Only NonKYC keeps the client order id, whose prefix marks the strategy's orders.
HasPrefix(o) == exchange = "nonkyc" /\ o \in Own
Managed(S, t) == {o \in S : o \in IdsOf(t) \/ HasPrefix(o)}

KeptLocked == UNCHANGED running
\* finally { runningExchanges.delete(exchange) }
Unlocked == running' = FALSE

Return ==
  /\ Unlocked /\ pc' = "idle" /\ st' = Untracked /\ raw' = {} /\ blind' = FALSE
  /\ todo' = {} /\ side' = "BUY" /\ unmanaged' = FALSE /\ suppressed' = {} /\ plan' = {}
  /\ cur' = NoOrder /\ refresh' = FALSE /\ made' = FALSE /\ verdict' = "none" /\ booked' = {}

\* The exchange answers a listing: an order it has not shown yet may be missing.
Shown(seen) ==
  \E late \in SUBSET unseen : seen = live \ late /\ unseen' = late

\* A listing that fails counts as empty.  The one of NestEx may also say ok and
\* show part of the orders only, or none.
Misleads(seen) ==
  /\ seen \in IF exchange = "nestex" THEN SUBSET live ELSE {{}}
  /\ unseen' = unseen \ seen

\* Orders that are listed are no longer pending; those whose grace is over are pruned.
StillPending(seen) == (pending \ over) \ seen

\* With an id per side missing, the first of the strategy's visible orders is adopted.
Adopted(t, seen) ==
  [s \in Sides |->
     LET mine == {o \in OfSide(s, seen) : HasPrefix(o)}
     IN  IF t[s] = NoOrder /\ mine # {} THEN First(mine) ELSE t[s]]

Strays(S, t) == Managed(S, t) \ IdsOf(t)
-----------------------------------------------------------------------------
(* The tick: what is open *)

TickStart ==
  /\ ~running /\ enabled
  /\ running' = TRUE /\ pc' = "market"
  /\ calm' = [j \in Jobs |-> FALSE]
  /\ UNCHANGED <<setting, db, memory, book, locals, jpc, mode, known, tried, ids, history, faults>>

\* Balances, book or spread may end the tick; else the state is read.
TickMarket ==
  /\ pc = "market"
  /\ \/ Return
     \/ /\ pc' = "list" /\ st' = tracked
        /\ UNCHANGED <<running, raw, blind, todo, side, unmanaged, suppressed, plan, cur, refresh,
                       made, verdict, booked>>
  /\ UNCHANGED <<setting, db, memory, book, jobs, hidden, lost, stopped, faults>>

ExchangeLists ==
  /\ pc \in {"list", "relist"} /\ pc' = IF pc = "list" THEN "listed" ELSE "relisted"
  /\ \/ Shown(raw') /\ blind' = FALSE /\ UNCHANGED faults
     \/ Fault /\ Misleads(raw') /\ blind' = TRUE
  /\ hidden' = hidden \ raw'
  /\ UNCHANGED <<setting, db, memory, sent, live, filled, running, st, todo, side, unmanaged,
                 suppressed, plan, cur, refresh, made, verdict, jobs, lost, booked, stopped>>

\* Adoption re-reads the state it writes.
TickReconcile ==
  /\ pc = "listed"
  /\ LET adopted == Adopted(st, raw)
         updated == [s \in Sides |-> IF adopted[s] # st[s] THEN adopted[s] ELSE tracked[s]]
         mine    == Managed(raw, st')
     IN  /\ IF adopted = st THEN UNCHANGED <<tracked, st, lost>>
            ELSE tracked' = updated /\ st' = updated /\ lost' = lost \ IdsOf(updated)
         /\ unmanaged' = (raw # {} /\ mine = {} /\ st' = Untracked)
         /\ pending' = StillPending(raw) /\ over' = {}
         /\ IF Cardinality(mine) > bounds.total
            THEN /\ pc' = "surplus"
                 /\ todo' \in {T \in SUBSET mine : Cardinality(T) = Cardinality(mine) - bounds.total}
            ELSE pc' = "stray" /\ todo' = Strays(raw, st')
  /\ UNCHANGED <<setting, enabled, boot, placed, book, running, raw, blind, side, suppressed, plan,
                 cur, refresh, made, verdict, jobs, hidden, booked, stopped, faults>>

\* The oldest orders above the hard limit.
TickSurplus ==
  /\ pc = "surplus" /\ todo # {}
  /\ LET o == First(todo) IN
       /\ todo' = todo \ {o} /\ pending' = pending \ {o} /\ over' = over \ {o}
       /\ placed' = placed \ {o}
       /\ \/ live' = live \ {o} /\ unseen' = unseen \ {o} /\ UNCHANGED faults
          \/ Fault /\ UNCHANGED <<live, unseen>>
       /\ pc' = IF todo' = {} THEN "relist" ELSE pc
  /\ UNCHANGED <<setting, db, boot, sent, filled, running, st, raw, blind, side, unmanaged,
                 suppressed, plan, cur, refresh, made, verdict, jobs, history>>

\* The second listing is only filtered.
TickRelisted ==
  /\ pc = "relisted" /\ pc' = "stray"
  /\ pending' = StillPending(raw) /\ over' = {}
  /\ todo' = Strays(raw, st)
  /\ UNCHANGED <<setting, db, boot, placed, book, running, st, raw, blind, side, unmanaged,
                 suppressed, plan, cur, refresh, made, verdict, jobs, history, faults>>

\* Orders of the strategy that are not the tracked ones.  From the third
\* failure of one order on the tick ends.
TickStray ==
  /\ pc = "stray" /\ todo # {}
  /\ LET o == First(todo) IN
     \/ /\ todo' = todo \ {o} /\ live' = live \ {o} /\ unseen' = unseen \ {o}
        /\ pending' = pending \ {o} /\ over' = over \ {o} /\ placed' = placed \ {o}
        /\ UNCHANGED <<running, pc, st, raw, blind, side, unmanaged, suppressed, plan, cur, refresh,
                       made, verdict, booked, faults>>
     \/ /\ Fault /\ UNCHANGED <<live, unseen, pending, over, placed>>
        /\ \/ Return
           \/ /\ todo' = todo \ {o}
              /\ UNCHANGED <<running, pc, st, raw, blind, side, unmanaged, suppressed, plan, cur,
                             refresh, made, verdict, booked>>
  /\ UNCHANGED <<setting, db, boot, sent, filled, jobs, hidden, lost, stopped>>
-----------------------------------------------------------------------------
(* The tick: what became of the tracked orders *)

\* The side is done: SELL follows BUY, and the plan follows SELL.
NextSide(here, after) ==
  IF side = "BUY" THEN pc' = here /\ side' = "SELL" ELSE pc' = after /\ side' = "BUY"

\* Nothing misled the tick about the order.
Informed(o) == ~blind /\ o \notin hidden

\* The order is given up: recorded as filled, or not.
GiveUp(o, isFill) ==
  /\ pending' = pending \ {o} /\ over' = over \ {o}
  /\ placed' = IF isFill THEN placed \ {o} ELSE placed
  /\ tracked' = [tracked EXCEPT ![side] = NoOrder]
  /\ booked' = IF isFill THEN booked \union {o} ELSE booked
  /\ lost' = IF Informed(o) THEN lost ELSE lost \union ({o} \intersect OnBook)

KeepPending(o) ==
  /\ pending' = pending \union {o} /\ UNCHANGED <<over, placed, tracked, booked, lost>>

ExpectedIfListed(o) == o = NoOrder \/ o \in raw
\* Nothing to find out about: the order is listed or may yet be.
Expected(o) == o = NoOrder \/ o \in pending \union raw

\* checkFill: a tracked order that is neither listed nor pending.
TickCheck ==
  /\ pc \in {"stray", "check"} /\ (pc = "stray" => todo = {})
  /\ LET o == st[side] IN
     \/ /\ Expected(o)
        /\ UNCHANGED <<pending, over, placed, tracked, booked, lost>>
        /\ NextSide("check", "stale")
     \/ /\ ~Expected(o)
        /\ IF exchange = "nonkyc"
           THEN pc' = "query" /\ UNCHANGED <<pending, over, placed, tracked, booked, lost, side>>
           ELSE /\ IF o \in placed
                   THEN IF exchange = "nestex" /\ OfSide(Other(side), raw) = {}
                        THEN KeepPending(o)
                        ELSE GiveUp(o, TRUE)
                   ELSE GiveUp(o, FALSE)
                /\ NextSide("check", "stale")
  /\ UNCHANGED <<setting, enabled, boot, book, running, st, raw, blind, todo, unmanaged,
                 suppressed, plan, cur, refresh, made, verdict, jobs, hidden, stopped, faults>>

CountsAnyway(o) == TRUE
\* NonKYC is asked: an order closed without a fill is none; a fill, an order
\* that is open and no answer are one.
CountsAsFill(o) == o \in OnBook \union filled

TickQuery ==
  /\ pc = "query"
  /\ LET o == st[side] IN
     \/ GiveUp(o, CountsAsFill(o)) /\ UNCHANGED faults
     \/ Fault /\ GiveUp(o, TRUE)
  /\ NextSide("check", "stale")
  /\ UNCHANGED <<setting, enabled, boot, book, running, st, raw, blind, todo, unmanaged,
                 suppressed, plan, cur, refresh, made, verdict, jobs, hidden, stopped>>
-----------------------------------------------------------------------------
(* The tick: Dex-Trade's stale orders *)

\* After each side the state is read again.
StaleDone == NextSide("stale", "plan")

\* An order of ten minutes is cancelled.
TickStale ==
  /\ pc = "stale"
  /\ LET o == st[side] IN
     \/ StaleDone /\ UNCHANGED <<live, unseen, suppressed, faults>>
     \/ /\ exchange = "dextrade" /\ o \in raw
        /\ \/ /\ live' = live \ {o} /\ unseen' = unseen \ {o} /\ pc' = "confirm"
              /\ UNCHANGED <<side, suppressed, faults>>
           \/ /\ Fault /\ suppressed' = suppressed \union {side} /\ StaleDone
              /\ UNCHANGED <<live, unseen>>
  /\ UNCHANGED <<setting, db, memory, sent, filled, running, st, raw, blind, todo, unmanaged, plan,
                 cur, refresh, made, verdict, jobs, history>>

\* The cancel is confirmed by a listing; then the order may be posted again.
TickConfirm ==
  /\ pc = "confirm"
  /\ suppressed' = suppressed \union {side}
  /\ LET o == st[side] IN
     \/ /\ Fault /\ StaleDone /\ UNCHANGED <<memory, tracked, unseen, hidden, raw, st, plan, refresh>>
     \/ /\ Shown(raw') /\ hidden' = hidden \ raw'
        /\ tracked' = [tracked EXCEPT ![side] = NoOrder] /\ st' = tracked'
        /\ pending' = StillPending(raw') \ {o} /\ over' = {} /\ placed' = placed \ {o}
        /\ \/ StaleDone /\ UNCHANGED <<plan, refresh>>
           \/ /\ enabled /\ OfSide(side, raw') = {}        \* not asked again
              /\ Spare(side) /\ pc' = "place" /\ plan' = {side} /\ refresh' = TRUE /\ UNCHANGED side
        /\ UNCHANGED <<boot, faults>>
  /\ UNCHANGED <<setting, enabled, sent, live, filled, running, blind, todo, unmanaged, cur, made,
                 verdict, jobs, lost, booked, stopped>>
-----------------------------------------------------------------------------
(* The tick: new orders *)

Has(s) == OfSide(s, raw \union pending) # {}

MayPlaceTwice(s, relaxed) == OfSide(s, raw) = {}
\* A side without an order may get one, unless its guards say no -- but the
\* inventory guard, once relaxed for a missing side or during bootstrap,
\* takes the answers of the others with it.  The locals read here are not read again.
MayPlace(s, relaxed) ==
  ~Has(s) /\ (s \in relaxed \/ (~unmanaged /\ s \notin suppressed))

TickPlan ==
  /\ pc = "plan" /\ pc' = "place"
  /\ \E active \in BOOLEAN, blocked \in {{}, {"BUY"}, {"SELL"}}, S \in SUBSET Sides :
       /\ active => boot
       /\ (boot /\ Managed(raw, st) = {} /\ pending = {}) => active
       /\ \A s \in S : Spare(s) /\ MayPlace(s, {q \in blocked : active \/ Has(Other(q))})
       /\ Cardinality(raw) + Cardinality(pending) >= SoftMax => S = {}
       /\ plan' = S
  /\ tracked' = [s \in Sides |->
       IF st[s] # NoOrder \/ ~Has(s) THEN tracked[s]
       ELSE LET visible == OfSide(s, raw)
                mine    == OfSide(s, Managed(raw, st))
                choices == IF visible = {} THEN OfSide(s, pending) ELSE mine
            IN  IF choices = {} THEN NoOrder ELSE First(choices)]
  /\ st' = Untracked /\ raw' = {} /\ blind' = FALSE /\ unmanaged' = FALSE /\ suppressed' = {}
  /\ UNCHANGED <<setting, enabled, memory, book, running, todo, side, cur, refresh, made, verdict,
                 jobs, history, faults>>

NextToPlace == IF "BUY" \in plan THEN "BUY" ELSE "SELL"

\* The last of up to three requests; those before were refused (post-only).
\* The config is not read again.
SendCreate ==
  /\ pc = "place" /\ plan # {} /\ pc' = "creating"
  /\ \E o \in OwnIn(bounds) :
       /\ Fresh(o) /\ o.side = NextToPlace
       /\ \A c \in bounds.copies[o.side] : c < o.copy => ~Fresh([o EXCEPT !.copy = c])
       /\ sent' = sent \union {o} /\ cur' = o
       /\ filled' = filled \ {o} /\ booked' = booked \ {o} /\ lost' = lost \ {o}
       /\ hidden' = hidden \ {o} /\ placed' = placed \ {o}
  /\ plan' = plan \ {NextToPlace}
  /\ UNCHANGED <<setting, db, boot, pending, over, live, unseen, running, st, raw, blind, todo,
                 side, unmanaged, suppressed, refresh, made, verdict, jobs, stopped, faults>>

\* After the third post-only reject the tick ends; after any other failure,
\* a lost reply among them, it goes on.
CreateReply ==
  /\ pc = "creating"
  /\ \/ /\ verdict = "made" /\ pc' = "verify"
        /\ placed' = placed \union {cur} /\ pending' = (pending \ over) \union {cur} /\ over' = {}
        /\ tracked' = [tracked EXCEPT ![cur.side] = cur] /\ made' = ~refresh
        /\ verdict' = "none"
        /\ UNCHANGED <<running, st, raw, blind, todo, side, unmanaged, suppressed, plan, cur,
                       refresh, lost, booked, faults>>
     \/ /\ (verdict = "refused" \/ Fault)
        /\ verdict = "refused" => UNCHANGED faults
        /\ lost' = lost \union ({cur} \intersect OnBook)
        /\ \/ ~refresh /\ verdict = "refused" /\ Return
           \/ /\ pc' = "place" /\ cur' = NoOrder /\ verdict' = "none"
              /\ UNCHANGED <<running, st, raw, blind, todo, side, unmanaged, suppressed, plan, refresh,
                             made, booked>>
        /\ UNCHANGED <<placed, pending, over, tracked>>
  /\ UNCHANGED <<setting, enabled, boot, book, jobs, hidden, stopped>>

\* Up to three listings look for the new order.
TickVerify ==
  /\ pc = "verify" /\ pc' = "place" /\ cur' = NoOrder
  /\ \E seen \in SUBSET Orders :
       /\ \/ /\ Shown(seen) /\ UNCHANGED faults
             /\ raw' = IF refresh THEN seen ELSE raw
          \/ Fault /\ seen = {} /\ UNCHANGED <<unseen, raw>>
       /\ pending' = IF cur \in seen THEN pending \ {cur} ELSE pending
       /\ over' = over \intersect pending'
  /\ UNCHANGED <<setting, db, boot, placed, sent, live, filled, running, st, blind, todo, side,
                 unmanaged, suppressed, plan, refresh, made, verdict, jobs, history>>

\* Of a refresh, or of the tick: an order placed closes the bootstrap window.
TickEnd ==
  /\ pc = "place" /\ plan = {}
  /\ IF refresh
     THEN /\ StaleDone /\ refresh' = FALSE /\ st' = tracked
          /\ UNCHANGED <<boot, running, raw, blind, todo, unmanaged, suppressed, plan, cur, made, verdict,
                       booked>>
     ELSE boot' = (boot /\ ~made) /\ Return
  /\ UNCHANGED <<setting, db, pending, over, placed, book, jobs, hidden, lost, stopped, faults>>
-----------------------------------------------------------------------------
(* The exchange and time *)

ExchangeAccepts(o) ==
  /\ o \in sent /\ sent' = sent \ {o} /\ live' = live \union {o} /\ unseen' = unseen \union {o}
  /\ verdict' = IF o = cur THEN "made" ELSE verdict
  /\ UNCHANGED <<setting, db, memory, filled, running, pc, st, raw, blind, todo, side, unmanaged,
                 suppressed, plan, cur, refresh, made, jobs, history, faults>>

ExchangeRejects(o) ==
  /\ o \in sent /\ sent' = sent \ {o}
  /\ verdict' = IF o = cur THEN "refused" ELSE verdict
  /\ UNCHANGED <<setting, db, memory, live, unseen, filled, running, pc, st, raw, blind, todo, side,
                 unmanaged, suppressed, plan, cur, refresh, made, jobs, history, faults>>

Fill(o) ==
  /\ o \in live /\ live' = live \ {o} /\ unseen' = unseen \ {o}
  /\ filled' = filled \union ({o} \intersect Own)
  /\ UNCHANGED <<setting, db, memory, sent, tick, jobs, history, faults>>

\* The visibility grace outlasts the exchange's lag.  A tick goes by the time it began.
GracePasses ==
  /\ pc = "idle"
  /\ \E O \in SUBSET (pending \ over) \ {{}} : over' = over \union O /\ unseen' = unseen \ O
  /\ UNCHANGED <<setting, db, boot, pending, placed, sent, live, filled, tick, jobs, history, faults>>

BootstrapPasses ==
  /\ pc = "idle" /\ boot /\ boot' = FALSE
  /\ UNCHANGED <<setting, db, pending, over, placed, book, tick, jobs, history, faults>>
-----------------------------------------------------------------------------
(* Requests *)

Start ==
  /\ enabled' = TRUE /\ boot' = TRUE
  /\ stopped' = FALSE /\ calm' = [j \in Jobs |-> FALSE]
  /\ UNCHANGED <<setting, tracked, pending, over, placed, book, tick, jpc, mode, known, tried,
                 ids, hidden, lost, booked, faults>>

\* Dex-Trade is not asked at all.
Begin(j, m) ==
  /\ jpc[j] = "idle"
  /\ jpc' = [jpc EXCEPT ![j] = IF exchange = "dextrade" THEN "end" ELSE "list"]
  /\ mode' = [mode EXCEPT ![j] = m]
  /\ known' = [known EXCEPT ![j] = IdsOf(tracked)]

RequestStop(j) ==
  /\ Begin(j, "managed") /\ enabled' = FALSE
  /\ calm' = [calm EXCEPT ![j] = ~running /\ sent = {} /\ unseen \subseteq IdsOf(tracked)
                                 /\ exchange # "dextrade"]
  /\ UNCHANGED <<setting, tracked, memory, book, tick, tried, ids, history, faults>>

RequestUnknown(j) ==
  /\ Begin(j, "unknown")
  /\ UNCHANGED <<setting, db, memory, book, tick, tried, ids, calm, history, faults>>

Selected(j, seen) ==
  LET managed == {o \in seen : o \in known[j] \/ HasPrefix(o)}
  IN  IF mode[j] = "unknown" THEN seen \ managed ELSE managed

ListedOnly(j) == {}
\* The tracked orders are cancelled whether they are listed or not.
Anyway(j) == IF mode[j] = "managed" THEN known[j] ELSE {}

JobList(j) ==
  /\ jpc[j] \in {"list", "sweep"}
  /\ \/ /\ \E seen \in SUBSET Orders :
             /\ Shown(seen)
             /\ ids' = [ids EXCEPT ![j] = (Selected(j, seen) \union Anyway(j)) \ tried[j]]
        /\ UNCHANGED <<calm, faults>>
     \/ /\ \E seen \in SUBSET Orders :
             /\ Fault /\ Misleads(seen)
             /\ ids' = [ids EXCEPT ![j] = (Selected(j, seen) \union Anyway(j)) \ tried[j]]
        /\ calm' = [calm EXCEPT ![j] = FALSE]
  /\ jpc' = [jpc EXCEPT ![j] = IF jpc[j] = "list" THEN "cancel"
                               ELSE IF ids'[j] = {} THEN "end" ELSE "again"]
  /\ UNCHANGED <<setting, db, memory, sent, live, filled, tick, mode, known, tried, history>>

JobCancel(j) ==
  /\ jpc[j] \in {"cancel", "again"} /\ ids[j] # {}
  /\ LET o == First(ids[j]) IN
       /\ ids' = [ids EXCEPT ![j] = @ \ {o}] /\ tried' = [tried EXCEPT ![j] = @ \union {o}]
       /\ \/ live' = live \ {o} /\ unseen' = unseen \ {o} /\ UNCHANGED <<calm, faults>>
          \/ /\ Fault /\ calm' = [calm EXCEPT ![j] = FALSE] /\ UNCHANGED <<live, unseen>>
  /\ UNCHANGED <<setting, db, memory, sent, filled, tick, jpc, mode, known, history>>

\* NestEx is swept, and again while something new is found, up to three times.
JobCancelled(j) ==
  /\ jpc[j] \in {"cancel", "again"} /\ ids[j] = {}
  /\ \/ exchange = "nestex" /\ jpc' = [jpc EXCEPT ![j] = "sweep"]
     \/ (exchange # "nestex" \/ jpc[j] = "again") /\ jpc' = [jpc EXCEPT ![j] = "end"]
  /\ UNCHANGED <<setting, db, memory, book, tick, mode, known, tried, ids, calm, history, faults>>

\* A stop forgets the tracked orders, whatever became of them; a calm one has
\* no excuse for those still open.
JobFinish(j) ==
  /\ jpc[j] = "end" /\ jpc' = [jpc EXCEPT ![j] = "idle"]
  /\ mode' = [mode EXCEPT ![j] = "managed"] /\ known' = [known EXCEPT ![j] = {}]
  /\ tried' = [tried EXCEPT ![j] = {}] /\ calm' = [calm EXCEPT ![j] = FALSE]
  /\ IF mode[j] = "managed"
     THEN /\ tracked' = Untracked /\ boot' = FALSE
          /\ lost' = IF calm[j] THEN lost ELSE lost \union (IdsOf(tracked) \intersect OnBook)
          /\ stopped' = (stopped \/ calm[j])
     ELSE UNCHANGED <<tracked, boot, lost, stopped>>
  /\ UNCHANGED <<setting, enabled, pending, over, placed, book, tick, ids, hidden, booked, faults>>

\* The process dies; a tick after it begins a bootstrap window of its own.
Crash ==
  /\ Fault
  /\ Return
  /\ boot' = TRUE /\ pending' = {} /\ over' = {} /\ placed' = {}
  /\ jpc' = [j \in Jobs |-> "idle"] /\ mode' = [j \in Jobs |-> "managed"]
  /\ known' = [j \in Jobs |-> {}] /\ tried' = [j \in Jobs |-> {}] /\ ids' = [j \in Jobs |-> {}]
  /\ calm' = [j \in Jobs |-> FALSE]
  /\ hidden' = hidden \union (unseen \intersect Own)
  /\ lost' = lost \union (({cur} \intersect OnBook) \ IdsOf(tracked))
  /\ UNCHANGED <<setting, db, book, stopped>>
-----------------------------------------------------------------------------

TickStep ==
  \/ TickMarket \/ ExchangeLists \/ TickReconcile \/ TickSurplus \/ TickRelisted \/ TickStray \/ TickCheck
  \/ TickQuery \/ TickStale \/ TickConfirm \/ TickPlan \/ SendCreate \/ CreateReply
  \/ TickVerify \/ TickEnd

Others ==
  \/ TickStart \/ Start
  \/ \E j \in Jobs : \/ RequestStop(j) \/ RequestUnknown(j)
                     \/ JobList(j) \/ JobCancel(j) \/ JobCancelled(j) \/ JobFinish(j)
  \/ \E o \in Orders : ExchangeAccepts(o) \/ ExchangeRejects(o) \/ Fill(o)
  \/ GracePasses \/ BootstrapPasses \/ Crash

\* Between two awaits the tick has the event loop for itself.
AtAwait ==
  \/ pc \in {"idle", "market", "list", "listed", "relist", "relisted", "query", "confirm", "creating", "verify"}
  \/ pc \in {"surplus", "stray"} /\ todo # {}
  \/ pc = "place" /\ refresh /\ plan # {}              \* a fresh order book

Next == TickStep \/ (AtAwait /\ Others)

Spec == Init /\ [][Next]_vars

\* The process runs, the exchange answers and time passes: what a pending order
\* that never ends can be held against.
FairSpec ==
  /\ Spec /\ WF_vars(TickStep) /\ WF_vars(TickStart) /\ SF_vars(GracePasses)
  /\ WF_vars(\E o \in Own : ExchangeAccepts(o) \/ ExchangeRejects(o))
-----------------------------------------------------------------------------
(* Properties *)

\* "Maintaining 1 buy + 1 sell order": the strategy never has two orders of a
\* side, requests on their way included, but for orders a fault made it lose.
OneQuotePerSide ==
  \A s \in Sides : Cardinality(OfSide(s, (OnBook \intersect Own) \ lost)) <= 1

\* An order of the strategy is never given up while it is open: the visibility
\* grace outlives the exchange's lag, and only a misleading listing, a lost reply,
\* a crash or a stop makes the strategy forget one.
LiveIsTracked ==
  \A o \in live \intersect Own : o \in IdsOf(tracked) \/ o = cur \/ o \in lost

\* On NonKYC what is recorded as a fill was one, not a cancellation, unless
\* the listing or the query failed or the order was unseen at a crash.
FillsAreReal ==
  [][ \A o \in booked' \ booked :
        (exchange = "nonkyc" => o \in filled \/ ~Informed(o) \/ faults' # faults) ]_vars

\* Neither a tick nor a stop cancels an order that is not the strategy's;
\* cancel-unknown-orders may.
ForeignUntouched ==
  [][ \A o \in live \intersect Foreign : o \notin live' =>
        \/ UNCHANGED <<tick, jobs>>
        \/ \E j \in Jobs : mode[j] = "unknown" /\ o \in ids[j] ]_vars

\* A stop that began with no tick at work, and whose listing and cancels
\* succeeded, leaves no order of the strategy that was tracked or marked.
StopIsClean ==
  stopped => (OnBook \intersect Own) \subseteq lost

\* "Do not extend visibility TTL on repeated re-adds; otherwise pending can
\* become permanent": while ticks come to plan their quotes, no order is
\* pending at the end of every one of them.
PendingEnds ==
  (<>[]enabled /\ []<>(pc = "plan")) =>
    \A o \in Own : []<>(o = cur \/ (pc = "idle" /\ o \notin pending))
=============================================================================
