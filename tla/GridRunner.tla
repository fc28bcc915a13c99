----------------------------- MODULE GridRunner -----------------------------
(***************************************************************************)
(* One GRID configuration of services/trade-api: its tick, the user, the   *)
(* cancellations POST cancel-orders starts, and the exchange.  A tick      *)
(* reads the price and its own rows, lists the open orders to close rows   *)
(* whose orders have gone, cancels duplicates and collisions, computes the *)
(* levels that are free, and creates orders for them one by one:           *)
(*                                                                         *)
(*   price -> list -> sync -> dedupe -> cross -> plan -> place             *)
(*                                                (-> creating)*           *)
(*                                                                         *)
(* runningConfigs admits one tick, so its locals are single variables.     *)
(* Prices are ticks of the market; amounts, funds and minimum sizes are    *)
(* the choices they lead to.  The API keys are set, and a backoff only     *)
(* keeps the next tick from starting, which it need not do anyway.         *)
(***************************************************************************)
EXTENDS Integers, FiniteSetsExt

CONSTANTS
  Jobs,              \* concurrent cancelOutstandingOrders calls
  Copies,            \* tells orders of one side at one tick apart
  MaxUnit,           \* ticks are 1..MaxUnit
  Step,              \* grid_step_pct of the base price, in ticks
  LevelChoices,      \* levels per side the user may ask for (allow_sell: none or as many)
  Prices,            \* what the price source may answer
  OldRows,           \* sets of rows an earlier version may have left, with live orders
  MaxFaults          \* bound on the faults of the network and of the process

Leftovers == UNION OldRows
Sides  == {"BUY", "SELL"}
Units  == 1..MaxUnit
Orders == [side : Sides, unit : Units, copy : Copies] \union Leftovers
MaxLevels(s) == Max({m[s] : m \in LevelChoices})
NoLevels == CHOOSE m \in LevelChoices : TRUE

ASSUME LevelsAreCounts ==
  /\ LevelChoices # {} /\ IsFiniteSet(LevelChoices)
  /\ \A m \in LevelChoices :
       m \in [Sides -> Nat] /\ m["BUY"] > 0 /\ m["SELL"] \in {0, m["BUY"]}
ASSUME CopiesAreNumbers == Copies \subseteq Nat
ASSUME PricesAreTicks == Prices \subseteq Units
\* The code gives up nudging a target after 128 ticks.
ASSUME GridBounds == MaxUnit \in 1..128 /\ Step \in Nat /\ MaxFaults \in Nat
ASSUME LeftoversAreOrders == \A o \in Leftovers : o.side \in Sides /\ o.unit \in Units

\* Nor did the earlier version exceed the levels.
ASSUME LeftoversFit == \A R \in OldRows, s \in Sides :
  Cardinality({o.unit : o \in {p \in R : p.side = s}}) <= MaxLevels(s)

VARIABLES
  enabled, levels, base,   \* the config; base 0 is not yet initialised
  grid,                    \* OPEN rows of grid_order
  registry,                \* OPEN rows of strategy_order
  young,                   \* rows of grid_order less than ten seconds old
  sent, live,              \* the exchange: orders on their way, orders open
  running, pc,             \* runningConfigs; the call the tick awaits
  n, b, rows, aged, gone,  \* locals of the tick
  todo, tidied, plan, cur, verdict,
  jpc, ids, calm,          \* the cancellations
  strays,                  \* history: orders the bookkeeping has lost
  stopped,                 \* history: a calm stop is complete
  faults

config == <<enabled, levels, base>>
tables == <<grid, registry, young>>
book   == <<sent, live>>
locals == <<n, b, rows, aged, gone, todo, tidied, plan, cur, verdict>>
tick   == <<running, pc, locals>>
jobs   == <<jpc, ids, calm>>
vars == <<config, tables, book, tick, jobs, strays, stopped, faults>>

NoOrder == [side |-> "none", unit |-> 0, copy |-> 0]
Targets == [side : Sides, unit : Units]
OnBook  == sent \union live

TypeOK ==
  /\ enabled \in BOOLEAN /\ levels \in LevelChoices /\ base \in Prices \union {0}
  /\ grid \subseteq Orders /\ registry \subseteq Orders /\ young \subseteq grid
  /\ sent \subseteq Orders /\ live \subseteq Orders /\ sent \intersect live = {}
  /\ running = (pc # "idle")
  /\ pc \in {"idle", "price", "list", "sync", "dedupe", "cross", "plan", "place", "creating"}
  /\ n \in LevelChoices /\ b \in Prices \union {0} /\ plan \subseteq Targets
  /\ \A S \in {rows, aged, gone, todo, strays} : S \subseteq Orders
  /\ tidied \subseteq {"dedupe", "cross"} /\ cur \in Orders \union {NoOrder}
  /\ verdict \in {"none", "made", "refused"}
  /\ jpc \in [Jobs -> {"idle", "list", "cancel"}]
  /\ ids \in [Jobs -> SUBSET Orders] /\ calm \in [Jobs -> BOOLEAN]
  /\ stopped \in BOOLEAN /\ faults \in 0..MaxFaults

\* Something fails that need not: a listing, a cancel, a reply, the process.  A
\* listing also fails by being short: listNestExOpenOrders says ok after a 404
\* on every endpoint, after a body it cannot parse, and when only some of its
\* queries failed, and shows what it has.
Fault == faults < MaxFaults /\ faults' = faults + 1

NoLocals ==
  /\ n = NoLevels /\ b = 0 /\ rows = {} /\ aged = {} /\ gone = {} /\ todo = {}
  /\ tidied = {} /\ plan = {} /\ cur = NoOrder /\ verdict = "none"

Init ==
  /\ enabled = FALSE /\ levels \in LevelChoices /\ base = 0
  /\ live \in OldRows /\ sent = {}
  /\ grid = live /\ registry = live /\ young = {}
  /\ running = FALSE /\ pc = "idle" /\ NoLocals
  /\ jpc = [j \in Jobs |-> "idle"] /\ ids = [j \in Jobs |-> {}]
  /\ calm = [j \in Jobs |-> FALSE]
  /\ strays = {} /\ stopped = FALSE /\ faults = 0
-----------------------------------------------------------------------------
(* Vocabulary of the tick *)

\* An id may stand for a new order once nothing refers to the old one.
Fresh(o) == o \notin OnBook \union grid \union registry \union Leftovers
                     \union UNION {ids[j] : j \in Jobs}

\* Lists of orders are gone through in one order, which one does not matter.
First(S) == CHOOSE o \in S : TRUE

KeptLocked == UNCHANGED running
\* finally { runningConfigs.delete(configId) }
Unlocked == running' = FALSE

Return ==
  /\ Unlocked /\ pc' = "idle" /\ n' = NoLevels /\ b' = 0
  /\ rows' = {} /\ aged' = {} /\ gone' = {} /\ todo' = {} /\ tidied' = {}
  /\ plan' = {} /\ cur' = NoOrder /\ verdict' = "none"

\* The groups of one side, by price_key.
Groups(s) == {o.unit : o \in {r \in rows : r.side = s}}

\* All but one order of every group (the code keeps the latest).
Duplicates(S) ==
  {D \in SUBSET S : \A s \in Sides, u \in Units :
     LET group == {o \in S : o.side = s /\ o.unit = u}
     IN  group # {} => Cardinality(group \ D) = 1}

\* Orders on the wrong side of the base at a tick that has both sides.
Crossing(S) ==
  {o \in S : /\ \E p \in S : p.unit = o.unit /\ p.side # o.side
             /\ IF o.side = "BUY" THEN o.unit >= b ELSE o.unit <= b}

\* The ticks a target of level k may take: outward from the base, never at it.
Beyond(s, k) ==
  IF s = "BUY" THEN {u \in Units : u < b /\ u <= b - Step * k}
               ELSE {u \in Units : u > b /\ u >= b + Step * k}
Nearer(s, u, v) == IF s = "BUY" THEN u > v ELSE u < v

\* One target per level, nudged outward off every tick in use, other targets'
\* included; 0 where no tick is left.
IsLadder(s, L) ==
  \A k \in DOMAIN L :
    LET free == Beyond(s, k) \ ({o.unit : o \in rows} \union {L[i] : i \in 1..(k - 1)})
    IN  IF free = {} THEN L[k] = 0
                     ELSE L[k] \in free /\ \A u \in free : ~Nearer(s, u, L[k])
Ladder(s) == CHOOSE L \in [1..n[s] -> Units \union {0}] : IsLadder(s, L)
Rungs(s) == {Ladder(s)[k] : k \in 1..n[s]} \ {0}

GreedyRoom(s) == n[s]
\* The levels of the side that have no order yet.
Room(s) == n[s] - Cardinality(Groups(s))

\* toCreate.slice(0, room): the targets nearest to the base.
Chosen(s) == {u \in Rungs(s) : Cardinality({v \in Rungs(s) : Nearer(s, v, u)}) < Room(s)}
-----------------------------------------------------------------------------
(* The tick *)

TickStart ==
  /\ ~running /\ enabled
  /\ running' = TRUE /\ pc' = "price"
  /\ n' = levels /\ b' = base /\ aged' = grid \ young
  /\ calm' = [j \in Jobs |-> FALSE]
  /\ UNCHANGED <<config, tables, book, rows, gone, todo, tidied, plan, cur, verdict,
                 jpc, ids, strays, stopped, faults>>

\* No price is an error.  A config without base price gets it now, with the
\* parameters as they were read, and the tick ends; else the rows are read.
TickPrice ==
  /\ pc = "price"
  /\ \/ Return /\ UNCHANGED config
     \/ /\ b = 0 /\ base' \in Prices /\ levels' = n
        /\ Return /\ UNCHANGED enabled
     \/ /\ b # 0 /\ pc' = "list" /\ rows' = grid
        /\ UNCHANGED <<config, running, n, b, aged, gone, todo, tidied, plan, cur, verdict>>
  /\ UNCHANGED <<tables, book, jobs, strays, stopped, faults>>

GoneEvenYoung(listed) == rows \ listed
\* The rows of orders that are not listed, except those too young to judge.
Gone(listed) == (rows \ listed) \intersect aged

\* The exchange answers the listing; an order just placed may not show yet.  A
\* failed listing gives no row up, a short one those of orders still live.
ExchangeLists ==
  /\ pc = "list" /\ pc' = "sync" /\ aged' = {}
  /\ \/ \E late \in SUBSET young : gone' = Gone(live \ late) /\ UNCHANGED <<strays, faults>>
     \/ /\ Fault /\ gone' \in {{}} \union {Gone(shown) : shown \in SUBSET live}
        /\ strays' = strays \union (gone' \intersect live)
  /\ UNCHANGED <<config, tables, book, running, n, b, rows, todo, tidied, plan, cur,
                 verdict, jobs, stopped>>

\* Phantom rows are closed, in both tables.
TickSync ==
  /\ pc = "sync" /\ pc' = "dedupe"
  /\ grid' = grid \ gone /\ registry' = registry \ gone /\ young' = young \ gone
  /\ rows' = IF gone = {} THEN rows ELSE grid'
  /\ todo' \in Duplicates(rows')
  /\ gone' = {}
  /\ UNCHANGED <<config, book, running, n, b, aged, tidied, plan, cur, verdict,
                 jobs, strays, stopped, faults>>

\* cancelOpenGridOrder: what is gone counts as cancelled (404).
TickCancel ==
  /\ pc \in {"dedupe", "cross"}
  /\ LET o == First(todo) IN
       /\ todo # {} /\ todo' = todo \ {o}
       /\ \/ /\ live' = live \ {o} /\ grid' = grid \ {o} /\ registry' = registry \ {o}
             /\ young' = young \ {o} /\ tidied' = tidied \union {pc} /\ strays' = strays \ {o}
             /\ UNCHANGED faults
          \/ Fault /\ UNCHANGED <<live, tables, tidied, strays>>
  /\ UNCHANGED <<config, sent, running, pc, n, b, rows, aged, gone, plan, cur, verdict,
                 jobs, stopped>>

\* The rows are read again if a duplicate was cancelled.
TickCross ==
  /\ pc = "dedupe" /\ todo = {} /\ pc' = "cross"
  /\ rows' = IF "dedupe" \in tidied THEN grid ELSE rows
  /\ todo' = Crossing(rows')
  /\ UNCHANGED <<config, tables, book, running, n, b, aged, gone, tidied, plan, cur, verdict,
                 jobs, strays, stopped, faults>>

\* And again if an order on the wrong side was.
TickTidied ==
  /\ pc = "cross" /\ todo = {} /\ pc' = "plan"
  /\ rows' = IF "cross" \in tidied THEN grid ELSE rows
  /\ UNCHANGED <<config, tables, book, running, n, b, aged, gone, todo, tidied, plan, cur,
                 verdict, jobs, strays, stopped, faults>>

\* Within refresh_sec of the last run a full and tidy grid is left alone.
TickPlan ==
  /\ pc = "plan"
  /\ \/ /\ tidied = {} /\ rows # {} /\ \A s \in Sides : Cardinality(Groups(s)) >= n[s]
        /\ Return
     \/ /\ pc' = "place"
        /\ \E S \in SUBSET Sides :     \* the sides there are funds for
             plan' = {p \in Targets : p.side \in S /\ p.unit \in Chosen(p.side)}
        /\ rows' = {} /\ tidied' = {}
        /\ UNCHANGED <<running, n, b, aged, gone, todo, cur, verdict>>
  /\ UNCHANGED <<config, tables, book, jobs, strays, stopped, faults>>

\* BUY before SELL, from the base outward.
NextTarget ==
  CHOOSE p \in plan : \A q \in plan :
    IF p.side = q.side THEN ~Nearer(p.side, q.unit, p.unit) ELSE p.side = "BUY"

\* Below the minimum notional or quantity.
SkipTarget ==
  /\ pc = "place" /\ plan # {} /\ plan' = plan \ {NextTarget}
  /\ UNCHANGED <<config, tables, book, running, pc, n, b, rows, aged, gone, todo, tidied, cur,
                 verdict, jobs, strays, stopped, faults>>

\* The request leaves; enabled is not read again.  The order gets the first
\* id that is free: which one does not matter.
SendCreate ==
  /\ pc = "place" /\ plan # {} /\ pc' = "creating"
  /\ \E o \in Orders :
       /\ Fresh(o) /\ o.side = NextTarget.side /\ o.unit = NextTarget.unit
       /\ \A c \in Copies : c < o.copy => ~Fresh([o EXCEPT !.copy = c])
       /\ sent' = sent \union {o} /\ cur' = o
  /\ plan' = plan \ {NextTarget}
  /\ UNCHANGED <<config, tables, live, running, n, b, rows, aged, gone, todo, tidied,
                 verdict, jobs, strays, stopped, faults>>

\* An order id brings both rows.  A reply that is lost brings none, whatever
\* became of the order.
CreateReply ==
  /\ pc = "creating" /\ pc' = "place" /\ cur' = NoOrder /\ verdict' = "none"
  /\ \/ /\ verdict = "made"
        /\ grid' = grid \union {cur} /\ registry' = registry \union {cur}
        /\ young' = young \union {cur} /\ UNCHANGED <<strays, faults>>
     \/ verdict = "refused" /\ UNCHANGED <<tables, strays, faults>>
     \/ Fault /\ strays' = strays \union {cur} /\ UNCHANGED tables
  /\ UNCHANGED <<config, book, running, n, b, rows, aged, gone, todo, tidied, plan,
                 jobs, stopped>>

\* The parameters are written back as they were read.
TickEnd ==
  /\ pc = "place" /\ plan = {}
  /\ levels' = n /\ base' = b /\ Return
  /\ UNCHANGED <<enabled, tables, book, jobs, strays, stopped, faults>>
-----------------------------------------------------------------------------
(* The exchange and time *)

ExchangeAccepts(o) ==
  /\ o \in sent /\ sent' = sent \ {o} /\ live' = live \union {o}
  /\ verdict' = IF o = cur THEN "made" ELSE verdict
  /\ UNCHANGED <<config, tables, running, pc, n, b, rows, aged, gone, todo, tidied, plan, cur,
                 jobs, strays, stopped, faults>>

ExchangeRejects(o) ==
  /\ o \in sent /\ sent' = sent \ {o} /\ strays' = strays \ {o}
  /\ verdict' = IF o = cur THEN "refused" ELSE verdict
  /\ UNCHANGED <<config, tables, live, running, pc, n, b, rows, aged, gone, todo, tidied,
                 plan, cur, jobs, stopped, faults>>

Fill(o) ==
  /\ o \in live /\ live' = live \ {o} /\ strays' = strays \ {o}
  /\ UNCHANGED <<config, tables, sent, tick, jobs, stopped, faults>>

TenSecondsPass ==
  /\ young # {} /\ young' = {}
  /\ UNCHANGED <<config, grid, registry, book, tick, jobs, strays, stopped, faults>>
-----------------------------------------------------------------------------
(* Cancellations *)

\* Answered at once, carried out in the background; the registry comes first.
RequestCancel(j) ==
  /\ jpc[j] = "idle" /\ jpc' = [jpc EXCEPT ![j] = "list"]
  /\ ids' = [ids EXCEPT ![j] = registry]
  /\ calm' = [calm EXCEPT ![j] = ~enabled /\ ~running /\ sent = {}]
  /\ UNCHANGED <<config, tables, book, tick, strays, stopped, faults>>

MarkedWithRow == live \intersect registry
\* Every listed order has the strategy's prefix, those without rows too.
Marked == live

JobList(j) ==
  /\ jpc[j] = "list" /\ jpc' = [jpc EXCEPT ![j] = "cancel"]
  /\ \/ ids' = [ids EXCEPT ![j] = @ \union Marked] /\ UNCHANGED <<calm, faults>>
     \/ /\ Fault /\ calm' = [calm EXCEPT ![j] = FALSE]
        /\ \E shown \in SUBSET Marked : ids' = [ids EXCEPT ![j] = @ \union shown]
  /\ UNCHANGED <<config, tables, book, tick, strays, stopped>>

\* Only the registry is told.
JobCancel(j) ==
  /\ jpc[j] = "cancel"
  /\ LET o == First(ids[j]) IN
       /\ ids[j] # {} /\ ids' = [ids EXCEPT ![j] = @ \ {o}]
       /\ \/ /\ live' = live \ {o} /\ registry' = registry \ {o} /\ strays' = strays \ {o}
             /\ UNCHANGED <<calm, faults>>
          \/ /\ Fault /\ calm' = [calm EXCEPT ![j] = FALSE]
             /\ UNCHANGED <<live, registry, strays>>
  /\ UNCHANGED <<config, grid, young, sent, tick, jpc, stopped>>

\* cancelOpenGridOrders closes every row of the grid, its order live or not.
JobFinish(j) ==
  /\ jpc[j] = "cancel" /\ ids[j] = {} /\ jpc' = [jpc EXCEPT ![j] = "idle"]
  /\ grid' = {} /\ young' = {}
  /\ strays' = strays \union (grid \intersect OnBook)
  /\ stopped' = (stopped \/ calm[j])
  /\ calm' = [calm EXCEPT ![j] = FALSE]
  /\ UNCHANGED <<config, registry, book, tick, ids, faults>>
-----------------------------------------------------------------------------
(* The user and crashes *)

Reenabled ==
  /\ enabled' = TRUE /\ stopped' = FALSE /\ calm' = [j \in Jobs |-> FALSE]

Enable ==
  /\ ~enabled /\ Reenabled
  /\ UNCHANGED <<levels, base, tables, book, tick, jpc, ids, strays, faults>>

Disable ==
  /\ enabled /\ enabled' = FALSE
  /\ UNCHANGED <<levels, base, tables, book, tick, jobs, strays, stopped, faults>>

\* The wizard's config: new levels, base_price 0, and enabled or not.
Upsert(m) ==
  /\ levels' = m /\ base' = 0
  /\ \/ Reenabled
     \/ enabled' = FALSE /\ UNCHANGED <<stopped, calm>>
  /\ UNCHANGED <<tables, book, tick, jpc, ids, strays, faults>>

\* The process dies: whatever order it was creating has no row.
Crash ==
  /\ Fault
  /\ Return
  /\ jpc' = [j \in Jobs |-> "idle"] /\ ids' = [j \in Jobs |-> {}]
  /\ calm' = [j \in Jobs |-> FALSE]
  /\ strays' = strays \union ({cur} \intersect OnBook)
  /\ UNCHANGED <<config, tables, book, stopped>>
-----------------------------------------------------------------------------

TickStep ==
  \/ TickPrice \/ ExchangeLists \/ TickSync \/ TickCancel \/ TickCross \/ TickTidied
  \/ TickPlan \/ SkipTarget \/ SendCreate \/ CreateReply \/ TickEnd
JobStep(j) == JobList(j) \/ JobCancel(j) \/ JobFinish(j)

Others ==
  \/ TickStart
  \/ \E j \in Jobs : RequestCancel(j) \/ JobStep(j)
  \/ \E o \in Orders : ExchangeAccepts(o) \/ ExchangeRejects(o) \/ Fill(o)
  \/ TenSecondsPass \/ Enable \/ Disable \/ Crash
  \/ \E m \in LevelChoices : Upsert(m)

\* Between two awaits the tick has the event loop for itself; what happens at
\* the exchange meanwhile might as well happen before or after.
AtAwait ==
  \/ pc \in {"idle", "price", "list", "sync", "creating"}
  \/ pc \in {"dedupe", "cross"} /\ todo # {}

Next == TickStep \/ (AtAwait /\ Others)

Spec == Init /\ [][Next]_vars
-----------------------------------------------------------------------------
(* Properties *)

\* "Levels": a side never has orders at more ticks than the most levels the
\* user chose, counting requests on their way, except orders the bookkeeping
\* has lost.  Fills, edits, re-bases and cancellations may come at any await.
GridLimit ==
  \A s \in Sides :
    Cardinality({o.unit : o \in {p \in OnBook \ strays : p.side = s}}) <= MaxLevels(s)

\* A new order never joins a tick where the strategy already has one, of
\* either side: the rows a plan was made from still hold while it is carried
\* out, and no row is closed under a live order by the phantom sync.
OneOrderPerTick ==
  \A o, p \in OnBook \ strays :
    o # p /\ o.unit = p.unit => {o, p} \subseteq Leftovers

\* Every live order has its row in the registry or is the one whose reply the
\* tick awaits, unless that reply was lost or a short listing gave the row up: a
\* row is otherwise only closed by who saw the order gone, and the rows of a stop
\* that failed half-way stay.
LiveIsTracked == live \subseteq registry \union {cur} \union strays

\* A stop that began disabled and with no tick at work, and whose listing was
\* complete and whose cancels succeeded, leaves no order, not even those whose
\* create reply was lost before.
StopIsClean == stopped => OnBook = {}
=============================================================================
