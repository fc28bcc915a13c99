----------------------------- MODULE MmRunner -----------------------------
(***************************************************************************)
(* One market-making (MM) configuration of services/trade-api: the ticks   *)
(* the scheduler starts for it, the orders they list, cancel and create on *)
(* the exchange, the local order registry, and the user and the background *)
(* jobs that disable the strategy and cancel its orders meanwhile.         *)
(*                                                                         *)
(* trade-api is one Node process: code between two awaits is one step, and *)
(* every await (a call to the exchange) lets everything else run.  A tick  *)
(* is therefore a process whose pc names the call it is waiting for:       *)
(*                                                                         *)
(*   price -> balance -> list -> listed -> cancel* -> market -> place      *)
(*                                                      (-> creating)*     *)
(*                                                                         *)
(* A create request is split from its execution and from its reply, so     *)
(* that a cancellation can pass between them.  The exchange is a book of   *)
(* orders; prices, sizes and balances are abstracted to the choices they   *)
(* lead to (a slot of the ladder is used or skipped).                      *)
(***************************************************************************)
EXTENDS Integers, FiniteSets

CONSTANTS
  Ticks,             \* concurrent invocations of mmRunner.tick for the config
  Jobs,              \* concurrent cancelOutstandingOrders calls
  BuyOrders,         \* exchange order ids, by side
  SellOrders,
  OpsChoices,        \* values the user may give orders_per_side
  Exchanges,         \* the exchanges an instance may be about
  ListsMayFail,      \* the exchanges whose listings may fail
  CancelsMayFail,
  RepliesMayBeLost,
  KeysMayChange,     \* the user may clear and set the API keys
  MaxCrashes         \* bound on process crashes

Orders == BuyOrders \union SellOrders
Sides  == {"BUY", "SELL"}
OrdersOf(s) == IF s = "BUY" THEN BuyOrders ELSE SellOrders

MaxHardTries == 3    \* maxRetries of hardCancelNestExOpenOrders

ASSUME SidesDisjoint == BuyOrders \intersect SellOrders = {}
ASSUME OrdersFinite == IsFiniteSet(BuyOrders) /\ IsFiniteSet(SellOrders)
ASSUME OpsAreCounts == OpsChoices \subseteq Nat /\ OpsChoices # {}
ASSUME ExchangesKnown == Exchanges \subseteq {"nonkyc", "nestex"}
ASSUME FaultSwitches ==
  /\ ListsMayFail \subseteq Exchanges /\ CancelsMayFail \in BOOLEAN
  /\ RepliesMayBeLost \in BOOLEAN /\ KeysMayChange \in BOOLEAN
ASSUME CrashBound == MaxCrashes \in Nat

VARIABLES
  \* trade_strategy_config and the key table (SQLite: survive a crash)
  enabled,        \* enabled = 1; a disabled_reason is only ever set with enabled = 0
  inBackoff,      \* next_allowed_at lies in the future
  ordersPerSide,  \* params_json.orders_per_side
  keys,           \* the user has API keys for the exchange
  \* strategy_order, the local registry (SQLite)
  registry,       \* "none", "OPEN", "CLOSED" (CLOSED and CANCELLED rows)
  \* the exchange
  book,           \* "none", "sent" (request on its way), "live", "done"
  \* the process's memory
  running,        \* runningConfigs has the config
  pc, ops, local, seen, todo, cur, outcome,  \* locals of each tick
  jpc, ids, tries,                    \* locals of each cancellation job
  \* history and bounds
  clean,          \* per job: it began with the config disabled and nothing under
                  \* way, and all its cancels succeeded
  settled,        \* such a job has completed since the last enable
  strays,         \* orders the process was never told of, or was told are gone
                  \* although they were not
  crashes,
  exchange        \* the config's exchange, "nonkyc" or "nestex"

config  == <<enabled, inBackoff, ordersPerSide, keys>>
tickLocals == <<pc, ops, local, seen, todo, cur, outcome>>
jobLocals  == <<jpc, ids, tries>>
vars == <<config, registry, book, running, tickLocals, jobLocals, clean, settled, strays, crashes, exchange>>

ListingFails == exchange \in ListsMayFail
NoOrder == "no order"
DefaultOps == CHOOSE n \in OpsChoices : TRUE
NoTodo  == [s \in Sides |-> 0]

TickStates == {"idle", "price", "balance", "list", "listed", "unlisted",
               "cancel", "market", "place", "creating"}
JobStates == {"idle", "start", "list", "cancel", "hard"}

ConfigType ==
  /\ enabled \in BOOLEAN /\ inBackoff \in BOOLEAN /\ keys \in BOOLEAN
  /\ ordersPerSide \in OpsChoices
  /\ crashes \in 0..MaxCrashes /\ exchange \in Exchanges
OrderType ==
  /\ registry \in [Orders -> {"none", "OPEN", "CLOSED"}]
  /\ book \in [Orders -> {"none", "sent", "live", "done"}]
  /\ strays \subseteq Orders
TickType ==
  /\ running \in BOOLEAN
  /\ pc \in [Ticks -> TickStates]
  /\ ops \in [Ticks -> OpsChoices]
  /\ local \in [Ticks -> SUBSET Orders] /\ seen \in [Ticks -> SUBSET Orders]
  /\ todo \in [Ticks -> [Sides -> Nat]]
  /\ cur \in [Ticks -> Orders \union {NoOrder}]
  /\ outcome \in [Ticks -> {"none", "error", "placed"}]
JobType ==
  /\ jpc \in [Jobs -> JobStates]
  /\ ids \in [Jobs -> SUBSET Orders]
  /\ tries \in [Jobs -> 0..MaxHardTries]
  /\ clean \in [Jobs -> BOOLEAN] /\ settled \in BOOLEAN

\* Every variable keeps its type; in particular a side never has a negative
\* number of slots, however many managed orders the listing shows.
TypeOK == ConfigType /\ OrderType /\ TickType /\ JobType

Init ==
  /\ enabled = FALSE /\ inBackoff = FALSE /\ keys = TRUE
  /\ ordersPerSide \in OpsChoices
  /\ registry = [o \in Orders |-> "none"]
  /\ book = [o \in Orders |-> "none"]
  /\ running = FALSE
  /\ pc = [t \in Ticks |-> "idle"]
  /\ ops = [t \in Ticks |-> DefaultOps]
  /\ local = [t \in Ticks |-> {}] /\ seen = [t \in Ticks |-> {}]
  /\ todo = [t \in Ticks |-> NoTodo]
  /\ cur = [t \in Ticks |-> NoOrder]
  /\ outcome = [t \in Ticks |-> "none"]
  /\ jpc = [j \in Jobs |-> "idle"]
  /\ ids = [j \in Jobs |-> {}]
  /\ tries = [j \in Jobs |-> 0]
  /\ clean = [j \in Jobs |-> FALSE] /\ settled = FALSE
  /\ strays = {} /\ crashes = 0 /\ exchange \in Exchanges
-----------------------------------------------------------------------------
(* Vocabulary of the actions *)

Live == {o \in Orders : book[o] = "live"}
OpenRows == {o \in Orders : registry[o] = "OPEN"}
Awaited == {o \in Orders : \E t \in Ticks : cur[t] = o}    \* the reply of its create is

\* The orders a listing that says ok may show.  NonKYC's shows those that are
\* live; listNestExOpenOrders also says ok after a 404 on every endpoint, after
\* a body it cannot parse, and when one of its queries failed and another did
\* not, and shows then what it has: any of them, or none.
Listings == IF exchange = "nestex" THEN SUBSET Live ELSE {Live}

\* updateStrategyOrderStatusRegistry: an UPDATE, so no row, no effect.
RowsClosed(S) == [o \in Orders |-> IF o \in S /\ registry[o] # "none"
                                   THEN "CLOSED" ELSE registry[o]]

\* An id of the pool may stand for a new order once nothing refers to the old.
Fresh(o) ==
  /\ book[o] \in {"none", "done"} /\ registry[o] # "OPEN"
  /\ \A t \in Ticks : o \notin local[t] /\ o \notin seen[t] /\ cur[t] # o
  /\ \A j \in Jobs : o \notin ids[j]

\* What cancelling order o at the exchange does to the book and, through the
\* reply, to the registry; ok tells whether the caller saw a success.  A
\* cancel of an order that is gone replies "not found", which the callers
\* treat as closed.
CancelOutcomeHasty(o, ok) ==
  /\ ok
  /\ book' \in {book, IF book[o] = "live" THEN [book EXCEPT ![o] = "done"] ELSE book}
  /\ registry' = RowsClosed({o})
CancelOutcome(o, ok) ==
  \/ /\ ok
     /\ book' = IF book[o] = "live" THEN [book EXCEPT ![o] = "done"] ELSE book
     /\ registry' = RowsClosed({o})
  \/ /\ CancelsMayFail /\ ~ok
     /\ book' \in {book, IF book[o] = "live" THEN [book EXCEPT ![o] = "done"] ELSE book}
     /\ UNCHANGED registry

\* shouldAbort re-reads the config before every slot and before every create.
ShouldAbort == ~enabled

\* runningConfigs.has(configId)
LockFree == ~running

Goto(t, s) == pc' = [pc EXCEPT ![t] = s]

\* The locals of a finished tick are garbage: reset them, to keep states few.
Forget(t) ==
  /\ Goto(t, "idle")
  /\ local' = [local EXCEPT ![t] = {}] /\ seen' = [seen EXCEPT ![t] = {}]
  /\ todo' = [todo EXCEPT ![t] = NoTodo]
  /\ cur' = [cur EXCEPT ![t] = NoOrder]
  /\ outcome' = [outcome EXCEPT ![t] = "none"]
  /\ ops' = [ops EXCEPT ![t] = DefaultOps]

\* The finally clause of tick releases the lock.
ReturnLocked(t) == Forget(t) /\ UNCHANGED running
Return(t) == Forget(t) /\ running' = FALSE

Start(j) ==                    \* cancelOutstandingOrders is called
  /\ jpc[j] = "idle"
  /\ jpc' = [jpc EXCEPT ![j] = "start"]
  /\ UNCHANGED <<ids, tries>>

-----------------------------------------------------------------------------
(* wrapStrategyTick: what the result of a tick does to the configuration *)

\* A retryable error sets next_allowed_at; any other is only recorded.
BackOffOrRecord ==
  /\ inBackoff' \in {TRUE, inBackoff}
  /\ UNCHANGED <<enabled, jobLocals>>

\* AUTH_FAILED disables the config and starts a cancellation nobody awaits.
AutoDisable ==
  /\ enabled' = FALSE
  /\ \E j \in Jobs : Start(j)
  /\ UNCHANGED inBackoff

Succeed == UNCHANGED <<enabled, inBackoff, jobLocals>>
-----------------------------------------------------------------------------
(* The tick *)

\* The config must be enabled and its backoff over.
BackoffOver == ~inBackoff
MayRun == enabled /\ ~inBackoff

\* mmRunner.tick up to its first await.  A config that is disabled, running
\* or in backoff returns at once and changes nothing.
TickStart(t) ==
  /\ pc[t] = "idle"
  /\ MayRun /\ LockFree
  /\ running' = TRUE
  /\ ops' = [ops EXCEPT ![t] = ordersPerSide]
  /\ Goto(t, "price")
  /\ UNCHANGED <<config, registry, book, local, seen, todo, cur, outcome, jobLocals,
                 clean, settled, strays, crashes, exchange>>

\* The mid price arrives, the keys are read, the balance is asked for.
TickPrice(t) ==
  /\ pc[t] = "price"
  /\ \/ /\ keys
        /\ Goto(t, "balance")
        /\ UNCHANGED <<running, ops, local, seen, todo, cur, outcome>> /\ Succeed
     \/ Return(t) /\ BackOffOrRecord
     \/ ~keys /\ Return(t) /\ AutoDisable
  /\ UNCHANGED <<ordersPerSide, keys, registry, book, clean, settled, strays, crashes, exchange>>

\* No balance, no trading (fail-closed); else the OPEN rows are read, before
\* the open orders are asked for.
TickBalance(t) ==
  /\ pc[t] = "balance"
  /\ \/ /\ Goto(t, "list") /\ local' = [local EXCEPT ![t] = OpenRows]
        /\ UNCHANGED <<running, ops, seen, todo, cur, outcome>> /\ Succeed
     \/ Return(t) /\ BackOffOrRecord
  /\ UNCHANGED <<ordersPerSide, keys, registry, book, clean, settled, strays, crashes, exchange>>

\* The exchange answers the listing, or the call fails.
ExchangeLists(t) ==
  /\ pc[t] = "list"
  /\ \/ \E shown \in Listings :
          /\ Goto(t, "listed") /\ seen' = [seen EXCEPT ![t] = shown]
          /\ strays' = strays \union (Live \ shown)
     \/ ListingFails /\ Goto(t, "unlisted") /\ UNCHANGED <<seen, strays>>
  /\ UNCHANGED <<config, registry, book, running, ops, local, todo, cur, outcome,
                 jobLocals, clean, settled, crashes, exchange>>

\* closeMissingStrategyOrdersRegistry runs only on an authoritative listing.
ReconcileAlways(t) == RowsClosed(OpenRows \ seen[t])
Reconciled(t) == IF pc[t] = "listed" THEN RowsClosed(OpenRows \ seen[t]) ELSE registry

\* The rows tick knows of: those it read before the listing, read again only
\* when the reconciliation has closed some.
LocalRows(t) == IF pc[t] = "listed" /\ ~(OpenRows \subseteq seen[t])
                THEN OpenRows \intersect seen[t] ELSE local[t]

\* The orders taken for the strategy's own: listed and in the registry.  When
\* the listing fails, NestEx falls back on the registry and NonKYC on nothing.
ManagedListed(t) == IF pc[t] = "listed" THEN seen[t] \intersect LocalRows(t) ELSE {}
Managed(t) == IF pc[t] = "listed" THEN seen[t] \intersect LocalRows(t)
              ELSE IF exchange = "nestex" THEN LocalRows(t) ELSE {}

Over(t, n)  == IF n > ops[t] THEN n - ops[t] ELSE 0
SlotsUnclamped(t, n) == ops[t] - n
SlotsFull(t, n) == ops[t]
Slots(t, n) == IF n < ops[t] THEN ops[t] - n ELSE 0

\* The listing's answer is handled: reconcile, maybe write the parameters
\* back as they were read when the tick began, stop at the refresh gate, or
\* choose which excess orders to cancel and how many slots each side has.
TickReconcile(t) ==
  LET n(s) == Cardinality(Managed(t) \intersect OrdersOf(s)) IN
  /\ pc[t] \in {"listed", "unlisted"}
  /\ registry' = Reconciled(t)
  /\ ordersPerSide' \in {ordersPerSide, ops[t]}
  /\ \/ Return(t)
     \/ /\ \E excess \in SUBSET Managed(t) :
             /\ \A s \in Sides : Cardinality(excess \intersect OrdersOf(s)) = Over(t, n(s))
             /\ seen' = [seen EXCEPT ![t] = excess]
             /\ Goto(t, IF excess = {} THEN "market" ELSE "cancel")
        /\ todo' = [todo EXCEPT ![t] = [s \in Sides |-> Slots(t, n(s))]]
        /\ local' = [local EXCEPT ![t] = {}]
        /\ UNCHANGED <<running, ops, cur, outcome>>
  /\ UNCHANGED <<enabled, inBackoff, keys, book, jobLocals, clean, settled, strays, crashes, exchange>>

\* One excess order is cancelled and its reply handled.
TickCancel(t) ==
  /\ pc[t] = "cancel"
  /\ \E o \in seen[t] :
       /\ \E ok \in BOOLEAN : CancelOutcome(o, ok)
       /\ seen' = [seen EXCEPT ![t] = @ \ {o}]
       /\ Goto(t, IF seen[t] = {o} THEN "market" ELSE "cancel")
  /\ UNCHANGED <<config, running, ops, local, todo, cur, outcome, jobLocals, clean, settled, strays, crashes, exchange>>

\* Market rules and top of book arrive; a throw ends the tick.
TickMarket(t) ==
  /\ pc[t] = "market"
  /\ \/ Goto(t, "place") /\ UNCHANGED <<running, ops, local, seen, todo, cur, outcome>> /\ Succeed
     \/ Return(t) /\ BackOffOrRecord
  /\ UNCHANGED <<ordersPerSide, keys, registry, book, clean, settled, strays, crashes, exchange>>

\* The ladder serves the BUY slots before the SELL slots.
NextSide(t) == IF todo[t]["BUY"] > 0 THEN "BUY" ELSE "SELL"

\* The next slot is given up: no room below the ask, a duplicate price, too
\* small an order, no inventory.  Only some of these reasons are errors.
SkipSlot(t) ==
  /\ pc[t] = "place" /\ ~ShouldAbort /\ todo[t][NextSide(t)] > 0
  /\ todo' = [todo EXCEPT ![t][NextSide(t)] = @ - 1]
  /\ outcome' \in {outcome, IF outcome[t] = "none" THEN [outcome EXCEPT ![t] = "error"]
                                                   ELSE outcome}
  /\ UNCHANGED <<config, registry, book, running, pc, ops, local, seen, cur, jobLocals,
                 clean, settled, strays, crashes, exchange>>

\* shouldAbort, then the create request leaves, in one synchronous step; o is a
\* new order, whatever became of the one this id stood for before.
SendCreate(t) ==
  /\ pc[t] = "place" /\ ~ShouldAbort /\ todo[t][NextSide(t)] > 0
  /\ \E o \in OrdersOf(NextSide(t)) :
       /\ Fresh(o)
       /\ book' = [book EXCEPT ![o] = "sent"]
       /\ registry' = [registry EXCEPT ![o] = "none"]
       /\ cur' = [cur EXCEPT ![t] = o]
       /\ strays' = strays \ {o}
  /\ todo' = [todo EXCEPT ![t][NextSide(t)] = @ - 1]
  /\ Goto(t, "creating")
  /\ UNCHANGED <<config, running, ops, local, seen, outcome, jobLocals, clean, settled, crashes, exchange>>

\* The reply of the create: a row is inserted only for a success that names
\* the order; an error reply may hide an order the exchange has accepted.
CreateReply(t) ==
  LET o == cur[t] IN
  /\ pc[t] = "creating"
  /\ \/ /\ book[o] \in {"live", "done"}
        /\ registry' = [registry EXCEPT ![o] = "OPEN"]
        /\ outcome' = [outcome EXCEPT ![t] = "placed"]
        /\ UNCHANGED strays
     \/ /\ book[o] = "none" \/ RepliesMayBeLost
        /\ strays' = strays \union {p \in Awaited : p = o /\ book[p] # "none"}
        /\ outcome' = [outcome EXCEPT ![t] = IF @ = "none" THEN "error" ELSE @]
        /\ UNCHANGED registry
  /\ cur' = [cur EXCEPT ![t] = NoOrder]
  /\ Goto(t, "place")
  /\ UNCHANGED <<config, book, running, ops, local, seen, todo, jobLocals, clean, settled, crashes, exchange>>

\* The ladder is exhausted or aborted: the parameters are written back as they
\* were read at the start, and the result goes to wrapStrategyTick.
WrittenBack(t) == ops[t]
TickEnd(t) ==
  /\ pc[t] = "place"
  /\ ShouldAbort \/ todo[t] = NoTodo
  /\ ordersPerSide' = WrittenBack(t)
  /\ Return(t)
  /\ IF outcome[t] = "error" THEN BackOffOrRecord ELSE Succeed
  /\ UNCHANGED <<keys, registry, book, clean, settled, strays, crashes, exchange>>
-----------------------------------------------------------------------------
(* The exchange *)

ExchangeAccepts(o) ==
  /\ book[o] = "sent" /\ book' = [book EXCEPT ![o] = "live"]
  /\ UNCHANGED <<config, registry, running, tickLocals, jobLocals, clean, settled, strays, crashes, exchange>>

ExchangeRejects(o) ==
  /\ book[o] = "sent" /\ book' = [book EXCEPT ![o] = "none"]
  /\ UNCHANGED <<config, registry, running, tickLocals, jobLocals, clean, settled, strays, crashes, exchange>>

Fill(o) ==
  /\ book[o] = "live" /\ book' = [book EXCEPT ![o] = "done"]
  /\ UNCHANGED <<config, registry, running, tickLocals, jobLocals, clean, settled, strays, crashes, exchange>>

-----------------------------------------------------------------------------
(* cancelOutstandingOrders *)

Quiet == (\A t \in Ticks : pc[t] = "idle") /\ (\A o \in Orders : book[o] # "sent")

Finish(j) ==
  /\ jpc' = [jpc EXCEPT ![j] = "idle"]
  /\ ids' = [ids EXCEPT ![j] = {}]
  /\ tries' = [tries EXCEPT ![j] = 0]
  /\ clean' = [clean EXCEPT ![j] = FALSE]
  /\ settled' = (settled \/ clean[j])

\* Without keys the rows are closed and the exchange is left alone; with them
\* the OPEN rows are read and the exchange is asked for its open orders.
JobStart(j) ==
  /\ jpc[j] = "start"
  /\ \/ /\ ~keys
        /\ registry' = RowsClosed(OpenRows)
        /\ strays' = strays \union (OpenRows \intersect Live)
        /\ Finish(j)
     \/ /\ keys
        /\ ids' = [ids EXCEPT ![j] = OpenRows]
        /\ jpc' = [jpc EXCEPT ![j] = "list"]
        /\ clean' = [clean EXCEPT ![j] = ~enabled /\ Quiet]
        /\ UNCHANGED <<registry, tries, settled, strays>>
  /\ UNCHANGED <<config, book, running, tickLocals, crashes, exchange>>

\* The listing adds orders the registry misses.  On NonKYC it adds those whose
\* userProvidedId has the strategy's prefix, and mmRunner sets none; on NestEx
\* every open order of the pair that is listed.  A failed listing adds none.
JobList(j) ==
  /\ jpc[j] = "list"
  /\ \/ exchange = "nestex" /\ \E shown \in Listings : ids' = [ids EXCEPT ![j] = @ \union shown]
     \/ (exchange = "nonkyc" \/ ListingFails) /\ UNCHANGED ids
  /\ jpc' = [jpc EXCEPT ![j] = "cancel"]
  /\ UNCHANGED <<config, registry, book, running, tickLocals, tries, clean, settled, strays, crashes, exchange>>

JobCancel(j) ==
  /\ jpc[j] \in {"cancel", "hard"}
  /\ \E o \in ids[j], ok \in BOOLEAN :
       /\ CancelOutcome(o, ok)
       /\ ids' = [ids EXCEPT ![j] = @ \ {o}]
       /\ clean' = IF ok THEN clean ELSE [clean EXCEPT ![j] = FALSE]
  /\ UNCHANGED <<config, running, tickLocals, jpc, tries, settled, strays, crashes, exchange>>

\* NonKYC is done; NestEx goes on to list and cancel whatever is still open.
JobCancelled(j) ==
  /\ jpc[j] = "cancel" /\ ids[j] = {}
  /\ \/ exchange = "nonkyc" /\ Finish(j)
     \/ /\ exchange = "nestex"
        /\ jpc' = [jpc EXCEPT ![j] = "hard"]
        /\ UNCHANGED <<ids, tries, clean, settled>>
  /\ UNCHANGED <<config, registry, book, running, tickLocals, strays, crashes, exchange>>

\* hardCancelNestExOpenOrders: at most three rounds, until a listing fails or
\* shows no order.
JobHardRound(j) ==
  /\ jpc[j] = "hard" /\ ids[j] = {}
  /\ \/ /\ tries[j] < MaxHardTries
        /\ \E shown \in Listings \ {{}} : ids' = [ids EXCEPT ![j] = shown]
        /\ tries' = [tries EXCEPT ![j] = @ + 1]
        /\ UNCHANGED <<jpc, clean, settled>>
     \/ (tries[j] = MaxHardTries \/ {} \in Listings \/ ListingFails) /\ Finish(j)
  /\ UNCHANGED <<config, registry, book, running, tickLocals, strays, crashes, exchange>>

-----------------------------------------------------------------------------
(* The user, time and crashes *)

\* An enable clears the backoff; every earlier stop is void.
Reenabled ==
  /\ enabled' = TRUE /\ inBackoff' = FALSE
  /\ clean' = [j \in Jobs |-> FALSE] /\ settled' = FALSE

\* POST config/:id/enable (refused without keys)
Enable ==
  /\ ~enabled /\ keys /\ Reenabled
  /\ UNCHANGED <<ordersPerSide, keys, registry, book, running, tickLocals,
                 jobLocals, strays, crashes, exchange>>

\* POST config/:id/disable
Disable ==
  /\ enabled /\ enabled' = FALSE
  /\ UNCHANGED <<inBackoff, ordersPerSide, keys, registry, book, running,
                 tickLocals, jobLocals, clean, settled, strays, crashes, exchange>>

\* POST config/upsert: new parameters, and enabled unless the caller asks it
Upsert(n) ==
  /\ ordersPerSide' = n
  /\ \/ Reenabled
     \/ enabled' = FALSE /\ UNCHANGED <<inBackoff, clean, settled>>
  /\ UNCHANGED <<keys, registry, book, running, tickLocals, jobLocals, strays, crashes, exchange>>

\* POST config/:id/cancel-orders answers at once and works in the background
RequestCancel(j) ==
  /\ Start(j)
  /\ UNCHANGED <<config, registry, book, running, tickLocals, clean, settled, strays, crashes, exchange>>

\* POST keys/clear and keys/set
ChangeKeys ==
  /\ KeysMayChange /\ keys' = ~keys
  /\ UNCHANGED <<enabled, inBackoff, ordersPerSide, registry, book, running,
                 tickLocals, jobLocals, clean, settled, strays, crashes, exchange>>

BackoffExpires ==
  /\ inBackoff /\ inBackoff' = FALSE
  /\ UNCHANGED <<enabled, ordersPerSide, keys, registry, book, running,
                 tickLocals, jobLocals, clean, settled, strays, crashes, exchange>>

\* The process dies and restarts: the database and the exchange remain, and
\* nobody waits any more for the reply of a create.
Crash ==
  /\ crashes < MaxCrashes /\ crashes' = crashes + 1 /\ UNCHANGED exchange
  /\ strays' = strays \union Awaited
  /\ running' = FALSE
  /\ pc' = [t \in Ticks |-> "idle"] /\ ops' = [t \in Ticks |-> DefaultOps]
  /\ local' = [t \in Ticks |-> {}] /\ seen' = [t \in Ticks |-> {}] /\ todo' = [t \in Ticks |-> NoTodo]
  /\ cur' = [t \in Ticks |-> NoOrder] /\ outcome' = [t \in Ticks |-> "none"]
  /\ jpc' = [j \in Jobs |-> "idle"] /\ ids' = [j \in Jobs |-> {}]
  /\ tries' = [j \in Jobs |-> 0] /\ clean' = [j \in Jobs |-> FALSE]
  /\ UNCHANGED <<config, registry, book, settled>>

-----------------------------------------------------------------------------

TickStep(t) ==
  \/ TickPrice(t) \/ TickBalance(t) \/ ExchangeLists(t) \/ TickReconcile(t)
  \/ TickCancel(t) \/ TickMarket(t) \/ SkipSlot(t) \/ SendCreate(t)
  \/ CreateReply(t) \/ TickEnd(t)

JobStep(j) == JobStart(j) \/ JobList(j) \/ JobCancel(j) \/ JobCancelled(j) \/ JobHardRound(j)

User == Enable \/ Disable \/ (\E n \in OpsChoices : Upsert(n))
        \/ (\E j \in Jobs : RequestCancel(j)) \/ ChangeKeys

Next ==
  \/ \E t \in Ticks : TickStart(t) \/ TickStep(t)
  \/ \E j \in Jobs : JobStep(j)
  \/ \E o \in Orders : ExchangeAccepts(o) \/ ExchangeRejects(o) \/ Fill(o)
  \/ User \/ BackoffExpires \/ Crash

Spec == Init /\ [][Next]_vars

\* The event loop runs what needs no call.  Nothing else is owed: the clients
\* of the exchanges set no timeout, so that a call may never be answered.
TickGoesOn(t) == TickReconcile(t) \/ SkipSlot(t) \/ SendCreate(t) \/ TickEnd(t)

Fairness == \A t \in Ticks : WF_vars(TickGoesOn(t))

FairSpec == Spec /\ Fairness
-----------------------------------------------------------------------------
(* Properties *)

\* At most one tick of the config is past its lock: what the module-level set
\* runningConfigs is for, although the scheduler's interval does not wait.
OneTick ==
  \A t, u \in Ticks : pc[t] # "idle" /\ pc[u] # "idle" => t = u

\* A row the registry has closed never stands for an order still live on the
\* exchange: whoever closes a row (reconciliation, excess cancels, a cancel
\* job) has seen the order gone, also across crashes and lost replies, unless
\* NestEx left it out of a listing or the user's keys were gone.
ClosedIsGone ==
  \A o \in Orders : registry[o] = "CLOSED" => book[o] # "live" \/ o \in strays

\* Every live order of the strategy has an OPEN row or is the one whose reply a
\* tick is waiting for, so that cancelOutstandingOrders and orders_per_side
\* reach it; it is out of their reach only if the reply of its create was lost
\* or met no process, NestEx left it out of a listing, or its row was closed
\* for want of keys.
LiveIsTracked ==
  Live \subseteq OpenRows \union Awaited \union strays

\* "Select max orders per side": the orders on a side, those on their way
\* included, never exceed the largest orders_per_side the user has chosen,
\* whatever fills, cancels, stops and restarts of the strategy come between;
\* only orders the strategy has lost sight of come on top.
MaxOps == CHOOSE n \in OpsChoices : \A m \in OpsChoices : m <= n
SideLimit ==
  \A s \in Sides :
    Cardinality({o \in OrdersOf(s) \ strays : book[o] \in {"sent", "live"}}) <= MaxOps

\* A cancellation that began with the strategy disabled and no tick or create
\* outstanding, and that saw every cancel succeed, has left nothing behind that
\* the strategy had not lost sight of.
StopIsClean == settled => \A o \in Orders \ strays : book[o] \notin {"sent", "live"}

\* A stop takes effect at the next create: no request for a new order leaves
\* while the config is disabled, whatever call the tick was waiting for.
StopBeforeNextCreate ==
  [][\A o \in Orders : book[o] # "sent" /\ book'[o] = "sent" => enabled]_vars

\* The tick waits for one call to the exchange for ever.
Hangs(t) == \E call \in {"price", "balance", "list", "cancel", "market", "creating"} :
              <>[](pc[t] = call)

\* Every tick gives the lock back, whatever it meets, unless one of its calls is
\* never answered: nothing but that can keep a configuration from its ticks.
LockReleased == []<>(~running) \/ \E t \in Ticks : Hangs(t)

\* Once the strategy stays disabled, its ticks die out for good, however many
\* slots they had left; only one whose call is never answered stays.
StopDrains == <>[](~enabled) => \A t \in Ticks : <>[](pc[t] = "idle") \/ Hangs(t)

=============================================================================
