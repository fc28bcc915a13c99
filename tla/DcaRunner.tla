----------------------------- MODULE DcaRunner -----------------------------
(***************************************************************************)
(* One dollar-cost-averaging (DCA) configuration of services/trade-api:    *)
(* the ticks the scheduler starts for it, the sweep orders they place to   *)
(* buy a budget at once, what they record of them in the database, and the *)
(* user who starts, edits and stops it meanwhile.                          *)
(*                                                                         *)
(* As in MmRunner a step is the code between two awaits.  A tick goes      *)
(*                                                                         *)
(*   queued -> open -> clear* -> price -> place                            *)
(*                                  (-> creating -> settle -> check)*      *)
(*                                                                         *)
(* queued: its scheduler tick has read the clock and still awaits the      *)
(* runners of other configs, so its time stamp may be old when it starts.  *)
(* Quantities count quote units at the price the tick has read.  The sweep *)
(* order's limit is 1.5 times that price.                                  *)
(***************************************************************************)
EXTENDS Integers, FiniteSets

CONSTANTS
  Ticks,          \* concurrent invocations of dcaRunner.tick for the config
  Jobs,           \* requests whose handler cancels the config's orders
  Orders,         \* exchange order ids
  Exchange,       \* "nonkyc" or "nestex"
  Budget, Interval, EndsAt,   \* params_json: budget, intervalSec, endsAt
  Caps,           \* params_json: values the user may give maxTotalSpend
  MinNotional,    \* getMinNotional of the exchange
  FillPrices,     \* halves of the price read at which a sweep order may fill
  MaxTime,        \* bound on the clock
  MaxBought,      \* bound on what the orders of a behaviour buy in all
  ListsMayFail, CancelsMayFail, RepliesMayBeLost,   \* faults of the exchange
  KeysMayChange,  \* the user may clear and set the API keys
  MaxCrashes      \* bound on process crashes

MaxSweeps == IF Exchange = "nestex" THEN 1 ELSE 3
MaxHardTries == 3    \* maxRetries of hardCancelNestExOpenOrders

ASSUME OrdersFinite == IsFiniteSet(Orders)
ASSUME NoTickIsAJob == Ticks \intersect Jobs = {}
ASSUME ParamsChecked ==    \* POST /v1/dca/config
  /\ Budget \in Nat \ {0} /\ Interval \in Nat \ {0} /\ EndsAt \in Nat
  /\ Caps \subseteq Nat \ {0} /\ Caps # {}
ASSUME MarketKnown ==
  /\ Exchange \in {"nonkyc", "nestex"}
  /\ MinNotional \in Nat \ {0} /\ FillPrices \subseteq 0..3
ASSUME Switches ==
  /\ ListsMayFail \in BOOLEAN /\ CancelsMayFail \in BOOLEAN
  /\ RepliesMayBeLost \in BOOLEAN /\ KeysMayChange \in BOOLEAN
ASSUME Bounds == MaxTime \in Nat \ {0} /\ MaxBought \in Nat /\ MaxCrashes \in Nat

VARIABLES
  \* trade_strategy_config, the key table, the recorded fills, strategy_order
  enabled, inBackoff, cap, keys,
  lastRun,    \* last_run_at, 0 when NULL
  spent,      \* getStrategyTotalSpend
  rows,       \* the OPEN rows of the registry; only NestEx orders get one
  \* the exchange
  book,       \* "none", "sent" (request on its way), "live", "done"
  want, got,  \* quantity of each order, and how much of it has been bought
  bought, cost,   \* totals: quantity bought, and its cost in halves of a unit
  \* the process's memory
  running,    \* tickLocks has the config
  pc, stamp, terms, left, sweeps, cur, named,   \* locals of each tick
  stage, todo, rounds,   \* locals of cancelOutstandingOrders, by its caller
  jpc,                   \* "idle", "cancel", "stop", "stopAll": what a job does
  \* time, history and bounds
  clock, crashes

config == <<enabled, inBackoff, cap, keys, lastRun, spent>>
exchange == <<book, want, got, bought, cost>>
tickLocals == <<pc, stamp, terms, left, sweeps, cur, named>>
cancelLocals == <<stage, todo, rounds, jpc>>
Callers == Ticks \union Jobs
others == <<clock, crashes>>
vars == <<config, rows, exchange, running, tickLocals, cancelLocals, others>>

NoOrder == "no order"
DefaultCap == CHOOSE c \in Caps : TRUE

ConfigType ==
  /\ enabled \in BOOLEAN /\ inBackoff \in BOOLEAN /\ keys \in BOOLEAN
  /\ cap \in Caps /\ lastRun \in Nat /\ spent \in Nat
ExchangeType ==
  /\ rows \subseteq Orders
  /\ book \in [Orders -> {"none", "sent", "live", "done"}]
  /\ want \in [Orders -> Nat] /\ got \in [Orders -> Nat]
  /\ bought \in Nat /\ cost \in Nat
TickType ==
  /\ running \in BOOLEAN
  /\ pc \in [Ticks -> {"idle", "queued", "open", "clear", "price", "place",
                       "creating", "settle", "check", "stopping"}]
  /\ stamp \in [Ticks -> Nat] /\ terms \in [Ticks -> Caps]
  /\ left \in [Ticks -> 0..Budget] /\ sweeps \in [Ticks -> 0..MaxSweeps]
  /\ cur \in [Ticks -> Orders \union {NoOrder}] /\ named \in [Ticks -> BOOLEAN]
CancelType ==
  /\ stage \in [Callers -> {"none", "list", "cancel", "hard", "done"}]
  /\ todo \in [Callers -> SUBSET Orders]
  /\ rounds \in [Callers -> 0..MaxHardTries]
  /\ jpc \in [Jobs -> {"idle", "cancel", "stop", "stopAll"}]
OtherType ==
  /\ clock \in 1..MaxTime /\ crashes \in 0..MaxCrashes

\* Every variable keeps its type; in particular a purchase never takes more
\* than the budget of its tick, however many sweeps it was made in.
TypeOK == ConfigType /\ ExchangeType /\ TickType /\ CancelType /\ OtherType

Init ==
  /\ enabled = TRUE /\ inBackoff = FALSE /\ keys = TRUE
  /\ cap \in Caps /\ lastRun = 0 /\ spent = 0
  /\ rows = {}
  /\ book = [o \in Orders |-> "none"]
  /\ want = [o \in Orders |-> 0] /\ got = [o \in Orders |-> 0]
  /\ bought = 0 /\ cost = 0
  /\ running = FALSE
  /\ pc = [t \in Ticks |-> "idle"]
  /\ stamp = [t \in Ticks |-> 0] /\ terms = [t \in Ticks |-> DefaultCap]
  /\ left = [t \in Ticks |-> 0] /\ sweeps = [t \in Ticks |-> 0]
  /\ cur = [t \in Ticks |-> NoOrder] /\ named = [t \in Ticks |-> FALSE]
  /\ stage = [p \in Callers |-> "none"]
  /\ todo = [p \in Callers |-> {}] /\ rounds = [p \in Callers |-> 0]
  /\ jpc = [j \in Jobs |-> "idle"]
  /\ clock = 1 /\ crashes = 0
-----------------------------------------------------------------------------
(* Vocabulary of the actions *)

Live == {o \in Orders : book[o] = "live"}

\* What a listing that succeeds may show.  The one of NestEx also succeeds, with
\* part of the orders or none, on answers it cannot use (404, no JSON).
Listings == IF Exchange = "nestex" THEN SUBSET Live ELSE {Live}

\* An id of the pool may stand for a new order once nothing refers to the old.
Fresh(o) ==
  /\ book[o] \in {"none", "done"} /\ o \notin rows
  /\ \A t \in Ticks : cur[t] # o
  /\ \A p \in Callers : o \notin todo[p]

Goto(t, s) == pc' = [pc EXCEPT ![t] = s]

\* What a request to cancel o may do to the book; ok: its caller saw success
\* or "not found".
CancelOutcome(o, ok) ==
  LET gone == IF book[o] = "live" THEN [book EXCEPT ![o] = "done"] ELSE book IN
  \/ ok /\ book' = gone
  \/ CancelsMayFail /\ ~ok /\ book' \in {book, gone}

\* The finally clause of tick deletes its lock.  The locals of a tick that is
\* over are garbage: reset them, to keep the states few.
ForgetTick(t) ==
  /\ Goto(t, "idle")
  /\ stamp' = [stamp EXCEPT ![t] = 0] /\ terms' = [terms EXCEPT ![t] = DefaultCap]
  /\ left' = [left EXCEPT ![t] = 0] /\ sweeps' = [sweeps EXCEPT ![t] = 0]
  /\ cur' = [cur EXCEPT ![t] = NoOrder] /\ named' = [named EXCEPT ![t] = FALSE]
Return(t) == ForgetTick(t) /\ running' = FALSE

\* wrapStrategyTick: a retryable error sets next_allowed_at, others are noted.
BackOffOrRecord == inBackoff' \in {TRUE, inBackoff}

\* cancelOutstandingOrders up to its first await: without keys it closes the
\* rows and is done, otherwise the OPEN rows are the first to be cancelled.
BeginCancel(p) ==
  IF keys
  THEN /\ stage' = [stage EXCEPT ![p] = "list"]
       /\ todo' = [todo EXCEPT ![p] = rows]
       /\ UNCHANGED <<rows, rounds>>
  ELSE /\ stage' = [stage EXCEPT ![p] = "done"]
       /\ rows' = {}
       /\ UNCHANGED <<todo, rounds>>

\* dcaRunner.tick goes on only for an enabled config that no other tick runs;
\* wrapStrategyTick, only when no backoff is under way.
AlwaysFree == TRUE
LockFree == ~running
MayRun == enabled /\ LockFree /\ ~inBackoff

\* The two caps that end a DCA, and the interval between two purchases.
NeverOver(t) == FALSE
DurationOver(t) == EndsAt # 0 /\ stamp[t] >= EndsAt
BudgetOverOnceSpent(t) == spent > cap
BudgetOver(t) == spent + Budget > cap
TooSoonNow(t) == lastRun > 0 /\ clock - lastRun < Interval
TooSoon(t) == lastRun > 0 /\ stamp[t] - lastRun < Interval
-----------------------------------------------------------------------------
(* The scheduler and the tick *)

\* A scheduler tick reads the clock and the enabled configs.  The interval
\* timer starts the next one whether or not the last has finished.
Dispatch(t) ==
  /\ pc[t] = "idle" /\ enabled
  /\ Goto(t, "queued") /\ stamp' = [stamp EXCEPT ![t] = clock]
  /\ UNCHANGED <<config, rows, exchange, running, terms, left, sweeps, cur, named,
                 cancelLocals, others>>

\* A disabled, running or backing-off config is skipped.
Skip(t) ==
  /\ pc[t] = "queued" /\ ~MayRun
  /\ ForgetTick(t)
  /\ UNCHANGED <<config, rows, exchange, running, cancelLocals, others>>

\* A cap is reached: disable the config and cancel what it has open.
ReachCap(t) ==
  /\ pc[t] = "queued" /\ MayRun
  /\ DurationOver(t) \/ BudgetOver(t)
  /\ enabled' = FALSE /\ running' = TRUE
  /\ Goto(t, "stopping") /\ BeginCancel(t)
  /\ UNCHANGED <<inBackoff, cap, keys, lastRun, spent, exchange, stamp, terms, left,
                 sweeps, cur, named, jpc, others>>

\* The interval since the last purchase has not passed.
TooEarly(t) ==
  /\ pc[t] = "queued" /\ MayRun /\ ~DurationOver(t) /\ ~BudgetOver(t) /\ TooSoon(t)
  /\ ForgetTick(t)
  /\ UNCHANGED <<config, rows, exchange, running, cancelLocals, others>>

\* Without keys: AUTH_FAILED, which disables the config and starts a
\* cancellation nobody awaits.
AutoDisable(t) ==
  /\ pc[t] = "queued" /\ MayRun /\ ~DurationOver(t) /\ ~BudgetOver(t) /\ ~TooSoon(t)
  /\ ~keys
  /\ enabled' = FALSE /\ rows' = {}
  /\ ForgetTick(t)
  /\ UNCHANGED <<inBackoff, cap, keys, lastRun, spent, exchange, running,
                 cancelLocals, others>>

\* A purchase begins: the open orders are asked for, or read from the rows.
TickStart(t) ==
  /\ pc[t] = "queued" /\ MayRun /\ ~DurationOver(t) /\ ~BudgetOver(t) /\ ~TooSoon(t)
  /\ keys
  /\ running' = TRUE /\ terms' = [terms EXCEPT ![t] = cap]
  /\ IF Exchange = "nonkyc"
     THEN Goto(t, "open") /\ UNCHANGED todo
     ELSE Goto(t, "clear") /\ todo' = [todo EXCEPT ![t] = rows]
  /\ UNCHANGED <<config, rows, exchange, stamp, left, sweeps, cur, named, stage, rounds,
                 jpc, others>>

\* getDCAOpenOrders: the orders with the config's prefix; none when it fails.
TickList(t) ==
  /\ pc[t] = "open"
  /\ Goto(t, "clear")
  /\ \/ todo' = [todo EXCEPT ![t] = Live]
     \/ ListsMayFail /\ UNCHANGED todo
  /\ UNCHANGED <<config, rows, exchange, running, stamp, terms, left, sweeps, cur, named,
                 stage, rounds, jpc, others>>

\* The hard rule: cancel them all; failures are ignored, no row is touched.
TickClear(t) ==
  /\ pc[t] = "clear"
  /\ \E o \in todo[t] :
       /\ \E ok \in BOOLEAN : CancelOutcome(o, ok)
       /\ todo' = [todo EXCEPT ![t] = @ \ {o}]
  /\ UNCHANGED <<config, rows, want, got, bought, cost, running, tickLocals, stage, rounds,
                 jpc, others>>

\* canPlaceOrder may refuse (hourly and daily limits: a retryable error).
TickCleared(t) ==
  /\ pc[t] = "clear" /\ todo[t] = {}
  /\ \/ /\ Goto(t, "price")
        /\ UNCHANGED <<running, stamp, terms, left, sweeps, cur, named, inBackoff>>
     \/ Return(t) /\ inBackoff' = TRUE
  /\ UNCHANGED <<enabled, cap, keys, lastRun, spent, rows, exchange, cancelLocals, others>>

\* The price arrives, or fails to; a budget below the minimum is an error.
TickPrice(t) ==
  /\ pc[t] = "price"
  /\ \/ /\ Budget >= MinNotional
        /\ Goto(t, "place") /\ left' = [left EXCEPT ![t] = Budget]
        /\ UNCHANGED <<running, stamp, terms, sweeps, cur, named, inBackoff>>
     \/ Return(t) /\ BackOffOrRecord
  /\ UNCHANGED <<enabled, cap, keys, lastRun, spent, rows, exchange, cancelLocals, others>>
-----------------------------------------------------------------------------
(* executeDcaBuyAllIn *)

\* Quantity of the next order: what is left, at 1.5 times the price.
QuantityOfAll(t) == (2 * Budget) \div 3
Quantity(t) == (2 * left[t]) \div 3
MaySweep(t) == sweeps[t] < MaxSweeps /\ left[t] >= MinNotional /\ Quantity(t) > 0

\* The create request leaves.  Nothing reads the config again before it does.
SendCreate(t) ==
  /\ pc[t] = "place" /\ MaySweep(t)
  /\ \E o \in Orders :
       /\ Fresh(o)
       /\ book' = [book EXCEPT ![o] = "sent"]
       /\ want' = [want EXCEPT ![o] = Quantity(t)]
       /\ got' = [got EXCEPT ![o] = 0]
       /\ cur' = [cur EXCEPT ![t] = o]
  /\ sweeps' = [sweeps EXCEPT ![t] = @ + 1]
  /\ Goto(t, "creating")
  /\ UNCHANGED <<config, rows, bought, cost, running, stamp, terms, left, named,
                 cancelLocals, others>>

\* A request that does not get through: an error with no order behind it.
CreateUnsent(t) ==
  /\ pc[t] = "place" /\ MaySweep(t)
  /\ \/ /\ Exchange = "nestex"
        /\ Return(t) /\ BackOffOrRecord
     \/ /\ Exchange = "nonkyc"
        /\ sweeps' \in {[sweeps EXCEPT ![t] = @ + 1], [sweeps EXCEPT ![t] = MaxSweeps]}
        /\ UNCHANGED <<running, pc, stamp, terms, left, cur, named, inBackoff>>
  /\ UNCHANGED <<enabled, cap, keys, lastRun, spent, rows, exchange, cancelLocals, others>>

\* A success, which the reply may fail to put an order id to; only NestEx
\* orders get a row, and only those with an id.
CreateAccepted(t) ==
  /\ pc[t] = "creating" /\ book[cur[t]] \in {"live", "done"}
  /\ \E id \in {TRUE, ~RepliesMayBeLost} :
       /\ named' = [named EXCEPT ![t] = id]
       /\ rows' = IF id /\ Exchange = "nestex" THEN rows \union {cur[t]} ELSE rows
  /\ Goto(t, "settle")
  /\ UNCHANGED <<config, exchange, running, stamp, terms, left, sweeps, cur,
                 cancelLocals, others>>

\* An error, behind which an accepted order may hide: NestEx gives up, NonKYC
\* goes on with the next sweep unless the reason is critical.
CreateFailed(t) ==
  /\ pc[t] = "creating" /\ (book[cur[t]] = "none" \/ RepliesMayBeLost)
  /\ \/ /\ Exchange = "nestex"
        /\ Return(t) /\ BackOffOrRecord
     \/ /\ Exchange = "nonkyc"
        /\ cur' = [cur EXCEPT ![t] = NoOrder]
        /\ sweeps' \in {sweeps, [sweeps EXCEPT ![t] = MaxSweeps]}
        /\ Goto(t, "place")
        /\ UNCHANGED <<running, stamp, terms, left, named, inBackoff>>
  /\ UNCHANGED <<enabled, cap, keys, lastRun, spent, rows, exchange, cancelLocals, others>>

\* 1.5 s later the order is cancelled, if its id is known.  NestEx counts the
\* budget as spent whatever the cancel has left of the order.
TickSettle(t) ==
  /\ pc[t] = "settle"
  /\ IF named[t]
     THEN \E ok \in BOOLEAN :
            /\ CancelOutcome(cur[t], ok)
            /\ rows' = IF ok /\ Exchange = "nestex" THEN rows \ {cur[t]} ELSE rows
     ELSE UNCHANGED <<book, rows>>
  /\ IF Exchange = "nestex"
     THEN /\ left' = [left EXCEPT ![t] = 0] /\ cur' = [cur EXCEPT ![t] = NoOrder]
          /\ Goto(t, "place")
     ELSE Goto(t, "check") /\ UNCHANGED <<left, cur>>
  /\ UNCHANGED <<config, want, got, bought, cost, running, stamp, terms, sweeps, named,
                 cancelLocals, others>>

\* An order the listing shows has filled as far as it says; one it does not
\* show, or a listing that fails, is taken for a complete fill.
FilledIfGone(t) == 0
Filled(t) == want[cur[t]]
TickCheck(t) ==
  /\ pc[t] = "check"
  /\ \E filled \in (IF named[t] /\ book[cur[t]] = "live" THEN {got[cur[t]]} ELSE {Filled(t)})
                   \union (IF ListsMayFail THEN {Filled(t)} ELSE {}) :
       left' = [left EXCEPT ![t] = @ - filled]
  /\ cur' = [cur EXCEPT ![t] = NoOrder] /\ named' = [named EXCEPT ![t] = FALSE]
  /\ Goto(t, "place")
  /\ UNCHANGED <<config, rows, exchange, running, stamp, terms, sweeps, cancelLocals, others>>

\* The sweeps are over.  A purchase is recorded, the parameters are written
\* back as they were read when the tick began, last_run_at gets its stamp.
Record(t) == spent' = spent + Budget - left[t]
TickEnd(t) ==
  /\ pc[t] = "place" /\ ~MaySweep(t)
  /\ IF left[t] < Budget
     THEN /\ Record(t)
          /\ lastRun' = stamp[t] /\ cap' = terms[t]
          /\ UNCHANGED inBackoff
     ELSE BackOffOrRecord /\ UNCHANGED <<spent, lastRun, cap>>
  /\ Return(t)
  /\ UNCHANGED <<enabled, keys, rows, exchange, cancelLocals, others>>
-----------------------------------------------------------------------------
(* The exchange *)

Accept(o) ==
  /\ book[o] = "sent" /\ book' = [book EXCEPT ![o] = "live"]
  /\ UNCHANGED <<config, rows, want, got, bought, cost, running, tickLocals,
                 cancelLocals, others>>

Reject(o) ==
  /\ book[o] = "sent" /\ book' = [book EXCEPT ![o] = "none"]
  /\ UNCHANGED <<config, rows, want, got, bought, cost, running, tickLocals,
                 cancelLocals, others>>

Fill(o) ==
  /\ book[o] = "live"
  /\ \E k \in 1..(want[o] - got[o]), p \in FillPrices :
       /\ bought + k <= MaxBought
       /\ got' = [got EXCEPT ![o] = @ + k]
       /\ book' = IF got[o] + k = want[o] THEN [book EXCEPT ![o] = "done"] ELSE book
       /\ bought' = bought + k /\ cost' = cost + p * k
  /\ UNCHANGED <<config, rows, want, running, tickLocals, cancelLocals, others>>
-----------------------------------------------------------------------------
(* cancelOutstandingOrders *)

\* The listing adds what the rows miss: on NonKYC the orders with the config's
\* prefix, on NestEx every open order of the pair.
CancelList(p) ==
  /\ stage[p] = "list"
  /\ \/ \E shown \in Listings : todo' = [todo EXCEPT ![p] = @ \union shown]
     \/ ListsMayFail /\ UNCHANGED todo
  /\ stage' = [stage EXCEPT ![p] = "cancel"]
  /\ UNCHANGED <<config, rows, exchange, running, tickLocals, rounds, jpc, others>>

CancelOne(p) ==
  /\ stage[p] \in {"cancel", "hard"}
  /\ \E o \in todo[p], ok \in BOOLEAN :
       /\ CancelOutcome(o, ok)
       /\ rows' = IF ok THEN rows \ {o} ELSE rows
       /\ todo' = [todo EXCEPT ![p] = @ \ {o}]
  /\ UNCHANGED <<config, want, got, bought, cost, running, tickLocals, stage, rounds, jpc,
                 others>>

\* NestEx lists and cancels again, at most three times.
CancelAgain(p) ==
  /\ stage[p] \in {"cancel", "hard"} /\ todo[p] = {}
  /\ Exchange = "nestex" /\ rounds[p] < MaxHardTries
  /\ \E shown \in Listings \ {{}} : todo' = [todo EXCEPT ![p] = shown]
  /\ rounds' = [rounds EXCEPT ![p] = @ + 1]
  /\ stage' = [stage EXCEPT ![p] = "hard"]
  /\ UNCHANGED <<config, rows, exchange, running, tickLocals, jpc, others>>

CancelDone(p) ==
  /\ stage[p] \in {"cancel", "hard"} /\ todo[p] = {}
  /\ Exchange = "nonkyc" \/ rounds[p] = MaxHardTries \/ {} \in Listings \/ ListsMayFail
  /\ stage' = [stage EXCEPT ![p] = "done"] /\ rounds' = [rounds EXCEPT ![p] = 0]
  /\ UNCHANGED <<config, rows, exchange, running, tickLocals, todo, jpc, others>>

CancelStep(p) == CancelList(p) \/ CancelOne(p) \/ CancelAgain(p) \/ CancelDone(p)

\* The tick that reached a cap ends.
TickStopped(t) ==
  /\ pc[t] = "stopping" /\ stage[t] = "done"
  /\ stage' = [stage EXCEPT ![t] = "none"]
  /\ Return(t)
  /\ UNCHANGED <<config, rows, exchange, todo, rounds, jpc, others>>

\* The handler of a job ends: POST stop answers that the DCA has stopped; with
\* stopAll it disables the config only now.
Answer(j) ==
  /\ jpc[j] # "idle" /\ stage[j] = "done"
  /\ jpc' = [jpc EXCEPT ![j] = "idle"] /\ stage' = [stage EXCEPT ![j] = "none"]
  /\ enabled' = (enabled /\ jpc[j] # "stopAll")
  /\ UNCHANGED <<inBackoff, cap, keys, lastRun, spent, rows, exchange, running, tickLocals,
                 todo, rounds, others>>
-----------------------------------------------------------------------------
(* The user, time and crashes *)

\* POST /v1/dca/start (refused without keys) and /v1/dca/config
Reenabled == enabled' = TRUE /\ inBackoff' = FALSE

Start ==
  /\ keys /\ Reenabled
  /\ UNCHANGED <<cap, keys, lastRun, spent, rows, exchange, running, tickLocals,
                 cancelLocals, others>>

Configure(c) ==
  /\ cap' = c /\ Reenabled
  /\ UNCHANGED <<keys, lastRun, spent, rows, exchange, running, tickLocals,
                 cancelLocals, others>>

\* POST /v1/dca/stop; a stop of all cancels the orders first.  The bot follows
\* it with POST config/:id/cancel-orders.
Request(j, what) ==
  /\ jpc[j] = "idle"
  /\ jpc' = [jpc EXCEPT ![j] = what]
  /\ enabled' = (enabled /\ what # "stop")
  /\ BeginCancel(j)
  /\ UNCHANGED <<inBackoff, cap, keys, lastRun, spent, exchange, running, tickLocals, others>>

\* POST keys/clear and keys/set
ChangeKeys ==
  /\ KeysMayChange /\ keys' = ~keys
  /\ UNCHANGED <<enabled, inBackoff, cap, lastRun, spent, rows, exchange, running,
                 tickLocals, cancelLocals, others>>

BackoffExpires ==
  /\ inBackoff /\ inBackoff' = FALSE
  /\ UNCHANGED <<enabled, cap, keys, lastRun, spent, rows, exchange, running,
                 tickLocals, cancelLocals, others>>

Elapse ==
  /\ clock < MaxTime /\ clock' = clock + 1
  /\ UNCHANGED <<config, rows, exchange, running, tickLocals, cancelLocals, crashes>>

\* The process dies and restarts: the database and the exchange remain.
Crash ==
  /\ crashes < MaxCrashes /\ crashes' = crashes + 1
  /\ running' = FALSE
  /\ pc' = [t \in Ticks |-> "idle"]
  /\ stamp' = [t \in Ticks |-> 0] /\ terms' = [t \in Ticks |-> DefaultCap]
  /\ left' = [t \in Ticks |-> 0] /\ sweeps' = [t \in Ticks |-> 0]
  /\ cur' = [t \in Ticks |-> NoOrder] /\ named' = [t \in Ticks |-> FALSE]
  /\ stage' = [p \in Callers |-> "none"]
  /\ todo' = [p \in Callers |-> {}] /\ rounds' = [p \in Callers |-> 0]
  /\ jpc' = [j \in Jobs |-> "idle"]
  /\ UNCHANGED <<config, rows, exchange, clock>>
-----------------------------------------------------------------------------

TickStep(t) ==
  \/ Skip(t) \/ ReachCap(t) \/ TooEarly(t) \/ AutoDisable(t) \/ TickStart(t)
  \/ TickList(t) \/ TickClear(t) \/ TickCleared(t) \/ TickPrice(t)
  \/ SendCreate(t) \/ CreateUnsent(t) \/ CreateAccepted(t) \/ CreateFailed(t)
  \/ TickSettle(t) \/ TickCheck(t) \/ TickEnd(t) \/ TickStopped(t)

User ==
  \/ Start \/ (\E c \in Caps : Configure(c)) \/ ChangeKeys
  \/ \E j \in Jobs, what \in {"cancel", "stop", "stopAll"} : Request(j, what)

Next ==
  \/ \E t \in Ticks : Dispatch(t) \/ TickStep(t)
  \/ \E p \in Callers : CancelStep(p)
  \/ \E j \in Jobs : Answer(j)
  \/ \E o \in Orders : Accept(o) \/ Reject(o) \/ Fill(o)
  \/ User \/ BackoffExpires \/ Elapse \/ Crash

Spec == Init /\ [][Next]_vars

\* The tick waits for a call to the exchange, or for calls of its cancellation.
Awaits(t) ==
  \/ pc[t] \in {"open", "price", "creating", "check"}
  \/ pc[t] = "clear" /\ todo[t] # {}
  \/ pc[t] = "settle" /\ named[t]
  \/ pc[t] = "stopping" /\ stage[t] # "done"

\* The timers of the scheduler and of the sweeps fire, the clock goes on and a
\* backoff ends.  Nothing else is owed: the clients of the exchanges set no
\* timeout, so that a call may never be answered.
Fairness ==
  /\ \A t \in Ticks : WF_vars(Dispatch(t)) /\ WF_vars(~Awaits(t) /\ TickStep(t))
  /\ WF_vars(BackoffExpires) /\ WF_vars(Elapse)

FairSpec == Spec /\ Fairness
-----------------------------------------------------------------------------
(* Properties *)

\* A tick is at work on the config; the one the lock is for.
Busy(t) == pc[t] \notin {"idle", "queued"}

\* As long as the exchange is reliable, an order on its way or on the book is
\* the one a tick that holds the lock is at: so never two at once, and none
\* outlives its tick, whatever stops, starts and overlapping ticks come between.
OrderHasItsTick ==
  \A o \in Orders : book[o] \in {"sent", "live"} =>
    /\ \E t \in Ticks : Busy(t) /\ cur[t] = o
    /\ \A q \in Orders \ {o} : book[q] \notin {"sent", "live"}

\* Nothing is bought off the books: when no tick is at work, what orders have
\* bought is covered by the recorded spending that the caps are checked against.
NothingUnrecorded == ~running => bought <= spent

\* Whatever the exchange, the network, the user and crashes do, the recorded
\* purchases stay within the spending limit, the budget and the interval.
Buyer == INSTANCE BudgetedBuyer
ImplementsBuyer == Buyer!Spec

\* The tick waits for the exchange for ever.
Hangs(t) == <>[]Awaits(t)

\* A config whose time is up ends, even if every tick meets errors, the process
\* dies and the user starts it again: only a tick that waits for the exchange for
\* ever, and keeps the lock, can put that off.
TimeIsUp == EndsAt # 0 /\ clock >= EndsAt
DurationEnds == (TimeIsUp ~> ~enabled) \/ \E t \in Ticks : Hangs(t)

\* "Max Spend": what the config pays never exceeds the limit it was given.
CostWithinCap == cost <= 2 * cap

=============================================================================
