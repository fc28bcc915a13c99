------------------------- MODULE MmRunner_proofs -------------------------
(* Proofs about MmRunner, for every value of its constants. *)
EXTENDS MmRunner, FiniteSetTheorems, TLAPS

\* The default of orders_per_side is one of the choices.
LEMMA DefaultOpsType == DefaultOps \in OpsChoices
  BY OpsAreCounts DEF DefaultOps

\* A count of managed orders of a side is a natural number, so the slots left
\* on that side are too.
LEMMA SlotsType ==
  ASSUME TypeOK, NEW t \in Ticks, NEW s \in Sides
  PROVE  Slots(t, Cardinality(Managed(t) \intersect OrdersOf(s))) \in Nat
<1>1. IsFiniteSet(OrdersOf(s))
  BY OrdersFinite DEF OrdersOf
<1>2. IsFiniteSet(Managed(t) \intersect OrdersOf(s))
  BY <1>1, FS_Intersection
<1>3. Cardinality(Managed(t) \intersect OrdersOf(s)) \in Nat
  BY <1>2, FS_CardinalityType
<1>4. ops[t] \in Nat
  BY OpsAreCounts DEF TypeOK, TickType
<1> QED
  BY <1>3, <1>4 DEF Slots

\* Closing rows keeps the registry well typed.
LEMMA RowsClosedType ==
  ASSUME TypeOK, NEW S
  PROVE  RowsClosed(S) \in [Orders -> {"none", "OPEN", "CLOSED"}]
  BY DEF RowsClosed, TypeOK, OrderType

\* Leaving the tick resets its locals to values of their types.
LEMMA ReturnType ==
  ASSUME TypeOK, NEW t \in Ticks, Return(t)
  PROVE  TickType'
<1>1. NoTodo \in [Sides -> Nat]
  BY DEF NoTodo
<1> QED
  BY <1>1, DefaultOpsType DEF TypeOK, TickType, TickStates, Return, Forget, Goto

\* So does the end of a cancellation with its locals.
LEMMA FinishType ==
  ASSUME TypeOK, NEW j \in Jobs, Finish(j)
  PROVE  JobType'
<1>1. clean' \in [Jobs -> BOOLEAN]
  BY DEF TypeOK, JobType, Finish
<1>2. settled' \in BOOLEAN
  BY DEF Finish
<1>3. 0 \in 0..MaxHardTries
  BY DEF MaxHardTries
<1> QED
  BY <1>1, <1>2, <1>3 DEF TypeOK, JobType, JobStates, Finish

\* Every variable keeps its type, for any number of ticks, jobs and orders.
THEOREM TypeCorrect == Spec => []TypeOK
<1>1. Init => TypeOK
  <2> SUFFICES ASSUME Init PROVE TypeOK
    OBVIOUS
  <2>1. ConfigType
    <3>1. 0 \in 0..MaxCrashes
      BY CrashBound
    <3>2. enabled \in BOOLEAN /\ inBackoff \in BOOLEAN /\ keys \in BOOLEAN
      BY DEF Init
    <3>3. ordersPerSide \in OpsChoices
      BY DEF Init
    <3> QED
      BY <3>1, <3>2, <3>3 DEF Init, ConfigType
  <2>4. OrderType
    BY DEF Init, OrderType
  <2>2. TickType
    BY DefaultOpsType DEF Init, TickType, TickStates, Sides, NoTodo
  <2>3. JobType
    <3>1. 0 \in 0..MaxHardTries
      BY DEF MaxHardTries
    <3> QED
      BY <3>1 DEF Init, JobType, JobStates
  <2> QED
    BY <2>1, <2>2, <2>3, <2>4 DEF TypeOK
<1>2. TypeOK /\ [Next]_vars => TypeOK'
  <2> SUFFICES ASSUME TypeOK, [Next]_vars PROVE TypeOK'
    OBVIOUS
  <2> USE DefaultOpsType, CrashBound
  <2>1. ASSUME NEW t \in Ticks, TickStart(t) PROVE TypeOK'
    <3>1. TickType'
      BY <2>1 DEF TypeOK, TickStart, Goto, config, tickLocals, jobLocals, TickType, TickStates, Sides, NoTodo, ConfigType, MayRun
    <3> QED
      BY <2>1, <3>1 DEF TypeOK, TickStart, config, tickLocals, jobLocals, ConfigType, OrderType, JobType
  <2>2. ASSUME NEW t \in Ticks, TickPrice(t) PROVE TypeOK'
    <3>1. ConfigType'
      BY <2>2 DEF TypeOK, TickPrice, Goto, Succeed, Return, Forget, NoTodo, BackOffOrRecord, AutoDisable, Start, jobLocals, config, tickLocals, jobLocals, ConfigType
    <3>2. TickType'
      BY <2>2, ReturnType DEF TypeOK, TickPrice, Goto, TickType, TickStates
    <3>3. JobType'
      BY <2>2 DEF TypeOK, TickPrice, Goto, Succeed, Return, Forget, NoTodo, BackOffOrRecord, AutoDisable, Start, jobLocals, config, tickLocals, jobLocals, JobType, JobStates, MaxHardTries
    <3> QED
      BY <2>2, <3>1, <3>2, <3>3 DEF TypeOK, TickPrice, config, tickLocals, jobLocals, OrderType
  <2>3. ASSUME NEW t \in Ticks, TickBalance(t) PROVE TypeOK'
    <3>1. ConfigType'
      BY <2>3 DEF TypeOK, TickBalance, Goto, Succeed, Return, Forget, NoTodo, BackOffOrRecord, jobLocals, config, tickLocals, jobLocals, ConfigType
    <3>2. TickType'
      BY <2>3, ReturnType DEF TypeOK, TickBalance, Goto, OpenRows, TickType, TickStates
    <3>3. JobType'
      BY <2>3 DEF TypeOK, TickBalance, Goto, Succeed, Return, Forget, NoTodo, BackOffOrRecord, jobLocals, config, tickLocals, jobLocals, JobType, JobStates, MaxHardTries
    <3> QED
      BY <2>3, <3>1, <3>2, <3>3 DEF TypeOK, TickBalance, config, tickLocals, jobLocals, OrderType
  <2>4. ASSUME NEW t \in Ticks, ExchangeLists(t) PROVE TypeOK'
    <3>1. \A shown \in Listings : shown \subseteq Orders
      BY DEF Listings, Live
    <3>2. TickType'
      BY <2>4, <3>1 DEF TypeOK, ExchangeLists, Goto, config, tickLocals, jobLocals, TickType, TickStates
    <3>3. OrderType'
      BY <2>4 DEF TypeOK, ExchangeLists, Live, OrderType
    <3> QED
      BY <2>4, <3>2, <3>3 DEF TypeOK, ExchangeLists, config, tickLocals, jobLocals, ConfigType, JobType
  <2>5. ASSUME NEW t \in Ticks, TickReconcile(t) PROVE TypeOK'
    <3>1. ConfigType'
      BY <2>5 DEF TypeOK, TickReconcile, config, tickLocals, jobLocals, ConfigType, TickType
    <3>2. OrderType'
      BY <2>5, RowsClosedType DEF TypeOK, TickReconcile, Reconciled, OrderType
    <3> DEFINE room == [s \in Sides |-> Slots(t, Cardinality(Managed(t) \intersect OrdersOf(s)))]
    <3>3. todo' \in [Ticks -> [Sides -> Nat]]
      <4>1. room \in [Sides -> Nat]
        BY SlotsType
      <4>2. CASE Return(t)
        BY <4>2, ReturnType DEF TickType
      <4>3. CASE todo' = [todo EXCEPT ![t] = room]
        <5> HIDE DEF room
        <5> QED
          BY <4>1, <4>3 DEF TypeOK, TickType
      <4> QED
        BY <2>5, <4>2, <4>3 DEF TickReconcile
    <3>4. seen' \in [Ticks -> SUBSET Orders]
      <4>1. Managed(t) \subseteq Orders
        BY DEF Managed, LocalRows, OpenRows, TypeOK, TickType
      <4> QED
        BY <2>5, <4>1, ReturnType DEF TypeOK, TickReconcile, TickType
    <3>5. TickType'
      BY <2>5, <3>3, <3>4, ReturnType DEF TypeOK, TickReconcile, Goto, TickType, TickStates
    <3> QED
      BY <2>5, <3>1, <3>2, <3>5 DEF TypeOK, TickReconcile, config, tickLocals, jobLocals, JobType
  <2>6. ASSUME NEW t \in Ticks, TickCancel(t) PROVE TypeOK'
    <3>1. OrderType'
      BY <2>6 DEF TypeOK, TickCancel, Goto, CancelOutcome, RowsClosed, config, tickLocals, jobLocals, OrderType
    <3>2. TickType'
      BY <2>6 DEF TypeOK, TickCancel, Goto, CancelOutcome, RowsClosed, config, tickLocals, jobLocals, TickType, TickStates, Sides, NoTodo
    <3> QED
      BY <2>6, <3>1, <3>2 DEF TypeOK, TickCancel, config, tickLocals, jobLocals, ConfigType, JobType
  <2>7. ASSUME NEW t \in Ticks, TickMarket(t) PROVE TypeOK'
    <3>1. ConfigType'
      BY <2>7 DEF TypeOK, TickMarket, Goto, Succeed, Return, Forget, NoTodo, BackOffOrRecord, jobLocals, config, tickLocals, jobLocals, ConfigType
    <3>2. TickType'
      BY <2>7, ReturnType DEF TypeOK, TickMarket, Goto, TickType, TickStates
    <3>3. JobType'
      BY <2>7 DEF TypeOK, TickMarket, Goto, Succeed, Return, Forget, NoTodo, BackOffOrRecord, jobLocals, config, tickLocals, jobLocals, JobType, JobStates, MaxHardTries
    <3> QED
      BY <2>7, <3>1, <3>2, <3>3 DEF TypeOK, TickMarket, config, tickLocals, jobLocals, OrderType
  <2>8. ASSUME NEW t \in Ticks, SkipSlot(t) PROVE TypeOK'
    <3>1. TickType'
      BY <2>8 DEF TypeOK, SkipSlot, NextSide, config, tickLocals, jobLocals, TickType, TickStates, Sides, NoTodo
    <3> QED
      BY <2>8, <3>1 DEF TypeOK, SkipSlot, config, tickLocals, jobLocals, ConfigType, OrderType, JobType
  <2>9. ASSUME NEW t \in Ticks, SendCreate(t) PROVE TypeOK'
    <3>1. OrderType'
      BY <2>9 DEF TypeOK, SendCreate, Goto, NextSide, OrdersOf, config, tickLocals, jobLocals, OrderType
    <3>2. TickType'
      BY <2>9 DEF TypeOK, SendCreate, Goto, NextSide, OrdersOf, config, tickLocals, jobLocals, TickType, TickStates, Sides, NoTodo, Orders
    <3> QED
      BY <2>9, <3>1, <3>2 DEF TypeOK, SendCreate, config, tickLocals, jobLocals, ConfigType, JobType
  <2>10. ASSUME NEW t \in Ticks, CreateReply(t) PROVE TypeOK'
    <3>1. OrderType'
      BY <2>10 DEF TypeOK, CreateReply, Awaited, OrderType
    <3>2. TickType'
      BY <2>10 DEF TypeOK, CreateReply, Goto, config, tickLocals, jobLocals, TickType, TickStates, Sides, NoTodo
    <3> QED
      BY <2>10, <3>1, <3>2 DEF TypeOK, CreateReply, config, tickLocals, jobLocals, ConfigType, JobType
  <2>11. ASSUME NEW t \in Ticks, TickEnd(t) PROVE TypeOK'
    <3>1. ConfigType'
      BY <2>11 DEF TypeOK, TickEnd, Goto, Succeed, Return, Forget, NoTodo, BackOffOrRecord, WrittenBack, jobLocals, config, tickLocals, jobLocals, ConfigType, TickType
    <3>2. TickType'
      BY <2>11, ReturnType DEF TypeOK, TickEnd, Goto, TickType, TickStates
    <3>3. JobType'
      BY <2>11 DEF TypeOK, TickEnd, Goto, Succeed, Return, Forget, NoTodo, BackOffOrRecord, WrittenBack, jobLocals, config, tickLocals, jobLocals, JobType, JobStates, MaxHardTries
    <3> QED
      BY <2>11, <3>1, <3>2, <3>3 DEF TypeOK, TickEnd, config, tickLocals, jobLocals, OrderType
  <2>12. ASSUME NEW j \in Jobs, JobStart(j) PROVE TypeOK'
    <3>1. OrderType'
      BY <2>12 DEF TypeOK, JobStart, Finish, RowsClosed, OpenRows, config, tickLocals, jobLocals, OrderType
    <3>2. JobType'
      <4>1. CASE keys
        BY <2>12, <4>1 DEF TypeOK, JobStart, OpenRows, Quiet, JobType, JobStates
      <4>2. CASE ~keys
        BY <2>12, <4>2, FinishType DEF JobStart
      <4> QED
        BY <4>1, <4>2
    <3> QED
      BY <2>12, <3>1, <3>2 DEF TypeOK, JobStart, config, tickLocals, jobLocals, ConfigType, TickType
  <2>13. ASSUME NEW j \in Jobs, JobList(j) PROVE TypeOK'
    <3>1. \A shown \in Listings : shown \subseteq Orders
      BY DEF Listings, Live
    <3>2. JobType'
      BY <2>13, <3>1 DEF TypeOK, JobList, JobType, JobStates
    <3> QED
      BY <2>13, <3>2 DEF TypeOK, JobList, config, tickLocals, jobLocals, ConfigType, OrderType, TickType
  <2>14. ASSUME NEW j \in Jobs, JobCancel(j) PROVE TypeOK'
    <3>1. OrderType'
      BY <2>14 DEF TypeOK, JobCancel, CancelOutcome, RowsClosed, config, tickLocals, jobLocals, OrderType
    <3>2. JobType'
      BY <2>14 DEF TypeOK, JobCancel, CancelOutcome, RowsClosed, config, tickLocals, jobLocals, JobType, JobStates, MaxHardTries
    <3> QED
      BY <2>14, <3>1, <3>2 DEF TypeOK, JobCancel, config, tickLocals, jobLocals, ConfigType, TickType
  <2>15. ASSUME NEW j \in Jobs, JobCancelled(j) PROVE TypeOK'
    <3>1. JobType'
      BY <2>15, FinishType DEF TypeOK, JobCancelled, JobType, JobStates
    <3> QED
      BY <2>15, <3>1 DEF TypeOK, JobCancelled, config, tickLocals, jobLocals, ConfigType, OrderType, TickType
  <2>16. ASSUME NEW j \in Jobs, JobHardRound(j) PROVE TypeOK'
    <3>1. JobType'
      <4>1. CASE Finish(j)
        BY <4>1, FinishType
      <4>2. CASE ~Finish(j)
        <5>1. \A shown \in Listings : shown \subseteq Orders
          BY DEF Listings, Live
        <5>2. PICK shown \in Listings : ids' = [ids EXCEPT ![j] = shown]
          BY <2>16, <4>2 DEF JobHardRound
        <5>3. /\ tries[j] < MaxHardTries /\ tries' = [tries EXCEPT ![j] = @ + 1]
              /\ UNCHANGED <<jpc, clean, settled>>
          BY <2>16, <4>2 DEF JobHardRound
        <5>4. tries' \in [Jobs -> 0..MaxHardTries]
          BY <5>3 DEF TypeOK, JobType, MaxHardTries
        <5> QED
          BY <5>1, <5>2, <5>3, <5>4 DEF TypeOK, JobType
      <4> QED
        BY <4>1, <4>2
    <3> QED
      BY <2>16, <3>1 DEF TypeOK, JobHardRound, config, tickLocals, jobLocals, ConfigType, OrderType, TickType
  <2>17. ASSUME NEW o \in Orders, ExchangeAccepts(o) PROVE TypeOK'
    <3>1. OrderType'
      BY <2>17 DEF TypeOK, ExchangeAccepts, config, tickLocals, jobLocals, OrderType
    <3> QED
      BY <2>17, <3>1 DEF TypeOK, ExchangeAccepts, config, tickLocals, jobLocals, ConfigType, TickType, JobType
  <2>18. ASSUME NEW o \in Orders, ExchangeRejects(o) PROVE TypeOK'
    <3>1. OrderType'
      BY <2>18 DEF TypeOK, ExchangeRejects, config, tickLocals, jobLocals, OrderType
    <3> QED
      BY <2>18, <3>1 DEF TypeOK, ExchangeRejects, config, tickLocals, jobLocals, ConfigType, TickType, JobType
  <2>19. ASSUME NEW o \in Orders, Fill(o) PROVE TypeOK'
    <3>1. OrderType'
      BY <2>19 DEF TypeOK, Fill, config, tickLocals, jobLocals, OrderType
    <3> QED
      BY <2>19, <3>1 DEF TypeOK, Fill, config, tickLocals, jobLocals, ConfigType, TickType, JobType
  <2>20. ASSUME Enable PROVE TypeOK'
    <3>1. ConfigType'
      BY <2>20 DEF TypeOK, Enable, Reenabled, config, tickLocals, jobLocals, ConfigType
    <3>2. JobType'
      BY <2>20 DEF TypeOK, Enable, Reenabled, config, tickLocals, jobLocals, JobType, JobStates, MaxHardTries
    <3> QED
      BY <2>20, <3>1, <3>2 DEF TypeOK, Enable, config, tickLocals, jobLocals, OrderType, TickType
  <2>21. ASSUME Disable PROVE TypeOK'
    <3>1. ConfigType'
      BY <2>21 DEF TypeOK, Disable, config, tickLocals, jobLocals, ConfigType
    <3> QED
      BY <2>21, <3>1 DEF TypeOK, Disable, config, tickLocals, jobLocals, OrderType, TickType, JobType
  <2>22. ASSUME NEW m \in OpsChoices, Upsert(m) PROVE TypeOK'
    <3>1. ConfigType'
      BY <2>22 DEF TypeOK, Upsert, Reenabled, config, tickLocals, jobLocals, ConfigType
    <3>2. JobType'
      BY <2>22 DEF TypeOK, Upsert, Reenabled, config, tickLocals, jobLocals, JobType, JobStates, MaxHardTries
    <3> QED
      BY <2>22, <3>1, <3>2 DEF TypeOK, Upsert, config, tickLocals, jobLocals, OrderType, TickType
  <2>23. ASSUME NEW j \in Jobs, RequestCancel(j) PROVE TypeOK'
    <3>1. JobType'
      BY <2>23 DEF TypeOK, RequestCancel, Start, config, tickLocals, jobLocals, JobType, JobStates, MaxHardTries
    <3> QED
      BY <2>23, <3>1 DEF TypeOK, RequestCancel, config, tickLocals, jobLocals, ConfigType, OrderType, TickType
  <2>24. ASSUME ChangeKeys PROVE TypeOK'
    <3>1. ConfigType'
      BY <2>24 DEF TypeOK, ChangeKeys, config, tickLocals, jobLocals, ConfigType
    <3> QED
      BY <2>24, <3>1 DEF TypeOK, ChangeKeys, config, tickLocals, jobLocals, OrderType, TickType, JobType
  <2>25. ASSUME BackoffExpires PROVE TypeOK'
    <3>1. ConfigType'
      BY <2>25 DEF TypeOK, BackoffExpires, config, tickLocals, jobLocals, ConfigType
    <3> QED
      BY <2>25, <3>1 DEF TypeOK, BackoffExpires, config, tickLocals, jobLocals, OrderType, TickType, JobType
  <2>26. ASSUME Crash PROVE TypeOK'
    <3>1. ConfigType'
      BY <2>26 DEF TypeOK, Crash, NoTodo, config, tickLocals, jobLocals, ConfigType
    <3>2. TickType'
      BY <2>26 DEF TypeOK, Crash, NoTodo, config, tickLocals, jobLocals, TickType, TickStates, Sides, NoTodo
    <3>3. JobType'
      BY <2>26 DEF TypeOK, Crash, NoTodo, config, tickLocals, jobLocals, JobType, JobStates, MaxHardTries
    <3>4. OrderType'
      BY <2>26 DEF TypeOK, Crash, Awaited, OrderType
    <3> QED
      BY <2>26, <3>1, <3>2, <3>3, <3>4 DEF TypeOK, Crash
  <2>27. CASE UNCHANGED vars
    BY <2>27 DEF vars, config, tickLocals, jobLocals, TypeOK, ConfigType, OrderType, TickType, JobType
  <2> QED
    BY <2>1, <2>2, <2>3, <2>4, <2>5, <2>6, <2>7, <2>8, <2>9, <2>10, <2>11, <2>12, <2>13, <2>14, <2>15, <2>16, <2>17, <2>18, <2>19, <2>20, <2>21, <2>22, <2>23, <2>24, <2>25, <2>26, <2>27
    DEF Next, TickStep, JobStep, User
<1> QED
  BY <1>1, <1>2, PTL DEF Spec
-----------------------------------------------------------------------------
(* The lock *)

\* A tick that is past the lock holds it.
Locked == \A t \in Ticks : pc[t] # "idle" => running

\* A step of a running tick moves that tick only, and gives the lock back
\* exactly when it leaves.
LEMMA TickStepFrame ==
  ASSUME TypeOK, NEW t \in Ticks, TickStep(t)
  PROVE  /\ pc[t] # "idle"
         /\ \A u \in Ticks : u # t => pc'[u] = pc[u]
         /\ running' = running \/ pc'[t] = "idle"
<1> USE DEF TypeOK, TickType, Goto, Return, Forget
<1>1. CASE TickPrice(t)     BY <1>1 DEF TickPrice
<1>2. CASE TickBalance(t)   BY <1>2 DEF TickBalance
<1>3. CASE ExchangeLists(t) BY <1>3 DEF ExchangeLists
<1>4. CASE TickReconcile(t) BY <1>4 DEF TickReconcile
<1>5. CASE TickCancel(t)    BY <1>5 DEF TickCancel
<1>6. CASE TickMarket(t)    BY <1>6 DEF TickMarket
<1>7. CASE SkipSlot(t)      BY <1>7 DEF SkipSlot
<1>8. CASE SendCreate(t)    BY <1>8 DEF SendCreate, tickLocals
<1>9. CASE CreateReply(t)   BY <1>9 DEF CreateReply, tickLocals
<1>10. CASE TickEnd(t)      BY <1>10 DEF TickEnd
<1> QED
  BY <1>1, <1>2, <1>3, <1>4, <1>5, <1>6, <1>7, <1>8, <1>9, <1>10 DEF TickStep

\* The steps of jobs, of the exchange, of the user and of time leave the ticks
\* and the lock alone.
LEMMA OthersLeaveTicks ==
  ASSUME \/ \E j \in Jobs : JobStep(j)
         \/ \E o \in Orders : ExchangeAccepts(o) \/ ExchangeRejects(o) \/ Fill(o)
         \/ User \/ BackoffExpires
  PROVE  UNCHANGED <<running, tickLocals>>
  BY DEF JobStep, JobStart, JobList, JobCancel, JobCancelled, JobHardRound,
         ExchangeAccepts, ExchangeRejects, Fill, User, Enable, Disable, Upsert,
         RequestCancel, ChangeKeys, BackoffExpires

\* However ticks, cancellations and crashes interleave, two ticks of one
\* config are never under way together.
THEOREM Mutex == Spec => []OneTick
<1>1. Init => OneTick /\ Locked
  BY DEF Init, OneTick, Locked
<1>2. TypeOK /\ OneTick /\ Locked /\ [Next]_vars => (OneTick /\ Locked)'
  <2> SUFFICES ASSUME TypeOK, OneTick, Locked, [Next]_vars
               PROVE  (OneTick /\ Locked)'
    OBVIOUS
  <2> USE DEF OneTick, Locked
  <2>1. ASSUME NEW t \in Ticks, TickStart(t) PROVE (OneTick /\ Locked)'
    BY <2>1 DEF TickStart, LockFree, Goto, TypeOK, TickType
  <2>2. ASSUME NEW t \in Ticks, TickStep(t) PROVE (OneTick /\ Locked)'
    BY <2>2, TickStepFrame
  <2>3. CASE \/ \E j \in Jobs : JobStep(j)
             \/ \E o \in Orders : ExchangeAccepts(o) \/ ExchangeRejects(o) \/ Fill(o)
             \/ User \/ BackoffExpires
    BY <2>3, OthersLeaveTicks DEF tickLocals
  <2>4. CASE Crash
    BY <2>4 DEF Crash
  <2>5. CASE UNCHANGED vars
    BY <2>5 DEF vars, tickLocals
  <2> QED
    BY <2>1, <2>2, <2>3, <2>4, <2>5 DEF Next
<1> QED
  BY <1>1, <1>2, TypeCorrect, PTL DEF Spec

-----------------------------------------------------------------------------
(* Stopping takes effect at the next create *)

\* Cancelling an order never puts a request on its way.
LEMMA CancelSendsNothing ==
  ASSUME TypeOK, NEW o \in Orders, NEW ok \in BOOLEAN, CancelOutcome(o, ok),
         NEW p \in Orders, book'[p] = "sent"
  PROVE  book[p] = "sent"
  BY DEF TypeOK, OrderType, CancelOutcome

\* Whatever a tick was waiting for when the strategy was disabled, no further
\* request for a new order leaves.
THEOREM StopIsPrompt == Spec => StopBeforeNextCreate
<1>1. TypeOK /\ [Next]_vars
        => [\A o \in Orders : book[o] # "sent" /\ book'[o] = "sent" => enabled]_vars
  <2> SUFFICES ASSUME TypeOK, Next, NEW p \in Orders, book[p] # "sent", book'[p] = "sent"
               PROVE  enabled
    OBVIOUS
  <2>1. ASSUME NEW t \in Ticks, TickCancel(t) PROVE FALSE
    <3>1. PICK o \in Orders, ok \in BOOLEAN : CancelOutcome(o, ok)
      BY <2>1 DEF TickCancel, TypeOK, TickType
    <3> QED
      BY <3>1, CancelSendsNothing
  <2>2. ASSUME NEW j \in Jobs, JobCancel(j) PROVE FALSE
    <3>1. PICK o \in Orders, ok \in BOOLEAN : CancelOutcome(o, ok)
      BY <2>2 DEF JobCancel, TypeOK, JobType
    <3> QED
      BY <3>1, CancelSendsNothing
  <2>3. ASSUME NEW t \in Ticks, SendCreate(t) PROVE enabled
    BY <2>3 DEF SendCreate, ShouldAbort
  <2>4. CASE UNCHANGED book
    BY <2>4
  <2>5. ASSUME NEW o \in Orders, ExchangeAccepts(o) \/ ExchangeRejects(o) \/ Fill(o) PROVE FALSE
    BY <2>5 DEF ExchangeAccepts, ExchangeRejects, Fill, TypeOK, OrderType
  <2> QED
    BY <2>1, <2>2, <2>3, <2>4, <2>5
    DEF Next, TickStart, TickStep, TickPrice, TickBalance, ExchangeLists, TickReconcile,
        TickMarket, SkipSlot, CreateReply, TickEnd, JobStep, JobStart, JobList,
        JobCancelled, JobHardRound, User, Enable, Disable, Upsert, RequestCancel,
        ChangeKeys, BackoffExpires, Crash
<1> QED
  BY <1>1, TypeCorrect, PTL DEF Spec, StopBeforeNextCreate

-----------------------------------------------------------------------------
(* The registry and the book *)

\* A request whose fate the exchange has not decided has no row.
SentHasNoRow == \A o \in Orders : book[o] = "sent" => registry[o] = "none"

\* A row opened before a listing was taken is on it, unless its order is gone
\* or was left out: no other tick opens a row between the listing and its use.
ListingCovers ==
  \A t \in Ticks, o \in Orders \ strays :
    pc[t] = "listed" /\ registry[o] = "OPEN" /\ book[o] = "live" => o \in seen[t]

RowsInv == SentHasNoRow /\ ListingCovers /\ ClosedIsGone

\* Cancelling an order keeps the rows truthful, whatever the reply.
LEMMA CancelKeepsRows ==
  ASSUME TypeOK, SentHasNoRow, ClosedIsGone, NEW o \in Orders, NEW ok \in BOOLEAN,
         CancelOutcome(o, ok), UNCHANGED strays
  PROVE  /\ SentHasNoRow' /\ ClosedIsGone'
         /\ \A p \in Orders : registry'[p] = "OPEN" => registry[p] = "OPEN"
         /\ \A p \in Orders : book'[p] = "live" => book[p] = "live"
         /\ \A p \in Orders : book'[p] = "sent" => book[p] = "sent"
  BY DEF CancelOutcome, RowsClosed, SentHasNoRow, ClosedIsGone, TypeOK, OrderType

\* The steps that touch neither an order nor a tick.
LEMMA RowsFrame ==
  ASSUME RowsInv, UNCHANGED <<registry, book, pc, seen, strays>>
  PROVE  RowsInv'
  BY DEF RowsInv, SentHasNoRow, ListingCovers, ClosedIsGone

\* The steps of a tick outside "list" and "listed" that leave the orders alone.
LEMMA RowsMove ==
  ASSUME TypeOK, RowsInv, UNCHANGED <<registry, book, strays>>, NEW t \in Ticks,
         pc'[t] # "listed",
         \A u \in Ticks : u # t => pc'[u] = pc[u] /\ seen'[u] = seen[u]
  PROVE  RowsInv'
  BY DEF RowsInv, SentHasNoRow, ListingCovers, ClosedIsGone

\* Every step keeps the rows truthful.
LEMMA RowsStep ==
  ASSUME TypeOK, OneTick, RowsInv, [Next]_vars
  PROVE  RowsInv'
<1>1. ASSUME NEW t \in Ticks, TickStart(t) PROVE RowsInv'
  BY <1>1, RowsMove DEF TickStart, Goto, config, TypeOK, TickType
<1>2. ASSUME NEW t \in Ticks, TickPrice(t) PROVE RowsInv'
  BY <1>2, RowsMove DEF TickPrice, Return, Forget, Goto, TypeOK, TickType
<1>3. ASSUME NEW t \in Ticks, TickBalance(t) PROVE RowsInv'
  BY <1>3, RowsMove DEF TickBalance, Return, Forget, Goto, TypeOK, TickType
<1>4. ASSUME NEW t \in Ticks, ExchangeLists(t) PROVE RowsInv'
  BY <1>4 DEF ExchangeLists, Goto, Live, config, RowsInv, SentHasNoRow,
              ListingCovers, ClosedIsGone, TypeOK, TickType
<1>5. ASSUME NEW t \in Ticks, TickReconcile(t) PROVE RowsInv'
  <2>1. /\ UNCHANGED <<strays, book>> /\ pc'[t] # "listed"
        /\ \A u \in Ticks : u # t => pc'[u] = pc[u] /\ seen'[u] = seen[u]
    BY <1>5 DEF TickReconcile, Return, Forget, Goto, TypeOK, TickType
  <2>2. \A o \in Orders : registry'[o] = registry[o] \/ registry'[o] = "CLOSED"
    BY <1>5 DEF TickReconcile, Reconciled, RowsClosed, TypeOK, OrderType
  <2>3. \A o \in Orders : registry'[o] # registry[o]
                          => registry[o] # "none" /\ (book[o] # "live" \/ o \in strays)
    BY <1>5 DEF TickReconcile, Reconciled, RowsClosed, OpenRows, RowsInv,
                ListingCovers, ClosedIsGone, TypeOK, OrderType
  <2> QED
    BY <2>1, <2>2, <2>3 DEF RowsInv, SentHasNoRow, ListingCovers, ClosedIsGone
<1>6. ASSUME NEW t \in Ticks, TickCancel(t) PROVE RowsInv'
  <2>1. PICK o \in Orders, ok \in BOOLEAN : CancelOutcome(o, ok)
    BY <1>6 DEF TickCancel, TypeOK, TickType
  <2>2. SentHasNoRow' /\ ClosedIsGone'
    BY <1>6, <2>1, CancelKeepsRows DEF TickCancel, RowsInv
  <2>3. /\ strays' = strays /\ pc'[t] # "listed"
        /\ \A u \in Ticks : u # t => pc'[u] = pc[u] /\ seen'[u] = seen[u]
    BY <1>6 DEF TickCancel, Goto, config, TypeOK, TickType
  <2> QED
    BY <2>1, <2>2, <2>3, CancelKeepsRows DEF RowsInv, ListingCovers
<1>7. ASSUME NEW t \in Ticks, TickMarket(t) PROVE RowsInv'
  BY <1>7, RowsMove DEF TickMarket, Return, Forget, Goto, TypeOK, TickType
<1>8. ASSUME NEW t \in Ticks, SkipSlot(t) PROVE RowsInv'
  BY <1>8, RowsFrame DEF SkipSlot, config
<1>9. ASSUME NEW t \in Ticks, SendCreate(t) PROVE RowsInv'
  <2>1. PICK o \in Orders : /\ book' = [book EXCEPT ![o] = "sent"]
                            /\ registry' = [registry EXCEPT ![o] = "none"]
                            /\ strays' = strays \ {o}
    BY <1>9 DEF SendCreate, OrdersOf, Orders
  <2>2. /\ UNCHANGED seen /\ pc'[t] # "listed"
        /\ \A u \in Ticks : u # t => pc'[u] = pc[u]
    BY <1>9 DEF SendCreate, Goto, config, TypeOK, TickType
  <2> QED
    BY <2>1, <2>2 DEF RowsInv, SentHasNoRow, ListingCovers, ClosedIsGone, TypeOK, OrderType
<1>10. ASSUME NEW t \in Ticks, CreateReply(t) PROVE RowsInv'
  \* the row opened here is on nobody's listing: no other tick is "listed"
  <2>1. /\ UNCHANGED book /\ strays \subseteq strays' /\ \A u \in Ticks : pc'[u] # "listed"
    BY <1>10 DEF CreateReply, Goto, config, OneTick, TypeOK, TickType
  <2>2. \A o \in Orders : registry'[o] # registry[o]
                          => registry'[o] = "OPEN" /\ book[o] # "sent"
    BY <1>10 DEF CreateReply, TypeOK, OrderType
  <2> QED
    BY <2>1, <2>2 DEF RowsInv, SentHasNoRow, ListingCovers, ClosedIsGone
<1>11. ASSUME NEW t \in Ticks, TickEnd(t) PROVE RowsInv'
  BY <1>11, RowsMove DEF TickEnd, Return, Forget, Goto, TypeOK, TickType
<1>12. ASSUME NEW j \in Jobs, JobCancel(j) PROVE RowsInv'
  <2>1. PICK o \in Orders, ok \in BOOLEAN : CancelOutcome(o, ok)
    BY <1>12 DEF JobCancel, TypeOK, JobType
  <2>2. SentHasNoRow' /\ ClosedIsGone'
    BY <1>12, <2>1, CancelKeepsRows DEF JobCancel, RowsInv
  <2>3. UNCHANGED <<strays, pc, seen>>
    BY <1>12 DEF JobCancel, config, tickLocals
  <2> QED
    BY <2>1, <2>2, <2>3, CancelKeepsRows DEF RowsInv, ListingCovers
<1>13. ASSUME NEW j \in Jobs, JobList(j) \/ JobCancelled(j) \/ JobHardRound(j)
       PROVE RowsInv'
  BY <1>13, RowsFrame DEF JobList, JobCancelled, JobHardRound, config, tickLocals
<1>18. ASSUME NEW j \in Jobs, JobStart(j) PROVE RowsInv'
  <2>1. CASE UNCHANGED <<registry, strays>>
    BY <1>18, <2>1, RowsFrame DEF JobStart, tickLocals
  <2>2. CASE registry' = RowsClosed(OpenRows) /\ strays' = strays \union (OpenRows \intersect Live)
    BY <1>18, <2>2 DEF JobStart, RowsClosed, OpenRows, Live, tickLocals, RowsInv, SentHasNoRow,
                       ListingCovers, ClosedIsGone, TypeOK, OrderType
  <2> QED
    BY <1>18, <2>1, <2>2 DEF JobStart
<1>14. ASSUME NEW o \in Orders, ExchangeAccepts(o) \/ ExchangeRejects(o) \/ Fill(o)
       PROVE RowsInv'
  BY <1>14 DEF ExchangeAccepts, ExchangeRejects, Fill, config, tickLocals, RowsInv,
               SentHasNoRow, ListingCovers, ClosedIsGone, TypeOK, OrderType
<1>15. CASE User \/ BackoffExpires
  BY <1>15, RowsFrame DEF User, Enable, Disable, Upsert, Reenabled, RequestCancel,
                          ChangeKeys, BackoffExpires, config, tickLocals
<1>16. CASE Crash
  BY <1>16 DEF Crash, config, RowsInv, SentHasNoRow, ListingCovers, ClosedIsGone
<1>17. CASE UNCHANGED vars
  BY <1>17, RowsFrame DEF vars, config, tickLocals
<1> QED
  BY <1>1, <1>2, <1>3, <1>4, <1>5, <1>6, <1>7, <1>8, <1>9, <1>10, <1>11, <1>12, <1>13,
     <1>14, <1>15, <1>16, <1>17, <1>18
  DEF Next, TickStep, JobStep

\* The rows are truthful at the start.
LEMMA RowsInit == Init => RowsInv
  BY DEF Init, RowsInv, SentHasNoRow, ListingCovers, ClosedIsGone

\* No failing listing or cancel, lost reply or crash makes the registry take an
\* order for gone that is still live: only a listing that says ok and leaves the
\* order out, or a cancellation without keys, does.
THEOREM NoFalseClose == Spec => []ClosedIsGone
<1>1. RowsInv => ClosedIsGone
  BY DEF RowsInv
<1>2. TypeOK /\ OneTick /\ RowsInv /\ [Next]_vars => RowsInv'
  BY RowsStep
<1> QED
  BY <1>1, <1>2, RowsInit, TypeCorrect, Mutex, PTL DEF Spec

-----------------------------------------------------------------------------
(* No order out of reach *)

\* The tick that waits for the reply of o's create.
Creating(t, o) == pc[t] = "creating" /\ cur[t] = o

\* Every order that is or may become live, and is no stray, has a row or a tick
\* awaiting it.
Tracked ==
  \A o \in Orders \ strays : book[o] \in {"sent", "live"}
                    => registry[o] = "OPEN" \/ \E t \in Ticks : Creating(t, o)

\* Cancelling an order loses track of none: its row is closed only once the
\* order is gone, and a request on its way has no row to close.
LEMMA CancelKeepsTrack ==
  ASSUME TypeOK, SentHasNoRow, Tracked, UNCHANGED <<cur, strays>>, NEW o \in Orders,
         NEW ok \in BOOLEAN, CancelOutcome(o, ok),
         \A t \in Ticks : pc[t] = "creating" => pc'[t] = "creating"
  PROVE  Tracked'
  BY DEF CancelOutcome, RowsClosed, SentHasNoRow, Tracked, Creating, TypeOK, OrderType

\* The steps that leave the orders alone and do not end a create.
LEMMA TrackFrame ==
  ASSUME Tracked, UNCHANGED <<registry, book>>, strays \subseteq strays',
         \A t \in Ticks : pc[t] = "creating" => pc'[t] = "creating" /\ cur'[t] = cur[t]
  PROVE  Tracked'
  BY DEF Tracked, Creating

\* Every step keeps track of every order that is no stray.
LEMMA TrackStep ==
  ASSUME TypeOK, OneTick, RowsInv, Tracked, [Next]_vars
  PROVE  Tracked'
<1>1. ASSUME NEW t \in Ticks, TickStart(t) PROVE Tracked'
  BY <1>1, TrackFrame DEF TickStart, Goto, TypeOK, TickType
<1>2. ASSUME NEW t \in Ticks, \/ TickPrice(t) \/ TickBalance(t) \/ ExchangeLists(t)
                              \/ TickMarket(t) \/ SkipSlot(t) \/ TickEnd(t)
      PROVE Tracked'
  BY <1>2, TrackFrame DEF TickPrice, TickBalance, ExchangeLists, TickMarket, SkipSlot,
                          TickEnd, Return, Forget, Goto, TypeOK, TickType
<1>3. ASSUME NEW t \in Ticks, TickReconcile(t) PROVE Tracked'
  <2>1. /\ UNCHANGED <<book, strays>>
        /\ \A u \in Ticks : pc[u] = "creating" => pc'[u] = "creating" /\ cur'[u] = cur[u]
    BY <1>3 DEF TickReconcile, Return, Forget, Goto, TypeOK, TickType
  <2>2. \A o \in Orders \ strays : book[o] \in {"sent", "live"} => registry'[o] = registry[o]
    BY <1>3 DEF TickReconcile, Reconciled, RowsClosed, OpenRows, RowsInv,
                SentHasNoRow, ListingCovers, TypeOK, OrderType
  <2> QED
    BY <2>1, <2>2 DEF Tracked, Creating
<1>4. ASSUME NEW t \in Ticks, TickCancel(t) PROVE Tracked'
  <2>1. PICK o \in Orders, ok \in BOOLEAN : CancelOutcome(o, ok)
    BY <1>4 DEF TickCancel, TypeOK, TickType
  <2>2. /\ UNCHANGED <<cur, strays>>
        /\ \A u \in Ticks : pc[u] = "creating" => pc'[u] = "creating"
    BY <1>4 DEF TickCancel, Goto, TypeOK, TickType
  <2> QED
    BY <2>1, <2>2, CancelKeepsTrack DEF RowsInv
<1>5. ASSUME NEW t \in Ticks, SendCreate(t) PROVE Tracked'
  <2>1. PICK o \in Orders : /\ book' = [book EXCEPT ![o] = "sent"]
                            /\ registry' = [registry EXCEPT ![o] = "none"]
                            /\ cur' = [cur EXCEPT ![t] = o]
                            /\ strays' = strays \ {o}
    BY <1>5 DEF SendCreate, OrdersOf, Orders
  <2>2. pc[t] # "creating" /\ pc' = [pc EXCEPT ![t] = "creating"]
    BY <1>5 DEF SendCreate, Goto
  <2>3. Creating(t, o)'
    BY <2>1, <2>2 DEF Creating, TypeOK, TickType
  <2>4. \A u \in Ticks, p \in Orders : Creating(u, p) => Creating(u, p)'
    BY <2>1, <2>2 DEF Creating, TypeOK, TickType
  <2> QED
    BY <2>1, <2>3, <2>4 DEF Tracked, TypeOK, OrderType
<1>6. ASSUME NEW t \in Ticks, CreateReply(t) PROVE Tracked'
  <2>1. /\ UNCHANGED book /\ strays \subseteq strays'
        /\ \A u \in Ticks : u # t => pc'[u] = pc[u] /\ cur'[u] = cur[u]
    BY <1>6 DEF CreateReply, Goto, TypeOK, TickType
  <2>2. \A o \in Orders : Creating(t, o) /\ book[o] \in {"sent", "live"}
                          => registry'[o] = "OPEN" \/ o \in strays'
    BY <1>6 DEF CreateReply, Creating, Awaited, TypeOK, OrderType
  <2>3. \A o \in Orders : registry[o] = "OPEN" => registry'[o] = "OPEN"
    BY <1>6 DEF CreateReply, TypeOK, OrderType
  <2> QED
    BY <2>1, <2>2, <2>3 DEF Tracked, Creating
<1>7. ASSUME NEW j \in Jobs, JobCancel(j) PROVE Tracked'
  <2>1. PICK o \in Orders, ok \in BOOLEAN : CancelOutcome(o, ok)
    BY <1>7 DEF JobCancel, TypeOK, JobType
  <2> QED
    BY <1>7, <2>1, CancelKeepsTrack DEF JobCancel, RowsInv, tickLocals
<1>8. ASSUME NEW j \in Jobs, JobList(j) \/ JobCancelled(j) \/ JobHardRound(j)
      PROVE Tracked'
  BY <1>8, TrackFrame DEF JobList, JobCancelled, JobHardRound, tickLocals
<1>13. ASSUME NEW j \in Jobs, JobStart(j) PROVE Tracked'
  <2>1. CASE UNCHANGED <<registry, strays>>
    BY <1>13, <2>1, TrackFrame DEF JobStart, tickLocals
  <2>2. CASE registry' = RowsClosed(OpenRows) /\ strays' = strays \union (OpenRows \intersect Live)
    <3>1. \A o \in Orders : registry[o] = "OPEN" /\ book[o] \in {"sent", "live"} => o \in strays'
      BY <2>2 DEF OpenRows, Live, RowsInv, SentHasNoRow
    <3> QED
      BY <1>13, <2>2, <3>1 DEF JobStart, Tracked, Creating, tickLocals
  <2> QED
    BY <1>13, <2>1, <2>2 DEF JobStart
<1>9. ASSUME NEW o \in Orders, ExchangeAccepts(o) \/ ExchangeRejects(o) \/ Fill(o)
      PROVE Tracked'
  BY <1>9 DEF ExchangeAccepts, ExchangeRejects, Fill, tickLocals, Tracked, Creating,
              TypeOK, OrderType
<1>10. CASE User \/ BackoffExpires
  BY <1>10, TrackFrame DEF User, Enable, Disable, Upsert, RequestCancel, ChangeKeys,
                           BackoffExpires, tickLocals
<1>11. CASE Crash
  BY <1>11 DEF Crash, Tracked, Creating, Awaited
<1>12. CASE UNCHANGED vars
  BY <1>12, TrackFrame DEF vars, tickLocals
<1> QED
  BY <1>1, <1>2, <1>3, <1>4, <1>5, <1>6, <1>7, <1>8, <1>9, <1>10, <1>11, <1>12,
     <1>13
  DEF Next, TickStep, JobStep

\* Nothing is out of track at the start.
LEMMA TrackInit == Init => Tracked
  BY DEF Init, Tracked

\* RowsInv and Tracked hold together in every reachable state.
LEMMA Bookkeeping == Spec => [](RowsInv /\ Tracked)
<1>1. TypeOK /\ OneTick /\ RowsInv /\ Tracked /\ [Next]_vars => (RowsInv /\ Tracked)'
  BY RowsStep, TrackStep
<1> QED
  BY <1>1, RowsInit, TrackInit, TypeCorrect, Mutex, PTL DEF Spec

\* No live order escapes both the registry and the tick that created it, whatever
\* listings and cancels fail, but through a lost reply or a crash in its create,
\* through a listing that says ok and leaves it out, or for want of keys.
THEOREM NothingEscapes == Spec => []LiveIsTracked
<1>1. RowsInv /\ Tracked => LiveIsTracked
  BY DEF Tracked, LiveIsTracked, Live, OpenRows, Awaited, Creating
<1> QED
  BY <1>1, Bookkeeping, PTL

-----------------------------------------------------------------------------
(* A calm cancellation leaves nothing behind *)

\* Nothing can start: disabled, no tick under way, no request on its way.
Calm == ~enabled /\ Quiet

\* While a calm cancellation runs, all is calm and every order still live is on
\* its list or a stray; once it has settled, only strays are live.
CalmInv ==
  /\ \A j \in Jobs : clean[j] => Calm /\ Live \ strays \subseteq ids[j]
  /\ settled => Calm /\ Live \subseteq strays

\* Steps that send nothing, revive nothing and keep the jobs' lists.
LEMMA CalmFrame ==
  ASSUME CalmInv, UNCHANGED <<clean, settled, ids, pc>>, enabled' => enabled,
         strays \subseteq strays',
         \A o \in Orders : /\ book'[o] = "live" => book[o] \in {"sent", "live"}
                           /\ book'[o] = "sent" => book[o] = "sent"
  PROVE  CalmInv'
  BY DEF CalmInv, Calm, Quiet, Live

\* Steps of a tick past its lock: nothing is calm while they are possible.
LEMMA CalmExcludesTicks ==
  ASSUME CalmInv, NEW t \in Ticks, pc[t] # "idle", UNCHANGED <<clean, settled>>
  PROVE  CalmInv'
  BY DEF CalmInv, Calm, Quiet

\* Finishing a job whose list is empty.
LEMMA CalmFinish ==
  ASSUME TypeOK, CalmInv, NEW j \in Jobs, ids[j] = {}, Finish(j),
         UNCHANGED <<enabled, book, pc, strays>>
  PROVE  CalmInv'
<1>1. Calm' = Calm /\ Live' = Live
  BY DEF Calm, Quiet, Live
<1>2. \A i \in Jobs : clean'[i] => clean[i] /\ ids'[i] = ids[i]
  BY DEF Finish, TypeOK, JobType
<1>3. settled' => settled \/ clean[j]
  BY DEF Finish
<1> QED
  BY <1>1, <1>2, <1>3 DEF CalmInv

\* Calm lasts until the next enable.
LEMMA CalmStep ==
  ASSUME TypeOK, RowsInv, Tracked, CalmInv, [Next]_vars
  PROVE  CalmInv'
<1>1. ASSUME NEW t \in Ticks, TickStart(t) PROVE CalmInv'
  BY <1>1 DEF TickStart, MayRun, CalmInv, Calm
<1>2. ASSUME NEW t \in Ticks, TickStep(t) PROVE CalmInv'
  <2>1. UNCHANGED <<clean, settled>>
    BY <1>2 DEF TickStep, TickPrice, TickBalance, ExchangeLists, TickReconcile, TickCancel,
                TickMarket, SkipSlot, SendCreate, CreateReply, TickEnd
  <2> QED
    BY <1>2, <2>1, TickStepFrame, CalmExcludesTicks
<1>3. ASSUME NEW j \in Jobs, JobStart(j) PROVE CalmInv'
  <2>1. Calm' = Calm /\ Live' = Live
    BY <1>3 DEF JobStart, config, tickLocals, Calm, Quiet, Live
  <2>2. Quiet => Live \ strays \subseteq OpenRows
    BY DEF Tracked, Creating, Quiet, Live, OpenRows
  <2>3. CASE keys
    <3>1. /\ ids' = [ids EXCEPT ![j] = OpenRows] /\ settled' = settled /\ strays' = strays
          /\ clean' = [clean EXCEPT ![j] = ~enabled /\ Quiet]
      BY <1>3, <2>3 DEF JobStart
    <3>2. \A i \in Jobs : clean'[i] => Calm /\ Live \ strays \subseteq ids'[i]
      BY <2>2, <3>1 DEF CalmInv, Calm, TypeOK, JobType
    <3> QED
      BY <2>1, <3>1, <3>2 DEF CalmInv
  <2>4. CASE ~keys
    <3>1. strays' = strays \union (OpenRows \intersect Live) /\ Finish(j)
      BY <1>3, <2>4 DEF JobStart
    <3>2. \A i \in Jobs : clean'[i] => clean[i] /\ ids'[i] = ids[i]
      BY <3>1 DEF Finish, TypeOK, JobType
    <3>3. settled' => settled \/ clean[j]
      BY <3>1 DEF Finish
    <3>4. Calm => Live \subseteq strays'
      BY <2>2, <3>1 DEF Calm
    <3> QED
      BY <2>1, <3>1, <3>2, <3>3, <3>4 DEF CalmInv
  <2> QED
    BY <2>3, <2>4
<1>4. ASSUME NEW j \in Jobs, JobList(j) PROVE CalmInv'
  <2>1. Calm' = Calm /\ Live' = Live /\ UNCHANGED <<clean, settled, strays>>
    BY <1>4 DEF JobList, config, tickLocals, Calm, Quiet, Live
  <2>2. \A i \in Jobs : ids[i] \subseteq ids'[i]
    BY <1>4 DEF JobList, TypeOK, JobType
  <2> QED
    BY <2>1, <2>2 DEF CalmInv
<1>5. ASSUME NEW j \in Jobs, JobCancel(j) PROVE CalmInv'
  <2>1. PICK o \in ids[j], ok \in BOOLEAN :
          /\ CancelOutcome(o, ok)
          /\ ids' = [ids EXCEPT ![j] = @ \ {o}]
          /\ clean' = IF ok THEN clean ELSE [clean EXCEPT ![j] = FALSE]
    BY <1>5 DEF JobCancel
  <2>2. /\ \A p \in Orders : book'[p] = "sent" => book[p] = "sent"
        /\ Live' \subseteq Live
        /\ ok => o \notin Live'
    BY <2>1 DEF CancelOutcome, Live, TypeOK, OrderType
  <2>3. UNCHANGED <<enabled, pc, settled, strays>>
    BY <1>5 DEF JobCancel, config, tickLocals
  <2>4. Calm => Calm'
    BY <2>2, <2>3 DEF Calm, Quiet
  <2>5. \A i \in Jobs : clean'[i]
          => clean[i] /\ (ids'[i] = ids[i] \/ (ok /\ ids'[i] = ids[i] \ {o}))
    BY <2>1 DEF TypeOK, JobType
  <2> QED
    BY <2>2, <2>3, <2>4, <2>5 DEF CalmInv
<1>6. ASSUME NEW j \in Jobs, JobCancelled(j) PROVE CalmInv'
  <2>1. ids[j] = {} /\ UNCHANGED <<enabled, book, pc, strays>>
    BY <1>6 DEF JobCancelled, config, tickLocals
  <2>2. CASE Finish(j)
    BY <2>1, <2>2, CalmFinish
  <2>3. CASE UNCHANGED <<ids, tries, clean, settled>>
    BY <2>1, <2>3, CalmFrame
  <2> QED
    BY <1>6, <2>2, <2>3 DEF JobCancelled
<1>7. ASSUME NEW j \in Jobs, JobHardRound(j) PROVE CalmInv'
  <2>1. ids[j] = {} /\ UNCHANGED <<enabled, book, pc, strays>>
    BY <1>7 DEF JobHardRound, config, tickLocals
  <2>2. CASE Finish(j)
    BY <2>1, <2>2, CalmFinish
  <2>3. CASE /\ \E shown \in Listings : ids' = [ids EXCEPT ![j] = shown]
             /\ UNCHANGED <<clean, settled>>
    BY <2>1, <2>3 DEF CalmInv, Calm, Quiet, Live, TypeOK, JobType
  <2> QED
    BY <1>7, <2>2, <2>3 DEF JobHardRound
<1>8. ASSUME NEW o \in Orders, ExchangeAccepts(o) \/ ExchangeRejects(o) \/ Fill(o)
      PROVE CalmInv'
  BY <1>8, CalmFrame DEF ExchangeAccepts, ExchangeRejects, Fill, config, tickLocals,
                         jobLocals, TypeOK, OrderType
<1>9. CASE Reenabled
  BY <1>9 DEF Reenabled, CalmInv
<1>10. CASE (User \/ BackoffExpires) /\ ~Reenabled
  BY <1>10, CalmFrame DEF User, Enable, Disable, Upsert, RequestCancel, Start, ChangeKeys,
                          BackoffExpires, config, tickLocals, jobLocals
<1>11. CASE Crash
  BY <1>11 DEF Crash, config, CalmInv, Calm, Quiet, Live
<1>12. CASE UNCHANGED vars
  BY <1>12, CalmFrame DEF vars, config, tickLocals, jobLocals
<1> QED
  BY <1>1, <1>2, <1>3, <1>4, <1>5, <1>6, <1>7, <1>8, <1>9, <1>10, <1>11, <1>12
  DEF Next, JobStep

\* A cancellation that began with the strategy disabled and at rest, and whose
\* cancels all succeeded, leaves no order the strategy had not lost sight of, for
\* any number of orders and concurrent cancellations, whatever listings fail or
\* are short.
THEOREM StopLeavesNothing == Spec => []StopIsClean
<1>1. Init => CalmInv
  BY DEF Init, CalmInv
<1>2. CalmInv => StopIsClean
  BY DEF CalmInv, StopIsClean, Calm, Quiet, Live
<1>3. TypeOK /\ RowsInv /\ Tracked /\ CalmInv /\ [Next]_vars => CalmInv'
  BY CalmStep
<1> QED
  BY <1>1, <1>2, <1>3, TypeCorrect, Bookkeeping, PTL DEF Spec

-----------------------------------------------------------------------------
(* The number of orders on a side *)

\* The user's choices of orders_per_side have a greatest (the bot offers 1, 3, 5).
OpsHaveMax == \E n \in OpsChoices : \A m \in OpsChoices : m <= n

\* A listing that fails makes tick fall back on the registry: so on NestEx only.
FallsBack == ListsMayFail \subseteq {"nestex"}

\* The orders that are, or may become, live on a side, strays apart.
Pending(s) == {o \in OrdersOf(s) \ strays : book[o] \in {"sent", "live"}}

\* From the moment tick reads its rows to the moment it uses them, they hold every
\* live order but strays: no create is under way, and the reconciliation closes
\* the row of no other live one.
Snapshots ==
  \A t \in Ticks : pc[t] \in {"list", "listed", "unlisted"} => Live \ strays \subseteq local[t]

Fallback == \A t \in Ticks : pc[t] = "unlisted" => exchange = "nestex"

IdleIsEmpty == \A t \in Ticks : pc[t] = "idle" => \A s \in Sides : todo[t][s] = 0

\* A tick that has counted its orders has only as many slots left as there is
\* room on the side, whatever excess cancels fail.
Room ==
  \A t \in Ticks, s \in Sides : Cardinality(Pending(s)) + todo[t][s] <= MaxOps

LimitInv == Snapshots /\ Fallback /\ IdleIsEmpty /\ Room /\ SideLimit

\* MaxOps is what its name says.
LEMMA MaxOpsType ==
  ASSUME OpsHaveMax
  PROVE  MaxOps \in Nat /\ \A n \in OpsChoices : n <= MaxOps
<1>1. MaxOps \in OpsChoices /\ \A m \in OpsChoices : m <= MaxOps
  BY DEF OpsHaveMax, MaxOps
<1> QED
  BY <1>1, OpsAreCounts

\* The orders of a side can be counted.
LEMMA PendingCount ==
  ASSUME NEW s \in Sides
  PROVE  /\ IsFiniteSet(Pending(s)) /\ Cardinality(Pending(s)) \in Nat
         /\ IsFiniteSet(Pending(s)') /\ Cardinality(Pending(s)') \in Nat
<1>1. IsFiniteSet(OrdersOf(s)) /\ Pending(s) \subseteq OrdersOf(s)
      /\ Pending(s)' \subseteq OrdersOf(s)
  BY OrdersFinite DEF OrdersOf, Pending
<1> QED
  BY <1>1, FS_Subset, FS_CardinalityType

\* The counts of a side do not grow when no order becomes pending.
LEMMA PendingShrinks ==
  ASSUME NEW s \in Sides, strays \subseteq strays',
         \A o \in Orders : book'[o] \in {"sent", "live"} => book[o] \in {"sent", "live"}
  PROVE  Cardinality(Pending(s)') <= Cardinality(Pending(s))
<1>1. Pending(s)' \subseteq Pending(s)
  BY DEF Pending, OrdersOf, Orders
<1> QED
  BY <1>1, PendingCount, FS_Subset

\* The steps that send nothing, count nothing and start no listing.
LEMMA LimitFrame ==
  ASSUME OpsHaveMax, TypeOK, TypeOK', LimitInv, UNCHANGED exchange,
         strays \subseteq strays',
         \A o \in Orders : book'[o] \in {"sent", "live"} => book[o] \in {"sent", "live"},
         \A t \in Ticks : pc'[t] \in {"list", "listed", "unlisted"}
           => /\ pc[t] \in {"list", "listed", "unlisted"}
              /\ local'[t] = local[t] /\ Live' \ strays' \subseteq Live \ strays
              /\ pc'[t] = "unlisted" => pc[t] = "unlisted",
         \A t \in Ticks, s \in Sides : todo'[t][s] = todo[t][s] \/ todo'[t][s] = 0,
         \A t \in Ticks : pc'[t] = "idle"
           => pc[t] = "idle" \/ \A s \in Sides : todo'[t][s] = 0
  PROVE  LimitInv'
<1>1. Snapshots' /\ Fallback'
  BY DEF LimitInv, Snapshots, Fallback
<1>2. IdleIsEmpty'
  BY DEF LimitInv, IdleIsEmpty
<1>3. ASSUME NEW s \in Sides
      PROVE  /\ Cardinality(Pending(s)') <= MaxOps
             /\ \A t \in Ticks : Cardinality(Pending(s)') + todo'[t][s] <= MaxOps
  <2>1. Cardinality(Pending(s)') <= Cardinality(Pending(s))
        /\ Cardinality(Pending(s)) \in Nat /\ Cardinality(Pending(s)') \in Nat
    BY <1>3, PendingShrinks, PendingCount
  <2>2. Cardinality(Pending(s)) <= MaxOps
        /\ \A t \in Ticks : Cardinality(Pending(s)) + todo[t][s] <= MaxOps
    BY <1>3 DEF LimitInv, SideLimit, Pending, Room
  <2>3. \A t \in Ticks : todo[t][s] \in Nat
    BY <1>3 DEF TypeOK, TickType
  <2> QED
    BY <1>3, <2>1, <2>2, <2>3, MaxOpsType
<1> QED
  BY <1>1, <1>2, <1>3 DEF LimitInv, Room, SideLimit, Pending

\* Cancelling an order makes none pending or live.
LEMMA CancelAddsNothing ==
  ASSUME TypeOK, NEW o \in Orders, NEW ok \in BOOLEAN, CancelOutcome(o, ok)
  PROVE  /\ \A p \in Orders : book'[p] \in {"sent", "live"} => book[p] \in {"sent", "live"}
         /\ Live' \subseteq Live
  BY DEF CancelOutcome, Live, TypeOK, OrderType

\* The orders tick counts include all that are pending: no create is under way,
\* and the rows it read hold every live order.
LEMMA CountsAll ==
  ASSUME TypeOK, OneTick, RowsInv, Tracked, Snapshots, Fallback,
         NEW t \in Ticks, pc[t] \in {"listed", "unlisted"}, NEW s \in Sides
  PROVE  Pending(s) \subseteq Managed(t) \intersect OrdersOf(s)
<1>1. \A o \in Orders \ strays : book[o] \in {"sent", "live"} => registry[o] = "OPEN"
  BY DEF Tracked, Creating, OneTick
<1>2. \A o \in Orders \ strays : book[o] # "sent"
  BY <1>1 DEF RowsInv, SentHasNoRow
<1>3. Live \ strays \subseteq local[t] /\ Live \ strays \subseteq OpenRows
  BY <1>1 DEF Snapshots, Live, OpenRows
<1>4. Live \ strays \subseteq Managed(t)
  <2>1. CASE pc[t] = "listed"
    <3>1. Live \ strays \subseteq seen[t]
      BY <1>1, <2>1 DEF RowsInv, ListingCovers, Live
    <3> QED
      BY <1>3, <2>1, <3>1 DEF Managed, LocalRows
  <2>2. CASE pc[t] = "unlisted"
    BY <1>3, <2>2 DEF Managed, LocalRows, Fallback
  <2> QED
    BY <2>1, <2>2
<1> QED
  BY <1>2, <1>4 DEF Pending, Live, OrdersOf, Orders

\* Where a failing listing falls back on the registry, no step leaves more slots
\* than there is room.
LEMMA LimitStep ==
  ASSUME OpsHaveMax, FallsBack, TypeOK, TypeOK', OneTick, RowsInv, Tracked,
         LimitInv, [Next]_vars
  PROVE  LimitInv'
<1>1. ASSUME NEW t \in Ticks, TickStart(t) PROVE LimitInv'
  <2>1. /\ pc[t] = "idle" /\ pc' = [pc EXCEPT ![t] = "price"]
        /\ UNCHANGED <<book, local, todo, strays, exchange>>
    BY <1>1 DEF TickStart, Goto
  <2>2. Live' = Live
    BY <2>1 DEF Live
  <2> QED
    BY <2>1, <2>2, LimitFrame DEF TypeOK, TickType
<1>2. ASSUME NEW t \in Ticks, Return(t), UNCHANGED <<book, strays, exchange>> PROVE LimitInv'
  BY <1>2, LimitFrame DEF Return, Forget, Goto, NoTodo, Live, TypeOK, TickType
<1>3. ASSUME NEW t \in Ticks, TickPrice(t) PROVE LimitInv'
  <2>1. /\ UNCHANGED <<book, strays, exchange>>
        /\ Return(t) \/ (Goto(t, "balance") /\ UNCHANGED <<local, todo>>)
    BY <1>3 DEF TickPrice
  <2>2. CASE Return(t)
    BY <1>2, <2>1, <2>2
  <2>3. CASE pc' = [pc EXCEPT ![t] = "balance"] /\ UNCHANGED <<local, todo>>
    BY <2>1, <2>3, LimitFrame DEF Live, TypeOK, TickType
  <2> QED
    BY <2>1, <2>2, <2>3 DEF Goto
<1>4. ASSUME NEW t \in Ticks, TickBalance(t) PROVE LimitInv'
  <2>1. CASE Return(t)
    BY <1>2, <1>4, <2>1 DEF TickBalance
  <2>2. CASE ~Return(t)
    <3>1. pc[t] = "balance" /\ Goto(t, "list") /\ local' = [local EXCEPT ![t] = OpenRows]
          /\ UNCHANGED <<book, todo, strays, exchange>>
      BY <1>4, <2>2 DEF TickBalance
    <3>2. Live \ strays \subseteq OpenRows
      BY <3>1 DEF Tracked, Creating, OneTick, Live, OpenRows
    <3>3. Snapshots'
      BY <3>1, <3>2 DEF LimitInv, Snapshots, Goto, Live, TypeOK, TickType
    <3>4. Fallback' /\ IdleIsEmpty'
      BY <3>1 DEF LimitInv, Fallback, IdleIsEmpty, Goto, TypeOK, TickType
    <3>5. Room' /\ SideLimit'
      BY <3>1 DEF LimitInv, Room, SideLimit, Pending
    <3> QED
      BY <3>3, <3>4, <3>5 DEF LimitInv
  <2> QED
    BY <2>1, <2>2
<1>5. ASSUME NEW t \in Ticks, ExchangeLists(t) PROVE LimitInv'
  <2>1. /\ pc[t] = "list" /\ UNCHANGED <<book, local, todo, exchange>>
        /\ strays \subseteq strays'
        /\ (Goto(t, "listed") \/ (ListingFails /\ Goto(t, "unlisted")))
    BY <1>5 DEF ExchangeLists
  <2>2. Snapshots' /\ IdleIsEmpty'
    BY <2>1 DEF LimitInv, Snapshots, IdleIsEmpty, Goto, Live, TypeOK, TickType
  <2>3. Fallback'
    BY <2>1 DEF LimitInv, Fallback, ListingFails, FallsBack, Goto, TypeOK, TickType
  <2>4. \A s \in Sides : /\ Cardinality(Pending(s)') <= Cardinality(Pending(s))
                        /\ Cardinality(Pending(s)) \in Nat /\ Cardinality(Pending(s)') \in Nat
    BY <2>1, PendingShrinks, PendingCount
  <2>5. \A u \in Ticks, s \in Sides : todo[u][s] \in Nat
    BY DEF TypeOK, TickType
  <2>6. Room'
    <3> SUFFICES ASSUME NEW u \in Ticks, NEW s \in Sides
                 PROVE  Cardinality(Pending(s)') + todo[u][s] <= MaxOps
      BY <2>1 DEF Room
    <3> QED
      BY <2>4, <2>5, MaxOpsType DEF LimitInv, Room
  <2>7. SideLimit'
    <3> SUFFICES ASSUME NEW s \in Sides PROVE Cardinality(Pending(s)') <= MaxOps
      BY DEF SideLimit, Pending
    <3> QED
      <4>1. Cardinality(Pending(s)) <= MaxOps
        BY DEF LimitInv, SideLimit, Pending
      <4> QED
        BY <2>4, <4>1, MaxOpsType
  <2> QED
    BY <2>2, <2>3, <2>6, <2>7 DEF LimitInv
<1>6. ASSUME NEW t \in Ticks, TickReconcile(t) PROVE LimitInv'
  <2>1. CASE Return(t)
    BY <1>2, <1>6, <2>1 DEF TickReconcile
  <2>2. CASE ~Return(t)
    <3> DEFINE n(s) == Cardinality(Managed(t) \intersect OrdersOf(s))
    <3>1. /\ pc[t] \in {"listed", "unlisted"} /\ UNCHANGED <<book, strays, exchange>>
          /\ Goto(t, "market") \/ Goto(t, "cancel")
          /\ todo' = [todo EXCEPT ![t] = [s \in Sides |-> Slots(t, n(s))]]
          /\ local' = [local EXCEPT ![t] = {}]
      BY <1>6, <2>2 DEF TickReconcile
    <3>2. Snapshots' /\ Fallback'
      BY <3>1 DEF LimitInv, Snapshots, Fallback, Goto, Live, TypeOK, TickType
    <3>3. IdleIsEmpty'
      BY <3>1 DEF LimitInv, IdleIsEmpty, Goto, TypeOK, TickType
    <3>4. SideLimit'
      BY <3>1 DEF LimitInv, SideLimit
    <3>5. ASSUME NEW u \in Ticks, NEW s \in Sides
          PROVE  Cardinality(Pending(s)') + todo'[u][s] <= MaxOps
      <4>1. Pending(s)' = Pending(s)
        BY <3>1 DEF Pending
      <4>2. CASE u # t
        BY <3>1, <4>1, <4>2 DEF LimitInv, Room, TypeOK, TickType
      <4>3. CASE u = t
        <5>1. Cardinality(Pending(s)) <= n(s) /\ n(s) \in Nat
          <6>1. IsFiniteSet(Managed(t) \intersect OrdersOf(s))
            BY OrdersFinite, FS_Intersection DEF OrdersOf
          <6>2. Pending(s) \subseteq Managed(t) \intersect OrdersOf(s)
            BY <3>1, CountsAll DEF LimitInv
          <6> QED
            BY <6>1, <6>2, FS_Subset, FS_CardinalityType
        <5>2. todo'[t][s] = Slots(t, n(s))
          BY <3>1 DEF TypeOK, TickType
        <5>3. ops[t] \in Nat /\ ops[t] <= MaxOps
          BY MaxOpsType, OpsAreCounts DEF TypeOK, TickType
        <5>4. Cardinality(Pending(s)) <= MaxOps
          BY DEF LimitInv, SideLimit, Pending
        <5> HIDE DEF n
        <5> QED
          BY <4>1, <4>3, <5>1, <5>2, <5>3, <5>4, MaxOpsType, PendingCount DEF Slots
      <4> QED
        BY <4>2, <4>3
    <3> QED
      BY <3>2, <3>3, <3>4, <3>5 DEF LimitInv, Room
  <2> QED
    BY <2>1, <2>2
<1>7. ASSUME NEW t \in Ticks, TickCancel(t) PROVE LimitInv'
  <2>1. PICK o \in Orders, ok \in BOOLEAN : CancelOutcome(o, ok)
    BY <1>7 DEF TickCancel, TypeOK, TickType
  <2>2. /\ pc[t] = "cancel" /\ UNCHANGED <<local, todo, strays, exchange>>
        /\ Goto(t, "market") \/ Goto(t, "cancel")
    BY <1>7 DEF TickCancel
  <2> QED
    BY <2>1, <2>2, CancelAddsNothing, LimitFrame DEF Goto, TypeOK, TickType
<1>8. ASSUME NEW t \in Ticks, TickMarket(t) PROVE LimitInv'
  <2>1. /\ UNCHANGED <<book, strays, exchange>>
        /\ Return(t) \/ (Goto(t, "place") /\ UNCHANGED <<local, todo>>)
    BY <1>8 DEF TickMarket
  <2>2. CASE Return(t)
    BY <1>2, <2>1, <2>2
  <2>3. CASE pc' = [pc EXCEPT ![t] = "place"] /\ UNCHANGED <<local, todo>>
    BY <2>1, <2>3, LimitFrame DEF Live, TypeOK, TickType
  <2> QED
    BY <2>1, <2>2, <2>3 DEF Goto
<1>9. ASSUME NEW t \in Ticks, SkipSlot(t) PROVE LimitInv'
  <2> DEFINE s0 == NextSide(t)
  <2>1. /\ UNCHANGED <<book, local, pc, strays, exchange>> /\ pc[t] = "place"
        /\ s0 \in Sides /\ todo[t][s0] > 0
        /\ todo' = [todo EXCEPT ![t][s0] = @ - 1]
    BY <1>9 DEF SkipSlot, NextSide, Sides
  <2>2. Snapshots' /\ Fallback' /\ IdleIsEmpty' /\ SideLimit'
    BY <2>1 DEF LimitInv, Snapshots, Fallback, IdleIsEmpty, SideLimit, Live, TypeOK, TickType
  <2>3. ASSUME NEW u \in Ticks, NEW s \in Sides
        PROVE  Cardinality(Pending(s)') + todo'[u][s] <= MaxOps
    <3>1. Pending(s)' = Pending(s) /\ Cardinality(Pending(s)) \in Nat
      BY <2>1, PendingCount DEF Pending
    <3>2. todo'[u][s] <= todo[u][s] /\ todo[u][s] \in Nat /\ todo'[u][s] \in Nat
      BY <2>1 DEF TypeOK, TickType
    <3>3. Cardinality(Pending(s)) + todo[u][s] <= MaxOps
      BY DEF LimitInv, Room
    <3> QED
      BY <3>1, <3>2, <3>3, MaxOpsType
  <2> QED
    BY <2>2, <2>3 DEF LimitInv, Room
<1>10. ASSUME NEW t \in Ticks, SendCreate(t) PROVE LimitInv'
  <2> DEFINE s0 == NextSide(t)
  <2>1. PICK o \in OrdersOf(s0) : /\ Fresh(o) /\ book' = [book EXCEPT ![o] = "sent"]
                                  /\ strays' = strays \ {o}
    BY <1>10 DEF SendCreate
  <2>2. /\ UNCHANGED <<local, exchange>> /\ pc[t] = "place" /\ Goto(t, "creating")
        /\ s0 \in Sides /\ todo[t][s0] > 0
        /\ todo' = [todo EXCEPT ![t][s0] = @ - 1]
    BY <1>10 DEF SendCreate, NextSide, Sides
  <2>3. Snapshots' /\ Fallback'
    BY <2>2 DEF LimitInv, Snapshots, Fallback, OneTick, Goto, TypeOK, TickType
  <2>4. IdleIsEmpty'
    BY <2>2 DEF LimitInv, IdleIsEmpty, Goto, TypeOK, TickType
  <2>5. ASSUME NEW s \in Sides
        PROVE  /\ Cardinality(Pending(s)') <= MaxOps
               /\ \A u \in Ticks : Cardinality(Pending(s)') + todo'[u][s] <= MaxOps
    <3>1. /\ Cardinality(Pending(s)) \in Nat /\ Cardinality(Pending(s)') \in Nat
          /\ MaxOps \in Nat
      BY PendingCount, MaxOpsType
    <3>2. \A u \in Ticks : todo[u][s] \in Nat /\ (u # t => todo[u][s] = 0)
      BY <2>2 DEF LimitInv, IdleIsEmpty, OneTick, TypeOK, TickType
    <3>3. Cardinality(Pending(s)) + todo[t][s] <= MaxOps
      BY DEF LimitInv, Room
    <3>4. CASE s # s0
      <4>1. o \notin OrdersOf(s)
        BY <3>4, <2>2, SidesDisjoint DEF OrdersOf, Sides
      <4>2. Pending(s)' = Pending(s)
        BY <2>1, <4>1 DEF Pending, OrdersOf, Orders, TypeOK, OrderType
      <4>3. \A u \in Ticks : todo'[u][s] = todo[u][s]
        BY <2>2, <3>4 DEF TypeOK, TickType
      <4> QED
        BY <3>1, <3>2, <3>3, <4>2, <4>3
    <3>5. CASE s = s0
      <4>1. Cardinality(Pending(s)') = Cardinality(Pending(s)) + 1
        <5>1. Pending(s)' = Pending(s) \union {o} /\ o \notin Pending(s)
          BY <2>1, <3>5 DEF Pending, OrdersOf, Orders, Fresh, TypeOK, OrderType
        <5> QED
          BY <5>1, PendingCount, FS_AddElement
      <4>2. todo'[t][s] = todo[t][s] - 1 /\ todo[t][s] > 0
            /\ \A u \in Ticks : u # t => todo'[u][s] = todo[u][s]
        BY <2>2, <3>5 DEF TypeOK, TickType
      <4> QED
        BY <3>1, <3>2, <3>3, <4>1, <4>2
    <3> QED
      BY <3>4, <3>5
  <2> QED
    BY <2>3, <2>4, <2>5 DEF LimitInv, Room, SideLimit, Pending
<1>11. ASSUME NEW t \in Ticks, CreateReply(t) PROVE LimitInv'
  <2>1. Goto(t, "place") /\ UNCHANGED <<book, local, todo, exchange>> /\ strays \subseteq strays'
    BY <1>11 DEF CreateReply
  <2> QED
    BY <2>1, LimitFrame DEF Goto, Live, TypeOK, TickType
<1>12. ASSUME NEW t \in Ticks, TickEnd(t) PROVE LimitInv'
  BY <1>2, <1>12 DEF TickEnd
<1>13. ASSUME NEW j \in Jobs, JobCancel(j) PROVE LimitInv'
  <2>1. PICK o \in Orders, ok \in BOOLEAN : CancelOutcome(o, ok)
    BY <1>13 DEF JobCancel, TypeOK, JobType
  <2> QED
    BY <1>13, <2>1, CancelAddsNothing, LimitFrame DEF JobCancel, tickLocals
<1>14. ASSUME NEW j \in Jobs, JobStart(j) \/ JobList(j) \/ JobCancelled(j) \/ JobHardRound(j)
       PROVE LimitInv'
  BY <1>14, LimitFrame DEF JobStart, JobList, JobCancelled, JobHardRound, tickLocals, Live
<1>15. ASSUME NEW o \in Orders, ExchangeAccepts(o) \/ ExchangeRejects(o) \/ Fill(o)
       PROVE LimitInv'
  <2>1. /\ UNCHANGED <<tickLocals, strays, exchange>>
        /\ \A p \in Orders : book'[p] \in {"sent", "live"} => book[p] \in {"sent", "live"}
    BY <1>15 DEF ExchangeAccepts, ExchangeRejects, Fill, TypeOK, OrderType
  <2>2. \/ Live' \ strays' \subseteq Live \ strays
        \/ book[o] = "sent" /\ o \notin strays
    BY <1>15 DEF ExchangeAccepts, ExchangeRejects, Fill, Live, TypeOK, OrderType
  <2>3. book[o] = "sent" /\ o \notin strays => \A t \in Ticks : pc[t] \in {"idle", "creating"}
    <3> SUFFICES ASSUME book[o] = "sent", o \notin strays
                 PROVE  \A t \in Ticks : pc[t] \in {"idle", "creating"}
      OBVIOUS
    <3>1. PICK t \in Ticks : Creating(t, o)
      BY DEF Tracked, RowsInv, SentHasNoRow
    <3> QED
      BY <3>1 DEF Creating, OneTick
  <2> QED
    BY <2>1, <2>2, <2>3, LimitFrame DEF tickLocals
<1>16. CASE User \/ BackoffExpires
  BY <1>16, LimitFrame DEF User, Enable, Disable, Upsert, RequestCancel, ChangeKeys,
                           BackoffExpires, tickLocals, Live
<1>17. CASE Crash
  BY <1>17, LimitFrame DEF Crash, config, NoTodo
<1>18. CASE UNCHANGED vars
  BY <1>18, LimitFrame DEF vars, tickLocals, Live
<1> QED
  BY <1>1, <1>3, <1>4, <1>5, <1>6, <1>7, <1>8, <1>9, <1>10, <1>11, <1>12, <1>13,
     <1>14, <1>15, <1>16, <1>17, <1>18
  DEF Next, TickStep, JobStep

\* Nothing is pending at the start.
LEMMA LimitInit ==
  ASSUME OpsHaveMax
  PROVE  Init => LimitInv
<1> SUFFICES ASSUME Init PROVE LimitInv
  OBVIOUS
<1>1. \A s \in Sides : Cardinality(Pending(s)) = 0
  <2>1. \A s \in Sides : Pending(s) = {}
    BY DEF Init, Pending, OrdersOf, Orders
  <2> QED
    BY <2>1, FS_EmptySet
<1>2. Snapshots /\ Fallback /\ IdleIsEmpty
  BY DEF Init, Snapshots, Fallback, IdleIsEmpty, NoTodo
<1>3. \A t \in Ticks, s \in Sides : todo[t][s] = 0
  BY DEF Init, NoTodo
<1>4. SideLimit
  BY <1>1, MaxOpsType DEF SideLimit, Pending
<1>5. Room
  <2> SUFFICES ASSUME NEW t \in Ticks, NEW s \in Sides
               PROVE  Cardinality(Pending(s)) + todo[t][s] <= MaxOps
    BY DEF Room
  <2> QED
    BY <1>1, <1>3, MaxOpsType
<1> QED
  BY <1>2, <1>4, <1>5 DEF LimitInv

\* Where a failing listing falls back on the registry, the orders on a side, those
\* on their way included and strays apart, never exceed the greatest
\* orders_per_side on offer, however the user changes it, whatever excess cancels
\* fail, replies are lost and crashes come, and however ticks and cancellations
\* interleave.
THEOREM LimitHolds ==
  ASSUME OpsHaveMax, FallsBack
  PROVE  Spec => []SideLimit
<1>1. /\ TypeOK /\ OneTick /\ RowsInv /\ Tracked /\ LimitInv /\ TypeOK' /\ [Next]_vars
      => LimitInv'
  BY LimitStep
<1>2. LimitInv => SideLimit
  BY DEF LimitInv
<1> QED
  BY <1>1, <1>2, LimitInit, TypeCorrect, Mutex, Bookkeeping, PTL DEF Spec
=============================================================================
