------------------------- MODULE DcaRunner_proofs -------------------------
(* Proofs about DcaRunner, for every value of its constants. *)
EXTENDS DcaRunner, TLAPS

\* The order a tick is at is known and no larger than what is left of its
\* budget, and no order buys more than it asks for.  The type of what is left
\* rests on it: a sweep deducts what the exchange says of its order.
Fits ==
  /\ \A t \in Ticks : pc[t] \in {"creating", "settle", "check"} =>
       cur[t] \in Orders /\ want[cur[t]] <= left[t]
  /\ \A o \in Orders : got[o] <= want[o]

\* The default cap is one of the caps.
LEMMA DefaultCapType == DefaultCap \in Caps
  BY ParamsChecked DEF DefaultCap

\* The bounds of the tick's counters hold the values they start with.
LEMMA SweepsType == MaxSweeps \in Nat /\ 0 \in 0..MaxSweeps /\ MaxSweeps \in 0..MaxSweeps
                    /\ 0 \in 0..Budget
  BY ParamsChecked DEF MaxSweeps

\* Leaving a tick resets its locals to values of their types.
LEMMA ForgetType ==
  ASSUME TypeOK, NEW t \in Ticks, ForgetTick(t), running' \in BOOLEAN
  PROVE  TickType'
  BY DefaultCapType, ParamsChecked DEF ForgetTick, Goto, MaxSweeps, TypeOK, TickType

\* An order is never larger than what is left of the budget.
LEMMA QuantityFits ==
  ASSUME TypeOK, NEW t \in Ticks
  PROVE  Quantity(t) \in Nat /\ Quantity(t) <= left[t]
<1>1. left[t] \in Nat
  BY ParamsChecked DEF TypeOK, TickType
<1> QED
  BY <1>1 DEF Quantity

\* Whatever the listing says, a check deducts no more than is left.
LEMMA FilledFits ==
  ASSUME TypeOK, Fits, NEW t \in Ticks, TickCheck(t)
  PROVE  left' \in [Ticks -> 0..Budget]
<1>1. cur[t] \in Orders /\ want[cur[t]] <= left[t] /\ got[cur[t]] <= want[cur[t]]
  BY DEF TickCheck, Fits
<1>2. want[cur[t]] \in Nat /\ got[cur[t]] \in Nat /\ left[t] \in 0..Budget
  BY <1>1 DEF TypeOK, ExchangeType, TickType
<1>3. PICK filled \in {want[cur[t]], got[cur[t]]} : left' = [left EXCEPT ![t] = @ - filled]
  BY DEF TickCheck, Filled
<1>4. left[t] - filled \in 0..Budget
  BY <1>1, <1>2, <1>3, ParamsChecked
<1> QED
  BY <1>3, <1>4 DEF TypeOK, TickType

\* A fill leaves the totals natural numbers.
LEMMA FillCost ==
  ASSUME TypeOK, NEW o \in Orders, Fill(o)
  PROVE  /\ got' \in [Orders -> Nat] /\ book' \in [Orders -> {"none", "sent", "live", "done"}]
         /\ bought' \in Nat /\ cost' \in Nat
<1>1. PICK k \in 1..(want[o] - got[o]), p \in FillPrices :
        /\ got' = [got EXCEPT ![o] = @ + k]
        /\ book' = IF got[o] + k = want[o] THEN [book EXCEPT ![o] = "done"] ELSE book
        /\ bought' = bought + k /\ cost' = cost + p * k
  BY DEF Fill
<1>2. want[o] \in Nat /\ got[o] \in Nat /\ k \in Nat /\ bought \in Nat /\ cost \in Nat
  BY DEF TypeOK, ExchangeType
<1>3. p \in {0, 1, 2, 3}
  BY MarketKnown
<1>4. p * k \in Nat
  BY <1>2, <1>3
<1>5. got[o] + k \in Nat /\ bought + k \in Nat /\ cost + p * k \in Nat
  BY <1>2, <1>4
<1> QED
  BY <1>1, <1>5 DEF TypeOK, ExchangeType

\* What is recorded of a purchase is a natural number.
LEMMA RecordType ==
  ASSUME TypeOK, NEW t \in Ticks
  PROVE  spent + Budget - left[t] \in Nat
<1>1. spent \in Nat /\ left[t] \in 0..Budget
  BY DEF TypeOK, ConfigType, TickType
<1> QED
  BY <1>1, ParamsChecked

\* The initial states are typed.
LEMMA TypeInit == Init => TypeOK
<1> SUFFICES ASSUME Init PROVE TypeOK
  OBVIOUS
<1>1. ConfigType
  BY DEF Init, ConfigType
<1>2. ExchangeType
  BY DEF Init, ExchangeType
<1>3. TickType
  BY DefaultCapType, SweepsType DEF Init, TickType
<1>4. CancelType
  BY DEF Init, CancelType, MaxHardTries
<1>5. OtherType
  <2>1. 1 \in 1..MaxTime /\ 0 \in 0..MaxCrashes
    BY Bounds
  <2> QED
    BY <2>1 DEF Init, OtherType
<1> QED
  BY <1>1, <1>2, <1>3, <1>4, <1>5 DEF TypeOK

\* One step per action, and under it one per group of variables it changes.
LEMMA TypeStep == TypeOK /\ Fits /\ [Next]_vars => TypeOK'
<1> SUFFICES ASSUME TypeOK, Fits, [Next]_vars PROVE TypeOK'
  OBVIOUS
<1> USE DefaultCapType, ParamsChecked, Bounds
<1>1. QED
  <2>1. ASSUME NEW t \in Ticks, Dispatch(t) PROVE TypeOK'
    <3>1. TickType'
      BY <2>1 DEF Dispatch, Goto, OtherType, TypeOK, TickType, tickLocals
    <3> QED
      BY <2>1, <3>1 DEF Dispatch, TypeOK, ConfigType, ExchangeType, CancelType,
         OtherType, config, exchange, tickLocals, cancelLocals, others
  <2>2. ASSUME NEW t \in Ticks, Skip(t) PROVE TypeOK'
    <3>1. TickType'
      BY <2>2, ForgetType DEF Skip, TypeOK, TickType
    <3> QED
      BY <2>2, <3>1 DEF Skip, TypeOK, ConfigType, ExchangeType, CancelType, OtherType,
         config, exchange, tickLocals, cancelLocals, others
  <2>3. ASSUME NEW t \in Ticks, ReachCap(t) PROVE TypeOK'
    <3>1. ConfigType'
      BY <2>3 DEF ReachCap, TypeOK, ConfigType, config
    <3>2. ExchangeType'
      BY <2>3 DEF ReachCap, BeginCancel, TypeOK, ExchangeType, exchange
    <3>3. TickType'
      BY <2>3 DEF ReachCap, Goto, TypeOK, TickType, tickLocals
    <3>4. CancelType'
      BY <2>3 DEF ReachCap, BeginCancel, ExchangeType, Callers, TypeOK, CancelType,
         cancelLocals
    <3> QED
      BY <2>3, <3>1, <3>2, <3>3, <3>4 DEF ReachCap, TypeOK, OtherType, config,
         exchange, tickLocals, cancelLocals, others
  <2>4. ASSUME NEW t \in Ticks, TooEarly(t) PROVE TypeOK'
    <3>1. TickType'
      BY <2>4, ForgetType DEF TooEarly, TypeOK, TickType
    <3> QED
      BY <2>4, <3>1 DEF TooEarly, TypeOK, ConfigType, ExchangeType, CancelType,
         OtherType, config, exchange, tickLocals, cancelLocals, others
  <2>5. ASSUME NEW t \in Ticks, AutoDisable(t) PROVE TypeOK'
    <3>1. ConfigType'
      BY <2>5 DEF AutoDisable, TypeOK, ConfigType, config
    <3>2. ExchangeType'
      BY <2>5 DEF AutoDisable, TypeOK, ExchangeType, exchange
    <3>3. TickType'
      BY <2>5, ForgetType DEF AutoDisable, TypeOK, TickType
    <3> QED
      BY <2>5, <3>1, <3>2, <3>3 DEF AutoDisable, TypeOK, CancelType, OtherType,
         config, exchange, tickLocals, cancelLocals, others
  <2>6. ASSUME NEW t \in Ticks, TickStart(t) PROVE TypeOK'
    <3>1. TickType'
      BY <2>6 DEF TickStart, Goto, ConfigType, TypeOK, TickType, tickLocals
    <3>2. CancelType'
      BY <2>6 DEF TickStart, ExchangeType, Callers, TypeOK, CancelType, cancelLocals
    <3> QED
      BY <2>6, <3>1, <3>2 DEF TickStart, TypeOK, ConfigType, ExchangeType, OtherType,
         config, exchange, tickLocals, cancelLocals, others
  <2>7. ASSUME NEW t \in Ticks, TickList(t) PROVE TypeOK'
    <3>1. TickType'
      BY <2>7 DEF TickList, Goto, TypeOK, TickType, tickLocals
    <3>2. CancelType'
      BY <2>7 DEF TickList, Live, Callers, TypeOK, CancelType, cancelLocals
    <3> QED
      BY <2>7, <3>1, <3>2 DEF TickList, TypeOK, ConfigType, ExchangeType, OtherType,
         config, exchange, tickLocals, cancelLocals, others
  <2>8. ASSUME NEW t \in Ticks, TickClear(t) PROVE TypeOK'
    <3>1. ExchangeType'
      BY <2>8 DEF TickClear, CancelOutcome, CancelType, Callers, TypeOK, ExchangeType, exchange
    <3>2. CancelType'
      BY <2>8 DEF TickClear, Callers, TypeOK, CancelType, cancelLocals
    <3> QED
      BY <2>8, <3>1, <3>2 DEF TickClear, TypeOK, ConfigType, TickType, OtherType,
         config, exchange, tickLocals, cancelLocals, others
  <2>9. ASSUME NEW t \in Ticks, TickCleared(t) PROVE TypeOK'
    <3>1. ConfigType'
      BY <2>9 DEF TickCleared, Return, TypeOK, ConfigType, config
    <3>2. TickType'
      BY <2>9, ForgetType DEF TickCleared, Return, Goto, TypeOK, TickType
    <3> QED
      BY <2>9, <3>1, <3>2 DEF TickCleared, TypeOK, ExchangeType, CancelType,
         OtherType, config, exchange, tickLocals, cancelLocals, others
  <2>10. ASSUME NEW t \in Ticks, TickPrice(t) PROVE TypeOK'
    <3>1. ConfigType'
      BY <2>10 DEF TickPrice, BackOffOrRecord, TypeOK, ConfigType, config
    <3>2. TickType'
      <4>1. CASE Return(t)
        BY <4>1, ForgetType DEF Return
      <4>2. CASE Goto(t, "place") /\ left' = [left EXCEPT ![t] = Budget]
                 /\ UNCHANGED <<running, stamp, terms, sweeps, cur, named>>
        BY <4>2, ParamsChecked DEF Goto, TypeOK, TickType
      <4> QED
        BY <2>10, <4>1, <4>2 DEF TickPrice
    <3> QED
      BY <2>10, <3>1, <3>2 DEF TickPrice, TypeOK, ExchangeType, CancelType, OtherType,
         config, exchange, tickLocals, cancelLocals, others
  <2>11. ASSUME NEW t \in Ticks, SendCreate(t) PROVE TypeOK'
    <3>1. ExchangeType'
      BY <2>11, QuantityFits DEF SendCreate, TypeOK, ExchangeType
    <3>2. TickType'
      BY <2>11 DEF SendCreate, Goto, MaySweep, MaxSweeps, TypeOK, TickType, tickLocals
    <3> QED
      BY <2>11, <3>1, <3>2 DEF SendCreate, TypeOK, ConfigType, CancelType, OtherType,
         config, exchange, tickLocals, cancelLocals, others
  <2>12. ASSUME NEW t \in Ticks, CreateAccepted(t) PROVE TypeOK'
    <3>1. ExchangeType'
      BY <2>12 DEF CreateAccepted, Fits, TypeOK, ExchangeType, exchange
    <3>2. TickType'
      BY <2>12 DEF CreateAccepted, Goto, TypeOK, TickType, tickLocals
    <3> QED
      BY <2>12, <3>1, <3>2 DEF CreateAccepted, TypeOK, ConfigType, CancelType,
         OtherType, config, exchange, tickLocals, cancelLocals, others
  <2>unsent. ASSUME NEW t \in Ticks, CreateUnsent(t) PROVE TypeOK'
    <3>1. ConfigType'
      BY <2>unsent DEF CreateUnsent, BackOffOrRecord, TypeOK, ConfigType, config
    <3>2. TickType'
      <4>1. CASE Return(t)
        BY <4>1, ForgetType DEF Return
      <4>2. CASE /\ sweeps' \in {[sweeps EXCEPT ![t] = @ + 1], [sweeps EXCEPT ![t] = MaxSweeps]}
                 /\ UNCHANGED <<running, pc, stamp, terms, left, cur, named>>
        BY <2>unsent, <4>2 DEF CreateUnsent, MaySweep, MaxSweeps, TypeOK, TickType
      <4> QED
        BY <2>unsent, <4>1, <4>2 DEF CreateUnsent
    <3> QED
      BY <2>unsent, <3>1, <3>2 DEF CreateUnsent, TypeOK, ExchangeType, CancelType,
         OtherType, config, exchange, tickLocals, cancelLocals, others
  <2>13. ASSUME NEW t \in Ticks, CreateFailed(t) PROVE TypeOK'
    <3>1. ConfigType'
      BY <2>13 DEF CreateFailed, BackOffOrRecord, TypeOK, ConfigType, config
    <3>2. TickType'
      <4>1. CASE Return(t)
        BY <4>1, ForgetType DEF Return
      <4>2. CASE /\ cur' = [cur EXCEPT ![t] = NoOrder]
                 /\ sweeps' \in {sweeps, [sweeps EXCEPT ![t] = MaxSweeps]}
                 /\ Goto(t, "place")
                 /\ UNCHANGED <<running, stamp, terms, left, named>>
        BY <4>2, SweepsType DEF Goto, TypeOK, TickType
      <4> QED
        BY <2>13, <4>1, <4>2 DEF CreateFailed
    <3> QED
      BY <2>13, <3>1, <3>2 DEF CreateFailed, TypeOK, ExchangeType, CancelType,
         OtherType, config, exchange, tickLocals, cancelLocals, others
  <2>14. ASSUME NEW t \in Ticks, TickSettle(t) PROVE TypeOK'
    <3>1. ExchangeType'
      BY <2>14 DEF TickSettle, Fits, CancelOutcome, TypeOK, ExchangeType, exchange
    <3>2. TickType'
      BY <2>14 DEF TickSettle, Goto, TypeOK, TickType, tickLocals
    <3> QED
      BY <2>14, <3>1, <3>2 DEF TickSettle, TypeOK, ConfigType, CancelType, OtherType,
         config, exchange, tickLocals, cancelLocals, others
  <2>15. ASSUME NEW t \in Ticks, TickCheck(t) PROVE TypeOK'
    <3>1. TickType'
      BY <2>15, FilledFits DEF TickCheck, Goto, TypeOK, TickType
    <3> QED
      BY <2>15, <3>1 DEF TickCheck, TypeOK, ConfigType, ExchangeType, CancelType,
         OtherType, config, exchange, tickLocals, cancelLocals, others
  <2>16. ASSUME NEW t \in Ticks, TickEnd(t) PROVE TypeOK'
    <3>1. ConfigType'
      BY <2>16, RecordType DEF TickEnd, Record, BackOffOrRecord, TypeOK, ConfigType, TickType
    <3>2. TickType'
      BY <2>16, ForgetType DEF TickEnd, Return, Goto, TypeOK, TickType
    <3> QED
      BY <2>16, <3>1, <3>2 DEF TickEnd, TypeOK, ExchangeType, CancelType, OtherType,
         config, exchange, tickLocals, cancelLocals, others
  <2>17. ASSUME NEW t \in Ticks, TickStopped(t) PROVE TypeOK'
    <3>1. TickType'
      BY <2>17, ForgetType DEF TickStopped, Return, Goto, TypeOK, TickType
    <3>2. CancelType'
      BY <2>17 DEF TickStopped, Callers, TypeOK, CancelType, cancelLocals
    <3> QED
      BY <2>17, <3>1, <3>2 DEF TickStopped, TypeOK, ConfigType, ExchangeType,
         OtherType, config, exchange, tickLocals, cancelLocals, others
  <2>18. ASSUME NEW o \in Orders, Accept(o) PROVE TypeOK'
    <3>1. ExchangeType'
      BY <2>18 DEF Accept, TypeOK, ExchangeType, exchange
    <3> QED
      BY <2>18, <3>1 DEF Accept, TypeOK, ConfigType, TickType, CancelType, OtherType,
         config, exchange, tickLocals, cancelLocals, others
  <2>19. ASSUME NEW o \in Orders, Reject(o) PROVE TypeOK'
    <3>1. ExchangeType'
      BY <2>19 DEF Reject, TypeOK, ExchangeType, exchange
    <3> QED
      BY <2>19, <3>1 DEF Reject, TypeOK, ConfigType, TickType, CancelType, OtherType,
         config, exchange, tickLocals, cancelLocals, others
  <2>20. ASSUME NEW o \in Orders, Fill(o) PROVE TypeOK'
    <3>1. ExchangeType'
      BY <2>20, FillCost DEF Fill, TypeOK, ExchangeType
    <3> QED
      BY <2>20, <3>1 DEF Fill, TypeOK, ConfigType, TickType, CancelType, OtherType,
         config, exchange, tickLocals, cancelLocals, others
  <2>21. ASSUME NEW p \in Callers, CancelList(p) PROVE TypeOK'
    <3>1. CancelType'
      BY <2>21 DEF CancelList, Live, Listings, TypeOK, CancelType, cancelLocals
    <3> QED
      BY <2>21, <3>1 DEF CancelList, TypeOK, ConfigType, ExchangeType, TickType,
         OtherType, config, exchange, tickLocals, cancelLocals, others
  <2>22. ASSUME NEW p \in Callers, CancelOne(p) PROVE TypeOK'
    <3>1. ExchangeType'
      BY <2>22 DEF CancelOne, CancelOutcome, CancelType, TypeOK, ExchangeType, exchange
    <3>2. CancelType'
      BY <2>22 DEF CancelOne, TypeOK, CancelType, cancelLocals
    <3> QED
      BY <2>22, <3>1, <3>2 DEF CancelOne, TypeOK, ConfigType, TickType, OtherType,
         config, exchange, tickLocals, cancelLocals, others
  <2>23. ASSUME NEW p \in Callers, CancelAgain(p) PROVE TypeOK'
    <3>1. CancelType'
      BY <2>23 DEF CancelAgain, Live, Listings, MaxHardTries, TypeOK, CancelType, cancelLocals
    <3> QED
      BY <2>23, <3>1 DEF CancelAgain, TypeOK, ConfigType, ExchangeType, TickType,
         OtherType, config, exchange, tickLocals, cancelLocals, others
  <2>24. ASSUME NEW p \in Callers, CancelDone(p) PROVE TypeOK'
    <3>1. CancelType'
      BY <2>24 DEF CancelDone, MaxHardTries, TypeOK, CancelType, cancelLocals
    <3> QED
      BY <2>24, <3>1 DEF CancelDone, TypeOK, ConfigType, ExchangeType, TickType,
         OtherType, config, exchange, tickLocals, cancelLocals, others
  <2>25. ASSUME NEW j \in Jobs, Answer(j) PROVE TypeOK'
    <3>1. ConfigType'
      BY <2>25 DEF Answer, TypeOK, ConfigType, config
    <3>2. CancelType'
      BY <2>25 DEF Answer, Callers, TypeOK, CancelType, cancelLocals
    <3> QED
      BY <2>25, <3>1, <3>2 DEF Answer, TypeOK, ExchangeType, TickType, OtherType,
         config, exchange, tickLocals, cancelLocals, others
  <2>26. ASSUME Start PROVE TypeOK'
    <3>1. ConfigType'
      BY <2>26 DEF Start, Reenabled, TypeOK, ConfigType, config
    <3> QED
      BY <2>26, <3>1 DEF Start, TypeOK, ExchangeType, TickType, CancelType, OtherType,
         config, exchange, tickLocals, cancelLocals, others
  <2>27. ASSUME NEW c \in Caps, Configure(c) PROVE TypeOK'
    <3>1. ConfigType'
      BY <2>27 DEF Configure, Reenabled, TypeOK, ConfigType, config
    <3> QED
      BY <2>27, <3>1 DEF Configure, TypeOK, ExchangeType, TickType, CancelType,
         OtherType, config, exchange, tickLocals, cancelLocals, others
  <2>28. ASSUME NEW j \in Jobs, NEW what \in {"cancel", "stop", "stopAll"}, Request(j, what) PROVE TypeOK'
    <3>1. ConfigType'
      BY <2>28 DEF Request, TypeOK, ConfigType, config
    <3>2. ExchangeType'
      BY <2>28 DEF Request, BeginCancel, TypeOK, ExchangeType, exchange
    <3>3. CancelType'
      BY <2>28 DEF Request, BeginCancel, ExchangeType, Callers, TypeOK, CancelType,
         cancelLocals
    <3> QED
      BY <2>28, <3>1, <3>2, <3>3 DEF Request, TypeOK, TickType, OtherType, config,
         exchange, tickLocals, cancelLocals, others
  <2>29. ASSUME ChangeKeys PROVE TypeOK'
    <3>1. ConfigType'
      BY <2>29 DEF ChangeKeys, TypeOK, ConfigType, config
    <3> QED
      BY <2>29, <3>1 DEF ChangeKeys, TypeOK, ExchangeType, TickType, CancelType,
         OtherType, config, exchange, tickLocals, cancelLocals, others
  <2>30. ASSUME BackoffExpires PROVE TypeOK'
    <3>1. ConfigType'
      BY <2>30 DEF BackoffExpires, TypeOK, ConfigType, config
    <3> QED
      BY <2>30, <3>1 DEF BackoffExpires, TypeOK, ExchangeType, TickType, CancelType,
         OtherType, config, exchange, tickLocals, cancelLocals, others
  <2>31. ASSUME Elapse PROVE TypeOK'
    <3>1. OtherType'
      BY <2>31 DEF Elapse, TypeOK, OtherType, others
    <3> QED
      BY <2>31, <3>1 DEF Elapse, TypeOK, ConfigType, ExchangeType, TickType,
         CancelType, config, exchange, tickLocals, cancelLocals, others
  <2>32. ASSUME Crash PROVE TypeOK'
    <3>1. TickType'
      BY <2>32, SweepsType DEF Crash, TypeOK, TickType
    <3>2. CancelType'
      BY <2>32 DEF Crash, MaxHardTries, TypeOK, CancelType, cancelLocals
    <3>3. OtherType'
      BY <2>32 DEF Crash, TypeOK, OtherType, others
    <3> QED
      BY <2>32, <3>1, <3>2, <3>3 DEF Crash, TypeOK, ConfigType, ExchangeType, config,
         exchange, tickLocals, cancelLocals, others
  <2>33. CASE UNCHANGED vars
    BY <2>33 DEF vars, config, exchange, tickLocals, cancelLocals, others, TypeOK,
       ConfigType, ExchangeType, TickType, CancelType, OtherType
  <2> QED
    BY <2>1, <2>2, <2>3, <2>4, <2>5, <2>6, <2>7, <2>8, <2>9, <2>10, <2>11, <2>12, <2>13,
       <2>14, <2>15, <2>16, <2>17, <2>18, <2>19, <2>20, <2>21, <2>22, <2>23, <2>24,
       <2>25, <2>26, <2>27, <2>28, <2>29, <2>30, <2>31, <2>32, <2>33, <2>unsent
    DEF Next, TickStep, CancelStep, User

\* An action either leaves an order alone where Fits speaks of it or makes it
\* fit: SendCreate by its quantity, Fill by what is missing.
LEMMA FitsStep == TypeOK /\ Fits /\ [Next]_vars => Fits'
<1> SUFFICES ASSUME TypeOK, Fits, [Next]_vars PROVE Fits'
  OBVIOUS
<1> USE DEF Fits, TypeOK, ExchangeType, TickType
<1>1. ASSUME NEW t \in Ticks, \/ Dispatch(t) \/ Skip(t) \/ ReachCap(t) \/ TooEarly(t)
                              \/ AutoDisable(t) \/ TickStart(t) \/ TickList(t)
             PROVE Fits'
  BY <1>1 DEF Dispatch, Skip, ReachCap, TooEarly, AutoDisable, TickStart, TickList, ForgetTick,
     Goto, exchange
<1>2. ASSUME NEW t \in Ticks, TickClear(t) PROVE Fits'
  BY <1>2 DEF TickClear, tickLocals
<1>3. ASSUME NEW t \in Ticks, TickCleared(t) PROVE Fits'
  BY <1>3 DEF TickCleared, Return, ForgetTick, Goto, exchange
<1>4. ASSUME NEW t \in Ticks, TickPrice(t) PROVE Fits'
  BY <1>4 DEF TickPrice, Return, ForgetTick, Goto, exchange
<1>5. ASSUME NEW t \in Ticks, SendCreate(t) PROVE Fits'
  <2>1. PICK o \in Orders :
          /\ Fresh(o) /\ want' = [want EXCEPT ![o] = Quantity(t)]
          /\ got' = [got EXCEPT ![o] = 0] /\ cur' = [cur EXCEPT ![t] = o]
    BY <1>5 DEF SendCreate
  <2>2. Quantity(t) \in Nat /\ Quantity(t) <= left[t]
    BY QuantityFits
  <2>3. pc' = [pc EXCEPT ![t] = "creating"] /\ UNCHANGED left
    BY <1>5 DEF SendCreate, Goto
  <2>4. \A u \in Ticks : u # t => cur[u] # o
    BY <2>1 DEF Fresh
  <2>5. ASSUME NEW u \in Ticks, pc'[u] \in {"creating", "settle", "check"}
        PROVE  cur'[u] \in Orders /\ want'[cur'[u]] <= left'[u]
    <3>1. CASE u = t
      BY <2>1, <2>2, <2>3, <3>1
    <3>2. CASE u # t
      <4>1. pc'[u] = pc[u] /\ cur'[u] = cur[u] /\ left'[u] = left[u]
        BY <2>1, <2>3, <3>2
      <4>2. cur[u] \in Orders /\ want[cur[u]] <= left[u] /\ cur[u] # o
        BY <2>4, <2>5, <3>2, <4>1
      <4>3. want'[cur[u]] = want[cur[u]]
        BY <2>1, <4>2
      <4> QED
        BY <4>1, <4>2, <4>3
    <3> QED
      BY <3>1, <3>2
  <2>6. ASSUME NEW q \in Orders PROVE got'[q] <= want'[q]
    BY <2>1, <2>2
  <2> QED
    BY <2>5, <2>6
<1>6. ASSUME NEW t \in Ticks, CreateAccepted(t) PROVE Fits'
  BY <1>6 DEF CreateAccepted, Goto, exchange
<1>7. ASSUME NEW t \in Ticks, CreateUnsent(t) \/ CreateFailed(t) PROVE Fits'
  BY <1>7 DEF CreateUnsent, CreateFailed, Return, ForgetTick, Goto, exchange
<1>8. ASSUME NEW t \in Ticks, TickSettle(t) PROVE Fits'
  BY <1>8 DEF TickSettle, Goto
<1>9. ASSUME NEW t \in Ticks, TickCheck(t) PROVE Fits'
  BY <1>9 DEF TickCheck, Goto, exchange
<1>10. ASSUME NEW t \in Ticks, TickEnd(t) \/ TickStopped(t) PROVE Fits'
  BY <1>10 DEF TickEnd, TickStopped, Return, ForgetTick, Goto, exchange
<1>11. ASSUME NEW o \in Orders, Accept(o) \/ Reject(o) PROVE Fits'
  BY <1>11 DEF Accept, Reject, tickLocals
<1>12. ASSUME NEW o \in Orders, Fill(o) PROVE Fits'
  <2>1. PICK k \in 1..(want[o] - got[o]) : got' = [got EXCEPT ![o] = @ + k]
    BY <1>12 DEF Fill
  <2>2. UNCHANGED <<want, tickLocals>>
    BY <1>12 DEF Fill
  <2>3. got[o] + k <= want[o]
    BY <2>1
  <2> QED
    BY <2>1, <2>2, <2>3 DEF tickLocals
<1>13. ASSUME NEW p \in Callers, CancelStep(p) PROVE Fits'
  BY <1>13 DEF CancelStep, CancelList, CancelOne, CancelAgain, CancelDone, tickLocals, exchange
<1>14. ASSUME NEW j \in Jobs, Answer(j) PROVE Fits'
  BY <1>14 DEF Answer, tickLocals, exchange
<1>15. CASE User \/ BackoffExpires \/ Elapse
  BY <1>15 DEF User, Start, Configure, ChangeKeys, Request, BackoffExpires, Elapse, tickLocals,
     exchange
<1>16. CASE Crash
  BY <1>16 DEF Crash, exchange
<1>17. CASE UNCHANGED vars
  BY <1>17 DEF vars, tickLocals, exchange
<1> QED
  BY <1>1, <1>2, <1>3, <1>4, <1>5, <1>6, <1>7, <1>8, <1>9, <1>10, <1>11, <1>12, <1>13, <1>14,
     <1>15, <1>16, <1>17 DEF Next, TickStep

\* The two together are inductive.
LEMMA TypeAndFits == Spec => [](TypeOK /\ Fits)
<1>1. Init => Fits
  BY DEF Init, Fits
<1> QED
  BY <1>1, TypeInit, TypeStep, FitsStep, PTL DEF Spec

\* Every variable of the DCA keeps its type, for any ticks, requests, orders,
\* faults and bounds: dcaRunner never spends more than the budget in a tick.
THEOREM TypeCorrect == Spec => []TypeOK
  BY TypeAndFits, PTL
-----------------------------------------------------------------------------
(* The lock *)

\* A tick that is at work holds the lock, and no other is.
Locked ==
  /\ \A t \in Ticks : Busy(t) => running
  /\ \A t, u \in Ticks : Busy(t) /\ Busy(u) => t = u

\* A step of a tick at work moves that tick only, and gives the lock back
\* exactly when it leaves.
LEMMA TickStepFrame ==
  ASSUME TypeOK, NEW t \in Ticks, TickStep(t)
  PROVE  /\ \A u \in Ticks : u # t => pc'[u] = pc[u]
         /\ \/ ~Busy(t) /\ ~Busy(t)' /\ UNCHANGED running
            \/ ~Busy(t) /\ ~running /\ running'
            \/ Busy(t) /\ UNCHANGED running
            \/ Busy(t) /\ ~Busy(t)' /\ ~running'
<1> USE DEF TypeOK, TickType, Goto, ForgetTick, Return, Busy
<1>1. CASE Skip(t)            BY <1>1 DEF Skip
<1>2. CASE ReachCap(t)        BY <1>2 DEF ReachCap, MayRun, LockFree
<1>3. CASE TooEarly(t)        BY <1>3 DEF TooEarly
<1>4. CASE AutoDisable(t)     BY <1>4 DEF AutoDisable
<1>5. CASE TickStart(t)       BY <1>5 DEF TickStart, MayRun, LockFree
<1>6. CASE TickList(t)        BY <1>6 DEF TickList
<1>7. CASE TickClear(t)       BY <1>7 DEF TickClear, tickLocals
<1>8. CASE TickCleared(t)     BY <1>8 DEF TickCleared
<1>9. CASE TickPrice(t)       BY <1>9 DEF TickPrice
<1>10. CASE SendCreate(t)     BY <1>10 DEF SendCreate
<1>11. CASE CreateAccepted(t) BY <1>11 DEF CreateAccepted
<1>12. CASE CreateUnsent(t) \/ CreateFailed(t)
  BY <1>12 DEF CreateUnsent, CreateFailed
<1>13. CASE TickSettle(t)     BY <1>13 DEF TickSettle
<1>14. CASE TickCheck(t)      BY <1>14 DEF TickCheck
<1>15. CASE TickEnd(t)        BY <1>15 DEF TickEnd
<1>16. CASE TickStopped(t)    BY <1>16 DEF TickStopped
<1> QED
  BY <1>1, <1>2, <1>3, <1>4, <1>5, <1>6, <1>7, <1>8, <1>9, <1>10, <1>11, <1>12, <1>13, <1>14,
     <1>15, <1>16 DEF TickStep

\* A step of an order, a cancellation, a request, the user or time.
OtherStep ==
  \/ \E p \in Callers : CancelStep(p)
  \/ \E j \in Jobs : Answer(j)
  \/ \E o \in Orders : Accept(o) \/ Reject(o) \/ Fill(o)
  \/ User \/ BackoffExpires \/ Elapse

\* Requests, the exchange and time leave a tick's locals and its accounts alone.
LEMMA OthersLeaveTicks ==
  ASSUME OtherStep
  PROVE  UNCHANGED <<running, tickLocals, lastRun, spent>>
<1>1. ASSUME NEW p \in Callers, CancelStep(p) PROVE UNCHANGED <<running, tickLocals, lastRun, spent>>
  BY <1>1 DEF CancelStep, CancelList, CancelOne, CancelAgain, CancelDone, config
<1>2. ASSUME NEW j \in Jobs, Answer(j) PROVE UNCHANGED <<running, tickLocals, lastRun, spent>>
  BY <1>2 DEF Answer
<1>3. ASSUME NEW o \in Orders, Accept(o) \/ Reject(o) \/ Fill(o)
      PROVE  UNCHANGED <<running, tickLocals, lastRun, spent>>
  BY <1>3 DEF Accept, Reject, Fill, config
<1>4. CASE User
  BY <1>4 DEF User, Start, Configure, ChangeKeys, Request
<1>5. CASE BackoffExpires \/ Elapse
  BY <1>5 DEF BackoffExpires, Elapse, config
<1> QED
  BY <1>1, <1>2, <1>3, <1>4, <1>5 DEF OtherStep

\* No step lets a second tick in or leaves the lock taken without one.
LEMMA LockedStep == TypeOK /\ Locked /\ [Next]_vars => Locked'
<1> SUFFICES ASSUME TypeOK, Locked, [Next]_vars PROVE Locked'
  OBVIOUS
<1>1. ASSUME NEW t \in Ticks, Dispatch(t) PROVE Locked'
  BY <1>1 DEF Dispatch, Goto, Locked, Busy, TypeOK, TickType
<1>2. ASSUME NEW t \in Ticks, TickStep(t) PROVE Locked'
  BY <1>2, TickStepFrame DEF Locked, Busy
<1>3. CASE OtherStep
  BY <1>3, OthersLeaveTicks DEF Locked, Busy, tickLocals
<1>4. CASE Crash
  BY <1>4 DEF Crash, Locked, Busy
<1>5. CASE UNCHANGED vars
  BY <1>5 DEF vars, tickLocals, Locked, Busy
<1> QED
  BY <1>1, <1>2, <1>3, <1>4, <1>5 DEF Next, OtherStep

\* However scheduler ticks overlap, stops, starts and crashes interleave, at
\* most one tick of the DCA is past its lock.
THEOREM OneTick == Spec => [](\A t, u \in Ticks : Busy(t) /\ Busy(u) => t = u)
<1>1. Init => Locked
  BY DEF Init, Locked, Busy
<1>2. Locked => \A t, u \in Ticks : Busy(t) /\ Busy(u) => t = u
  BY DEF Locked
<1> QED
  BY <1>1, <1>2, TypeAndFits, LockedStep, PTL DEF Spec
-----------------------------------------------------------------------------
(* DcaRunner implements BudgetedBuyer *)

\* What a tick checked before its purchase still holds: nobody else records.
Allowed(t) ==
  /\ spent + Budget <= terms[t]
  /\ lastRun = 0 \/ stamp[t] - lastRun >= Interval
Agreed == \A t \in Ticks : Busy(t) /\ pc[t] # "stopping" => Allowed(t)

\* A tick agrees to its terms as it starts, keeps them to the end, and leaves
\* the terms and stamps of others alone.
LEMMA TermsFrame ==
  ASSUME TypeOK, NEW t \in Ticks, TickStep(t), ~TickEnd(t)
  PROVE  /\ UNCHANGED <<spent, lastRun>>
         /\ cap' = cap
         /\ \A u \in Ticks : u # t => UNCHANGED <<terms[u], stamp[u]>>
         /\ \/ ~Busy(t)' \/ pc'[t] = "stopping"
            \/ Allowed(t)'
            \/ /\ Busy(t) /\ pc[t] # "stopping"
               /\ UNCHANGED <<terms[t], stamp[t]>>
<1> USE DEF TypeOK, TickType, ConfigType, Goto, ForgetTick, Return, Busy, config
<1>1. CASE Skip(t)            BY <1>1 DEF Skip
<1>2. CASE ReachCap(t)        BY <1>2 DEF ReachCap
<1>3. CASE TooEarly(t)        BY <1>3 DEF TooEarly
<1>4. CASE AutoDisable(t)     BY <1>4 DEF AutoDisable
<1>5. CASE TickStart(t)
  <2>1. ~BudgetOver(t) /\ ~TooSoon(t) /\ terms' = [terms EXCEPT ![t] = cap]
        /\ UNCHANGED <<spent, lastRun, cap, stamp>>
    BY <1>5 DEF TickStart
  <2>2. cap \in Nat /\ spent \in Nat /\ lastRun \in Nat /\ stamp[t] \in Nat
    BY ParamsChecked
  <2>3. spent + Budget <= cap
    BY <2>1, <2>2, ParamsChecked DEF BudgetOver
  <2>4. lastRun = 0 \/ stamp[t] - lastRun >= Interval
    BY <2>1, <2>2, ParamsChecked DEF TooSoon
  <2>5. terms'[t] = cap
    BY <2>1
  <2>6. Allowed(t)'
    BY <2>1, <2>3, <2>4, <2>5 DEF Allowed
  <2> QED
    BY <2>1, <2>6
<1>6. CASE TickList(t)        BY <1>6 DEF TickList
<1>7. CASE TickClear(t)       BY <1>7 DEF TickClear, tickLocals
<1>8. CASE TickCleared(t)     BY <1>8 DEF TickCleared
<1>9. CASE TickPrice(t)       BY <1>9 DEF TickPrice
<1>10. CASE SendCreate(t)     BY <1>10 DEF SendCreate
<1>11. CASE CreateAccepted(t) BY <1>11 DEF CreateAccepted
<1>12. CASE CreateUnsent(t) \/ CreateFailed(t)
  BY <1>12 DEF CreateUnsent, CreateFailed
<1>13. CASE TickSettle(t)     BY <1>13 DEF TickSettle
<1>14. CASE TickCheck(t)      BY <1>14 DEF TickCheck
<1>15. CASE TickStopped(t)    BY <1>15 DEF TickStopped
<1> QED
  BY <1>1, <1>2, <1>3, <1>4, <1>5, <1>6, <1>7, <1>8, <1>9, <1>10, <1>11, <1>12, <1>13, <1>14,
     <1>15 DEF TickStep

\* A step leaves a tick at work within the terms it agreed to: no other tick spends meanwhile.
LEMMA AgreedStep == TypeOK /\ Locked /\ Agreed /\ [Next]_vars => Agreed'
<1> SUFFICES ASSUME TypeOK, Locked, Agreed, [Next]_vars PROVE Agreed'
  OBVIOUS
<1>1. ASSUME NEW t \in Ticks, Dispatch(t) PROVE Agreed'
  BY <1>1 DEF Dispatch, Goto, Agreed, Allowed, Busy, TypeOK, TickType, config
<1>2. ASSUME NEW t \in Ticks, TickStep(t), ~TickEnd(t) PROVE Agreed'
  <2>1. /\ UNCHANGED <<spent, lastRun>>
        /\ \A u \in Ticks : u # t => UNCHANGED <<terms[u], stamp[u], pc[u]>>
    BY <1>2, TermsFrame, TickStepFrame
  <2>2. ASSUME NEW u \in Ticks, u # t, Busy(u)', pc'[u] # "stopping" PROVE Allowed(u)'
    BY <2>1, <2>2 DEF Agreed, Allowed, Busy
  <2>3. ASSUME Busy(t)', pc'[t] # "stopping" PROVE Allowed(t)'
    BY <1>2, <2>1, <2>3, TermsFrame DEF Agreed, Allowed
  <2> QED
    BY <2>2, <2>3 DEF Agreed
<1>3. ASSUME NEW t \in Ticks, TickEnd(t) PROVE Agreed'
  BY <1>3 DEF TickEnd, Return, ForgetTick, Goto, Agreed, Locked, Busy, TypeOK, TickType
<1>4. CASE OtherStep
  BY <1>4, OthersLeaveTicks DEF Agreed, Allowed, Busy, tickLocals
<1>5. CASE Crash
  BY <1>5 DEF Crash, Agreed, Busy
<1>6. CASE UNCHANGED vars
  BY <1>6 DEF vars, tickLocals, config, Agreed, Allowed, Busy
<1> QED
  BY <1>1, <1>2, <1>3, <1>4, <1>5, <1>6 DEF Next, OtherStep

\* Every step is a purchase, a setting of the limit, or invisible.
LEMMA BuyerStep == TypeOK /\ Agreed /\ [Next]_vars => [Buyer!Next]_(Buyer!buyer)
<1> SUFFICES ASSUME TypeOK, Agreed, [Next]_vars, ~UNCHANGED Buyer!buyer PROVE Buyer!Next
  OBVIOUS
<1> USE DEF Buyer!buyer
<1>1. ASSUME NEW t \in Ticks, TickEnd(t) PROVE Buyer!Next
  <2>1. CASE left[t] < Budget
    <3>1. spent' = spent + Budget - left[t] /\ lastRun' = stamp[t] /\ cap' = terms[t]
      BY <1>1, <2>1 DEF TickEnd, Record
    <3>2. left[t] \in 0..Budget /\ spent \in Nat /\ stamp[t] \in Nat /\ terms[t] \in Caps
      BY DEF TypeOK, TickType, ConfigType
    <3>3. spent' - spent \in 1..Budget
      BY <2>1, <3>1, <3>2, ParamsChecked
    <3>4. Allowed(t)
      BY <1>1 DEF TickEnd, Agreed, Busy
    <3>5. Buyer!Buy(terms[t])
      BY <3>1, <3>2, <3>3, <3>4 DEF Allowed, Buyer!Buy
    <3> QED
      BY <3>2, <3>5 DEF Buyer!Next
  <2>2. CASE ~(left[t] < Budget)
    BY <1>1, <2>2 DEF TickEnd
  <2> QED
    BY <2>1, <2>2
<1>2. ASSUME NEW t \in Ticks, TickStep(t), ~TickEnd(t) PROVE Buyer!Next
  BY <1>2, TermsFrame
<1>3. ASSUME NEW c \in Caps, Configure(c) PROVE Buyer!Next
  BY <1>3 DEF Configure, Buyer!Next, Buyer!SetCap
<1>4. ASSUME NEW p \in Callers, CancelStep(p) PROVE FALSE
  BY <1>4 DEF CancelStep, CancelList, CancelOne, CancelAgain, CancelDone, config
<1>5. ASSUME NEW o \in Orders, Accept(o) \/ Reject(o) \/ Fill(o) PROVE FALSE
  BY <1>5 DEF Accept, Reject, Fill, config
<1>6. ASSUME NEW j \in Jobs, Answer(j) \/ \E what \in {"cancel", "stop", "stopAll"} : Request(j, what)
      PROVE  FALSE
  BY <1>6 DEF Answer, Request
<1>7. CASE Start \/ ChangeKeys \/ BackoffExpires \/ Elapse \/ Crash \/ UNCHANGED vars
  BY <1>7 DEF Start, ChangeKeys, BackoffExpires, Elapse, Crash, vars, config
<1>8. ASSUME NEW t \in Ticks, Dispatch(t) PROVE FALSE
  BY <1>8 DEF Dispatch, config
<1> QED
  BY <1>1, <1>2, <1>3, <1>4, <1>5, <1>6, <1>7, <1>8 DEF Next, User

\* Whatever the exchange, the network, the user and crashes do, the purchases
\* the database records are those of a BudgetedBuyer: none exceeds the budget,
\* the limit its tick read or comes before its interval.
THEOREM RunnerImplementsBuyer == Spec => ImplementsBuyer
<1>1. Init => Buyer!Init /\ Locked /\ Agreed
  BY DEF Init, Buyer!Init, Locked, Agreed, Busy
<1>2. Spec => [](TypeOK /\ Locked /\ Agreed)
  BY <1>1, TypeAndFits, LockedStep, AgreedStep, PTL DEF Spec
<1> QED
  BY <1>1, <1>2, BuyerStep, PTL DEF Spec, ImplementsBuyer, Buyer!Spec
-----------------------------------------------------------------------------
(* On a reliable exchange an order never outlives its tick *)

\* Cancels succeed, replies arrive, and the process does not crash; listings
\* may still fail and the user may do anything.
Reliable == ~CancelsMayFail /\ ~RepliesMayBeLost /\ MaxCrashes = 0

InFlight(o) == book[o] \in {"sent", "live"}
InHand(t) == pc[t] \in {"creating", "settle"}

\* The orders in flight are in the hand of a tick; one that is settled has been
\* accepted and has a name to cancel it by; one not yet accepted has not filled.
Handled ==
  /\ \A o \in Orders : InFlight(o) => \E t \in Ticks : InHand(t) /\ cur[t] = o
  /\ \A t \in Ticks : pc[t] = "settle" => named[t] /\ book[cur[t]] \in {"live", "done"}
  /\ \A t \in Ticks : pc[t] = "creating" /\ book[cur[t]] \in {"none", "sent"} => got[cur[t]] = 0

\* Steps that send nothing, fill nothing, and leave the ticks with an order in
\* hand as they are.
LEMMA HandledFrame ==
  ASSUME Handled, TypeOK, Fits, UNCHANGED got,
         \A o \in Orders : book'[o] = book[o] \/ (book[o] = "live" /\ book'[o] = "done"),
         \A t \in Ticks : InHand(t) \/ InHand(t)' => UNCHANGED <<pc[t], cur[t], named[t]>>
  PROVE  Handled'
<1>1. ASSUME NEW o \in Orders, InFlight(o)' PROVE \E t \in Ticks : InHand(t)' /\ cur'[t] = o
  <2>1. InFlight(o)
    BY <1>1 DEF InFlight
  <2> QED
    BY <2>1 DEF Handled, InHand
<1>2. ASSUME NEW t \in Ticks, InHand(t)' PROVE cur'[t] = cur[t] /\ cur[t] \in Orders /\ pc'[t] = pc[t]
  BY <1>2 DEF InHand, Fits
<1>3. ASSUME NEW t \in Ticks, pc'[t] = "settle" PROVE named'[t] /\ book'[cur'[t]] \in {"live", "done"}
  BY <1>2, <1>3 DEF Handled, InHand
<1>4. ASSUME NEW t \in Ticks, pc'[t] = "creating", book'[cur'[t]] \in {"none", "sent"}
      PROVE  got'[cur'[t]] = 0
  BY <1>2, <1>4 DEF Handled, InHand
<1> QED
  BY <1>1, <1>3, <1>4 DEF Handled

\* On a reliable exchange a step leaves every order in flight in the hand of a tick.
LEMMA HandledStep ==
  ASSUME Reliable, TypeOK, Fits, Locked, Handled, [Next]_vars
  PROVE  Handled'
<1> USE DEF TypeOK, TickType, ExchangeType
<1>1. ASSUME NEW t \in Ticks, SendCreate(t) PROVE Handled'
  <2>1. PICK o \in Orders :
          /\ book' = [book EXCEPT ![o] = "sent"] /\ got' = [got EXCEPT ![o] = 0]
          /\ cur' = [cur EXCEPT ![t] = o]
    BY <1>1 DEF SendCreate
  <2>2. pc[t] = "place" /\ pc' = [pc EXCEPT ![t] = "creating"]
    BY <1>1 DEF SendCreate, Goto
  <2>3. \A u \in Ticks : ~InHand(u)
    BY <2>2 DEF Locked, InHand, Busy
  <2>4. \A q \in Orders : ~InFlight(q)
    BY <2>3 DEF Handled
  <2> QED
    BY <2>1, <2>2, <2>3, <2>4 DEF Handled, InFlight, InHand
<1>2. ASSUME NEW t \in Ticks, CreateAccepted(t) PROVE Handled'
  <2>1. pc[t] = "creating" /\ book[cur[t]] \in {"live", "done"} /\ UNCHANGED <<book, got, cur>>
        /\ pc' = [pc EXCEPT ![t] = "settle"]
    BY <1>2 DEF CreateAccepted, Goto, exchange
  <2>2. PICK id \in {TRUE, ~RepliesMayBeLost} : named' = [named EXCEPT ![t] = id]
    BY <1>2 DEF CreateAccepted
  <2>3. id
    BY <2>2 DEF Reliable
  <2>4. named'[t] /\ \A u \in Ticks : u # t => named'[u] = named[u]
    BY <2>2, <2>3
  <2>5. ASSUME NEW o \in Orders, InFlight(o)' PROVE \E u \in Ticks : InHand(u)' /\ cur'[u] = o
    BY <2>1, <2>5 DEF Handled, InFlight, InHand
  <2>6. ASSUME NEW u \in Ticks, pc'[u] = "settle"
        PROVE  named'[u] /\ book'[cur'[u]] \in {"live", "done"}
    BY <2>1, <2>4, <2>6 DEF Handled
  <2>7. ASSUME NEW u \in Ticks, pc'[u] = "creating", book'[cur'[u]] \in {"none", "sent"}
        PROVE  got'[cur'[u]] = 0
    BY <2>1, <2>7 DEF Handled
  <2> QED
    BY <2>5, <2>6, <2>7 DEF Handled
<1>3. ASSUME NEW t \in Ticks, CreateFailed(t) PROVE Handled'
  <2>1. pc[t] = "creating" /\ book[cur[t]] = "none" /\ UNCHANGED <<book, got>>
    BY <1>3 DEF CreateFailed, Reliable, exchange
  <2>2. \A u \in Ticks : InHand(u) => u = t
    BY <2>1 DEF Locked, InHand, Busy
  <2>3. \A q \in Orders : ~InFlight(q)
    BY <2>1, <2>2 DEF Handled, InFlight
  <2>4. \A u \in Ticks : ~InHand(u)'
    BY <1>3, <2>2 DEF CreateFailed, InHand, Goto, Return, ForgetTick
  <2> QED
    BY <2>1, <2>3, <2>4 DEF Handled, InFlight, InHand
<1>4. ASSUME NEW t \in Ticks, TickSettle(t) PROVE Handled'
  <2>1. pc[t] = "settle" /\ named[t] /\ book[cur[t]] \in {"live", "done"} /\ UNCHANGED got
    BY <1>4 DEF TickSettle, Handled
  <2>2. book' = IF book[cur[t]] = "live" THEN [book EXCEPT ![cur[t]] = "done"] ELSE book
    BY <1>4, <2>1 DEF TickSettle, CancelOutcome, Reliable
  <2>3. \A u \in Ticks : InHand(u) => u = t
    BY <2>1 DEF Locked, InHand, Busy
  <2>4. \A q \in Orders : ~InFlight(q)'
    BY <2>1, <2>2, <2>3 DEF Handled, InFlight
  <2>5. \A u \in Ticks : ~InHand(u)'
    BY <1>4, <2>3 DEF TickSettle, InHand, Goto
  <2> QED
    BY <2>4, <2>5 DEF Handled, InHand
<1>5. ASSUME NEW t \in Ticks, TickClear(t) PROVE Handled'
  <2>1. UNCHANGED <<got, pc, cur, named>>
    BY <1>5 DEF TickClear, tickLocals
  <2>2. \A o \in Orders : book'[o] = book[o] \/ (book[o] = "live" /\ book'[o] = "done")
    BY <1>5 DEF TickClear, CancelOutcome
  <2> QED
    BY <2>1, <2>2, HandledFrame
<1>6. ASSUME NEW t \in Ticks,
             \/ Dispatch(t) \/ Skip(t) \/ ReachCap(t) \/ TooEarly(t) \/ AutoDisable(t)
             \/ TickStart(t) \/ TickList(t) \/ TickCleared(t) \/ TickPrice(t)
             \/ CreateUnsent(t) \/ TickCheck(t) \/ TickEnd(t) \/ TickStopped(t)
      PROVE  Handled'
  <2>1. UNCHANGED <<book, got>>
    BY <1>6 DEF Dispatch, Skip, ReachCap, TooEarly, AutoDisable, TickStart, TickList,
       TickCleared, TickPrice, CreateUnsent, TickCheck, TickEnd, TickStopped, exchange
  <2>2. ASSUME NEW u \in Ticks, InHand(u) \/ InHand(u)' PROVE UNCHANGED <<pc[u], cur[u], named[u]>>
    BY <1>6, <2>2 DEF Dispatch, Skip, ReachCap, TooEarly, AutoDisable, TickStart, TickList,
       TickCleared, TickPrice, CreateUnsent, TickCheck, TickEnd, TickStopped, InHand, Goto, Return,
       ForgetTick
  <2> QED
    BY <2>1, <2>2, HandledFrame
<1>7. ASSUME NEW o \in Orders, Accept(o) \/ Reject(o) PROVE Handled'
  <2>1. UNCHANGED <<got, pc, cur, named>> /\ book[o] = "sent"
        /\ book' \in {[book EXCEPT ![o] = "live"], [book EXCEPT ![o] = "none"]}
    BY <1>7 DEF Accept, Reject, tickLocals
  <2>2. ASSUME NEW q \in Orders, InFlight(q)' PROVE \E u \in Ticks : InHand(u)' /\ cur'[u] = q
    BY <2>1, <2>2 DEF Handled, InFlight, InHand
  <2>3. ASSUME NEW u \in Ticks, InHand(u)' PROVE cur'[u] \in Orders /\ InHand(u)
    BY <2>1, <2>3 DEF Fits, InHand
  <2>4. ASSUME NEW u \in Ticks, pc'[u] = "settle"
        PROVE  named'[u] /\ book'[cur'[u]] \in {"live", "done"}
    BY <2>1, <2>3, <2>4 DEF Handled, InHand
  <2>5. ASSUME NEW u \in Ticks, pc'[u] = "creating", book'[cur'[u]] \in {"none", "sent"}
        PROVE  got'[cur'[u]] = 0
    BY <2>1, <2>3, <2>5 DEF Handled, InHand
  <2> QED
    BY <2>2, <2>4, <2>5 DEF Handled
<1>8. ASSUME NEW o \in Orders, Fill(o) PROVE Handled'
  BY <1>8 DEF Fill, tickLocals, Handled, InFlight, InHand
<1>9. CASE \/ \E p \in Callers : CancelStep(p)
           \/ \E j \in Jobs : Answer(j)
           \/ User \/ BackoffExpires \/ Elapse
  <2>1. UNCHANGED <<got, pc, cur, named>>
    BY <1>9 DEF CancelStep, CancelList, CancelOne, CancelAgain, CancelDone, Answer, User, Start,
       Configure, ChangeKeys, Request, BackoffExpires, Elapse, tickLocals, exchange
  <2>2. \A o \in Orders : book'[o] = book[o] \/ (book[o] = "live" /\ book'[o] = "done")
    <3>1. ASSUME NEW p \in Callers, CancelStep(p)
          PROVE  \A o \in Orders : book'[o] = book[o] \/ (book[o] = "live" /\ book'[o] = "done")
      BY <3>1 DEF CancelStep, CancelList, CancelOne, CancelAgain, CancelDone, CancelOutcome, exchange
    <3>2. CASE (\E j \in Jobs : Answer(j)) \/ User \/ BackoffExpires \/ Elapse
      BY <3>2 DEF Answer, User, Start, Configure, ChangeKeys, Request, BackoffExpires, Elapse,
         exchange
    <3> QED
      BY <1>9, <3>1, <3>2
  <2> QED
    BY <2>1, <2>2, HandledFrame
<1>10. CASE Crash
  BY <1>10, Bounds DEF Crash, Reliable, OtherType
<1>11. CASE UNCHANGED vars
  BY <1>11, HandledFrame DEF vars, exchange, tickLocals
<1> QED
  BY <1>1, <1>2, <1>3, <1>4, <1>5, <1>6, <1>7, <1>8, <1>9, <1>10, <1>11 DEF Next, TickStep

\* The invariants of a reliable exchange hold together.
LEMMA Handling ==
  ASSUME Reliable
  PROVE  Spec => [](TypeOK /\ Fits /\ Locked /\ Handled)
<1>1. Init => Locked /\ Handled
  BY DEF Init, Locked, Busy, Handled, InFlight, InHand
<1>2. TypeOK /\ Fits /\ Locked /\ Handled /\ [Next]_vars => Handled'
  BY HandledStep
<1> QED
  BY <1>1, <1>2, TypeAndFits, LockedStep, PTL DEF Spec

\* When cancels succeed, replies arrive and nothing crashes, the order on its
\* way or on the book is the one the tick that holds the lock is at, whatever
\* stops, starts, failed listings and overlapping ticks come between.
THEOREM OneOrderAtATime ==
  ASSUME Reliable
  PROVE  Spec => []OrderHasItsTick
<1>1. Locked /\ Handled => OrderHasItsTick
  BY DEF Locked, Handled, OrderHasItsTick, InFlight, InHand, Busy
<1> QED
  BY <1>1, Handling, PTL
-----------------------------------------------------------------------------
(* Nothing is bought off the books *)

\* What a tick at work will record for the orders it has checked, and what the
\* order it is at has bought so far.
Taken(t) == IF pc[t] \in {"place", "creating", "settle", "check"} THEN Budget - left[t] ELSE 0
Held(t) == IF pc[t] \in {"creating", "settle", "check"} THEN got[cur[t]] ELSE 0

\* Purchases are covered by the records, by what the tick at work has taken
\* from its budget and by what the order in its hand has bought.
Accounted ==
  /\ (\A t \in Ticks : ~Busy(t)) => bought <= spent
  /\ \A t \in Ticks : Busy(t) => bought <= spent + Taken(t) + Held(t)

\* A NestEx tick has one sweep, so its only order is for the whole budget.
OneSweep ==
  Exchange = "nestex" =>
    \A t \in Ticks : /\ pc[t] = "place" /\ sweeps[t] = 0 => left[t] = Budget
                     /\ pc[t] = "creating" => left[t] = Budget
                     /\ pc[t] \in {"creating", "settle"} => sweeps[t] = 1
                     /\ pc[t] # "check"

\* No step of a NestEx tick begins a second sweep, or one for less than the budget.
LEMMA OneSweepStep == TypeOK /\ OneSweep /\ [Next]_vars => OneSweep'
<1> SUFFICES ASSUME TypeOK, OneSweep, [Next]_vars, Exchange = "nestex" PROVE OneSweep'
  BY DEF OneSweep
<1> USE DEF OneSweep, TypeOK, TickType, Goto, Return, ForgetTick
<1>1. ASSUME NEW t \in Ticks, Dispatch(t) PROVE OneSweep'
  BY <1>1 DEF Dispatch
<1>2. ASSUME NEW t \in Ticks, \/ Skip(t) \/ ReachCap(t) \/ TooEarly(t) \/ AutoDisable(t)
                              \/ TickStart(t) \/ TickList(t) \/ TickClear(t) \/ TickCleared(t)
      PROVE  OneSweep'
  BY <1>2 DEF Skip, ReachCap, TooEarly, AutoDisable, TickStart, TickList, TickClear, TickCleared,
     tickLocals
<1>3. ASSUME NEW t \in Ticks, TickPrice(t) PROVE OneSweep'
  BY <1>3, ParamsChecked DEF TickPrice
<1>4. ASSUME NEW t \in Ticks, SendCreate(t) PROVE OneSweep'
  BY <1>4 DEF SendCreate, MaySweep, MaxSweeps
<1>5. ASSUME NEW t \in Ticks, CreateUnsent(t) \/ CreateAccepted(t) \/ CreateFailed(t)
      PROVE  OneSweep'
  BY <1>5 DEF CreateUnsent, CreateAccepted, CreateFailed
<1>6. ASSUME NEW t \in Ticks, TickSettle(t) PROVE OneSweep'
  BY <1>6 DEF TickSettle
<1>7. ASSUME NEW t \in Ticks, TickCheck(t) PROVE OneSweep'
  BY <1>7 DEF TickCheck
<1>8. ASSUME NEW t \in Ticks, TickEnd(t) \/ TickStopped(t) PROVE OneSweep'
  BY <1>8 DEF TickEnd, TickStopped
<1>9. CASE OtherStep
  BY <1>9, OthersLeaveTicks DEF tickLocals
<1>10. CASE Crash
  BY <1>10 DEF Crash
<1>11. CASE UNCHANGED vars
  BY <1>11 DEF vars, tickLocals
<1> QED
  BY <1>1, <1>2, <1>3, <1>4, <1>5, <1>6, <1>7, <1>8, <1>9, <1>10, <1>11
  DEF Next, TickStep, OtherStep

\* Steps that buy nothing and record nothing, and leave what the ticks at work
\* have taken and hold as it is.
LEMMA AccountedFrame ==
  ASSUME Accounted, UNCHANGED <<bought, spent>>,
         \A t \in Ticks : Busy(t)' => Busy(t) /\ Taken(t)' = Taken(t) /\ Held(t)' = Held(t),
         (\A t \in Ticks : ~Busy(t)') => bought <= spent
  PROVE  Accounted'
  BY DEF Accounted

\* On a reliable exchange no step buys more than the records and the tick at work cover.
LEMMA AccountedStep ==
  ASSUME Reliable, TypeOK, Fits, Locked, Handled, OneSweep, Accounted, [Next]_vars
  PROVE  Accounted'
<1> USE DEF TypeOK, TickType, ExchangeType, ConfigType
<1> DEFINE Working == {"place", "creating", "settle", "check"}
<1>nat. \A t \in Ticks : left[t] \in Nat /\ left[t] <= Budget /\ Budget \in Nat
  BY ParamsChecked
<1>idle. ASSUME NEW t \in Ticks, ~Busy(t), UNCHANGED <<bought, spent>>, ~running,
                \A u \in Ticks : u # t => pc'[u] = pc[u], pc'[t] \notin Working
         PROVE  Accounted'
  \* no tick was at work; if one is now, it has taken nothing yet
  <2>1. bought <= spent
    BY <1>idle DEF Accounted, Locked
  <2>2. \A u \in Ticks : Busy(u)' => u = t /\ Taken(u)' = 0 /\ Held(u)' = 0
    BY <1>idle DEF Locked, Busy, Taken, Held
  <2> QED
    BY <1>idle, <2>1, <2>2 DEF Accounted
<1>alone. \A t, u \in Ticks : Busy(t) /\ Busy(u) => t = u
  BY DEF Locked
<1>early. ASSUME NEW t \in Ticks, Busy(t), pc[t] \notin Working, UNCHANGED <<bought, spent>>,
                 \A u \in Ticks : u # t => pc'[u] = pc[u],
                 \/ pc'[t] \notin Working
                 \/ pc'[t] = "place" /\ left'[t] = Budget
          PROVE  Accounted'
  \* a tick that has ordered nothing yet
  <2>1. bought <= spent
    BY <1>early DEF Accounted, Taken, Held
  <2>2. \A u \in Ticks : Busy(u)' => u = t /\ Taken(u)' = 0 /\ Held(u)' = 0
    BY <1>early, <1>alone, ParamsChecked DEF Busy, Taken, Held
  <2> QED
    BY <1>early, <2>1, <2>2 DEF Accounted
<1>1. ASSUME NEW t \in Ticks, Dispatch(t) \/ Skip(t) \/ TooEarly(t) \/ AutoDisable(t)
      PROVE  Accounted'
  <2>1. /\ ~Busy(t) /\ ~Busy(t)' /\ UNCHANGED <<bought, spent, got>>
        /\ \A u \in Ticks : u # t => UNCHANGED <<pc[u], left[u], cur[u]>>
    BY <1>1 DEF Dispatch, Skip, TooEarly, AutoDisable, Goto, ForgetTick, Busy, config, exchange
  <2>2. \A u \in Ticks : Busy(u)' <=> Busy(u)
    BY <2>1 DEF Busy
  <2>3. \A u \in Ticks : Busy(u)' => Taken(u)' = Taken(u) /\ Held(u)' = Held(u)
    BY <2>1 DEF Taken, Held, Busy
  <2> QED
    BY <2>1, <2>2, <2>3, AccountedFrame DEF Accounted
<1>2. ASSUME NEW t \in Ticks, ReachCap(t) \/ TickStart(t) PROVE Accounted'
  <2>1. /\ ~Busy(t) /\ ~running /\ UNCHANGED <<bought, spent>> /\ pc'[t] \notin Working
        /\ \A u \in Ticks : u # t => pc'[u] = pc[u]
    BY <1>2 DEF ReachCap, TickStart, MayRun, LockFree, Goto, Busy, config, exchange
  <2> QED
    BY <2>1, <1>idle
<1>3. ASSUME NEW t \in Ticks, \/ TickList(t) \/ TickClear(t) \/ TickCleared(t) \/ TickPrice(t)
                              \/ TickStopped(t)
      PROVE  Accounted'
  <2>1. Busy(t) /\ pc[t] \notin Working /\ UNCHANGED <<bought, spent>>
    BY <1>3 DEF TickList, TickClear, TickCleared, TickPrice, TickStopped, Busy, config, exchange
  <2>2. \A u \in Ticks : u # t => pc'[u] = pc[u]
    BY <1>3, TickStepFrame DEF TickStep
  <2>3. pc'[t] \notin Working \/ (pc'[t] = "place" /\ left'[t] = Budget)
    BY <1>3, <2>1 DEF TickList, TickClear, TickCleared, TickPrice, TickStopped, Goto, Return,
       ForgetTick, tickLocals
  <2> QED
    BY <2>1, <2>2, <2>3, <1>early
<1>4. ASSUME NEW t \in Ticks, SendCreate(t) PROVE Accounted'
  <2>1. PICK o \in Orders : got' = [got EXCEPT ![o] = 0] /\ cur' = [cur EXCEPT ![t] = o]
    BY <1>4 DEF SendCreate
  <2>2. pc[t] = "place" /\ pc' = [pc EXCEPT ![t] = "creating"] /\ UNCHANGED <<bought, spent, left>>
    BY <1>4 DEF SendCreate, Goto, config
  <2>3. Held(t)' = 0 /\ Held(t) = 0 /\ Taken(t)' = Taken(t)
    BY <2>1, <2>2 DEF Held, Taken
  <2>4. \A u \in Ticks : Busy(u)' => u = t
    BY <2>2, <1>alone DEF Busy
  <2>5. Busy(t) /\ Busy(t)'
    BY <2>2 DEF Busy
  <2> QED
    BY <2>2, <2>3, <2>4, <2>5, AccountedFrame
<1>5. ASSUME NEW t \in Ticks, CreateAccepted(t) PROVE Accounted'
  <2>1. /\ pc[t] = "creating" /\ pc' = [pc EXCEPT ![t] = "settle"]
        /\ UNCHANGED <<bought, spent, left, cur, got>>
    BY <1>5 DEF CreateAccepted, Goto, config, exchange
  <2>2. \A u \in Ticks : Busy(u)' => u = t
    BY <2>1, <1>alone DEF Busy
  <2>3. Held(t)' = Held(t) /\ Taken(t)' = Taken(t) /\ Busy(t) /\ Busy(t)'
    BY <2>1 DEF Held, Taken, Busy
  <2> QED
    BY <2>1, <2>2, <2>3, AccountedFrame
<1>unsent. ASSUME NEW t \in Ticks, CreateUnsent(t) PROVE Accounted'
  <2>1. pc[t] = "place" /\ MaySweep(t) /\ UNCHANGED <<bought, spent>>
    BY <1>unsent DEF CreateUnsent, exchange
  <2>2. CASE Exchange = "nestex"
    <3>1. left[t] = Budget
      BY <2>1, <2>2 DEF MaySweep, MaxSweeps, OneSweep
    <3>2. bought <= spent
      BY <2>1, <3>1, <1>nat DEF Accounted, Taken, Held, Busy
    <3>3. \A u \in Ticks : ~Busy(u)'
      BY <1>unsent, <2>1, <2>2, <1>alone DEF CreateUnsent, Return, ForgetTick, Goto, Busy
    <3> QED
      BY <2>1, <3>2, <3>3 DEF Accounted
  <2>3. CASE Exchange # "nestex"
    <3>1. UNCHANGED <<pc, left, cur, got>>
      BY <1>unsent, <2>3 DEF CreateUnsent, exchange
    <3> QED
      BY <2>1, <3>1, AccountedFrame DEF Accounted, Busy, Taken, Held
  <2> QED
    BY <2>2, <2>3
<1>6. ASSUME NEW t \in Ticks, CreateFailed(t) PROVE Accounted'
  <2>1. pc[t] = "creating" /\ book[cur[t]] = "none" /\ UNCHANGED <<bought, spent>>
    BY <1>6 DEF CreateFailed, Reliable, exchange
  <2>2. Held(t) = 0
    BY <2>1 DEF Held, Handled
  <2>3. \A u \in Ticks : u # t => ~Busy(u)
    BY <2>1, <1>alone DEF Busy
  <2>4. \A u \in Ticks : u # t => ~Busy(u)'
    BY <1>6, <2>3, TickStepFrame DEF TickStep, Busy
  <2>5. bought <= spent + (Budget - left[t]) + 0
    BY <2>1, <2>2 DEF Accounted, Taken, Busy
  <2>6. CASE Exchange = "nestex"
    <3>1. left[t] = Budget
      BY <2>1, <2>6 DEF OneSweep
    <3>2. bought <= spent
      BY <2>5, <3>1, ParamsChecked
    <3>3. ~Busy(t)'
      BY <1>6, <2>6 DEF CreateFailed, Return, ForgetTick, Goto, Busy
    <3> QED
      BY <2>1, <2>4, <3>2, <3>3 DEF Accounted
  <2>7. CASE Exchange # "nestex"
    <3>1. pc'[t] = "place" /\ left' = left
      BY <1>6, <2>7 DEF CreateFailed, Goto
    <3>2. Busy(t)' /\ Taken(t)' = Budget - left[t] /\ Held(t)' = 0
      BY <3>1 DEF Busy, Taken, Held
    <3> QED
      BY <2>1, <2>4, <2>5, <3>2 DEF Accounted
  <2> QED
    BY <2>6, <2>7
<1>7. ASSUME NEW t \in Ticks, TickSettle(t) PROVE Accounted'
  <2>1. pc[t] = "settle" /\ cur[t] \in Orders /\ UNCHANGED <<bought, spent, got>>
    BY <1>7 DEF TickSettle, Fits, config
  <2>2. \A u \in Ticks : Busy(u) => u = t
    BY <2>1, <1>alone DEF Busy
  <2>3. pc' = [pc EXCEPT ![t] = pc'[t]] /\ Busy(t)'
    BY <1>7 DEF TickSettle, Goto, Busy
  <2>4. bought <= spent + (Budget - left[t]) + got[cur[t]]
    BY <2>1 DEF Accounted, Taken, Held, Busy
  <2>5. got[cur[t]] <= left[t] /\ got[cur[t]] \in Nat
    BY <2>1, <1>nat DEF Fits
  <2>6. bought <= spent + Taken(t)' + Held(t)'
    <3>1. CASE Exchange = "nestex"
      <4>1. pc'[t] = "place" /\ left'[t] = 0
        BY <1>7, <3>1 DEF TickSettle, Goto
      <4>2. Taken(t)' = Budget - 0 /\ Held(t)' = 0
        BY <4>1 DEF Taken, Held
      <4>3. bought <= spent + (Budget - 0) + 0
        BY <2>4, <2>5, <1>nat
      <4> QED
        BY <2>1, <4>2, <4>3
    <3>2. CASE Exchange # "nestex"
      <4>1. pc'[t] = "check" /\ left' = left /\ cur' = cur
        BY <1>7, <3>2 DEF TickSettle, Goto
      <4>2. Taken(t)' = Budget - left[t] /\ Held(t)' = got[cur[t]]
        BY <2>1, <4>1 DEF Taken, Held
      <4> QED
        BY <2>1, <2>4, <4>2
    <3> QED
      BY <3>1, <3>2
  <2>7. \A u \in Ticks : Busy(u)' => u = t
    BY <2>2, <2>3 DEF Busy
  <2> QED
    BY <2>1, <2>3, <2>6, <2>7 DEF Accounted
<1>8. ASSUME NEW t \in Ticks, TickCheck(t) PROVE Accounted'
  \* the order is gone, so it counts as filled completely
  <2>1. pc[t] = "check" /\ cur[t] \in Orders /\ UNCHANGED <<bought, spent>>
    BY <1>8 DEF TickCheck, Fits, config, exchange
  <2>2. \A u \in Ticks : Busy(u) => u = t
    BY <2>1, <1>alone DEF Busy
  <2>3. book[cur[t]] # "live"
    BY <2>1, <2>2 DEF Handled, InFlight, InHand, Busy
  <2>4. left' = [left EXCEPT ![t] = @ - want[cur[t]]]
    BY <1>8, <2>3 DEF TickCheck, Filled
  <2>5. pc' = [pc EXCEPT ![t] = "place"]
    BY <1>8 DEF TickCheck, Goto
  <2>6. bought <= spent + (Budget - left[t]) + got[cur[t]]
    BY <2>1 DEF Accounted, Taken, Held, Busy
  <2>7. got[cur[t]] <= want[cur[t]] /\ got[cur[t]] \in Nat /\ want[cur[t]] \in Nat
    BY <2>1 DEF Fits
  <2>8. bought <= spent + (Budget - (left[t] - want[cur[t]])) + 0
    BY <2>6, <2>7, <1>nat
  <2>9. Taken(t)' = Budget - (left[t] - want[cur[t]]) /\ Held(t)' = 0 /\ Busy(t)'
    BY <2>4, <2>5 DEF Taken, Held, Busy
  <2>10. \A u \in Ticks : Busy(u)' => u = t
    BY <2>2, <2>5 DEF Busy
  <2> QED
    BY <2>1, <2>8, <2>9, <2>10 DEF Accounted
<1>9. ASSUME NEW t \in Ticks, TickEnd(t) PROVE Accounted'
  <2>1. pc[t] = "place" /\ UNCHANGED bought
    BY <1>9 DEF TickEnd, exchange
  <2>2. bought <= spent + (Budget - left[t]) + 0
    BY <2>1 DEF Accounted, Taken, Held, Busy
  <2>3. bought <= spent'
    <3>1. CASE left[t] < Budget
      <4>1. spent' = spent + Budget - left[t]
        BY <1>9, <3>1 DEF TickEnd, Record
      <4> QED
        BY <2>2, <4>1, <1>nat
    <3>2. CASE ~(left[t] < Budget)
      <4>1. left[t] = Budget /\ spent' = spent
        BY <1>9, <3>2, <1>nat DEF TickEnd
      <4> QED
        BY <2>2, <4>1, <1>nat
    <3> QED
      BY <3>1, <3>2
  <2>4. \A u \in Ticks : ~Busy(u)'
    BY <1>9, <2>1, <1>alone DEF TickEnd, Return, ForgetTick, Goto, Busy
  <2> QED
    BY <2>1, <2>3, <2>4 DEF Accounted
<1>10. ASSUME NEW o \in Orders, Fill(o) PROVE Accounted'
  <2>1. PICK k \in 1..(want[o] - got[o]) :
          bought' = bought + k /\ got' = [got EXCEPT ![o] = @ + k]
    BY <1>10 DEF Fill
  <2>k. k \in Nat
    OBVIOUS
  <2>2. book[o] = "live" /\ UNCHANGED <<spent, pc, left, cur>>
    BY <1>10 DEF Fill, tickLocals, config
  <2>3. PICK t \in Ticks : InHand(t) /\ cur[t] = o
    BY <2>2 DEF Handled, InFlight
  <2>4. Busy(t) /\ \A u \in Ticks : Busy(u)' => u = t
    BY <2>2, <2>3, <1>alone DEF InHand, Busy
  <2>5. Held(t) = got[o] /\ Held(t)' = got[o] + k /\ Taken(t)' = Taken(t)
    BY <2>1, <2>2, <2>3 DEF Held, Taken, InHand
  <2>6. bought <= spent + Taken(t) + got[o]
    BY <2>4, <2>5 DEF Accounted
  <2>7. Taken(t) \in Int
    BY <1>nat DEF Taken
  <2>8. bought + k <= spent + Taken(t) + (got[o] + k)
    BY <2>k, <2>6, <2>7
  <2>9. Busy(t)'
    BY <2>2, <2>4 DEF Busy
  <2> QED
    BY <2>1, <2>2, <2>4, <2>5, <2>8, <2>9 DEF Accounted
<1>11. CASE \/ \E p \in Callers : CancelStep(p)
            \/ \E j \in Jobs : Answer(j)
            \/ \E o \in Orders : Accept(o) \/ Reject(o)
            \/ User \/ BackoffExpires \/ Elapse
  <2>1. UNCHANGED <<tickLocals, spent>>
    BY <1>11, OthersLeaveTicks DEF OtherStep
  <2>2. UNCHANGED <<bought, got>>
    BY <1>11 DEF CancelStep, CancelList, CancelOne, CancelAgain, CancelDone, Answer, Accept,
       Reject, User, Start, Configure, ChangeKeys, Request, BackoffExpires, Elapse, exchange
  <2> QED
    BY <2>1, <2>2 DEF tickLocals, Accounted, Busy, Taken, Held
<1>12. CASE Crash
  BY <1>12, Bounds DEF Crash, Reliable, OtherType
<1>13. CASE UNCHANGED vars
  BY <1>13 DEF vars, tickLocals, config, exchange, Accounted, Busy, Taken, Held
<1> QED
  BY <1>1, <1>2, <1>3, <1>4, <1>5, <1>6, <1>7, <1>8, <1>9, <1>10, <1>11, <1>12, <1>13,
     <1>unsent
  DEF Next, TickStep

\* Under the same assumptions nothing is bought off the books: when no tick is
\* at work, what the orders have bought is covered by the recorded spending,
\* although dcaRunner guesses the fill of every order it no longer sees.
THEOREM BooksAreComplete ==
  ASSUME Reliable
  PROVE  Spec => []NothingUnrecorded
<1>1. Init => OneSweep /\ Accounted
  BY DEF Init, OneSweep, Accounted, Busy
<1>2. Locked /\ Accounted => NothingUnrecorded
  BY DEF Locked, Accounted, NothingUnrecorded
<1>3. TypeOK /\ Fits /\ Locked /\ Handled /\ OneSweep /\ Accounted /\ [Next]_vars => Accounted'
  BY AccountedStep
<1> QED
  BY <1>1, <1>2, <1>3, Handling, OneSweepStep, PTL DEF Spec
=============================================================================
