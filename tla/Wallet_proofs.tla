--------------------------- MODULE Wallet_proofs ----------------------------
(* Proofs about the wallet's services and its page.  First the slots by         *)
(* themselves: for any number of requests, slots and places in the queue the    *)
(* counter is exact and the slots implement BoundedGate.  Then the composition: *)
(* the two limiters stay exact and implement their gates in it, the cache keeps *)
(* its bound, a batch is complete and a broadcast's answer true, for any number *)
(* of requests and handlers.  Then the accounts: one default address each, and  *)
(* a payment request is settled once.  At last the send page: what was spent is *)
(* not selected again while listings come one at a time.                        *)
EXTENDS WalletApi, WalletFront, FiniteSetTheorems, TLAPS
-----------------------------------------------------------------------------
(* The slots by themselves *)

Fetching == In("fetching")

\* What the runs check, together inductive.
IInv == TypeOK /\ SlotsCounted /\ NoIdleSlot /\ QueueHoldsWaiters

\* The requests that fetch are finitely many.
LEMMA FetchingFinite == IsFiniteSet(Fetching) /\ Cardinality(Fetching) \in Nat
<1>1. Fetching \subseteq Requests
  BY DEF Fetching, In
<1> QED
  BY <1>1, RequestsFinite, FS_Subset, FS_CardinalityType

\* A queued request is not fetching.
LEMMA HeadWaits ==
  ASSUME IInv, queue # <<>>
  PROVE  /\ Head(queue) \in Requests /\ state[Head(queue)] = "queued"
         /\ Head(queue) = queue[1] /\ 1 \in 1..Len(queue)
  BY DEF IInv, TypeOK, QueueHoldsWaiters, Elems, In

\* The requests in the queue after its head has left it.
LEMMA TailElems ==
  ASSUME IInv, queue # <<>>
  PROVE  /\ Elems(Tail(queue)) = In("queued") \ {Head(queue)}
         /\ Tail(queue) \in Seq(Requests) /\ Len(Tail(queue)) = Len(queue) - 1
         /\ \A i, k \in 1..Len(Tail(queue)) : Tail(queue)[i] = Tail(queue)[k] => i = k
<1> USE DEF IInv, TypeOK, QueueHoldsWaiters
<1>1. /\ Tail(queue) \in Seq(Requests) /\ Len(Tail(queue)) = Len(queue) - 1
      /\ \A i \in 1..Len(Tail(queue)) : Tail(queue)[i] = queue[i + 1] /\ i + 1 \in 1..Len(queue)
  OBVIOUS
<1>2. \A i, k \in 1..Len(Tail(queue)) : Tail(queue)[i] = Tail(queue)[k] => i = k
  BY <1>1
<1>3. Elems(Tail(queue)) \subseteq In("queued") \ {Head(queue)}
  BY <1>1, HeadWaits DEF Elems
<1>4. ASSUME NEW r \in In("queued"), r # Head(queue) PROVE r \in Elems(Tail(queue))
  <2>1. PICK i \in 1..Len(queue) : queue[i] = r
    BY DEF Elems
  <2>2. i - 1 \in 1..Len(Tail(queue)) /\ Tail(queue)[i - 1] = r
    BY <1>1, <2>1, <1>4, HeadWaits
  <2> QED
    BY <2>2 DEF Elems
<1> QED
  BY <1>1, <1>2, <1>3, <1>4

\* The requests in the queue after another has joined it.
LEMMA AppendElems ==
  ASSUME IInv, NEW r \in Requests, state[r] = "idle"
  PROVE  /\ Elems(Append(queue, r)) = In("queued") \union {r}
         /\ \A i, k \in 1..Len(Append(queue, r)) :
              Append(queue, r)[i] = Append(queue, r)[k] => i = k
<1> USE DEF IInv, TypeOK, QueueHoldsWaiters
<1>1. /\ Len(Append(queue, r)) = Len(queue) + 1 /\ Append(queue, r)[Len(queue) + 1] = r
      /\ \A i \in 1..Len(queue) : Append(queue, r)[i] = queue[i]
  OBVIOUS
<1>2. r \notin Elems(queue)
  BY DEF In
<1>3. Elems(Append(queue, r)) = Elems(queue) \union {r}
  BY <1>1 DEF Elems
<1> QED
  BY <1>1, <1>2, <1>3 DEF Elems
-----------------------------------------------------------------------------
(* How each operation moves the set of requests that fetch or wait *)

\* A request that takes a free slot starts to fetch.
LEMMA TakeSlotSets ==
  ASSUME IInv, NEW r \in Requests, state[r] = "idle", TakeSlot(r)
  PROVE  /\ r \notin Fetching /\ Fetching' = Fetching \union {r}
         /\ In("queued")' = In("queued")
         /\ Cardinality(Fetching') = Cardinality(Fetching) + 1
<1>1. r \notin Fetching /\ Fetching' = Fetching \union {r} /\ In("queued")' = In("queued")
  BY DEF TakeSlot, Fetching, In, IInv, TypeOK
<1> QED
  BY <1>1, FetchingFinite, FS_AddElement

\* A request that joins the queue starts to wait.
LEMMA JoinQueueSets ==
  ASSUME IInv, NEW r \in Requests, state[r] = "idle", JoinQueue(r)
  PROVE  Fetching' = Fetching /\ In("queued")' = In("queued") \union {r}
  BY DEF JoinQueue, Fetching, In, IInv, TypeOK

\* A release with nobody waiting: one request fetches less.
LEMMA FreeSets ==
  ASSUME IInv, NEW r \in Requests, state[r] = "fetching", Release(r), queue = <<>>
  PROVE  /\ Fetching' = Fetching \ {r} /\ In("queued")' = In("queued")
         /\ Cardinality(Fetching') = Cardinality(Fetching) - 1
         /\ active' = active - 1
<1>1. r \in Fetching /\ Fetching' = Fetching \ {r} /\ In("queued")' = In("queued")
  BY DEF Release, Fetching, In, IInv, TypeOK
<1>2. Cardinality(Fetching') = Cardinality(Fetching) - 1
  BY <1>1, FetchingFinite, FS_RemoveElement
<1>3. Cardinality(Fetching) = active
  BY DEF IInv, SlotsCounted, Fetching
<1>4. Cardinality(Fetching) >= 1
  <2>1. Fetching # {}
    BY <1>1
  <2> QED
    BY <2>1, FetchingFinite, FS_EmptySet
<1>5. active' = active - 1
  BY <1>3, <1>4 DEF Release, AtLeastZero, IInv, TypeOK
<1> QED
  BY <1>1, <1>2, <1>5

\* A release with a waiter: the head of the queue fetches instead.
LEMMA HandOverSets ==
  ASSUME IInv, NEW r \in Requests, state[r] = "fetching", Release(r), queue # <<>>
  PROVE  /\ r \in Fetching /\ Head(queue) \notin Fetching
         /\ Fetching' = (Fetching \ {r}) \union {Head(queue)}
         /\ In("queued")' = In("queued") \ {Head(queue)}
         /\ Cardinality(Fetching') = Cardinality(Fetching)
         /\ active' = active
<1> DEFINE h == Head(queue)
<1>1. h \in Requests /\ state[h] = "queued" /\ h # r
  BY HeadWaits
<1>2. state' = [state EXCEPT ![r] = "idle", ![h] = "fetching"]
  BY DEF Release
<1> HIDE DEF h
<1>3. /\ r \in Fetching /\ h \notin Fetching
      /\ Fetching' = (Fetching \ {r}) \union {h}
      /\ In("queued")' = In("queued") \ {h}
  BY <1>1, <1>2 DEF Fetching, In, IInv, TypeOK
<1>4. /\ IsFiniteSet(Fetching \ {r})
      /\ Cardinality(Fetching \ {r}) = Cardinality(Fetching) - 1
  BY <1>3, FetchingFinite, FS_RemoveElement
<1>5. Cardinality((Fetching \ {r}) \union {h}) = Cardinality(Fetching \ {r}) + 1
  BY <1>3, <1>4, FS_AddElement
<1>6. Cardinality(Fetching') = Cardinality(Fetching)
  BY <1>3, <1>4, <1>5, FetchingFinite
<1>7. active = Concurrency
  BY DEF IInv, NoIdleSlot
<1>8. active' = active
  BY <1>7, ConcurrencyPositive DEF Release, AtLeastZero
<1> QED
  BY <1>3, <1>6, <1>8 DEF h

-----------------------------------------------------------------------------
(* The invariant *)

\* Every step keeps the counter exact, the queue in step with the waiting
\* requests, and no slot free while the queue holds any.
LEMMA IInvStep == IInv /\ [Next]_vars => IInv'
<1> SUFFICES ASSUME IInv, [Next]_vars PROVE IInv'
  OBVIOUS
<1> USE ConcurrencyPositive, MaxQueuePositive
<1>1. ASSUME NEW r \in Requests, state[r] = "idle", TakeSlot(r) PROVE IInv'
  <2>1. TypeOK'
    BY <1>1 DEF TakeSlot, HasRoom, IInv, TypeOK
  <2>2. SlotsCounted'
    BY <1>1, TakeSlotSets DEF SlotsCounted, IInv, TakeSlot, Fetching
  <2>3. NoIdleSlot'
    BY <1>1 DEF TakeSlot, HasRoom, NoIdleSlot, IInv, TypeOK
  <2>4. QueueHoldsWaiters'
    BY <1>1, TakeSlotSets DEF TakeSlot, QueueHoldsWaiters, IInv
  <2> QED
    BY <2>1, <2>2, <2>3, <2>4 DEF IInv
<1>2. ASSUME NEW r \in Requests, Refuse(r) PROVE IInv'
  BY <1>2 DEF Refuse, IInv, TypeOK, SlotsCounted, NoIdleSlot, QueueHoldsWaiters, In
<1>3. ASSUME NEW r \in Requests, state[r] = "idle", JoinQueue(r) PROVE IInv'
  <2>1. TypeOK'
    BY <1>3 DEF JoinQueue, QueueFull, Enqueue, IInv, TypeOK
  <2>2. SlotsCounted'
    BY <1>3, JoinQueueSets DEF SlotsCounted, IInv, JoinQueue, Fetching
  <2>3. NoIdleSlot'
    BY <1>3 DEF JoinQueue, HasRoom, NoIdleSlot, IInv, TypeOK
  <2>4. QueueHoldsWaiters'
    BY <1>3, JoinQueueSets, AppendElems DEF JoinQueue, Enqueue, QueueHoldsWaiters
  <2> QED
    BY <2>1, <2>2, <2>3, <2>4 DEF IInv
<1>4. ASSUME NEW r \in Requests, Finish(r), queue = <<>> PROVE IInv'
  <2>1. state[r] = "fetching" /\ Release(r) /\ queue' = <<>>
    BY <1>4 DEF Finish, Release
  <2>2. active' = active - 1 /\ active' = Cardinality(Fetching')
    BY <2>1, <1>4, FreeSets DEF IInv, SlotsCounted, Fetching
  <2>3. active' \in Nat
    BY <2>1, <1>4, FreeSets, FetchingFinite, <2>2 DEF Release, AtLeastZero, IInv, TypeOK
  <2>4. TypeOK'
    BY <1>4, <2>1, <2>2, <2>3 DEF Finish, Release, IInv, TypeOK
  <2>5. QueueHoldsWaiters'
    BY <2>1, <1>4, FreeSets DEF QueueHoldsWaiters, IInv
  <2> QED
    BY <2>1, <2>2, <2>4, <2>5 DEF IInv, SlotsCounted, NoIdleSlot, Fetching
<1>5. ASSUME NEW r \in Requests, Finish(r), queue # <<>> PROVE IInv'
  <2>1. state[r] = "fetching" /\ Release(r) /\ queue' = Tail(queue)
    BY <1>5 DEF Finish, Release
  <2>2. active' = active /\ Cardinality(Fetching') = Cardinality(Fetching)
    BY <2>1, <1>5, HandOverSets
  <2>3. TypeOK'
    BY <1>5, <2>1, <2>2, TailElems, HeadWaits DEF Finish, Release, IInv, TypeOK
  <2>4. NoIdleSlot'
    BY <2>2, <1>5 DEF NoIdleSlot, IInv
  <2>5. QueueHoldsWaiters'
    BY <2>1, <1>5, HandOverSets, TailElems DEF QueueHoldsWaiters
  <2> QED
    BY <2>2, <2>3, <2>4, <2>5 DEF IInv, SlotsCounted, Fetching
<1>6. CASE UNCHANGED vars
  BY <1>6 DEF vars, IInv, TypeOK, SlotsCounted, NoIdleSlot, QueueHoldsWaiters, In
<1> QED
  BY <1>1, <1>2, <1>3, <1>4, <1>5, <1>6 DEF Next, Arrive

\* At the start all slots are free and nobody waits.
LEMMA IInvInit == Init => IInv
<1> SUFFICES ASSUME Init PROVE IInv
  OBVIOUS
<1>1. In("fetching") = {} /\ In("queued") = {}
  BY DEF Init, In
<1>2. Elems(queue) = {}
  BY DEF Init, Elems
<1>3. TypeOK /\ NoIdleSlot
  BY ConcurrencyPositive, MaxQueuePositive DEF Init, TypeOK, NoIdleSlot
<1>4. SlotsCounted
  BY <1>1, FS_EmptySet DEF Init, SlotsCounted
<1>5. QueueHoldsWaiters
  BY <1>1, <1>2 DEF Init, QueueHoldsWaiters
<1> QED
  BY <1>3, <1>4, <1>5 DEF IInv

\* The strengthened invariant holds in every reachable state.
LEMMA IInvHolds == Spec => []IInv
  BY IInvInit, IInvStep, PTL DEF Spec

\* Every variable keeps its type and the queue its bound.
THEOREM TypeCorrect == Spec => []TypeOK
  BY IInvHolds, PTL DEF IInv

\* The counter counts the requests that fetch: no slot is lost or doubled.
THEOREM CounterIsExact == Spec => []SlotsCounted
  BY IInvHolds, PTL DEF IInv

\* No request waits while a slot is free.
THEOREM NoneWaitsInVain == Spec => []NoIdleSlot
  BY IInvHolds, PTL DEF IInv

\* A full queue stands for as many waiting requests.
LEMMA QueueCounts ==
  ASSUME IInv
  PROVE  Cardinality(In("queued")) = Len(queue)
<1> DEFINE W == In("queued")
<1>1. Len(queue) \in Nat /\ queue \in [1..Len(queue) -> Requests]
  BY DEF IInv, TypeOK
<1>2. \A i \in 1..Len(queue) : queue[i] \in W
  BY DEF IInv, QueueHoldsWaiters, Elems
<1>3. queue \in [1..Len(queue) -> W]
  BY <1>1, <1>2
<1>4. queue \in Injection(1..Len(queue), W)
  BY <1>3 DEF IInv, QueueHoldsWaiters, Injection, IsInjective
<1>5. queue \in Surjection(1..Len(queue), W)
  BY <1>3 DEF IInv, QueueHoldsWaiters, Elems, Surjection
<1>6. queue \in Bijection(1..Len(queue), W)
  BY <1>4, <1>5 DEF Bijection
<1> QED
  BY <1>1, <1>6, FS_CountingElements DEF ExistsBijection

\* A request is turned away only when every slot is taken by a fetch and every
\* place of the queue by a request that waits.
THEOREM RefusalsAreJustified == Spec => RefusedOnlyWhenFull
<1>1. IInv /\ [Next]_vars
        => [\A r \in Requests : reply[r] # "busy" /\ reply'[r] = "busy"
              => Cardinality(In("fetching")) = Concurrency
                 /\ Cardinality(In("queued")) = MaxQueue]_vars
  <2> SUFFICES ASSUME IInv, Next, NEW q \in Requests, reply[q] # "busy", reply'[q] = "busy"
               PROVE  /\ Cardinality(In("fetching")) = Concurrency
                      /\ Cardinality(In("queued")) = MaxQueue
    OBVIOUS
  <2>1. PICK r \in Requests : Refuse(r)
    BY DEF Next, Arrive, Finish, TakeSlot, JoinQueue, IInv, TypeOK
  <2>2. active = Concurrency /\ Len(queue) = MaxQueue
    BY <2>1, ConcurrencyPositive, MaxQueuePositive
    DEF Refuse, HasRoom, QueueFull, IInv, TypeOK
  <2> QED
    BY <2>2, QueueCounts DEF IInv, SlotsCounted
<1> QED
  BY <1>1, IInvHolds, PTL DEF Spec, RefusedOnlyWhenFull

-----------------------------------------------------------------------------
(* The refinement *)

\* The elements of a queue are the same set in both modules.
LEMMA SameElems == \A q : Gate!Elems(q) = Elems(q)
  BY DEF Gate!Elems, Elems

\* So are their cardinalities.
LEMMA SameCardinality == \A S : Gate!Cardinality(S) = Cardinality(S)
  BY DEF Gate!Cardinality, Cardinality

\* A step of the slots is a step of the gate, or none.
LEMMA SlotsStepIsGateStep == IInv /\ [Next]_vars => [Gate!Next]_(Gate!gate)
<1> SUFFICES ASSUME IInv, [Next]_vars PROVE [Gate!Next]_(Gate!gate)
  OBVIOUS
<1> USE DEF Fetching
<1>1. ASSUME NEW r \in Requests, state[r] = "idle", TakeSlot(r) PROVE Gate!Next
  <2>1. queue = <<>> /\ Cardinality(Fetching) < Concurrency
    BY <1>1 DEF TakeSlot, HasRoom, IInv, TypeOK, NoIdleSlot, SlotsCounted
  <2>2. Gate!Enter(r)
    BY <1>1, <2>1, TakeSlotSets, SameCardinality DEF Gate!Enter, TakeSlot
  <2> QED
    BY <2>2 DEF Gate!Next
<1>2. ASSUME NEW r \in Requests, Refuse(r) PROVE UNCHANGED Gate!gate
  BY <1>2 DEF Refuse, Gate!gate, In
<1>3. ASSUME NEW r \in Requests, state[r] = "idle", JoinQueue(r) PROVE Gate!Next
  <2>1. Cardinality(Fetching) = Concurrency /\ Len(queue) < MaxQueue
    BY <1>3, ConcurrencyPositive, MaxQueuePositive
    DEF JoinQueue, HasRoom, QueueFull, IInv, TypeOK, SlotsCounted
  <2>2. r \notin Fetching /\ r \notin Gate!Elems(queue)
    BY <1>3, SameElems DEF IInv, QueueHoldsWaiters, In
  <2>3. Gate!Wait(r)
    BY <1>3, <2>1, <2>2, JoinQueueSets, SameCardinality DEF Gate!Wait, JoinQueue, Enqueue
  <2> QED
    BY <2>3 DEF Gate!Next
<1>4. ASSUME NEW r \in Requests, Finish(r), queue = <<>> PROVE Gate!Next
  <2>1. Gate!Leave(r)
    BY <1>4, FreeSets DEF Gate!Leave, Finish, Release, In
  <2> QED
    BY <2>1 DEF Gate!Next
<1>5. ASSUME NEW r \in Requests, Finish(r), queue # <<>> PROVE Gate!Next
  <2>1. Gate!HandOver(r)
    BY <1>5, HandOverSets DEF Gate!HandOver, Finish, Release
  <2> QED
    BY <2>1 DEF Gate!Next
<1>6. CASE UNCHANGED vars
  BY <1>6 DEF vars, Gate!gate, In
<1> QED
  BY <1>1, <1>2, <1>3, <1>4, <1>5, <1>6 DEF Next, Arrive

\* Whatever the slots do is a step of the first-in first-out gate, or nothing.
THEOREM SlotsImplementGate == Spec => Gate!Spec
<1>1. Init => Gate!Init
  BY DEF Init, Gate!Init, In
<1> QED
  BY <1>1, SlotsStepIsGateStep, IInvHolds, PTL DEF Spec, Gate!Spec

-----------------------------------------------------------------------------
(* The composition *)

S == INSTANCE RpcSemaphore_proofs WITH Calls <- HandlerCalls, state <- cstate

\* The system without its fairness.
SafeAll == InitAll /\ [][NextAll]_all
-----------------------------------------------------------------------------
(* The semaphore inside pepew-api is the one RpcSemaphore_proofs is about *)

\* The instances count a set alike.
LEMMA SameCounts == \A Q : P!Cardinality(Q) = Cardinality(Q) /\ S!Cardinality(Q) = Cardinality(Q)
                           /\ P!Gate!Cardinality(Q) = Cardinality(Q)
                           /\ S!Gate!Cardinality(Q) = Cardinality(Q)
  BY DEF P!Cardinality, S!Cardinality, P!Gate!Cardinality, S!Gate!Cardinality, Cardinality

\* The instances of the semaphore and of its gate have the same sets of calls.
LEMMA SameSets == \A s, q : S!In(s) = P!In(s) /\ S!Gate!Elems(q) = P!Gate!Elems(q)
  BY DEF S!In, P!In, S!Gate!Elems, P!Gate!Elems

\* The semaphore of wallet-api's node has at least one permit, and finitely many calls.
LEMMA SemaphoreSound == S!Sound
  BY PermitsPositive, CallsOfHandlers DEF S!Sound, S!IsFiniteSet, IsFiniteSet

\* The semaphore that the wallet composes starts as the one that was proved about.
LEMMA SameInit == P!Init => S!Init
  BY DEF P!Init, S!Init

\* Its operations are those of the one that was proved about.
LEMMA SameSteps ==
  \A c \in HandlerCalls : (P!Acquire(c) => S!Acquire(c)) /\ (P!Release(c) => S!Release(c))
  BY DEF P!Acquire, S!Acquire, P!Release, S!Release, P!HandOver, S!HandOver

\* So its type and the conservation of its permits follow.
LEMMA SameInvariant == S!IInv => P!TypeOK /\ P!PermitsConserved
<1>1. S!TypeOK <=> P!TypeOK
  BY DEF S!TypeOK, P!TypeOK
<1>2. S!PermitsConserved <=> P!PermitsConserved
  BY SameCounts, SameSets DEF S!PermitsConserved, P!PermitsConserved
<1> QED
  BY <1>1, <1>2 DEF S!IInv

\* The gates of the two instances take the same steps.
LEMMA SameGateStep == S!Gate!Next => P!Gate!Next
<1> SUFFICES ASSUME S!Gate!Next PROVE P!Gate!Next
  OBVIOUS
<1>1. PICK c \in HandlerCalls :
        S!Gate!Enter(c) \/ S!Gate!Wait(c) \/ S!Gate!Leave(c) \/ S!Gate!HandOver(c)
  BY DEF S!Gate!Next
<1>2. S!In("calling") = P!In("calling") /\ S!In("calling")' = P!In("calling")'
  BY DEF S!In, P!In
<1>3. S!Gate!Enter(c) => P!Gate!Enter(c)
  BY <1>2, SameCounts DEF S!Gate!Enter, P!Gate!Enter
<1>4. S!Gate!Wait(c) => P!Gate!Wait(c)
  BY <1>2, SameCounts, SameSets DEF S!Gate!Wait, P!Gate!Wait
<1>5. S!Gate!Leave(c) => P!Gate!Leave(c)
  BY <1>2 DEF S!Gate!Leave, P!Gate!Leave
<1>6. S!Gate!HandOver(c) => P!Gate!HandOver(c)
  BY <1>2 DEF S!Gate!HandOver, P!Gate!HandOver
<1> QED
  BY <1>1, <1>3, <1>4, <1>5, <1>6 DEF P!Gate!Next
-----------------------------------------------------------------------------
(* Every step of the composition is a step of each limiter, or leaves it alone *)

\* What pepew-api does to its semaphore.
SemaphoreStep == \E c \in HandlerCalls : P!Acquire(c) \/ P!Release(c)

\* The two strands of a handler are calls the semaphore may see.
LEMMA StrandsAreCalls ==
  ASSUME NEW h \in Handlers
  PROVE  P!Main(h) \in HandlerCalls /\ P!Loop(h) \in HandlerCalls
  BY CallsOfHandlers DEF P!Main, P!Loop

\* What a handler does at the node moves the semaphore or not, and nothing above it.
LEMMA UpstreamFrame ==
  ASSUME NEW h \in Handlers, UpstreamStep(h)
  PROVE  /\ SemaphoreStep \/ UNCHANGED <<count, tasks, cstate>>
         /\ UNCHANGED above
<1>1. P!Ask(h) => SemaphoreStep
  BY StrandsAreCalls DEF P!Ask, SemaphoreStep
<1>2. P!NodeReplies(h) => SemaphoreStep
  BY StrandsAreCalls DEF P!NodeReplies, P!MainReply, P!HeightReply, P!IndexReply,
     P!UnspentReply, P!DeltasReply, P!LoopReply, SemaphoreStep
<1>3. P!RaceOver(h) \/ P!Leave(h) => UNCHANGED <<count, tasks, cstate>>
  BY DEF P!RaceOver, P!Leave, P!vars
<1> QED
  BY <1>1, <1>2, <1>3 DEF UpstreamStep

\* A step of the composition is a step of the slots or leaves them.
LEMMA SlotsFrame ==
  ASSUME [NextAll]_all
  PROVE  [Next]_vars
<1>1. CASE ReadStep
  <2>1. ASSUME NEW r \in Requests, ReadArrives(r) PROVE Next
    BY <2>1 DEF ReadArrives, Next
  <2>2. ASSUME NEW r \in Requests, ReadAnswered(r) \/ ReadAborted(r) PROVE Next
    BY <2>2 DEF ReadAnswered, ReadAborted, Next
  <2>3. ASSUME NEW r \in Requests, ReadFetches(r) \/ DirectArrives(r) \/ DirectEnds(r)
        PROVE  UNCHANGED vars
    BY <2>3 DEF ReadFetches, DirectArrives, DirectEnds
  <2>4. ASSUME NEW h \in Handlers, UpstreamStep(h) PROVE UNCHANGED vars
    BY <2>4, UpstreamFrame DEF above
  <2>5. Expires => UNCHANGED vars
    BY DEF Expires, above
  <2> QED
    BY <1>1, <2>1, <2>2, <2>3, <2>4, <2>5 DEF ReadStep
<1>2. CASE LookupStep
  BY <1>2 DEF LookupStep, LookupArrives, LookupAnswered, WorkerTakes, WorkerHears,
              EntryExpires, looking, reads, vars
<1>3. CASE BroadcastStep
  BY <1>3 DEF BroadcastStep, BroadcastArrives, NodeTakes, CopyLost, AttemptFails, Again,
              GivesUp, BroadcastAnswered, sending, reads, vars
<1>4. CASE UNCHANGED all
  BY <1>4 DEF all, reads, vars
<1> QED
  BY <1>1, <1>2, <1>3, <1>4 DEF NextAll

\* A step of the composition is a step of the semaphore or leaves it.
LEMMA SemaphoreFrame ==
  ASSUME [NextAll]_all
  PROVE  SemaphoreStep \/ UNCHANGED <<count, tasks, cstate>>
<1>1. CASE ReadStep
  <2>1. ASSUME NEW r \in Requests, ReadArrives(r) \/ ReadAborted(r)
        PROVE  UNCHANGED <<count, tasks, cstate>>
    BY <2>1 DEF ReadArrives, ReadAborted, upstream
  <2>2. ASSUME NEW r \in Requests,
               ReadFetches(r) \/ ReadAnswered(r) \/ DirectArrives(r) \/ DirectEnds(r)
        PROVE  UNCHANGED <<count, tasks, cstate>>
    BY <2>2 DEF ReadFetches, ReadAnswered, DirectArrives, DirectEnds, P!Begin, P!Leave,
                P!vars, upstream
  <2>3. Expires => UNCHANGED <<count, tasks, cstate>>
    BY DEF Expires, P!CacheExpires, P!vars
  <2> QED
    BY <1>1, <2>1, <2>2, <2>3, UpstreamFrame DEF ReadStep
<1>2. CASE LookupStep
  BY <1>2 DEF LookupStep, LookupArrives, LookupAnswered, WorkerTakes, WorkerHears,
              EntryExpires, looking, reads
<1>3. CASE BroadcastStep
  BY <1>3 DEF BroadcastStep, BroadcastArrives, NodeTakes, CopyLost, AttemptFails, Again,
              GivesUp, BroadcastAnswered, sending, reads
<1>4. CASE UNCHANGED all
  BY <1>4 DEF all, reads
<1> QED
  BY <1>1, <1>2, <1>3, <1>4 DEF NextAll

\* The invariants of both limiters hold together in the composition.
LEMMA LimitersHold == SafeAll => [](IInv /\ S!IInv)
<1>1. InitAll => IInv /\ S!IInv
  BY IInvInit, SameInit, SemaphoreSound, S!IInvInit DEF InitAll
<1>2. IInv /\ S!IInv /\ [NextAll]_all => (IInv /\ S!IInv)'
  <2> SUFFICES ASSUME IInv, S!IInv, [NextAll]_all PROVE (IInv /\ S!IInv)'
    OBVIOUS
  <2>1. IInv'
    BY SlotsFrame, IInvStep
  <2>2. S!IInv'
    <3>1. CASE SemaphoreStep
      BY <3>1, SameSteps, SemaphoreSound, S!AcquireKeeps, S!ReleaseKeeps DEF SemaphoreStep
    <3>2. CASE UNCHANGED <<count, tasks, cstate>>
      BY <3>2 DEF S!IInv, S!TypeOK, S!PermitsConserved, S!NoIdlePermit, S!In
    <3> QED
      BY <3>1, <3>2, SemaphoreFrame
  <2> QED
    BY <2>1, <2>2
<1> QED
  BY <1>1, <1>2, PTL DEF SafeAll

\* However fetches are aborted above handlers that work on below, the slots of
\* wallet-api and the permits of pepew-api are each counted exactly.
THEOREM CountsAreExact == SafeAll => []BothCountsExact
<1>1. IInv /\ S!IInv => BothCountsExact
  BY SameInvariant DEF BothCountsExact, IInv
<1> QED
  BY <1>1, LimitersHold, PTL

\* In the composition each limiter still does only what its gate may do.
THEOREM GatesAreImplemented == SafeAll => Gate!Spec /\ P!Gate!Spec
<1>1. InitAll => Gate!Init /\ P!Gate!Init
  BY DEF InitAll, Init, Gate!Init, In, P!Init, P!Gate!Init, P!In
<1>2. IInv /\ [NextAll]_all => [Gate!Next]_(Gate!gate)
  BY SlotsFrame, SlotsStepIsGateStep
<1>3. S!IInv /\ [NextAll]_all => [P!Gate!Next]_(P!Gate!gate)
  <2> SUFFICES ASSUME S!IInv, [NextAll]_all PROVE [P!Gate!Next]_(P!Gate!gate)
    OBVIOUS
  <2>1. CASE SemaphoreStep
    BY <2>1, SameSteps, SemaphoreSound, S!AcquireIsGateStep, S!ReleaseIsGateStep,
       SameGateStep DEF SemaphoreStep
  <2>2. CASE UNCHANGED <<count, tasks, cstate>>
    BY <2>2 DEF P!Gate!gate, P!In
  <2> QED
    BY <2>1, <2>2, SemaphoreFrame
<1> QED
  BY <1>1, <1>2, <1>3, LimitersHold, PTL DEF SafeAll, Gate!Spec, P!Gate!Spec

-----------------------------------------------------------------------------
(* The three families of handlers leave each other alone *)

\* A step of a family of requests leaves the other families.
LEMMA FamiliesFrame ==
  /\ ReadStep => UNCHANGED <<kind, lookups, broadcasts, answer>>
  /\ LookupStep => UNCHANGED <<kind, reads, broadcasts>>
  /\ BroadcastStep => UNCHANGED <<kind, reads, lookups>>
<1>1. ReadStep => UNCHANGED <<kind, lookups, broadcasts, answer>>
  BY UpstreamFrame DEF ReadStep, ReadArrives, ReadFetches, ReadAnswered, ReadAborted,
     DirectArrives, DirectEnds, Expires, above, reading
<1>2. LookupStep => UNCHANGED <<kind, reads, broadcasts>>
  BY DEF LookupStep, LookupArrives, LookupAnswered, WorkerTakes, WorkerHears,
         EntryExpires, looking
<1>3. BroadcastStep => UNCHANGED <<kind, reads, lookups>>
  BY DEF BroadcastStep, BroadcastArrives, NodeTakes, CopyLost, AttemptFails, Again,
         GivesUp, BroadcastAnswered, sending
<1> QED
  BY <1>1, <1>2, <1>3
-----------------------------------------------------------------------------
(* Broadcasts *)

Heard == {"nothing", "id", "conflict", "refused", "error", "overloaded"}
Answers == {"none", "data", "accepted", "rejected", "unsure"}

BroadcastType ==
  /\ sent \in [Requests -> Nat] /\ attempt \in [Requests -> Nat]
  /\ heard \in [Requests -> Heard] /\ answer \in [Requests -> Answers]
  /\ pool \subseteq Txs
  /\ \A r \in Requests : sent[r] > 0 \/ attempt[r] > 0 => Tx(r) \in Txs

\* The pool holds a transaction or its rival.
Settled(t) == ({t} \union Rivals(t)) \intersect pool # {}

\* What the node said stays true while the pool grows, and nothing the node's
\* policy refuses ever gets in.
NodeIsTrue ==
  \A r \in Requests :
    /\ heard[r] \in {"id", "conflict"} => Settled(Tx(r))
    /\ heard[r] = "refused" => Tx(r) \in Unfit
    /\ r \in entered => Tx(r) \notin Unfit

AnswerIsTrue ==
  \A r \in Requests :
    /\ answer[r] = "accepted" => Settled(Tx(r))
    /\ answer[r] = "rejected" => Tx(r) \in Unfit

BroadcastInv == BroadcastType /\ NodeIsTrue /\ AnswerIsTrue

\* The node's own word.
LEMMA VerdictIsTrue ==
  ASSUME NEW t
  PROVE  /\ Verdict(t) \in {"id", "conflict", "refused"}
         /\ Verdict(t) = "conflict" => Settled(t)
         /\ Verdict(t) = "refused" <=> t \in Unfit
  BY DEF Verdict, Settled

\* The pool only grows, so what is settled stays so.
LEMMA SettledStays ==
  ASSUME pool \subseteq pool', NEW t, Settled(t)
  PROVE  Settled(t)'
  BY DEF Settled, Rivals

\* A step of a broadcast keeps what is known of broadcasts.
LEMMA BroadcastStepKeeps ==
  ASSUME BroadcastInv, BroadcastStep
  PROVE  BroadcastInv'
<1> USE DEF BroadcastInv
<1>0. kind' = kind
  BY FamiliesFrame
<1>1. ASSUME NEW r \in Requests, BroadcastArrives(r) PROVE BroadcastInv'
  <2>1. /\ UNCHANGED <<pool, heard, entered, answer>> /\ Tx(r) \in Txs
        /\ attempt' = [attempt EXCEPT ![r] = 1] /\ sent' = [sent EXCEPT ![r] = 1]
    BY <1>1 DEF BroadcastArrives, Tx
  <2> QED
    BY <1>0, <2>1 DEF BroadcastType, NodeIsTrue, AnswerIsTrue, Tx, Settled
<1>2. ASSUME NEW r \in Requests, NodeTakes(r) PROVE BroadcastInv'
  <2>1. PICK v \in {Verdict(Tx(r)), "error", "overloaded"} :
          /\ IF v = "id" THEN pool' = pool \union {Tx(r)} ELSE UNCHANGED pool
          /\ entered' = IF v = "id" /\ Tx(r) \notin pool THEN entered \union {r} ELSE entered
          /\ \/ heard' = [heard EXCEPT ![r] = v]
             \/ UNCHANGED heard
    BY <1>2 DEF NodeTakes
  <2>2. /\ sent[r] > 0 /\ sent' = [sent EXCEPT ![r] = @ - 1] /\ UNCHANGED <<attempt, answer>>
    BY <1>2 DEF NodeTakes
  <2>3. /\ v \in Heard /\ pool \subseteq pool'
        /\ v = "id" => Settled(Tx(r))' /\ Tx(r) \notin Unfit
        /\ v = "conflict" => Settled(Tx(r))
        /\ v = "refused" => Tx(r) \in Unfit
    BY <1>0, <2>1, VerdictIsTrue DEF Heard, Settled, Tx
  <2>4. BroadcastType'
    <3>1. pool' \subseteq Txs
      BY <2>1, <2>2 DEF BroadcastType
    <3>2. heard' \in [Requests -> Heard]
      BY <2>1, <2>3 DEF BroadcastType
    <3>3. /\ sent' \in [Requests -> Nat]
          /\ \A q \in Requests : sent'[q] > 0 => sent[q] > 0
      BY <2>2 DEF BroadcastType
    <3> QED
      BY <1>0, <2>2, <3>1, <3>2, <3>3 DEF BroadcastType, Tx
  <2>5. \A q \in Requests : Settled(Tx(q)) => Settled(Tx(q))'
    BY <1>0, <2>3, SettledStays DEF Settled, Tx, Rivals
  <2>6. \A q \in Requests : heard'[q] = heard[q] \/ (q = r /\ heard'[q] = v)
    BY <2>1 DEF BroadcastType
  <2>7. NodeIsTrue'
    BY <1>0, <2>1, <2>3, <2>5, <2>6 DEF NodeIsTrue, Tx
  <2>8. AnswerIsTrue'
    BY <1>0, <2>2, <2>5 DEF AnswerIsTrue, Tx
  <2> QED
    BY <2>4, <2>7, <2>8
<1>3. ASSUME NEW r \in Requests, CopyLost(r) PROVE BroadcastInv'
  <2>1. /\ sent[r] > 0 /\ sent' = [sent EXCEPT ![r] = @ - 1]
        /\ UNCHANGED <<pool, attempt, heard, entered, answer>>
    BY <1>3 DEF CopyLost
  <2> QED
    BY <1>0, <2>1 DEF BroadcastType, NodeIsTrue, AnswerIsTrue, Tx, Settled
<1>4. ASSUME NEW r \in Requests, AttemptFails(r), Again(r) PROVE BroadcastInv'
  <2>1. /\ attempt[r] > 0 /\ UNCHANGED <<pool, entered, answer>>
        /\ attempt' = [attempt EXCEPT ![r] = @ + 1] /\ sent' = [sent EXCEPT ![r] = @ + 1]
        /\ heard' = [heard EXCEPT ![r] = "nothing"]
    BY <1>4 DEF AttemptFails, Again
  <2>2. BroadcastType'
    BY <1>0, <2>1 DEF BroadcastType, Tx, Heard
  <2>3. NodeIsTrue' /\ AnswerIsTrue'
    BY <1>0, <2>1 DEF BroadcastType, NodeIsTrue, AnswerIsTrue, Tx, Settled
  <2> QED
    BY <2>2, <2>3
<1>5. ASSUME NEW r \in Requests, AttemptFails(r), GivesUp(r) PROVE BroadcastInv'
  <2>1. UNCHANGED <<pool, sent, attempt, heard, entered>>
        /\ answer' = [answer EXCEPT ![r] = "unsure"]
    BY <1>5 DEF GivesUp, Reply, broadcasts
  <2> QED
    BY <1>0, <2>1 DEF BroadcastType, NodeIsTrue, AnswerIsTrue, Tx, Settled, Answers
<1>6. ASSUME NEW r \in Requests, BroadcastAnswered(r) PROVE BroadcastInv'
  <2>1. PICK a \in {Told(heard[r]), "unsure"} : answer' = [answer EXCEPT ![r] = a]
    BY <1>6 DEF BroadcastAnswered, Reply
  <2>2. /\ UNCHANGED <<pool, sent, attempt, heard, entered>>
        /\ heard[r] \in {"id", "conflict", "refused", "error"}
    BY <1>6 DEF BroadcastAnswered, broadcasts
  <2>3. /\ a \in Answers
        /\ a = "accepted" => heard[r] \in {"id", "conflict"}
        /\ a = "rejected" => heard[r] = "refused"
    BY <2>2 DEF Told, Answers
  <2>4. BroadcastType'
    BY <1>0, <2>1, <2>2, <2>3 DEF BroadcastType, Tx
  <2>5. NodeIsTrue' /\ AnswerIsTrue'
    BY <1>0, <2>1, <2>2, <2>3 DEF BroadcastType, NodeIsTrue, AnswerIsTrue, Tx, Settled
  <2> QED
    BY <2>4, <2>5
<1> QED
  BY <1>1, <1>2, <1>3, <1>4, <1>5, <1>6 DEF BroadcastStep, AttemptFails

\* What is known of broadcasts holds in every reachable state.
LEMMA BroadcastHolds == SafeAll => []BroadcastInv
<1>1. InitAll => BroadcastInv
  BY DEF InitAll, BroadcastInv, BroadcastType, NodeIsTrue, AnswerIsTrue, Heard, Answers
<1>2. BroadcastInv /\ [NextAll]_all => BroadcastInv'
  <2> SUFFICES ASSUME BroadcastInv, [NextAll]_all PROVE BroadcastInv'
    OBVIOUS
  <2>1. CASE UNCHANGED <<kind, broadcasts, answer>>
    BY <2>1 DEF broadcasts, BroadcastInv, BroadcastType, NodeIsTrue, AnswerIsTrue, Tx, Settled
  <2>2. CASE LookupStep
    <3>1. UNCHANGED <<kind, broadcasts>>
      BY <2>2, FamiliesFrame
    <3>2. answer' = answer \/ \E r \in Requests : answer' = [answer EXCEPT ![r] = "data"]
      BY <2>2 DEF LookupStep, LookupArrives, LookupAnswered, WorkerTakes, WorkerHears,
                  EntryExpires
    <3> QED
      BY <3>1, <3>2 DEF broadcasts, BroadcastInv, BroadcastType, NodeIsTrue, AnswerIsTrue,
                        Tx, Settled, Answers
  <2> QED
    BY <2>1, <2>2, FamiliesFrame, BroadcastStepKeeps DEF NextAll, all
<1> QED
  BY <1>1, <1>2, PTL DEF SafeAll

\* Whatever replies and copies are lost, delayed or repeated: a broadcast answered
\* with success is in the pool or a rival of it is, and of one answered with a
\* rejection no copy has ever entered the pool.
THEOREM BroadcastsAreTrue == SafeAll => []BroadcastIsTrue
<1>1. BroadcastInv => BroadcastIsTrue
  BY DEF BroadcastInv, NodeIsTrue, AnswerIsTrue, Settled, BroadcastIsTrue
<1> QED
  BY <1>1, BroadcastHolds, PTL

-----------------------------------------------------------------------------
(* Lookups *)

WorkerStates == {"idle", "ready", "indexer", "node", "indexer2", "node2"}
Outcomes == {"none", "cache", "upstream", "failed"}

LookupType ==
  /\ batch \in [Requests -> Seq(Txids)] /\ next \in [Requests -> Nat]
  /\ wpc \in [Requests -> [Workers -> WorkerStates]]
  /\ widx \in [Requests -> [Workers -> Nat]]
  /\ results \in [Requests -> Seq(Outcomes)]
  /\ \A r \in Requests : Len(results[r]) = Len(batch[r])

Working(r, w) == wpc[r][w] \notin {"idle", "ready"}

\* Before it arrives a batch has no workers; a worker works at an index that has
\* been claimed, by it alone.
Claimed(r) ==
  /\ next[r] >= 1
  /\ batch[r] = <<>> => next[r] = 1 /\ \A w \in Workers : wpc[r][w] = "idle"
  /\ \A w \in Workers :
       Working(r, w) => widx[r][w] \in 1..Len(batch[r]) /\ widx[r][w] < next[r]
  /\ \A v, w \in Workers :
       v # w /\ Working(r, v) /\ Working(r, w) => widx[r][v] # widx[r][w]

\* A claimed index has its outcome or somebody who works at it; until all are
\* claimed some worker is left; and the answer waits for all of them.
Covered(r) ==
  /\ \A i \in 1..Len(batch[r]) :
       i < next[r] => \/ results[r][i] # "none"
                      \/ \E w \in Workers : Working(r, w) /\ widx[r][w] = i
  /\ batch[r] # <<>> /\ next[r] <= Len(batch[r]) => \E w \in Workers : wpc[r][w] # "idle"
  /\ answer[r] = "data" => batch[r] # <<>> /\ \A w \in Workers : wpc[r][w] = "idle"

CacheInv == old \subseteq cache /\ cache \subseteq Txids /\ Cardinality(cache) <= CacheMax

LookupInv ==
  /\ LookupType /\ CacheInv
  /\ \A r \in Requests : Claimed(r) /\ Covered(r)

\* The parts of a lookup that a step of another request leaves alone.
LEMMA LookupFrame ==
  ASSUME LookupInv, NEW q \in Requests, batch'[q] = batch[q], next'[q] = next[q],
         wpc'[q] = wpc[q], widx'[q] = widx[q], results'[q] = results[q],
         answer'[q] = "data" => answer[q] = "data"
  PROVE  Claimed(q)' /\ Covered(q)'
  BY DEF LookupInv, Claimed, Covered, Working

\* The cache can be counted, with one more entry too.
LEMMA CacheCount ==
  ASSUME CacheInv, NEW t \in Txids
  PROVE  /\ IsFiniteSet(cache) /\ IsFiniteSet(cache \union {t})
         /\ Cardinality(cache \union {t}) <= CacheMax + 1
         /\ \A C \in SUBSET (cache \union {t}) :
              /\ IsFiniteSet(C) /\ Cardinality(C) \in Nat
              /\ Cardinality(C) <= Cardinality(cache \union {t})
<1>1. IsFiniteSet(cache)
  BY TxidsFinite, FS_Subset DEF CacheInv
<1>2. /\ IsFiniteSet(cache \union {t})
      /\ Cardinality(cache \union {t}) <= Cardinality(cache) + 1
      /\ Cardinality(cache) \in Nat /\ Cardinality(cache \union {t}) \in Nat
  <2>1. /\ IsFiniteSet(cache \union {t})
        /\ Cardinality(cache \union {t}) = IF t \in cache THEN Cardinality(cache)
                                           ELSE Cardinality(cache) + 1
    BY <1>1, FS_AddElement
  <2>2. Cardinality(cache) \in Nat /\ Cardinality(cache \union {t}) \in Nat
    BY <1>1, <2>1, FS_CardinalityType
  <2> QED
    BY <2>1, <2>2
<1>3. Cardinality(cache \union {t}) <= CacheMax + 1
  BY <1>2, CacheHoldsOne DEF CacheInv
<1> QED
  BY <1>1, <1>2, <1>3, FS_Subset, FS_CardinalityType

\* Remembering a transaction keeps the cache within its bound: what is evicted is
\* at least one entry whenever the new one is one too many.
LEMMA RememberFits ==
  ASSUME CacheInv, NEW t \in Txids, Remember(t)
  PROVE  CacheInv'
<1>1. PICK all_ : all_ = cache \union {t}
  OBVIOUS
<1>2. PICK kept : kept = all_ \ (old \ {t})
  OBVIOUS
<1>3. /\ IsFiniteSet(all_) /\ Cardinality(all_) \in Nat /\ Cardinality(all_) <= CacheMax + 1
      /\ \A C \in SUBSET all_ : Cardinality(C) \in Nat /\ Cardinality(C) <= Cardinality(all_)
      /\ all_ \subseteq Txids
  BY <1>1, CacheCount DEF CacheInv
<1>4. CASE Cardinality(all_) <= CacheMax
  <2>1. cache' = all_ /\ old' = old \ {t}
    BY <1>1, <1>4 DEF Remember
  <2> QED
    BY <1>1, <1>3, <1>4, <2>1 DEF CacheInv
<1>5. CASE ~(Cardinality(all_) <= CacheMax)
  <2>1. /\ old' = {}
        /\ IF Cardinality(kept) <= CacheMax THEN cache' = kept
           ELSE \E C \in SUBSET kept :
                Cardinality(kept) - Cardinality(C) = (Cardinality(kept) + 9) \div 10
                /\ cache' = C
    BY <1>1, <1>2, <1>5 DEF Remember
  <2>2. kept \subseteq all_ /\ Cardinality(kept) \in Nat /\ Cardinality(kept) <= CacheMax + 1
        /\ CacheMax \in Nat /\ CacheMax >= 1
    BY <1>2, <1>3, CacheHoldsOne
  <2>3. CASE Cardinality(kept) <= CacheMax
    BY <1>3, <2>1, <2>2, <2>3 DEF CacheInv
  <2>4. CASE ~(Cardinality(kept) <= CacheMax)
    <3>1. PICK C \in SUBSET kept :
            Cardinality(kept) - Cardinality(C) = (Cardinality(kept) + 9) \div 10 /\ cache' = C
      BY <2>1, <2>4
    <3>2. Cardinality(C) \in Nat
      BY <1>3, <2>2
    <3>3. (Cardinality(kept) + 9) \div 10 >= 1
      BY <2>2, <2>4
    <3>4. Cardinality(C) <= CacheMax
      BY <2>2, <3>1, <3>2, <3>3
    <3> QED
      BY <1>3, <2>1, <2>2, <3>1, <3>4 DEF CacheInv
  <2> QED
    BY <2>3, <2>4
<1> QED
  BY <1>4, <1>5

\* A lookup arrives: a worker is there for every batch.
LEMMA LookupArrivesKeeps ==
  ASSUME LookupInv, NEW r \in Requests, LookupArrives(r)
  PROVE  LookupInv'
<1> DEFINE Ready(n) ==
      \E W \in SUBSET Workers :
        /\ Cardinality(W) = (IF n < Cardinality(Workers) THEN n ELSE Cardinality(Workers))
        /\ wpc' = [wpc EXCEPT ![r] = [w \in Workers |-> IF w \in W THEN "ready" ELSE "idle"]]
<1>13. PICK n \in 1..(IF kind[r] = "batch" THEN Cardinality(Txids) ELSE 1) :
        \E q \in [1..n -> Txids] :
          /\ batch' = [batch EXCEPT ![r] = q]
          /\ results' = [results EXCEPT ![r] = [i \in 1..n |-> "none"]]
          /\ Ready(n)
  BY DEF LookupArrives
<1>1. PICK q \in [1..n -> Txids] :
        /\ batch' = [batch EXCEPT ![r] = q]
        /\ results' = [results EXCEPT ![r] = [i \in 1..n |-> "none"]]
        /\ Ready(n)
  BY <1>13
<1>2. PICK W \in SUBSET Workers :
        /\ Cardinality(W) = (IF n < Cardinality(Workers) THEN n ELSE Cardinality(Workers))
        /\ wpc' = [wpc EXCEPT ![r] = [w \in Workers |-> IF w \in W THEN "ready" ELSE "idle"]]
  BY <1>1
<1>3. batch[r] = <<>> /\ UNCHANGED <<cache, old, next, widx, answer>>
  BY DEF LookupArrives
<1>4. n \in Nat /\ n >= 1
  BY TxidsFinite, FS_CardinalityType
<1>5. W # {}
  <2>1. Cardinality(Workers) \in Nat /\ Cardinality(Workers) # 0
    BY WorkersExist, FS_CardinalityType, FS_EmptySet
  <2>2. Cardinality(W) # 0
    BY <1>2, <1>4, <2>1
  <2> QED
    BY <2>2, FS_EmptySet
<1>6. q \in Seq(Txids) /\ Len(q) = n
      /\ [i \in 1..n |-> "none"] \in Seq(Outcomes) /\ Len([i \in 1..n |-> "none"]) = n
  BY <1>4 DEF Outcomes
<1>7. batch'[r] = q /\ results'[r] = [i \in 1..n |-> "none"]
      /\ wpc'[r] = [w \in Workers |-> IF w \in W THEN "ready" ELSE "idle"]
  BY <1>1, <1>2 DEF LookupInv, LookupType
<1>8. LookupType'
  <2>1. /\ batch' \in [Requests -> Seq(Txids)] /\ results' \in [Requests -> Seq(Outcomes)]
        /\ wpc' \in [Requests -> [Workers -> WorkerStates]]
    BY <1>1, <1>2, <1>6 DEF LookupInv, LookupType, WorkerStates
  <2>2. \A p \in Requests : Len(results'[p]) = Len(batch'[p])
    BY <1>1, <1>6, <1>7 DEF LookupInv, LookupType
  <2> QED
    BY <1>3, <2>1, <2>2 DEF LookupInv, LookupType
<1>9. \A w \in Workers : ~Working(r, w)'
  BY <1>7 DEF Working
<1>10. Claimed(r)'
  BY <1>3, <1>4, <1>6, <1>7, <1>9 DEF LookupInv, Claimed
<1>11. Covered(r)'
  <2>1. next'[r] = 1 /\ answer'[r] # "data" /\ q # <<>>
    BY <1>3, <1>4, <1>6 DEF LookupInv, Claimed, Covered
  <2>2. \E w \in Workers : wpc'[r][w] # "idle"
    BY <1>5, <1>7
  <2> QED
    BY <1>4, <1>6, <1>7, <2>1, <2>2 DEF Covered
<1>12. \A p \in Requests : p # r => Claimed(p)' /\ Covered(p)'
  <2> SUFFICES ASSUME NEW p \in Requests, p # r PROVE Claimed(p)' /\ Covered(p)'
    OBVIOUS
  <2>1. batch'[p] = batch[p] /\ wpc'[p] = wpc[p] /\ results'[p] = results[p]
    BY <1>1, <1>2 DEF LookupInv, LookupType
  <2> QED
    BY <1>3, <2>1, LookupFrame
<1> QED
  BY <1>3, <1>8, <1>10, <1>11, <1>12 DEF LookupInv, CacheInv

\* A worker moves: to the next index, to the next source, or to its end.
LEMMA WorkerTakesKeeps ==
  ASSUME LookupInv, NEW r \in Requests, NEW w \in Workers, WorkerTakes(r, w)
  PROVE  LookupInv'
<1>0. /\ wpc[r][w] = "ready" /\ UNCHANGED <<batch, answer>>
      /\ batch[r] \in Seq(Txids) /\ next[r] \in Nat /\ next[r] >= 1
      /\ results[r] \in Seq(Outcomes) /\ Len(results[r]) = Len(batch[r])
      /\ wpc[r] \in [Workers -> WorkerStates] /\ widx[r] \in [Workers -> Nat]
  BY DEF WorkerTakes, LookupInv, LookupType, Claimed
<1>1. CASE next[r] > Len(batch[r])
  <2>1. wpc' = [wpc EXCEPT ![r][w] = "idle"] /\ UNCHANGED <<next, widx, results, cache, old>>
    BY <1>1 DEF WorkerTakes, Go
  <2>2. LookupType' /\ CacheInv'
    BY <1>0, <2>1 DEF LookupInv, LookupType, CacheInv, WorkerStates
  <2>3. wpc'[r] = [wpc[r] EXCEPT ![w] = "idle"]
    BY <2>1 DEF LookupInv, LookupType
  <2>4. \A v \in Workers : Working(r, v)' <=> Working(r, v)
    BY <1>0, <2>3 DEF Working
  <2>5. Claimed(r)'
    <3>1. batch[r] = <<>> => FALSE
      BY <1>0 DEF LookupInv, Claimed
    <3> QED
      BY <1>0, <2>1, <2>4, <3>1 DEF LookupInv, Claimed
  <2>6. Covered(r)'
    <3>1. answer[r] # "data"
      BY <1>0 DEF LookupInv, Covered
    <3>2. ~(next[r] <= Len(batch[r]))
      BY <1>0, <1>1
    <3> QED
      BY <1>0, <2>1, <2>4, <3>1, <3>2 DEF LookupInv, Covered
  <2>7. \A p \in Requests : p # r => Claimed(p)' /\ Covered(p)'
    <3> SUFFICES ASSUME NEW p \in Requests, p # r PROVE Claimed(p)' /\ Covered(p)'
      OBVIOUS
    <3>1. wpc'[p] = wpc[p]
      BY <2>1 DEF LookupInv, LookupType
    <3> QED
      BY <1>0, <2>1, <3>1, LookupFrame
  <2> QED
    BY <2>2, <2>5, <2>6, <2>7 DEF LookupInv
<1>2. CASE ~(next[r] > Len(batch[r]))
  <2>1. PICK k : k = next[r]
    OBVIOUS
  <2>2. k \in 1..Len(batch[r]) /\ k \in Nat /\ batch[r][k] \in Txids
    BY <1>0, <1>2, <2>1
  <2>3. /\ next' = [next EXCEPT ![r] = k + 1] /\ widx' = [widx EXCEPT ![r][w] = k]
        /\ \/ /\ results' = [results EXCEPT ![r][k] = "cache"]
              /\ UNCHANGED <<wpc, cache, old>>
           \/ /\ wpc' = [wpc EXCEPT ![r][w] = "indexer"] /\ UNCHANGED results
              /\ cache' = cache \ {batch[r][k]} /\ old' = old \ {batch[r][k]}
    BY <1>2, <2>1 DEF WorkerTakes, Go, Claim, LookupInv, LookupType
  <2>4. LookupType'
    <3>1. next' \in [Requests -> Nat] /\ widx' \in [Requests -> [Workers -> Nat]]
      BY <1>0, <2>2, <2>3 DEF LookupInv, LookupType
    <3>2. wpc' \in [Requests -> [Workers -> WorkerStates]]
      <4>1. CASE UNCHANGED wpc
        BY <4>1 DEF LookupInv, LookupType
      <4>2. CASE wpc' = [wpc EXCEPT ![r][w] = "indexer"]
        <5>1. "indexer" \in WorkerStates
          BY DEF WorkerStates
        <5> QED
          BY <4>2, <5>1 DEF LookupInv, LookupType
      <4> QED
        BY <2>3, <4>1, <4>2
    <3>3. /\ results' \in [Requests -> Seq(Outcomes)]
          /\ \A p \in Requests : Len(results'[p]) = Len(results[p])
      <4>1. [results[r] EXCEPT ![k] = "cache"] \in Seq(Outcomes)
            /\ Len([results[r] EXCEPT ![k] = "cache"]) = Len(results[r])
        BY <1>0, <2>2 DEF Outcomes
      <4> QED
        BY <1>0, <2>3, <4>1 DEF LookupInv, LookupType
    <3> QED
      BY <1>0, <3>1, <3>2, <3>3 DEF LookupInv, LookupType
  <2>5. CacheInv'
    <3>1. CASE UNCHANGED <<cache, old>>
      BY <3>1 DEF LookupInv, CacheInv
    <3>2. CASE cache' = cache \ {batch[r][k]} /\ old' = old \ {batch[r][k]}
      <4>1. cache' \subseteq cache /\ IsFiniteSet(cache)
        BY <3>2, <2>2, CacheCount DEF LookupInv
      <4>2. Cardinality(cache') <= Cardinality(cache) /\ Cardinality(cache') \in Nat
            /\ Cardinality(cache) \in Nat
        BY <4>1, FS_Subset, FS_CardinalityType
      <4> QED
        BY <3>2, <4>1, <4>2, CacheHoldsOne DEF LookupInv, CacheInv
    <3> QED
      BY <2>3, <3>1, <3>2
  <2>6. /\ next'[r] = k + 1 /\ widx'[r] = [widx[r] EXCEPT ![w] = k]
        /\ \/ wpc'[r] = wpc[r] /\ results'[r] = [results[r] EXCEPT ![k] = "cache"]
           \/ wpc'[r] = [wpc[r] EXCEPT ![w] = "indexer"] /\ results'[r] = results[r]
    BY <1>0, <2>3 DEF LookupInv, LookupType
  <2>7. /\ \A v \in Workers : v # w => /\ Working(r, v)' <=> Working(r, v)
                                       /\ widx'[r][v] = widx[r][v]
        /\ widx'[r][w] = k /\ ~Working(r, w)
    BY <1>0, <2>6 DEF Working
  <2>8. Claimed(r)'
    <3>1. batch'[r] = batch[r] /\ batch[r] # <<>>
      BY <1>0 DEF LookupInv, Claimed
    <3>2. \A v \in Workers : Working(r, v) => widx[r][v] \in 1..Len(batch[r]) /\ widx[r][v] < k
      BY <2>1 DEF LookupInv, Claimed
    <3>3. \A u, v \in Workers :
            u # v /\ Working(r, u) /\ Working(r, v) => widx[r][u] # widx[r][v]
      BY DEF LookupInv, Claimed
    <3>4. next'[r] >= 1
      BY <2>2, <2>6
    <3>5. \A v \in Workers :
            Working(r, v)' => widx'[r][v] \in 1..Len(batch[r]) /\ widx'[r][v] < next'[r]
      BY <2>2, <2>6, <2>7, <3>2
    <3>6. \A u, v \in Workers :
            u # v /\ Working(r, u)' /\ Working(r, v)' => widx'[r][u] # widx'[r][v]
      BY <2>2, <2>7, <3>2, <3>3
    <3> QED
      BY <3>1, <3>4, <3>5, <3>6 DEF Claimed
  <2>9. Covered(r)'
    <3>1. answer[r] # "data"
      BY <1>0 DEF LookupInv, Covered
    <3>2. ASSUME NEW i \in 1..Len(batch[r]), i < k + 1
          PROVE  results'[r][i] # "none" \/ \E v \in Workers : Working(r, v)' /\ widx'[r][v] = i
      <4>1. CASE i = k
        <5>1. CASE results'[r] = [results[r] EXCEPT ![k] = "cache"]
          <6>1. k \in DOMAIN results[r]
            BY <1>0, <2>2
          <6> QED
            BY <4>1, <5>1, <6>1
        <5>2. CASE wpc'[r] = [wpc[r] EXCEPT ![w] = "indexer"]
          BY <1>0, <2>7, <4>1, <5>2 DEF Working
        <5> QED
          BY <2>6, <5>1, <5>2
      <4>2. CASE i # k
        <5>1. i < next[r]
          BY <3>2, <4>2, <2>1, <2>2
        <5>2. results[r][i] # "none" \/ \E v \in Workers : Working(r, v) /\ widx[r][v] = i
          BY <5>1 DEF LookupInv, Covered
        <5>3. results'[r][i] = results[r][i]
          BY <1>0, <2>6, <4>2
        <5> QED
          BY <2>7, <5>2, <5>3
      <4> QED
        BY <4>1, <4>2
    <3>3. wpc'[r][w] # "idle"
      BY <1>0, <2>6
    <3> QED
      BY <1>0, <2>6, <3>1, <3>2, <3>3 DEF Covered
  <2>10. \A p \in Requests : p # r => Claimed(p)' /\ Covered(p)'
    <3> SUFFICES ASSUME NEW p \in Requests, p # r PROVE Claimed(p)' /\ Covered(p)'
      OBVIOUS
    <3>1. /\ next'[p] = next[p] /\ widx'[p] = widx[p] /\ wpc'[p] = wpc[p]
          /\ results'[p] = results[p]
      BY <2>3 DEF LookupInv, LookupType
    <3> QED
      BY <1>0, <3>1, LookupFrame
  <2> QED
    BY <2>4, <2>5, <2>8, <2>9, <2>10 DEF LookupInv
<1> QED
  BY <1>1, <1>2

\* An answer that a worker hears is stored under the id it was asked for.
LEMMA WorkerHearsKeeps ==
  ASSUME LookupInv, NEW r \in Requests, NEW w \in Workers, WorkerHears(r, w)
  PROVE  LookupInv'
<1>0. /\ Working(r, w) /\ UNCHANGED <<batch, next, widx, answer>>
      /\ batch[r] \in Seq(Txids)
      /\ results[r] \in Seq(Outcomes) /\ Len(results[r]) = Len(batch[r])
      /\ wpc[r] \in [Workers -> WorkerStates]
  BY DEF WorkerHears, Working, LookupInv, LookupType
<1>1. PICK k : k = widx[r][w]
  OBVIOUS
<1>2. k \in 1..Len(batch[r]) /\ batch[r][k] \in Txids
  BY <1>0, <1>1 DEF LookupInv, Claimed
<1>3. /\ \/ \E o \in {"upstream", "failed"} :
              /\ results' = [results EXCEPT ![r][k] = o]
              /\ wpc' = [wpc EXCEPT ![r][w] = "ready"]
         \/ \E s \in {"node", "node2", "indexer2"} :
              wpc' = [wpc EXCEPT ![r][w] = s] /\ UNCHANGED results
      /\ Remember(batch[r][k]) \/ UNCHANGED <<cache, old>>
  BY <1>1 DEF WorkerHears, Outcome, Go
<1>4. CacheInv'
  BY <1>2, <1>3, RememberFits DEF LookupInv, CacheInv
<1>5. \/ \E o \in {"upstream", "failed"} :
           /\ results'[r] = [results[r] EXCEPT ![k] = o]
           /\ wpc'[r] = [wpc[r] EXCEPT ![w] = "ready"]
      \/ \E s \in {"node", "node2", "indexer2"} :
           wpc'[r] = [wpc[r] EXCEPT ![w] = s] /\ results'[r] = results[r]
  BY <1>3 DEF LookupInv, LookupType
<1>6. LookupType'
  <2>1. wpc' \in [Requests -> [Workers -> WorkerStates]]
    <3>1. PICK s \in WorkerStates : wpc' = [wpc EXCEPT ![r][w] = s]
      BY <1>3 DEF WorkerStates
    <3> QED
      BY <3>1 DEF LookupInv, LookupType
  <2>2. /\ results' \in [Requests -> Seq(Outcomes)]
        /\ \A p \in Requests : Len(results'[p]) = Len(results[p])
    <3>1. \A o \in {"upstream", "failed"} :
            /\ [results[r] EXCEPT ![k] = o] \in Seq(Outcomes)
            /\ Len([results[r] EXCEPT ![k] = o]) = Len(results[r])
      BY <1>0, <1>2 DEF Outcomes
    <3> QED
      BY <1>0, <1>3, <3>1 DEF LookupInv, LookupType
  <2> QED
    BY <1>0, <2>1, <2>2 DEF LookupInv, LookupType
<1>7. /\ \A v \in Workers : v # w => (Working(r, v)' <=> Working(r, v))
      /\ wpc'[r][w] # "idle"
      /\ Working(r, w)' \/ results'[r][k] # "none"
      /\ \A i \in 1..Len(batch[r]) : results[r][i] # "none" => results'[r][i] # "none"
  BY <1>0, <1>2, <1>5 DEF Working
<1>8. Claimed(r)'
  BY <1>0, <1>7 DEF LookupInv, Claimed
<1>9. Covered(r)'
  <2>1. \A i \in 1..Len(batch[r]) :
          i < next[r] => \/ results[r][i] # "none"
                         \/ \E v \in Workers : Working(r, v) /\ widx[r][v] = i
    BY DEF LookupInv, Covered
  <2>2. answer[r] # "data"
    BY <1>0 DEF LookupInv, Covered, Working
  <2> QED
    BY <1>0, <1>1, <1>7, <2>1, <2>2 DEF Covered
<1>10. \A p \in Requests : p # r => Claimed(p)' /\ Covered(p)'
  <2> SUFFICES ASSUME NEW p \in Requests, p # r PROVE Claimed(p)' /\ Covered(p)'
    OBVIOUS
  <2>1. wpc'[p] = wpc[p] /\ results'[p] = results[p]
    BY <1>3 DEF LookupInv, LookupType
  <2> QED
    BY <1>0, <2>1, LookupFrame
<1> QED
  BY <1>4, <1>6, <1>8, <1>9, <1>10 DEF LookupInv

\* What is known of batches holds in every reachable state.
LEMMA LookupHolds == SafeAll => []LookupInv
<1>1. InitAll => LookupInv
  <2> SUFFICES ASSUME InitAll PROVE LookupInv
    OBVIOUS
  <2>1. LookupType
    BY DEF InitAll, LookupType, WorkerStates
  <2>2. CacheInv
    BY FS_EmptySet, CacheHoldsOne DEF InitAll, CacheInv
  <2>3. \A r \in Requests : Claimed(r) /\ Covered(r)
    BY DEF InitAll, Claimed, Covered, Working
  <2> QED
    BY <2>1, <2>2, <2>3 DEF LookupInv
<1>2. LookupInv /\ BroadcastType /\ [NextAll]_all => LookupInv'
  <2> SUFFICES ASSUME LookupInv, BroadcastType, [NextAll]_all PROVE LookupInv'
    OBVIOUS
  <2>1. ASSUME UNCHANGED lookups, \A q \in Requests : answer'[q] = "data" => answer[q] = "data"
        PROVE  LookupInv'
    <3>1. UNCHANGED <<cache, old, batch, next, wpc, widx, results>>
      BY <2>1 DEF lookups
    <3>2. \A q \in Requests : Claimed(q)' /\ Covered(q)'
      BY <2>1, <3>1, LookupFrame
    <3> QED
      BY <3>1, <3>2 DEF LookupInv, LookupType, CacheInv
  <2>2. CASE BroadcastStep
    <3>1. \A q \in Requests : answer'[q] = "data" => answer[q] = "data"
      BY <2>2 DEF BroadcastStep, BroadcastArrives, NodeTakes, CopyLost, AttemptFails, Again,
                  GivesUp, BroadcastAnswered, Reply, Told, BroadcastType
    <3> QED
      BY <2>1, <2>2, <3>1, FamiliesFrame
  <2>3. ASSUME NEW r \in Requests, LookupAnswered(r) PROVE LookupInv'
    <3>1. /\ UNCHANGED <<cache, old, batch, next, wpc, widx, results>>
          /\ answer' = [answer EXCEPT ![r] = "data"]
          /\ batch[r] # <<>> /\ \A w \in Workers : wpc[r][w] = "idle"
      BY <2>3 DEF LookupAnswered, lookups
    <3>2. Claimed(r)' /\ Covered(r)'
      BY <3>1 DEF LookupInv, Claimed, Covered, Working
    <3>3. \A q \in Requests : q # r => Claimed(q)' /\ Covered(q)'
      BY <3>1, LookupFrame DEF BroadcastType
    <3> QED
      BY <3>1, <3>2, <3>3 DEF LookupInv, LookupType, CacheInv
  <2>4. CASE EntryExpires
    <3>1. /\ UNCHANGED <<cache, batch, next, wpc, widx, results, answer>>
          /\ old' \subseteq cache
      BY <2>4 DEF EntryExpires, LookupInv, CacheInv
    <3>2. \A q \in Requests : Claimed(q)' /\ Covered(q)'
      BY <3>1, LookupFrame
    <3> QED
      BY <3>1, <3>2 DEF LookupInv, LookupType, CacheInv
  <2> QED
    BY <2>1, <2>2, <2>3, <2>4, FamiliesFrame, LookupArrivesKeeps, WorkerTakesKeeps,
       WorkerHearsKeeps DEF NextAll, LookupStep, all
<1> QED
  BY <1>1, <1>2, BroadcastHolds, PTL DEF SafeAll, BroadcastInv

\* However the workers of a batch interleave, no two work at one index together,
\* and the batch is answered only when every place has its outcome.
THEOREM BatchesAreComplete == SafeAll => []BatchIsComplete
<1>1. LookupInv => BatchIsComplete
  <2> SUFFICES ASSUME LookupInv, NEW r \in Requests
               PROVE  /\ \A v, w \in Workers :
                           v # w /\ Working(r, v) /\ Working(r, w) => widx[r][v] # widx[r][w]
                      /\ answer[r] = "data" => \A i \in 1..Len(batch[r]) : results[r][i] # "none"
    BY DEF BatchIsComplete, Working
  <2>1. \A v, w \in Workers :
          v # w /\ Working(r, v) /\ Working(r, w) => widx[r][v] # widx[r][w]
    BY DEF LookupInv, Claimed
  <2>2. ASSUME answer[r] = "data", NEW i \in 1..Len(batch[r]) PROVE results[r][i] # "none"
    <3>1. batch[r] # <<>> /\ \A w \in Workers : wpc[r][w] = "idle"
      BY <2>2 DEF LookupInv, Covered
    <3>2. ~(next[r] <= Len(batch[r]))
      BY <3>1 DEF LookupInv, Covered
    <3>3. next[r] \in Nat /\ Len(batch[r]) \in Nat
      BY DEF LookupInv, LookupType
    <3> QED
      BY <3>1, <3>2, <3>3 DEF LookupInv, Covered, Working
  <2> QED
    BY <2>1, <2>2
<1> QED
  BY <1>1, LookupHolds, PTL

-----------------------------------------------------------------------------
(* Types *)

ReadType == at \in [Requests -> Handlers \union {NoHandler}]

\* The reads keep their types.
LEMMA ReadTypeHolds == SafeAll => []ReadType
<1>1. InitAll => ReadType
  BY DEF InitAll, ReadType
<1>2. ReadType /\ [NextAll]_all => ReadType'
  BY FamiliesFrame, UpstreamFrame
  DEF NextAll, all, reads, ReadStep, ReadArrives, ReadFetches, ReadAnswered, ReadAborted,
      DirectArrives, DirectEnds, Expires, above, ReadType
<1> QED
  BY <1>1, <1>2, PTL DEF SafeAll

\* Every variable keeps its type, the queue and the cache their bounds: a cache
\* over its bound evicts at least the one entry that is too many.
THEOREM AllTypesCorrect == SafeAll => []TypeAll
<1>1. IInv /\ S!IInv /\ BroadcastInv /\ LookupInv /\ ReadType => TypeAll
  BY SameInvariant DEF IInv, BroadcastInv, BroadcastType, LookupInv, CacheInv, ReadType, TypeAll
<1> QED
  BY <1>1, LimitersHold, BroadcastHolds, LookupHolds, ReadTypeHolds, PTL

-----------------------------------------------------------------------------
(* The accounts and the payment requests *)

\* What the bot is about to say was the user's default at some moment of the command:
\* it has noted those that were since it asked.
Noted == \A u \in Users : talk[u] # Acc!Silent => Acc!DefaultsOf(u) \subseteq had[u]

\* The inductive invariant.
AccInv == Acc!TypeOK /\ Acc!OneDefault /\ Noted /\ Acc!SpeaksOfOwn

\* The clock runs in steps, and so does the time a request has.
ClockSound == Ttl \in Int /\ Acc!AccountsAssumption

\* It holds at first.
LEMMA AccInit == ASSUME ClockSound, Acc!Init PROVE AccInv
  BY DEF ClockSound, Acc!Init, AccInv, Acc!TypeOK, Acc!OneDefault, Noted, Acc!SpeaksOfOwn,
     Acc!NoRequest,
         Acc!Silent, Acc!AccountsAssumption, Acc!Open, Acc!Row

\* A user whose row is written.
LEMMA UpsertKeeps ==
  ASSUME AccInv, NEW u \in Users, NEW n \in Usernames \union {NoName}, Acc!Upsert(u, n),
         UNCHANGED <<now, sessions, owner, default, talk, had>>,
         request' \in [Bills -> Acc!Row]
  PROVE  AccInv'
<1>1. knownUsers' = knownUsers \union {u} /\ username' = [username EXCEPT ![u] = n]
  BY DEF Acc!Upsert
<1>2. Acc!TypeOK'
  BY <1>1 DEF AccInv, Acc!TypeOK
<1>3. Acc!OneDefault'
  BY <1>1 DEF AccInv, Acc!OneDefault
<1>4. Noted' /\ Acc!SpeaksOfOwn'
  BY DEF AccInv, Noted, Acc!SpeaksOfOwn, Acc!DefaultsOf
<1> QED BY <1>2, <1>3, <1>4 DEF AccInv

\* A default address that is set.
LEMMA DefaultKeeps ==
  ASSUME ClockSound, AccInv, NEW u \in Users, NEW a \in Addresses, Acc!SetDefaultAddress(u, a),
         UNCHANGED <<now, sessions, talk>>,
         request' \in [Bills -> Acc!Row]
  PROVE  AccInv'
<1> DEFINE D == {b \in default : owner[b] = u}
<1>1. /\ knownUsers' = knownUsers \union {u} /\ username' = [username EXCEPT ![u] = NoName]
      /\ default' = (default \ D) \union {a} /\ owner' = [owner EXCEPT ![a] = u]
      /\ \A v \in Users : had'[v] = IF talk[v] # Acc!Silent
                                    THEN had[v] \union (IF v = u THEN {a} ELSE {}) ELSE had[v]
      /\ had' \in [Users -> SUBSET Addresses]
  BY DEF Acc!SetDefaultAddress, Acc!Upsert, Acc!Marked, Acc!DefaultsOf, AccInv, Acc!TypeOK
<1> HIDE DEF D
<1>2. \A b \in Addresses : owner'[b] = IF b = a THEN u ELSE owner[b]
  BY <1>1 DEF AccInv, Acc!TypeOK
<1>3. Acc!TypeOK'
  BY <1>1 DEF AccInv, Acc!TypeOK
<1>4. Acc!OneDefault'
  <2>1. \A b \in default' : b \in Addresses /\ (b = a \/ (b \in default /\ owner[b] # u))
    BY <1>1 DEF AccInv, Acc!TypeOK, D
  <2>2. \A b, c \in default' : owner'[b] = owner'[c] => b = c
    BY <2>1, <1>2 DEF AccInv, Acc!OneDefault
  <2>3. \A b \in Addresses : owner'[b] # Nobody => owner'[b] \in knownUsers'
    BY <1>1, <1>2 DEF AccInv, Acc!OneDefault
  <2>4. \A b \in default' : owner'[b] # Nobody
    BY <2>1, <1>2 DEF AccInv, Acc!OneDefault, ClockSound, Acc!AccountsAssumption
  <2> QED BY <2>2, <2>3, <2>4 DEF Acc!OneDefault
<1>5. Noted'
  <2> SUFFICES ASSUME NEW v \in Users, talk[v] # Acc!Silent, NEW b \in default', owner'[b] = v
               PROVE  b \in had'[v]
    BY DEF Noted, Acc!DefaultsOf, Acc!Silent
  <2>1. b \in Addresses /\ (b = a \/ (b \in default /\ owner[b] # u))
    BY <1>1 DEF AccInv, Acc!TypeOK, D
  <2>2. CASE b = a
    BY <2>2, <1>1, <1>2
  <2>3. CASE b # a
    BY <2>1, <2>3, <1>1, <1>2 DEF AccInv, Noted, Acc!DefaultsOf
  <2> QED BY <2>2, <2>3
<1>6. Acc!SpeaksOfOwn'
  BY <1>1 DEF AccInv, Acc!SpeaksOfOwn
<1> QED BY <1>3, <1>4, <1>5, <1>6 DEF AccInv

\* A conversation's turn.
LEMMA TalkKeeps ==
  ASSUME AccInv, NEW u \in Users,
         UNCHANGED <<now, sessions, knownUsers, username, owner, default, request>>,
         \/ Acc!Answers(u) \/ (\E w \in {"address", "more"} : Acc!Begins(u, w)) \/ Acc!AddressArrives(u)
  PROVE  AccInv'
<1> USE DEF AccInv
<1>1. CASE Acc!Answers(u)
  BY <1>1 DEF Acc!Answers, Acc!TypeOK, Acc!OneDefault, Noted, Acc!SpeaksOfOwn, Acc!DefaultsOf,
     Acc!Silent
<1>2. ASSUME NEW w \in {"address", "more"}, Acc!Begins(u, w) PROVE AccInv'
  BY <1>2 DEF Acc!Begins, Acc!TypeOK, Acc!OneDefault, Noted, Acc!SpeaksOfOwn, Acc!DefaultsOf,
     Acc!Silent
<1>3. CASE Acc!AddressArrives(u)
  <2>1. CASE Acc!Answers(u)
    BY <2>1, <1>1
  <2>2. ASSUME NEW a \in Acc!DefaultsOf(u), talk' = [talk EXCEPT ![u].address = a], had' = had,
               talk[u] # Acc!Silent
        PROVE  AccInv'
    <3>1. a \in Addresses /\ a \in had[u]
      BY <2>2 DEF Acc!TypeOK, Noted, Acc!DefaultsOf
    <3>2. Acc!TypeOK'
      BY <2>2, <3>1 DEF Acc!TypeOK
    <3>3. Acc!SpeaksOfOwn'
      BY <2>2, <3>1 DEF Acc!TypeOK, Acc!SpeaksOfOwn
    <3>4. Noted' /\ Acc!OneDefault'
      BY <2>2 DEF Acc!TypeOK, Noted, Acc!OneDefault, Acc!DefaultsOf, Acc!Silent
    <3> QED BY <3>2, <3>3, <3>4
  <2> QED BY <1>3, <2>1, <2>2 DEF Acc!AddressArrives
<1> QED BY <1>1, <1>2, <1>3

\* Every step keeps the invariant.
LEMMA AccNext == ASSUME ClockSound, AccInv, [Acc!Next]_(Acc!vars) PROVE AccInv'
<1> USE DEF AccInv
<1>1. ASSUME UNCHANGED Acc!vars PROVE AccInv'
  BY <1>1 DEF Acc!vars, Acc!tables, Acc!chat, Acc!TypeOK, Acc!OneDefault, Noted,
     Acc!SpeaksOfOwn, Acc!DefaultsOf
<1>2. ASSUME (\E u \in Users : Acc!Authenticate(u)) \/ Acc!TokenExpires PROVE AccInv'
  BY <1>2 DEF Acc!Authenticate, Acc!TokenExpires, Acc!tables, Acc!chat, Acc!TypeOK,
     Acc!OneDefault, Noted, Acc!SpeaksOfOwn, Acc!DefaultsOf
<1>3. ASSUME NEW u \in Users, Acc!UpsertProfile(u) \/ Acc!StartCommand(u) PROVE AccInv'
  BY <1>3, UpsertKeeps DEF Acc!UpsertProfile, Acc!StartCommand, Acc!chat, Acc!TypeOK
<1>4. ASSUME NEW u \in Users, NEW a \in Addresses, Acc!ChangeDefault(u, a) PROVE AccInv'
  <2>1. request' = request BY <1>4 DEF Acc!ChangeDefault
  <2>2. request' \in [Bills -> Acc!Row]
     BY <2>1 DEF Acc!TypeOK
  <2>3. CASE Acc!SetDefaultAddress(u, a)
    BY <1>4, <2>2, <2>3, DefaultKeeps DEF Acc!ChangeDefault
  <2>4. CASE Acc!Upsert(u, NoName) /\ UNCHANGED <<owner, default, had>>
    BY <1>4, <2>2, <2>4, UpsertKeeps DEF Acc!ChangeDefault
  <2> QED BY <1>4, <2>3, <2>4 DEF Acc!ChangeDefault
<1>5. ASSUME NEW u \in Users, NEW q \in Bills, NEW v \in Users, Acc!CreateRequest(u, q, v)
      PROVE  AccInv'
  <2>1. request' \in [Bills -> Acc!Row]
     BY <1>5 DEF Acc!TypeOK, Acc!CreateRequest, ClockSound, Acc!Open, Acc!Row
  <2> QED BY <1>5, <2>1, UpsertKeeps DEF Acc!CreateRequest, Acc!chat
<1>6. ASSUME NEW u \in Users, NEW q \in Bills, NEW a \in Addresses, Acc!ClaimRequest(u, q, a)
      PROVE  AccInv'
  <2>1. request' \in [Bills -> Acc!Row]
    <3>1. request' \in {[request EXCEPT ![q] = [@ EXCEPT !.status = "claimed", !.address = a]],
                        [request EXCEPT ![q] = [@ EXCEPT !.status = "expired"]]}
      BY <1>6 DEF Acc!ClaimRequest, Acc!Expire
    <3>2. \A r \in Acc!Row : [r EXCEPT !.status = "claimed", !.address = a] \in Acc!Row
      BY DEF Acc!Row, Acc!Open
    <3>3. \A r \in Acc!Row : [r EXCEPT !.status = "expired"] \in Acc!Row
      BY DEF Acc!Row, Acc!Open
    <3>4. request[q] \in Acc!Row
      BY DEF Acc!TypeOK
    <3> QED
      BY <3>1, <3>2, <3>3, <3>4 DEF Acc!TypeOK
  <2>2. CASE Acc!Over(q)
     BY <1>6, <2>1, <2>2 DEF Acc!ClaimRequest, Acc!TypeOK, Acc!OneDefault, Noted,
        Acc!SpeaksOfOwn, Acc!DefaultsOf
  <2>3. CASE ~Acc!Over(q)
     BY <1>6, <2>1, <2>3, DefaultKeeps DEF Acc!ClaimRequest
  <2> QED BY <2>2, <2>3
<1>7. ASSUME NEW q \in Bills, Acc!ReadRequest(q) PROVE AccInv'
  <2>1. request' \in [Bills -> Acc!Row]
    <3>1. request' = [request EXCEPT ![q] = [@ EXCEPT !.status = "expired"]]
      BY <1>7 DEF Acc!ReadRequest, Acc!Expire
    <3>2. [request[q] EXCEPT !.status = "expired"] \in Acc!Row
      BY DEF Acc!TypeOK, Acc!Row, Acc!Open
    <3> QED
      BY <3>1, <3>2 DEF Acc!TypeOK
  <2> QED
     BY <1>7, <2>1 DEF Acc!ReadRequest, Acc!chat, Acc!TypeOK, Acc!OneDefault, Noted,
        Acc!SpeaksOfOwn, Acc!DefaultsOf
<1>8. ASSUME NEW u \in Users,
             \/ Acc!BalanceCommand(u) \/ Acc!HistoryCommand(u) \/ Acc!DepositCommand(u)
             \/ Acc!BalanceButton(u) \/ Acc!HistoryButton(u) \/ Acc!DepositButton(u)
             \/ Acc!AddressArrives(u) \/ Acc!Told(u) \/ Acc!Breaks(u)
      PROVE AccInv'
  BY <1>8, TalkKeeps DEF Acc!BalanceCommand, Acc!HistoryCommand, Acc!DepositCommand,
     Acc!BalanceButton, Acc!HistoryButton,
     Acc!DepositButton, Acc!AddressArrives, Acc!Told, Acc!Breaks, Acc!Begins, Acc!Answers,
     Acc!tables
<1>9. ASSUME Acc!Tick PROVE AccInv'
  BY <1>9 DEF Acc!Tick, Acc!tables, Acc!chat, Acc!TypeOK, Acc!OneDefault, Noted,
     Acc!SpeaksOfOwn, Acc!DefaultsOf
<1>10. ASSUME Acc!Restart PROVE AccInv'
  BY <1>10 DEF Acc!Restart, Acc!tables, Acc!Silent, Acc!TypeOK, Acc!OneDefault, Noted,
     Acc!SpeaksOfOwn, Acc!DefaultsOf
<1> QED
  BY <1>1, <1>2, <1>3, <1>4, <1>5, <1>6, <1>7, <1>8, <1>9, <1>10 DEF Acc!Next

\* A request is claimed once, by the one asked and before it is over, or it expires after that.
LEMMA Settles ==
  ASSUME AccInv, [Acc!Next]_(Acc!vars)
  PROVE  Acc!SettledOnce \/ UNCHANGED Acc!vars
<1> SUFFICES ASSUME Acc!Next, NEW q \in Bills, request'[q] # request[q]
             PROVE  /\ request[q].status \notin {"claimed", "expired"}
                    /\ request'[q].status = "claimed" =>
                         /\ request[q].status = "pending" /\ now <= request[q].due
                         /\ request[q].to \in sessions
                         /\ request'[q].address \in default' /\ owner'[request'[q].address] = request[q].to
                    /\ request'[q].status = "expired" => request[q].due < now
  BY DEF Acc!SettledOnce
<1>1. CASE \E u, v \in Users : Acc!CreateRequest(u, q, v)
  BY <1>1 DEF Acc!CreateRequest, Acc!NoRequest, AccInv, Acc!TypeOK
<1>2. ASSUME NEW u \in Users, NEW a \in Addresses, Acc!ClaimRequest(u, q, a)
      PROVE  /\ request[q].status = "pending" /\ request[q].to = u /\ u \in sessions
             /\ request'[q].status = "claimed" => 
                  now <= request[q].due /\ request'[q].address = a /\ a \in default' /\ owner'[a] = u
             /\ request'[q].status = "expired" => request[q].due < now
  <2>1. /\ request[q].status = "pending" /\ request[q].to = u /\ u \in sessions
        /\ request[q].due \in Int /\ now \in Nat
    BY <1>2 DEF Acc!ClaimRequest, Acc!Claimable, Acc!requireAuth, AccInv, Acc!TypeOK, Acc!Row
  <2>2. CASE Acc!Over(q)
    <3>1. request'[q] = [request[q] EXCEPT !.status = "expired"]
      BY <1>2, <2>2 DEF Acc!ClaimRequest, Acc!Expire, AccInv, Acc!TypeOK
    <3>2. request[q] \in Acc!Row
      BY DEF AccInv, Acc!TypeOK
    <3>3. request'[q].status = "expired"
      BY <3>1, <3>2 DEF Acc!Row
    <3> QED
      BY <2>1, <2>2, <3>3 DEF Acc!Over
  <2>3. CASE ~Acc!Over(q)
    <3>1. request'[q] = [request[q] EXCEPT !.status = "claimed", !.address = a]
      BY <1>2, <2>3 DEF Acc!ClaimRequest, AccInv, Acc!TypeOK
    <3>2. a \in default' /\ owner'[a] = u
      BY <1>2, <2>3 DEF Acc!ClaimRequest, Acc!SetDefaultAddress, Acc!Marked, AccInv, Acc!TypeOK
    <3>3. request[q] \in Acc!Row
      BY DEF AccInv, Acc!TypeOK
    <3>4. request'[q].status = "claimed" /\ request'[q].address = a
      BY <3>1, <3>3 DEF Acc!Row
    <3> QED
      BY <2>1, <2>3, <3>2, <3>4 DEF Acc!Over
  <2> QED
    BY <2>2, <2>3
<1>3. CASE Acc!ReadRequest(q)
  BY <1>3 DEF Acc!ReadRequest, Acc!Over, Acc!Expire, AccInv, Acc!TypeOK
<1>4. \/ \E u, v \in Users : Acc!CreateRequest(u, q, v)
      \/ \E u \in Users, a \in Addresses : Acc!ClaimRequest(u, q, a)
      \/ Acc!ReadRequest(q)
  <2>1. ASSUME request' = request PROVE FALSE BY <2>1
  <2>2. ASSUME NEW r \in Bills, r # q
        PROVE  /\ \A u, v \in Users : ~Acc!CreateRequest(u, r, v)
               /\ \A u \in Users, a \in Addresses : ~Acc!ClaimRequest(u, r, a)
               /\ ~Acc!ReadRequest(r)
    BY <2>2 DEF Acc!CreateRequest, Acc!ClaimRequest, Acc!ReadRequest, Acc!Expire, AccInv,
       Acc!TypeOK
  <2>3. ASSUME NEW u \in Users,
               \/ Acc!Authenticate(u) \/ Acc!UpsertProfile(u) \/ Acc!StartCommand(u)
               \/ (\E a \in Addresses : Acc!ChangeDefault(u, a))
        PROVE  FALSE
    BY <2>1, <2>3 DEF Acc!Authenticate, Acc!UpsertProfile, Acc!StartCommand, Acc!ChangeDefault,
       Acc!tables
  <2>4. ASSUME NEW u \in Users,
               \/ Acc!BalanceCommand(u) \/ Acc!HistoryCommand(u) \/ Acc!DepositCommand(u)
               \/ Acc!BalanceButton(u) \/ Acc!HistoryButton(u) \/ Acc!DepositButton(u)
               \/ Acc!AddressArrives(u) \/ Acc!Told(u) \/ Acc!Breaks(u)
        PROVE  FALSE
    BY <2>1, <2>4 DEF Acc!BalanceCommand, Acc!HistoryCommand, Acc!DepositCommand,
       Acc!BalanceButton,
         Acc!HistoryButton, Acc!DepositButton, Acc!AddressArrives, Acc!Told, Acc!Breaks,
         Acc!Begins,
         Acc!Answers, Acc!tables
  <2>5. ~(Acc!TokenExpires \/ Acc!Tick \/ Acc!Restart)
    BY <2>1 DEF Acc!TokenExpires, Acc!Tick, Acc!Restart, Acc!tables
  <2>6. \/ \E u \in Users, r \in Bills, v \in Users : Acc!CreateRequest(u, r, v)
        \/ \E u \in Users, r \in Bills, a \in Addresses : Acc!ClaimRequest(u, r, a)
        \/ \E r \in Bills : Acc!ReadRequest(r)
    BY <2>3, <2>4, <2>5 DEF Acc!Next
  <2> QED BY <2>2, <2>6
<1> QED BY <1>1, <1>2, <1>3, <1>4

\* The invariant holds in every reachable state.
LEMMA AccHolds == ASSUME ClockSound PROVE Acc!Spec => []AccInv
<1>1. Acc!Init => AccInv
  BY AccInit
<1>2. AccInv /\ [Acc!Next]_(Acc!vars) => AccInv'
  BY AccNext
<1> QED
  BY <1>1, <1>2, PTL DEF Acc!Spec

\* Every variable of Accounts keeps its type, whatever requests, expiries and restarts there are.
THEOREM AccountsTyped == ASSUME ClockSound PROVE Acc!Spec => []Acc!TypeOK
<1>1. AccInv => Acc!TypeOK
  BY DEF AccInv
<1> QED
  BY <1>1, AccHolds, PTL

\* The bot speaks to a user only of an address that was the user's default at some moment of the
\* command, although addresses move from one user to another.
THEOREM OwnAddressTold == ASSUME ClockSound PROVE Acc!Spec => []Acc!SpeaksOfOwn
<1>1. AccInv => Acc!SpeaksOfOwn
  BY DEF AccInv
<1> QED
  BY <1>1, AccHolds, PTL

\* A user has at most one default address, and an address belongs to a user that is known, for any
\* users and addresses, however often an address moves from one user to another.
THEOREM OneDefaultEach == ASSUME ClockSound PROVE Acc!Spec => []OneDefault
<1>1. AccInv => OneDefault
  BY DEF AccInv, OneDefault
<1> QED
  BY <1>1, AccHolds, PTL

\* A payment request is settled once and for all.
THEOREM ClaimsSettle == ASSUME ClockSound PROVE Acc!Spec => ClaimsAreFinal
<1>1. AccInv /\ [Acc!Next]_(Acc!vars) => [Acc!SettledOnce]_(Acc!vars)
  BY Settles
<1> QED
  BY <1>1, AccHolds, PTL DEF Acc!Spec, ClaimsAreFinal, Acc!ClaimsAreFinal

-----------------------------------------------------------------------------
(* The send page *)

\* The node has spent an output.
Spent(c) == life[c] \in {"stale", "gone"}

\* The gateway has listed it at some time.
Seen(c) == life[c] \in {"open", "stale", "gone"}

\* What is marked or told is spent, and so is what an accepted transaction takes.
Truthful ==
    /\ \A c \in marks \union told : Spent(c)
    /\ \A j \in Jobs : /\ verdict[j] # "none" => point[j] = "broadcasting"
                       /\ verdict[j] = "accepted" => \A c \in ins[j] : Spent(c)

\* Jobs know only what has been listed.
Shown == \A j \in Jobs : \A c \in shown[j] \union ins[j] : Seen(c)

\* A page that sends is busy, unless a refresh has made it forget.
Busy ==
    \A j \in Jobs :
      point[j] \in Page!Sending /\ here[j] /\ tab[j] \notin reopened => phase[tab[j]] \in Page!BusyPhases

\* Jobs whose listing has arrived.
Arrived == {j \in Jobs : point[j] \in {"listed", "relisted"}}

\* While listings have come one at a time, what somebody was told he spent and the gateway still
\* lists has its mark; and a listing on its way has in it whatever is being spent, and a mark for
\* what is known to be spent.
InTurn ==
    ~overlap =>
      /\ \A j, k \in Jobs : point[j] \in Page!Listing /\ point[k] \in Page!Listing => j = k
      /\ \A c \in told : life[c] \in {"open", "stale"} => c \in marks
      /\ \A j \in Arrived : /\ \A c \in told : c \in shown[j] => c \in marks
                            /\ \A c \in told : c \in shown[j] \/ life[c] = "gone"
                            /\ \A k \in Jobs : \A c \in ins[k] : c \in shown[j] \/ life[c] = "gone"

\* The inductive invariant.
PageInv == Page!TypeOK /\ Truthful /\ Shown /\ Busy /\ Page!OneSendPerTab /\ InTurn

\* There is a tab, and what the model assumes of its constants.
PageSound == Tabs # {} /\ Page!PageAssumption

\* The tab of a job that is free.
Unit == Page!SomeTab \in Tabs

\* A listing that arrives ends the job, lets it wait, or makes it select from it.
LEMMA Selects ==
  ASSUME NEW j \in Jobs, Page!SendListed(j)
  PROVE  \/ Page!Fails(j)
         \/ /\ Page!Go(j, "pause") /\ UNCHANGED <<phase, tab, here, ins, erred, verdict>>
            /\ shown' = [shown EXCEPT ![j] = {}]
         \/ \E picks \in SUBSET (shown[j] \ marks) :
              /\ ins' = [ins EXCEPT ![j] = picks] /\ shown' = [shown EXCEPT ![j] = {}]
              /\ Page!Go(j, "fetching") /\ Page!Shows(j, "fetching")
              /\ UNCHANGED <<tab, here, erred, verdict>>
  BY DEF Page!SendListed, Page!Selections, Page!Kept

\* A listing that is begun is the only one, as long as they come one at a time.
LEMMA ListsKeeps ==
  ASSUME InTurn, Page!TypeOK, NEW j \in Jobs, NEW s \in {"listing", "relisting"}, Page!Lists(j, s),
         point[j] \notin Page!Listing, UNCHANGED <<shown, ins, marks, life, told>>
  PROVE  InTurn'
<1> SUFFICES ASSUME ~overlap' PROVE InTurn'
  BY DEF InTurn
<1>1. ~overlap /\ \A k \in Jobs \ {j} : point[k] \notin Page!Listing
  BY DEF Page!Lists
<1>2. point' = [point EXCEPT ![j] = s]
  BY DEF Page!Lists, Page!Go
<1>3. \A k \in Jobs : point'[k] = IF k = j THEN s ELSE point[k]
  BY <1>2 DEF Page!TypeOK
<1>4. Arrived' = {}
  BY <1>1, <1>3 DEF Arrived, Page!Listing
<1>5. \A i, k \in Jobs : point'[i] \in Page!Listing /\ point'[k] \in Page!Listing => i = k
  BY <1>1, <1>3
<1> QED
  BY <1>1, <1>4, <1>5 DEF InTurn

\* Send is pressed.
LEMMA PressSendKeeps ==
  ASSUME Unit, PageInv, NEW t \in Tabs, NEW j \in Jobs, Page!PressSend(t, j)
  PROVE  PageInv'
<1> USE DEF PageInv, Page!TypeOK, Page!PressSend, Page!Enabled, Page!Lists, Page!Shows, Page!Show, Page!Go,
Page!gateway
<1>1. Page!TypeOK'
  BY DEF Unit, Page!Phases, Page!Sending, Page!Listing, Page!Spending
<1>2. Truthful'
  BY DEF Truthful, Spent
<1>3. Shown'
  BY DEF Shown, Seen
<1>4. Busy' /\ Page!OneSendPerTab'
  BY DEF Busy, Page!OneSendPerTab, Page!Sending, Page!Spending, Page!Listing, Page!BusyPhases
<1>5. InTurn'
  BY ListsKeeps DEF Page!Listing
<1> QED BY <1>1, <1>2, <1>3, <1>4, <1>5

\* Refresh is pressed.
LEMMA PressRefreshKeeps ==
  ASSUME Unit, PageInv, NEW t \in Tabs, NEW j \in Jobs, Page!PressRefresh(t, j)
  PROVE  PageInv'
<1> USE DEF PageInv, Page!TypeOK, Page!PressRefresh, Page!Enabled, Page!Lists, Page!Go,
Page!gateway
<1>1. Page!TypeOK'
  BY DEF Unit, Page!Phases, Page!Sending, Page!Listing, Page!Spending
<1>2. Truthful'
  BY DEF Truthful, Spent
<1>3. Shown'
  BY DEF Shown, Seen
<1>4. Busy' /\ Page!OneSendPerTab'
  BY DEF Busy, Page!OneSendPerTab, Page!Sending, Page!Spending, Page!Listing, Page!BusyPhases
<1>5. InTurn'
  BY ListsKeeps DEF Page!Listing
<1> QED BY <1>1, <1>2, <1>3, <1>4, <1>5

\* The listing of a send has come: it fails, waits, or selects.
LEMMA SendListedKeeps ==
  ASSUME Unit, PageInv, NEW j \in Jobs, Page!SendListed(j)
  PROVE  PageInv'
<1> USE DEF PageInv
<1>1. Page!TypeOK'
  <2>1. shown[j] \in SUBSET Coins /\ marks' \in SUBSET Coins
    BY DEF Page!SendListed, Page!Kept, Page!TypeOK
  <2>2. CASE Page!Fails(j)
    BY <2>1, <2>2 DEF Page!SendListed, Page!Fails, Page!Ends, Page!Shows, Page!Show, Page!Go, Page!history,
       Unit, Page!TypeOK, Page!Phases
  <2>3. CASE /\ Page!Go(j, "pause") /\ UNCHANGED <<phase, tab, here, ins, erred, verdict>>
             /\ shown' = [shown EXCEPT ![j] = {}]
    BY <2>1, <2>3 DEF Page!SendListed, Page!Go, Page!history, Page!TypeOK, Page!Sending
  <2>4. ASSUME NEW picks \in SUBSET Coins, ins' = [ins EXCEPT ![j] = picks],
               shown' = [shown EXCEPT ![j] = {}],
               Page!Go(j, "fetching"), Page!Shows(j, "fetching"), UNCHANGED <<tab, here, erred, verdict>>
        PROVE  Page!TypeOK'
    BY <2>1, <2>4 DEF Page!SendListed, Page!Go, Page!Shows, Page!Show, Page!history, Page!TypeOK,
       Page!Sending, Page!Spending, Page!Phases
  <2> QED
    BY <2>1, <2>2, <2>3, <2>4, Selects
<1>2. Truthful'
  BY DEF Page!SendListed, Page!Fails, Page!Ends, Page!Kept, Page!Selections, Page!Shows, Page!Show, Page!Go,
     Page!history, Truthful, Spent, Page!TypeOK
<1>3. Shown'
  BY DEF Page!SendListed, Page!Fails, Page!Ends, Page!Kept, Page!Selections, Page!Shows, Page!Show, Page!Go,
     Page!history, Shown, Seen, Page!TypeOK
<1>4. Busy'
  BY DEF Page!SendListed, Page!Fails, Page!Ends, Page!Kept, Page!Selections, Page!Shows, Page!Show, Page!Go,
     Page!history, Busy, Page!OneSendPerTab, Page!TypeOK, Page!Sending, Page!Spending,
     Page!BusyPhases, Page!Listing
<1>5. Page!OneSendPerTab'
  BY DEF Page!SendListed, Page!Fails, Page!Ends, Page!Kept, Page!Selections, Page!Shows, Page!Show, Page!Go,
     Page!history, Busy, Page!OneSendPerTab, Page!TypeOK, Page!Sending, Page!Spending,
     Page!BusyPhases, Page!Listing
<1>6. InTurn'
  <2> SUFFICES ASSUME ~overlap' PROVE InTurn'
    BY DEF InTurn
  <2>1. /\ point[j] = "listed" /\ marks' = marks \intersect shown[j]
        /\ UNCHANGED <<life, told, overlap>>
    BY DEF Page!SendListed, Page!Kept, Page!history
  <2>2. \E s \in {"free", "pause", "fetching"} : point' = [point EXCEPT ![j] = s]
    BY Selects DEF Page!Fails, Page!Ends, Page!Go
  <2>3. \A i \in Jobs : point'[i] \notin Page!Listing
    BY <2>1, <2>2 DEF InTurn, Page!TypeOK, Page!Listing
  <2>4. Arrived' = {}
    BY <2>3 DEF Arrived, Page!Listing
  <2>5. j \in Arrived
    BY <2>1 DEF Arrived
  <2>6. \A c \in told : life[c] \in {"open", "stale"} => c \in marks /\ c \in shown[j]
    BY <2>1, <2>5 DEF InTurn
  <2> QED BY <2>1, <2>3, <2>4, <2>6 DEF InTurn
<1> QED BY <1>1, <1>2, <1>3, <1>4, <1>5, <1>6

\* It lists again after its pause.
LEMMA ResumeKeeps == ASSUME Unit, PageInv, NEW j \in Jobs, Page!Resume(j) PROVE PageInv'
<1> USE DEF PageInv, Page!TypeOK, Page!Resume, Page!Lists, Page!Go, Page!gateway
<1>1. Page!TypeOK'
  BY DEF Unit, Page!Phases, Page!Sending, Page!Listing, Page!Spending
<1>2. Truthful'
  BY DEF Truthful, Spent
<1>3. Shown'
  BY DEF Shown, Seen
<1>4. Busy' /\ Page!OneSendPerTab'
  BY DEF Busy, Page!OneSendPerTab, Page!Sending, Page!Spending, Page!Listing, Page!BusyPhases
<1>5. InTurn'
  BY ListsKeeps DEF Page!Listing
<1> QED BY <1>1, <1>2, <1>3, <1>4, <1>5

\* A send fails.
LEMMA SendFailsKeeps ==
  ASSUME Unit, PageInv, NEW j \in Jobs, Page!SendFails(j)
  PROVE  PageInv'
<1> USE DEF PageInv, Page!TypeOK, Page!SendFails, Page!Fails, Page!Ends, Page!Shows, Page!Show, Page!Go,
Page!history
<1>1. Page!TypeOK'
  BY DEF Unit, Page!Phases, Page!Sending, Page!Listing, Page!Spending
<1>2. Truthful'
  BY DEF Truthful, Spent
<1>3. Shown'
  BY DEF Shown, Seen
<1>4. Busy' /\ Page!OneSendPerTab'
  BY DEF Busy, Page!OneSendPerTab, Page!Sending, Page!Spending, Page!Listing, Page!BusyPhases
<1>5. InTurn'
  BY DEF InTurn, Arrived, Truthful, Shown, Spent, Seen, Page!Listing, Page!Sending,
     Page!Spending
<1> QED BY <1>1, <1>2, <1>3, <1>4, <1>5

\* The transactions spent from have come.
LEMMA PreviousFetchedKeeps ==
  ASSUME Unit, PageInv, NEW j \in Jobs, Page!PreviousFetched(j)
  PROVE  PageInv'
<1> USE DEF PageInv, Page!TypeOK, Page!PreviousFetched, Page!Shows, Page!Show, Page!Go, Page!gateway,
Page!history
<1>1. Page!TypeOK'
  BY DEF Unit, Page!Phases, Page!Sending, Page!Listing, Page!Spending
<1>2. Truthful'
  BY DEF Truthful, Spent
<1>3. Shown'
  BY DEF Shown, Seen
<1>4. Busy' /\ Page!OneSendPerTab'
  BY DEF Busy, Page!OneSendPerTab, Page!Sending, Page!Spending, Page!Listing, Page!BusyPhases
<1>5. InTurn'
  BY DEF InTurn, Arrived, Truthful, Shown, Spent, Seen, Page!Listing, Page!Sending,
     Page!Spending
<1> QED BY <1>1, <1>2, <1>3, <1>4, <1>5

\* The transaction is signed.
LEMMA SignKeeps == ASSUME Unit, PageInv, NEW j \in Jobs, Page!Sign(j) PROVE PageInv'
<1> USE DEF PageInv, Page!TypeOK, Page!Sign, Page!Shows, Page!Show, Page!Go, Page!gateway, Page!history
<1>1. Page!TypeOK'
  BY DEF Unit, Page!Phases, Page!Sending, Page!Listing, Page!Spending
<1>2. Truthful'
  BY DEF Truthful, Spent
<1>3. Shown'
  BY DEF Shown, Seen
<1>4. Busy' /\ Page!OneSendPerTab'
  BY DEF Busy, Page!OneSendPerTab, Page!Sending, Page!Spending, Page!Listing, Page!BusyPhases
<1>5. InTurn'
  BY DEF InTurn, Arrived, Truthful, Shown, Spent, Seen, Page!Listing, Page!Sending,
     Page!Spending
<1> QED BY <1>1, <1>2, <1>3, <1>4, <1>5

\* The broadcast is answered: what was accepted is spent, marked and told.
LEMMA AnsweredKeeps == ASSUME Unit, PageInv, NEW j \in Jobs, Page!Answered(j) PROVE PageInv'
<1> USE DEF PageInv, Page!TypeOK, Page!Answered, Page!Saved, Page!Ends, Page!Shows, Page!Show, Page!Go
<1>1. Page!TypeOK'
  BY DEF Unit, Page!Phases, Page!Sending, Page!Listing, Page!Spending
<1>2. Truthful'
  BY DEF Truthful, Spent
<1>3. Shown'
  BY DEF Shown, Seen
<1>4. Busy' /\ Page!OneSendPerTab'
  BY DEF Busy, Page!OneSendPerTab, Page!Sending, Page!Spending, Page!Listing, Page!BusyPhases
<1>5. InTurn'
  BY DEF InTurn, Arrived, Truthful, Shown, Spent, Seen, Page!Listing, Page!Sending,
     Page!Spending
<1> QED BY <1>1, <1>2, <1>3, <1>4, <1>5

\* No answer to the broadcast.
LEMMA UnansweredKeeps ==
  ASSUME Unit, PageInv, NEW j \in Jobs, Page!Unanswered(j)
  PROVE  PageInv'
<1> USE DEF PageInv, Page!TypeOK, Page!Unanswered, Page!Fails, Page!Ends, Page!Shows, Page!Show, Page!Go,
Page!history
<1>1. Page!TypeOK'
  BY DEF Unit, Page!Phases, Page!Sending, Page!Listing, Page!Spending
<1>2. Truthful'
  BY DEF Truthful, Spent
<1>3. Shown'
  BY DEF Shown, Seen
<1>4. Busy' /\ Page!OneSendPerTab'
  BY DEF Busy, Page!OneSendPerTab, Page!Sending, Page!Spending, Page!Listing, Page!BusyPhases
<1>5. InTurn'
  BY DEF InTurn, Arrived, Truthful, Shown, Spent, Seen, Page!Listing, Page!Sending,
     Page!Spending
<1> QED BY <1>1, <1>2, <1>3, <1>4, <1>5

\* The listing of a refresh has come.
LEMMA PageRefreshListedKeeps ==
  ASSUME Unit, PageInv, NEW j \in Jobs, Page!RefreshListed(j)
  PROVE  PageInv'
<1> USE DEF PageInv, Page!TypeOK, Page!RefreshListed, Page!Kept, Page!Go, Page!gateway,
Page!history
<1>1. Page!TypeOK'
  BY DEF Unit, Page!Phases, Page!Sending, Page!Listing, Page!Spending
<1>2. Truthful'
  BY DEF Truthful, Spent
<1>3. Shown'
  BY DEF Shown, Seen
<1>4. Busy' /\ Page!OneSendPerTab'
  BY DEF Busy, Page!OneSendPerTab, Page!Sending, Page!Spending, Page!Listing, Page!BusyPhases
<1>5. InTurn'
  BY DEF InTurn, Arrived, Truthful, Shown, Spent, Seen, Page!Listing, Page!Sending,
     Page!Spending
<1> QED BY <1>1, <1>2, <1>3, <1>4, <1>5

\* A refresh fails.
LEMMA PageRefreshFailsKeeps ==
  ASSUME Unit, PageInv, NEW j \in Jobs, Page!RefreshFails(j)
  PROVE  PageInv'
<1> USE DEF PageInv, Page!TypeOK, Page!RefreshFails, Page!Go, Page!gateway, Page!history
<1>1. Page!TypeOK'
  BY DEF Unit, Page!Phases, Page!Sending, Page!Listing, Page!Spending
<1>2. Truthful'
  BY DEF Truthful, Spent
<1>3. Shown'
  BY DEF Shown, Seen
<1>4. Busy' /\ Page!OneSendPerTab'
  BY DEF Busy, Page!OneSendPerTab, Page!Sending, Page!Spending, Page!Listing, Page!BusyPhases
<1>5. InTurn'
  BY DEF InTurn, Arrived, Truthful, Shown, Spent, Seen, Page!Listing, Page!Sending,
     Page!Spending
<1> QED BY <1>1, <1>2, <1>3, <1>4, <1>5

\* A refresh is done.
LEMMA PageRefreshDoneKeeps ==
  ASSUME Unit, PageInv, NEW j \in Jobs, Page!RefreshDone(j)
  PROVE  PageInv'
<1> USE DEF PageInv, Page!TypeOK, Page!RefreshDone, Page!Sends, Page!Ends, Page!Shows, Page!Show, Page!Go
<1>1. Page!TypeOK'
  BY DEF Unit, Page!Phases, Page!Sending, Page!Listing, Page!Spending
<1>2. Truthful'
  BY DEF Truthful, Spent
<1>3. Shown'
  BY DEF Shown, Seen
<1>4. Busy' /\ Page!OneSendPerTab'
  BY DEF Busy, Page!OneSendPerTab, Page!Sending, Page!Spending, Page!Listing, Page!BusyPhases
<1>5. InTurn'
  BY DEF InTurn, Arrived, Truthful, Shown, Spent, Seen, Page!Listing, Page!Sending,
     Page!Spending
<1> QED BY <1>1, <1>2, <1>3, <1>4, <1>5

\* The form is edited.
LEMMA EditKeeps == ASSUME Unit, PageInv, NEW t \in Tabs, Page!Edit(t) PROVE PageInv'
<1> USE DEF PageInv, Page!TypeOK, Page!Edit, Page!Enabled, Page!Shows, Page!Show, Page!gateway, Page!history
<1>1. Page!TypeOK'
  BY DEF Unit, Page!Phases, Page!Sending, Page!Listing, Page!Spending
<1>2. Truthful'
  BY DEF Truthful, Spent
<1>3. Shown'
  BY DEF Shown, Seen
<1>4. Busy' /\ Page!OneSendPerTab'
  BY DEF Busy, Page!OneSendPerTab, Page!Sending, Page!Spending, Page!Listing, Page!BusyPhases
<1>5. InTurn'
  BY DEF InTurn, Arrived, Truthful, Shown, Spent, Seen, Page!Listing, Page!Sending,
     Page!Spending
<1> QED BY <1>1, <1>2, <1>3, <1>4, <1>5

\* The page is loaded again.
LEMMA ReloadKeeps == ASSUME Unit, PageInv, NEW t \in Tabs, Page!Reload(t) PROVE PageInv'
<1> USE DEF PageInv, Page!TypeOK, Page!Reload, Page!Shows, Page!Show
<1>1. Page!TypeOK'
  BY DEF Unit, Page!Phases, Page!Sending, Page!Listing, Page!Spending
<1>2. Truthful'
  BY DEF Truthful, Spent
<1>3. Shown'
  BY DEF Shown, Seen
<1>4. Busy' /\ Page!OneSendPerTab'
  BY DEF Busy, Page!OneSendPerTab, Page!Sending, Page!Spending, Page!Listing, Page!BusyPhases
<1>5. InTurn'
  BY DEF InTurn, Arrived, Truthful, Shown, Spent, Seen, Page!Listing, Page!Sending,
     Page!Spending
<1> QED BY <1>1, <1>2, <1>3, <1>4, <1>5

\* The page is left, and its jobs go on.
LEMMA LeaveKeeps == ASSUME Unit, PageInv, NEW t \in Tabs, Page!Leave(t) PROVE PageInv'
<1> USE DEF PageInv, Page!TypeOK, Page!Leave, Page!Show, Page!gateway
<1>1. Page!TypeOK'
  BY DEF Unit, Page!Phases, Page!Sending, Page!Listing, Page!Spending
<1>2. Truthful'
  BY DEF Truthful, Spent
<1>3. Shown'
  BY DEF Shown, Seen
<1>4. Busy' /\ Page!OneSendPerTab'
  BY DEF Busy, Page!OneSendPerTab, Page!Sending, Page!Spending, Page!Listing, Page!BusyPhases
<1>5. InTurn'
  BY DEF InTurn, Arrived, Truthful, Shown, Spent, Seen, Page!Listing, Page!Sending,
     Page!Spending
<1> QED BY <1>1, <1>2, <1>3, <1>4, <1>5

\* A mark expires: the gateway no longer lists the output.
LEMMA MarkExpiresKeeps == ASSUME Unit, PageInv, Page!MarkExpires PROVE PageInv'
<1> USE DEF PageInv, Page!TypeOK, Page!MarkExpires, Page!page, Page!gateway
<1>1. Page!TypeOK'
  BY DEF Unit, Page!Phases, Page!Sending, Page!Listing, Page!Spending
<1>2. Truthful'
  BY DEF Truthful, Spent
<1>3. Shown'
  BY DEF Shown, Seen
<1>4. Busy' /\ Page!OneSendPerTab'
  BY DEF Busy, Page!OneSendPerTab, Page!Sending, Page!Spending, Page!Listing, Page!BusyPhases
<1>5. InTurn'
  BY DEF InTurn, Arrived, Truthful, Shown, Spent, Seen, Page!Listing, Page!Sending,
     Page!Spending
<1> QED BY <1>1, <1>2, <1>3, <1>4, <1>5

\* The gateway reads a listing.
LEMMA ReadListingKeeps ==
  ASSUME Unit, PageInv, NEW j \in Jobs, Page!ReadListing(j)
  PROVE  PageInv'
<1> USE DEF PageInv, Page!TypeOK, Page!ReadListing, Page!Listed, Page!Go, Page!outside,
Page!gateway, Page!history
<1>1. Page!TypeOK'
  BY DEF Unit, Page!Phases, Page!Sending, Page!Listing, Page!Spending
<1>2. Truthful'
  BY DEF Truthful, Spent
<1>3. Shown'
  BY DEF Shown, Seen
<1>4. Busy' /\ Page!OneSendPerTab'
  BY DEF Busy, Page!OneSendPerTab, Page!Sending, Page!Spending, Page!Listing, Page!BusyPhases
<1>5. InTurn'
  BY DEF InTurn, Arrived, Truthful, Shown, Spent, Seen, Page!Listing, Page!Sending,
     Page!Spending
<1> QED BY <1>1, <1>2, <1>3, <1>4, <1>5

\* How an output ages.
Turns == [none |-> {"none", "new"}, new |-> {"new", "open", "gone"}, open |-> {"open", "stale"},
          stale |-> {"stale", "gone"}, gone |-> {"gone"}]

\* Outputs age.
Ages == /\ life' \in [Coins -> {"none", "new", "open", "stale", "gone"}]
        /\ \A c \in Coins : life'[c] \in Turns[life[c]]

\* A transaction that the node takes spends its outputs.
LEMMA TakesAges == ASSUME Page!TypeOK, NEW x, Page!Takes(x)
  PROVE  Ages /\ \A c \in x.ins \intersect Coins : Spent(c)'
<1> DEFINE spent == [c \in Coins |-> IF c \notin x.ins THEN life[c]
                                    ELSE IF life[c] = "open" THEN "stale" ELSE "gone"]
<1>1. \A c \in Coins : /\ spent[c] \in Turns[life[c]]
                       /\ c \in x.ins => spent[c] \in {"stale", "gone"}
  BY DEF Page!Takes, Page!Unspent, Page!TypeOK, Turns
<1>2. CASE life' = spent
  BY <1>1, <1>2 DEF Ages, Spent, Turns, Page!TypeOK
<1>3. ASSUME NEW d \in Coins, life[d] = "none", life' = [spent EXCEPT ![d] = "new"]
      PROVE  Ages /\ \A c \in x.ins \intersect Coins : Spent(c)'
  <2>1. d \notin x.ins
     BY <1>3 DEF Page!Takes, Page!Unspent
  <2>2. \A c \in Coins : life'[c] = IF c = d THEN "new" ELSE spent[c]
     BY <1>3
  <2> QED
  BY <1>1, <1>3, <2>1, <2>2 DEF Ages, Spent, Turns, Page!TypeOK
<1> QED BY <1>2, <1>3 DEF Page!Takes

\* What ages disturbs nothing.
LEMMA AgesKeep ==
  ASSUME PageInv, Ages,
         UNCHANGED <<phase, point, tab, here, shown, ins, erred, marks, told, overlap, reopened>>,
         verdict' \in [Jobs -> {"none", "accepted", "refused"}],
         \A j \in Jobs : verdict'[j] # verdict[j] =>
            point[j] = "broadcasting" /\ (verdict'[j] = "accepted" => \A c \in ins[j] : Spent(c)')
  PROVE PageInv'
<1> USE DEF PageInv
<1>1. Page!TypeOK'
  BY DEF Ages, Page!TypeOK
<1>2. \A c \in Coins : /\ (Spent(c) => Spent(c)') /\ (Seen(c) => Seen(c)')
                       /\ (life[c] = "gone" => life'[c] = "gone")
                       /\ (Spent(c) => life'[c] = life[c] \/ life'[c] = "gone")
  BY DEF Ages, Spent, Seen, Page!TypeOK, Turns
<1>3. Truthful'
  BY <1>2 DEF Truthful, Page!TypeOK
<1>4. Shown'
  BY <1>2 DEF Shown, Page!TypeOK
<1>5. Busy' /\ Page!OneSendPerTab'
  BY DEF Busy, Page!OneSendPerTab
<1>6. InTurn'
  <2> SUFFICES ASSUME ~overlap PROVE InTurn'
    BY DEF InTurn
  <2>1. \A c \in told : c \in Coins /\ Spent(c)
    BY DEF Truthful, Page!TypeOK
  <2>2. \A j \in Jobs : \A c \in ins[j] : c \in Coins
    BY DEF Page!TypeOK
  <2> QED
  BY <1>2, <2>1, <2>2 DEF InTurn, Arrived
<1> QED BY <1>1, <1>3, <1>4, <1>5, <1>6

\* The node answers a broadcast.
LEMMA NodeAnswersKeeps == ASSUME PageInv, NEW j \in Jobs, Page!NodeAnswers(j) PROVE PageInv'
<1>1. Page!TypeOK /\ Page!Tx(j).ins = ins[j] /\ ins[j] \subseteq Coins
  BY DEF PageInv, Page!TypeOK, Page!Tx
<1>2. CASE Page!Takes(Page!Tx(j)) /\ verdict' = [verdict EXCEPT ![j] = "accepted"]
  <2>1. Ages /\ \A c \in ins[j] : Spent(c)'
    BY <1>1, <1>2, TakesAges
  <2> QED
    BY <1>1, <1>2, <2>1, AgesKeep DEF Page!NodeAnswers, Page!page, Page!history, Page!TypeOK
<1>3. CASE verdict' = [verdict EXCEPT ![j] = "refused"] /\ UNCHANGED life
  <2>1. Ages
    BY <1>1, <1>3 DEF Ages, Turns, Page!TypeOK
  <2> QED
    BY <1>1, <1>3, <2>1, AgesKeep DEF Page!NodeAnswers, Page!page, Page!history, Page!TypeOK
<1> QED BY <1>2, <1>3 DEF Page!NodeAnswers

\* A transaction arrives late.
LEMMA LateArrivesKeeps == ASSUME PageInv, Page!LateArrives PROVE PageInv'
<1>1. Page!TypeOK
  BY DEF PageInv
<1>2. Ages
  BY <1>1, TakesAges DEF Page!LateArrives, Ages, Turns, Page!TypeOK
<1> QED
  BY <1>1, <1>2, AgesKeep DEF Page!LateArrives, Page!page, Page!history, Page!TypeOK

\* The indexer catches up.
LEMMA IndexerCatchesUpKeeps == ASSUME PageInv, Page!IndexerCatchesUp PROVE PageInv'
<1>1. Page!TypeOK
  BY DEF PageInv
<1>2. Ages
  BY <1>1 DEF Page!IndexerCatchesUp, Ages, Turns, Page!TypeOK
<1> QED
  BY <1>1, <1>2, AgesKeep DEF Page!IndexerCatchesUp, Page!page, Page!history, Page!TypeOK

\* The invariant holds at first.
LEMMA PageInit == ASSUME Unit, Page!Init PROVE PageInv
  BY DEF Unit, Page!Init, PageInv, Page!TypeOK, Page!Phases, Truthful, Shown, Busy,
     Page!OneSendPerTab, InTurn, Arrived,
     Page!Sending, Page!Spending, Page!Listing

\* Every step keeps it.
LEMMA PageNext == ASSUME Unit, PageInv, [Page!Next]_(Page!vars) PROVE PageInv'
<1>1. CASE UNCHANGED Page!vars
  BY <1>1 DEF Page!vars, Page!page, Page!gateway, Page!history, PageInv, Page!TypeOK, Truthful,
     Shown, Busy, Page!OneSendPerTab, InTurn, Arrived, Spent, Seen
<1>2. ASSUME NEW j \in Jobs, Page!Step(j) PROVE PageInv'
  BY <1>2, SendListedKeeps, ResumeKeeps, SendFailsKeeps, PreviousFetchedKeeps, SignKeeps,
     AnsweredKeeps,
     UnansweredKeeps, PageRefreshListedKeeps, PageRefreshFailsKeeps, PageRefreshDoneKeeps, ReadListingKeeps, NodeAnswersKeeps DEF Page!Step
<1>3. ASSUME NEW t \in Tabs, Page!Edit(t) \/ Page!Reload(t) \/ Page!Leave(t) PROVE PageInv'
  BY <1>3, EditKeeps, ReloadKeeps, LeaveKeeps
<1>4. ASSUME NEW t \in Tabs, NEW j \in Jobs, Page!PressSend(t, j) \/ Page!PressRefresh(t, j)
      PROVE  PageInv'
  BY <1>4, PressSendKeeps, PressRefreshKeeps
<1> QED
  BY <1>1, <1>2, <1>3, <1>4, MarkExpiresKeeps, LateArrivesKeeps, IndexerCatchesUpKeeps
     DEF Page!Next

\* A send selects no output that somebody was told he spent.
LEMMA NoneKnown == ASSUME PageInv, [Page!Next]_(Page!vars) PROVE Page!SelectsUnspent
<1> SUFFICES ASSUME NEW j \in Jobs, point[j] # "fetching", point'[j] = "fetching", ~overlap
             PROVE  ins'[j] \intersect told = {}
  BY DEF Page!SelectsUnspent
<1>1. point \in [Jobs -> Page!Sending \union Page!Listing \union {"free", "balance"}]
  BY DEF PageInv, Page!TypeOK
<1>2. Page!SendListed(j)
  <2>1. ASSUME NEW s, NEW k \in Jobs, Page!Go(k, s), s # "fetching" PROVE FALSE
    BY <1>1, <2>1 DEF Page!Go
  <2>2. ASSUME point' = point PROVE FALSE
    BY <2>2
  <2>3. ASSUME NEW t \in Tabs, NEW k \in Jobs, Page!PressSend(t, k) \/ Page!PressRefresh(t, k)
        PROVE  FALSE
    BY <2>3, <2>1 DEF Page!PressSend, Page!PressRefresh, Page!Lists
  <2>4. ASSUME NEW t \in Tabs, Page!Edit(t) \/ Page!Reload(t) \/ Page!Leave(t) PROVE FALSE
    BY <2>2, <2>4 DEF Page!Edit, Page!Reload, Page!Leave
  <2>5. ~(Page!MarkExpires \/ Page!LateArrives \/ Page!IndexerCatchesUp)
    BY <2>2 DEF Page!MarkExpires, Page!LateArrives, Page!IndexerCatchesUp, Page!page
  <2>6. ASSUME NEW k \in Jobs, Page!Step(k), ~Page!SendListed(k) PROVE FALSE
    BY <2>1, <2>2, <2>6 DEF Page!Step, Page!Resume, Page!SendFails, Page!PreviousFetched,
       Page!Sign, Page!Answered,
       Page!Unanswered, Page!RefreshListed, Page!RefreshFails, Page!RefreshDone,
       Page!ReadListing, Page!NodeAnswers,
       Page!Lists, Page!Fails, Page!Ends, Page!page
  <2>7. ASSUME NEW k \in Jobs, Page!SendListed(k) PROVE k = j
    BY <1>1, <2>7, Selects DEF Page!Fails, Page!Ends, Page!Go
  <2>8. PICK k \in Jobs : Page!SendListed(k)
    BY <2>2, <2>3, <2>4, <2>5, <2>6 DEF Page!Next, Page!vars, Page!page
  <2> QED
    BY <2>7, <2>8
<1>3. PICK picks \in SUBSET (shown[j] \ marks) : ins' = [ins EXCEPT ![j] = picks]
  BY <1>1, <1>2, Selects DEF Page!Fails, Page!Ends, Page!Go
<1>4. ins'[j] = picks
  BY <1>3 DEF PageInv, Page!TypeOK
<1>5. j \in Arrived
  BY <1>2 DEF Page!SendListed, Arrived
<1>6. \A c \in told : c \in shown[j] => c \in marks
  BY <1>5 DEF PageInv, InTurn
<1> QED
  BY <1>3, <1>4, <1>6

\* The invariant holds in every reachable state.
LEMMA PageHolds == ASSUME PageSound PROVE Page!Spec => []PageInv
<1>1. Unit
  BY DEF PageSound, Unit, Page!SomeTab
<1>2. Page!Init => PageInv
  BY <1>1, PageInit
<1>3. PageInv /\ [Page!Next]_(Page!vars) => PageInv'
  BY <1>1, PageNext
<1> QED
  BY <1>2, <1>3, PTL DEF Page!Spec

\* Every variable of SendPage keeps its type, for any tabs, jobs and outputs.
THEOREM PageTyped == ASSUME PageSound PROVE Page!Spec => []Page!TypeOK
<1>1. PageInv => Page!TypeOK
  BY DEF PageInv
<1> QED
  BY <1>1, PageHolds, PTL

\* The page of a tab, until it is left, has one send at a time, unless a refresh
\* has let it forget the other.
THEOREM OneSendEach == ASSUME PageSound PROVE Page!Spec => []OneSendPerTab
<1>1. PageInv => OneSendPerTab
  BY DEF PageInv, OneSendPerTab
<1> QED
  BY <1>1, PageHolds, PTL

\* While listings come one at a time, a send selects no output that somebody was told is spent,
\* for any tabs, jobs and outputs.
THEOREM SpentIsAvoided == ASSUME PageSound PROVE Page!Spec => AvoidsSpent
<1>1. PageInv /\ [Page!Next]_(Page!vars) => [Page!SelectsUnspent]_(Page!vars)
  BY NoneKnown
<1> QED
  BY <1>1, PageHolds, PTL DEF Page!Spec, AvoidsSpent, Page!AvoidsSpent

\* Only outputs that are spent are marked: no coin is locked away by a mark.
THEOREM MarksAreSpent == ASSUME PageSound PROVE Page!Spec => []Page!NothingIsLockedAway
<1>1. PageInv => Page!NothingIsLockedAway
  BY DEF PageInv, Truthful, Spent, Page!NothingIsLockedAway
<1> QED
  BY <1>1, PageHolds, PTL
=============================================================================
