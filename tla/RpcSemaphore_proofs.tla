------------------------ MODULE RpcSemaphore_proofs ------------------------
(* Proofs about RpcSemaphore: for any number of calls and permits no permit is *)
(* lost or doubled, and the semaphore implements BoundedGate.                  *)
EXTENDS RpcSemaphore, FiniteSetTheorems, TLAPS

\* A semaphore of at least one permit, and finitely many calls.
Sound == Permits \in Nat \ {0} /\ IsFiniteSet(Calls)

Calling == In("calling")

\* What the runs check, together inductive.
IInv == TypeOK /\ PermitsConserved /\ NoIdlePermit

\* The calls under way are finitely many.
LEMMA CallingFinite ==
  ASSUME Sound
  PROVE  IsFiniteSet(Calling) /\ Cardinality(Calling) \in Nat
<1>1. Calling \subseteq Calls
  BY DEF Calling, In
<1> QED
  BY <1>1, FS_Subset, FS_CardinalityType DEF Sound

\* The first waiter waits.
LEMMA HeadWaits ==
  ASSUME IInv, tasks # <<>>
  PROVE  /\ Head(tasks) \in Calls /\ state[Head(tasks)] = "waiting"
         /\ Head(tasks) = tasks[1] /\ 1 \in 1..Len(tasks)
  BY DEF IInv, TypeOK, NoIdlePermit, Elems, In

\* The waiters after the first has left.
LEMMA TailElems ==
  ASSUME IInv, tasks # <<>>
  PROVE  /\ Elems(Tail(tasks)) = In("waiting") \ {Head(tasks)}
         /\ Tail(tasks) \in Seq(Calls)
         /\ \A i, k \in 1..Len(Tail(tasks)) : Tail(tasks)[i] = Tail(tasks)[k] => i = k
<1> USE DEF IInv, TypeOK, NoIdlePermit
<1>1. /\ Tail(tasks) \in Seq(Calls) /\ Len(Tail(tasks)) = Len(tasks) - 1
      /\ \A i \in 1..Len(Tail(tasks)) : Tail(tasks)[i] = tasks[i + 1] /\ i + 1 \in 1..Len(tasks)
  OBVIOUS
<1>2. \A i, k \in 1..Len(Tail(tasks)) : Tail(tasks)[i] = Tail(tasks)[k] => i = k
  BY <1>1
<1>3. Elems(Tail(tasks)) \subseteq In("waiting") \ {Head(tasks)}
  BY <1>1, HeadWaits DEF Elems
<1>4. ASSUME NEW c \in In("waiting"), c # Head(tasks) PROVE c \in Elems(Tail(tasks))
  <2>1. PICK i \in 1..Len(tasks) : tasks[i] = c
    BY DEF Elems
  <2>2. i - 1 \in 1..Len(Tail(tasks)) /\ Tail(tasks)[i - 1] = c
    BY <1>1, <2>1, <1>4, HeadWaits
  <2> QED
    BY <2>2 DEF Elems
<1> QED
  BY <1>1, <1>2, <1>3, <1>4

\* The waiters after another has joined them.
LEMMA AppendElems ==
  ASSUME IInv, NEW c \in Calls, state[c] = "idle"
  PROVE  /\ Elems(Append(tasks, c)) = In("waiting") \union {c}
         /\ \A i, k \in 1..Len(Append(tasks, c)) :
              Append(tasks, c)[i] = Append(tasks, c)[k] => i = k
<1> USE DEF IInv, TypeOK, NoIdlePermit
<1>1. /\ Len(Append(tasks, c)) = Len(tasks) + 1 /\ Append(tasks, c)[Len(tasks) + 1] = c
      /\ \A i \in 1..Len(tasks) : Append(tasks, c)[i] = tasks[i]
  OBVIOUS
<1>2. c \notin Elems(tasks)
  BY DEF In
<1>3. Elems(Append(tasks, c)) = Elems(tasks) \union {c}
  BY <1>1 DEF Elems
<1> QED
  BY <1>1, <1>2, <1>3 DEF Elems

\* There are never more waiters than calls, each of them being one.
LEMMA WaitersFit ==
  ASSUME Sound, IInv, NEW c \in Calls, state[c] = "idle"
  PROVE  Len(tasks) < Cardinality(Calls)
<1> DEFINE W == In("waiting")
<1>1. W \subseteq Calls /\ c \notin W
  BY DEF In
<1>2. /\ Len(tasks) \in Nat
      /\ tasks \in Bijection(1..Len(tasks), W)
  <2>1. Len(tasks) \in Nat /\ tasks \in [1..Len(tasks) -> Calls]
    BY DEF IInv, TypeOK
  <2>2. \A i \in 1..Len(tasks) : tasks[i] \in W
    BY DEF IInv, NoIdlePermit, Elems
  <2>3. tasks \in [1..Len(tasks) -> W]
    BY <2>1, <2>2
  <2>4. \A i, k \in 1..Len(tasks) : tasks[i] = tasks[k] => i = k
    BY DEF IInv, NoIdlePermit
  <2>5. \A w \in W : \E i \in 1..Len(tasks) : tasks[i] = w
    BY DEF IInv, NoIdlePermit, Elems
  <2>6. tasks \in Injection(1..Len(tasks), W)
    BY <2>3, <2>4 DEF Injection, IsInjective
  <2>7. tasks \in Surjection(1..Len(tasks), W)
    BY <2>3, <2>5 DEF Surjection
  <2> QED
    BY <2>1, <2>6, <2>7 DEF Bijection
<1>3. Cardinality(W) = Len(tasks)
  BY <1>2, FS_CountingElements DEF ExistsBijection
<1>4. Cardinality(W) < Cardinality(Calls) /\ Cardinality(Calls) \in Nat
  <2>1. IsFiniteSet(W) /\ Cardinality(W) <= Cardinality(Calls) /\ W # Calls
        /\ (Cardinality(Calls) = Cardinality(W) => Calls = W)
    BY <1>1, FS_Subset DEF Sound
  <2>2. Cardinality(W) \in Nat /\ Cardinality(Calls) \in Nat
    BY <2>1, FS_CardinalityType DEF Sound
  <2> QED
    BY <2>1, <2>2
<1> QED
  BY <1>3, <1>4
-----------------------------------------------------------------------------
(* How each operation moves the calls that hold a permit or wait for one *)

\* A call that finds a permit joins those calling.
LEMMA AcquireSets ==
  ASSUME Sound, IInv, NEW c \in Calls, Acquire(c), count > 0
  PROVE  /\ c \notin Calling /\ Calling' = Calling \union {c}
         /\ In("waiting")' = In("waiting")
         /\ Cardinality(Calling') = Cardinality(Calling) + 1
<1>1. c \notin Calling /\ Calling' = Calling \union {c} /\ In("waiting")' = In("waiting")
  BY DEF Acquire, Calling, In, IInv, TypeOK
<1> QED
  BY <1>1, CallingFinite, FS_AddElement

\* A call that finds none joins those waiting.
LEMMA WaitSets ==
  ASSUME IInv, NEW c \in Calls, Acquire(c), ~(count > 0)
  PROVE  Calling' = Calling /\ In("waiting")' = In("waiting") \union {c}
  BY DEF Acquire, Calling, In, IInv, TypeOK

\* A call that ends with nobody waiting gives its permit back.
LEMMA FreeSets ==
  ASSUME Sound, IInv, NEW c \in Calls, Release(c), tasks = <<>>
  PROVE  /\ c \in Calling /\ Calling' = Calling \ {c}
         /\ In("waiting")' = In("waiting")
         /\ Cardinality(Calling') = Cardinality(Calling) - 1
<1>1. c \in Calling /\ Calling' = Calling \ {c} /\ In("waiting")' = In("waiting")
  BY DEF Release, Calling, In, IInv, TypeOK
<1> QED
  BY <1>1, CallingFinite, FS_RemoveElement

\* A call that ends hands its permit to the first that waits.
LEMMA HandOverSets ==
  ASSUME Sound, IInv, NEW c \in Calls, Release(c), tasks # <<>>
  PROVE  /\ c \in Calling /\ Calling' = (Calling \ {c}) \union {Head(tasks)}
         /\ In("waiting")' = In("waiting") \ {Head(tasks)}
         /\ Cardinality(Calling') = Cardinality(Calling)
<1>1. PICK h : h = Head(tasks)
  OBVIOUS
<1>2. h \in Calls /\ state[h] = "waiting" /\ h # c
  BY <1>1, HeadWaits DEF Release
<1>3. state[c] = "calling" /\ state' = [state EXCEPT ![c] = "idle", ![h] = "calling"]
  BY <1>1 DEF Release, HandOver
<1>4. /\ c \in Calling /\ h \notin Calling
      /\ Calling' = (Calling \ {c}) \union {h}
      /\ In("waiting")' = In("waiting") \ {h}
  BY <1>2, <1>3 DEF Calling, In, IInv, TypeOK
<1>5. /\ IsFiniteSet(Calling \ {c})
      /\ Cardinality(Calling \ {c}) = Cardinality(Calling) - 1
  BY <1>4, CallingFinite, FS_RemoveElement
<1>6. Cardinality((Calling \ {c}) \union {h}) = Cardinality(Calling \ {c}) + 1
  BY <1>4, <1>5, FS_AddElement
<1>7. Cardinality(Calling') = Cardinality(Calling)
  BY <1>4, <1>5, <1>6, CallingFinite
<1> QED
  BY <1>1, <1>4, <1>7
-----------------------------------------------------------------------------
(* The invariant *)

\* A call that asks for a permit keeps the invariant.
LEMMA AcquireKeeps ==
  ASSUME Sound, IInv, NEW c \in Calls, Acquire(c)
  PROVE  IInv'
<1>1. CASE count > 0
  <2>1. TypeOK'
    BY <1>1 DEF Acquire, IInv, TypeOK, Sound
  <2>2. PermitsConserved'
    <3>1. count' = count - 1 /\ count \in Nat /\ Cardinality(Calling) \in Nat
          /\ count + Cardinality(Calling) = Permits
      BY <1>1, CallingFinite DEF Acquire, IInv, TypeOK, PermitsConserved, Calling, Sound
    <3> QED
      BY <1>1, <3>1, AcquireSets DEF PermitsConserved, Calling
  <2>3. NoIdlePermit'
    BY <1>1, AcquireSets DEF Acquire, NoIdlePermit, IInv, TypeOK
  <2> QED
    BY <2>1, <2>2, <2>3 DEF IInv
<1>2. CASE ~(count > 0)
  <2>1. TypeOK'
    BY <1>2 DEF Acquire, IInv, TypeOK
  <2>2. PermitsConserved'
    BY <1>2, WaitSets DEF Acquire, IInv, PermitsConserved, Calling
  <2>3. state[c] = "idle" /\ tasks' = Append(tasks, c) /\ count' = 0
    BY <1>2 DEF Acquire, IInv, TypeOK, Sound
  <2>4. NoIdlePermit'
    BY <1>2, <2>3, WaitSets, AppendElems DEF NoIdlePermit
  <2> QED
    BY <2>1, <2>2, <2>4 DEF IInv
<1> QED
  BY <1>1, <1>2

\* A call that ends keeps the invariant.
LEMMA ReleaseKeeps ==
  ASSUME Sound, IInv, NEW c \in Calls, Release(c)
  PROVE  IInv'
<1>1. CASE tasks = <<>>
  <2>1. /\ count' = count + 1 /\ tasks' = <<>> /\ count \in Nat
        /\ count + Cardinality(Calling) = Permits /\ Cardinality(Calling) \in Nat
        /\ state' = [state EXCEPT ![c] = "idle"]
    BY <1>1, CallingFinite DEF Release, IInv, TypeOK, PermitsConserved, Calling, Sound
  <2>2. PermitsConserved'
    BY <1>1, <2>1, FreeSets DEF PermitsConserved, Calling
  <2>3. count' <= Permits
    <3>1. Cardinality(Calling') \in Nat
      BY <1>1, <2>1, FreeSets, CallingFinite, FS_RemoveElement, FS_CardinalityType
    <3> QED
      BY <2>1, <2>2, <3>1 DEF PermitsConserved, Calling, Sound
  <2>4. TypeOK'
    BY <2>1, <2>3 DEF IInv, TypeOK, Sound
  <2>5. NoIdlePermit'
    BY <1>1, <2>1, FreeSets DEF IInv, NoIdlePermit
  <2> QED
    BY <2>2, <2>4, <2>5 DEF IInv
<1>2. CASE tasks # <<>>
  <2>1. /\ tasks' = Tail(tasks) /\ count' = count
        /\ state' = [state EXCEPT ![c] = "idle", ![Head(tasks)] = "calling"]
    BY <1>2 DEF Release, HandOver
  <2>2. TypeOK'
    BY <1>2, <2>1, TailElems, HeadWaits DEF IInv, TypeOK
  <2>3. PermitsConserved'
    BY <1>2, <2>1, HandOverSets DEF IInv, PermitsConserved, Calling
  <2>4. NoIdlePermit'
    BY <1>2, <2>1, HandOverSets, TailElems DEF IInv, NoIdlePermit
  <2> QED
    BY <2>2, <2>3, <2>4 DEF IInv
<1> QED
  BY <1>1, <1>2

\* At the start all permits are free and nobody waits.
LEMMA IInvInit ==
  ASSUME Sound, Init
  PROVE  IInv
<1>1. In("calling") = {} /\ In("waiting") = {} /\ Elems(tasks) = {}
  BY DEF Init, In, Elems
<1>2. TypeOK
  BY DEF Init, TypeOK, Sound
<1>3. PermitsConserved
  BY <1>1, FS_EmptySet DEF Init, PermitsConserved, Sound
<1>4. NoIdlePermit
  <2>1. tasks = <<>> /\ Len(tasks) = 0
    BY DEF Init
  <2> QED
    BY <1>1, <2>1 DEF NoIdlePermit
<1> QED
  BY <1>2, <1>3, <1>4 DEF IInv

\* The invariant holds in every reachable state.
LEMMA IInvHolds ==
  ASSUME Sound
  PROVE  Spec => []IInv
<1>1. Init => IInv
  BY IInvInit
<1>2. IInv /\ [Next]_vars => IInv'
  <2> SUFFICES ASSUME IInv, [Next]_vars PROVE IInv'
    OBVIOUS
  <2>1. CASE UNCHANGED vars
    BY <2>1 DEF vars, IInv, TypeOK, PermitsConserved, NoIdlePermit, In
  <2> QED
    BY <2>1, AcquireKeeps, ReleaseKeeps DEF Next
<1> QED
  BY <1>1, <1>2, PTL DEF Spec

\* A permit that is not free is held by a call under way: no release loses one or
\* makes one, with and without waiters.
THEOREM PermitsAreConserved ==
  ASSUME Sound
  PROVE  Spec => []PermitsConserved
  BY IInvHolds, PTL DEF IInv

\* No call waits while a permit is free, and each waiter is listed once.
THEOREM NoneWaitsInVain ==
  ASSUME Sound
  PROVE  Spec => []NoIdlePermit
  BY IInvHolds, PTL DEF IInv
-----------------------------------------------------------------------------
(* The refinement *)

\* The elements of a queue are the same set in both modules.
LEMMA SameElems == \A q : Gate!Elems(q) = Elems(q)
  BY DEF Gate!Elems, Elems

\* So are their cardinalities.
LEMMA SameCardinality == \A S : Gate!Cardinality(S) = Cardinality(S)
  BY DEF Gate!Cardinality, Cardinality

\* A call that asks for a permit enters the gate or waits at it.
LEMMA AcquireIsGateStep ==
  ASSUME Sound, IInv, NEW c \in Calls, Acquire(c)
  PROVE  Gate!Next
<1> USE DEF Calling
<1>1. /\ count \in Nat /\ Permits \in Nat /\ Cardinality(Calling) \in Nat
      /\ count + Cardinality(Calling) = Permits /\ state[c] = "idle"
  BY CallingFinite DEF IInv, TypeOK, PermitsConserved, Sound, Acquire
<1>2. CASE count > 0
  <2>1. tasks = <<>> /\ UNCHANGED tasks
    BY <1>2 DEF IInv, NoIdlePermit, Acquire
  <2>2. Gate!Enter(c)
    BY <1>1, <1>2, <2>1, AcquireSets, SameCardinality DEF Gate!Enter
  <2> QED
    BY <2>2 DEF Gate!Next
<1>3. CASE ~(count > 0)
  <2>1. tasks' = Append(tasks, c)
    BY <1>3 DEF Acquire
  <2>2. c \notin Calling /\ c \notin Gate!Elems(tasks)
    BY <1>1, SameElems DEF IInv, NoIdlePermit, In
  <2>3. Gate!Wait(c)
    BY <1>1, <1>3, <2>1, <2>2, WaitSets, WaitersFit, SameCardinality DEF Gate!Wait
  <2> QED
    BY <2>3 DEF Gate!Next
<1> QED
  BY <1>2, <1>3

\* A call that ends leaves the gate, to the first waiter if there is one.
LEMMA ReleaseIsGateStep ==
  ASSUME Sound, IInv, NEW c \in Calls, Release(c)
  PROVE  Gate!Next
<1> USE DEF Calling
<1>1. CASE tasks = <<>>
  <2>1. Gate!Leave(c)
    BY <1>1, FreeSets DEF Gate!Leave, Release
  <2> QED
    BY <2>1 DEF Gate!Next
<1>2. CASE tasks # <<>>
  <2>1. Gate!HandOver(c)
    BY <1>2, HandOverSets DEF Gate!HandOver, Release, HandOver
  <2> QED
    BY <2>1 DEF Gate!Next
<1> QED
  BY <1>1, <1>2

\* Whatever the semaphore does is a step of the first-in first-out gate, which no
\* number of calls overfills.
THEOREM SemaphoreImplementsGate ==
  ASSUME Sound
  PROVE  Spec => Gate!Spec
<1>1. Init => Gate!Init
  BY DEF Init, Gate!Init, In
<1>2. IInv /\ [Next]_vars => [Gate!Next]_(Gate!gate)
  <2> SUFFICES ASSUME IInv, [Next]_vars PROVE [Gate!Next]_(Gate!gate)
    OBVIOUS
  <2>1. CASE UNCHANGED vars
    BY <2>1 DEF vars, Gate!gate, In
  <2> QED
    BY <2>1, AcquireIsGateStep, ReleaseIsGateStep DEF Next
<1> QED
  BY <1>1, <1>2, IInvHolds, PTL DEF Spec, Gate!Spec
=============================================================================
