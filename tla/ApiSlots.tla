----------------------------- MODULE ApiSlots -----------------------------
(***************************************************************************)
(* The slots that limit wallet-api's calls to pepew-api: withPepewApiSlot  *)
(* around the fetches of balance, utxos and history.  A counter of active  *)
(* calls and an array of callbacks, each of which takes a slot for the     *)
(* request that left it there when somebody else's slot is released.       *)
(*                                                                         *)
(* Node runs acquire, release and the callback a release calls without an  *)
(* interruption: each is one step.  The fetch in between is awaited; its   *)
(* answer, its failure and the abort by its timer all end in the finally   *)
(* clause that releases the slot.                                          *)
(***************************************************************************)
EXTENDS Integers, Sequences, FiniteSets

CONSTANTS
  Requests,      \* requests that may be under way together
  Concurrency,   \* pepewApiUpstreamConcurrency
  MaxQueue       \* pepewApiUpstreamMaxQueue

ASSUME RequestsFinite == IsFiniteSet(Requests)
ASSUME ConcurrencyPositive == Concurrency \in Nat \ {0}
ASSUME MaxQueuePositive == MaxQueue \in Nat \ {0}

VARIABLES
  active,   \* pepewApiUpstreamActive
  queue,    \* pepewApiUpstreamQueue: the requests whose callbacks it holds
  state,    \* where each request stands in withPepewApiSlot
  reply     \* what each request was answered with last

vars == <<active, queue, state, reply>>

Elems(q) == {q[i] : i \in 1..Len(q)}
In(s) == {r \in Requests : state[r] = s}

\* Every variable keeps its type, and the queue its bound.
TypeOK ==
  /\ active \in 0..Concurrency
  /\ queue \in Seq(Requests) /\ Len(queue) <= MaxQueue
  /\ state \in [Requests -> {"idle", "queued", "fetching"}]
  /\ reply \in [Requests -> {"none", "busy", "result"}]

Init ==
  /\ active = 0 /\ queue = <<>>
  /\ state = [r \in Requests |-> "idle"]
  /\ reply = [r \in Requests |-> "none"]
-----------------------------------------------------------------------------
(* acquirePepewApiSlot *)

HasRoomForOneMore == active <= Concurrency
HasRoom == active < Concurrency

QueueNearlyFull == Len(queue) >= MaxQueue - 1
QueueFull == Len(queue) >= MaxQueue

TakeSlot(r) ==
  /\ HasRoom
  /\ active' = active + 1
  /\ state' = [state EXCEPT ![r] = "fetching"]
  /\ UNCHANGED <<queue, reply>>

\* UpstreamBusyError
Refuse(r) ==
  /\ ~HasRoom /\ QueueFull
  /\ reply' = [reply EXCEPT ![r] = "busy"]
  /\ UNCHANGED <<active, queue, state>>

EnqueueFirst(r) == <<r>> \o queue
Enqueue(r) == Append(queue, r)

JoinQueue(r) ==
  /\ ~HasRoom /\ ~QueueFull
  /\ queue' = Enqueue(r)
  /\ state' = [state EXCEPT ![r] = "queued"]
  /\ UNCHANGED <<active, reply>>

Arrive(r) == state[r] = "idle" /\ (TakeSlot(r) \/ Refuse(r) \/ JoinQueue(r))
-----------------------------------------------------------------------------
(* releasePepewApiSlot *)

AtLeastZero(n) == IF n < 0 THEN 0 ELSE n

\* Releases gone wrong: one wakes nobody, one's callback takes no slot, one
\* leaves the callback it runs in the queue.
ReleaseSilently(r) ==
  /\ active' = AtLeastZero(active - 1)
  /\ state' = [state EXCEPT ![r] = "idle"]
  /\ UNCHANGED queue
ReleaseUncounted(r) ==
  /\ active' = AtLeastZero(active - 1)
  /\ queue' = IF queue = <<>> THEN queue ELSE Tail(queue)
  /\ state' = [q \in Requests |-> IF q = r THEN "idle"
                                  ELSE IF queue # <<>> /\ q = Head(queue) THEN "fetching"
                                  ELSE state[q]]
ReleasePeek(r) ==
  /\ active' = IF queue = <<>> THEN AtLeastZero(active - 1) ELSE active
  /\ state' = [q \in Requests |-> IF q = r THEN "idle"
                                  ELSE IF queue # <<>> /\ q = Head(queue) THEN "fetching"
                                  ELSE state[q]]
  /\ UNCHANGED queue

Release(r) ==
  IF queue = <<>>
  THEN /\ active' = AtLeastZero(active - 1)
       /\ state' = [state EXCEPT ![r] = "idle"]
       /\ UNCHANGED queue
  ELSE /\ active' = AtLeastZero(active - 1) + 1      \* next()
       /\ queue' = Tail(queue)
       /\ state' = [state EXCEPT ![r] = "idle", ![Head(queue)] = "fetching"]

\* The fetch answers, fails or is aborted: the slot goes back first, and then
\* the request is answered.
Finish(r) ==
  /\ state[r] = "fetching"
  /\ Release(r)
  /\ reply' = [reply EXCEPT ![r] = "result"]

Next == \E r \in Requests : Arrive(r) \/ Finish(r)

Spec == Init /\ [][Next]_vars

\* The timer of fetchJson ends every fetch.
FairSpec == Spec /\ \A r \in Requests : WF_vars(Finish(r))
-----------------------------------------------------------------------------
(* Properties *)

\* The counter is exact: no release is lost or doubled, whatever the order in
\* which fetches end and queued requests are let in.
SlotsCounted == active = Cardinality(In("fetching"))

\* No request waits while a slot is free.
NoIdleSlot == queue # <<>> => active = Concurrency

\* The queue holds exactly the requests that wait, each of them once.
QueueHoldsWaiters ==
  /\ Elems(queue) = In("queued")
  /\ \A i, k \in 1..Len(queue) : queue[i] = queue[k] => i = k

\* A request is turned away only when every slot is taken and the queue full.
RefusedOnlyWhenFull ==
  [][\A r \in Requests : reply[r] # "busy" /\ reply'[r] = "busy"
       => Cardinality(In("fetching")) = Concurrency
          /\ Cardinality(In("queued")) = MaxQueue]_vars

\* The slots are a bounded first-in first-out gate.
Gate == INSTANCE BoundedGate WITH
          Clients <- Requests, Limit <- Concurrency, MaxWaiting <- MaxQueue,
          inside <- In("fetching"), waiting <- queue
ImplementsGate == Gate!FairSpec

\* Every queued request gets its slot.
QueuedIsServed == \A r \in Requests : state[r] = "queued" ~> state[r] = "fetching"

=============================================================================
