--------------------------- MODULE RpcSemaphore ---------------------------
(***************************************************************************)
(* The semaphore around pepew-api's calls to the node's RPC port: rpcCall  *)
(* between acquire and the release of its finally clause.  Unlike the      *)
(* slots of wallet-api a release with waiters hands its permit over        *)
(* without touching the counter, and the list of waiters has no bound.     *)
(***************************************************************************)
EXTENDS Integers, Sequences, FiniteSets

CONSTANTS Calls,     \* calls of rpcCall that may be under way together
          Permits    \* new Semaphore(5)

VARIABLES count,    \* free permits
          tasks,    \* the calls that wait for one
          state     \* where each call stands in rpcCall

vars == <<count, tasks, state>>

Elems(q) == {q[i] : i \in 1..Len(q)}
In(s) == {c \in Calls : state[c] = s}

\* Every variable keeps its type: no release ever makes an extra permit.
TypeOK ==
  /\ count \in 0..Permits
  /\ tasks \in Seq(Calls)
  /\ state \in [Calls -> {"idle", "waiting", "calling"}]

Init == count = Permits /\ tasks = <<>> /\ state = [c \in Calls |-> "idle"]

Acquire(c) ==
  /\ state[c] = "idle"
  /\ IF count > 0
     THEN /\ count' = count - 1
          /\ state' = [state EXCEPT ![c] = "calling"]
          /\ UNCHANGED tasks
     ELSE /\ tasks' = Append(tasks, c)
          /\ state' = [state EXCEPT ![c] = "waiting"]
          /\ UNCHANGED count

\* A release that always gives the permit back and wakes a waiter as well.
HandOverAndFree(c) ==
  /\ tasks' = Tail(tasks)
  /\ state' = [state EXCEPT ![c] = "idle", ![Head(tasks)] = "calling"]
  /\ count' = count + 1

\* A release that wakes the last waiter.
HandOverLast(c) ==
  /\ tasks' = SubSeq(tasks, 1, Len(tasks) - 1)
  /\ state' = [state EXCEPT ![c] = "idle", ![tasks[Len(tasks)]] = "calling"]
  /\ UNCHANGED count

HandOver(c) ==
  /\ tasks' = Tail(tasks)
  /\ state' = [state EXCEPT ![c] = "idle", ![Head(tasks)] = "calling"]
  /\ UNCHANGED count

\* The call ends, with a result, an error of the node or a timeout.
Release(c) ==
  /\ state[c] = "calling"
  /\ IF tasks # <<>>
     THEN HandOver(c)
     ELSE /\ count' = count + 1
          /\ state' = [state EXCEPT ![c] = "idle"]
          /\ UNCHANGED tasks

Next == \E c \in Calls : Acquire(c) \/ Release(c)

Spec == Init /\ [][Next]_vars

-----------------------------------------------------------------------------
(* Properties *)

\* Permits are conserved: what is not free is held by a call, so the node never
\* sees more than Permits calls of this process.
PermitsConserved == count + Cardinality(In("calling")) = Permits

\* A permit is never free while a call waits, and the list of waiters holds
\* each of them once.
NoIdlePermit ==
  /\ tasks # <<>> => count = 0
  /\ Elems(tasks) = In("waiting")
  /\ \A i, k \in 1..Len(tasks) : tasks[i] = tasks[k] => i = k

\* The semaphore is a first-in first-out gate, whose queue no set of calls fills.
Gate == INSTANCE BoundedGate WITH
          Clients <- Calls, Limit <- Permits, MaxWaiting <- Cardinality(Calls),
          inside <- In("calling"), waiting <- tasks
ImplementsGate == Gate!FairSpec

=============================================================================
