---------------------------- MODULE BoundedGate ----------------------------
(***************************************************************************)
(* What a concurrency limiter promises, without its counters, callbacks    *)
(* and promises: at most Limit clients are inside, the others wait in the  *)
(* order they came, none waits while there is room, and a client that      *)
(* leaves lets the first waiter in within the same step.  ApiSlots and     *)
(* RpcSemaphore implement it, each with its own bookkeeping.               *)
(***************************************************************************)
EXTENDS Integers, Sequences, FiniteSets

CONSTANTS Clients, Limit, MaxWaiting

VARIABLES inside,   \* the clients that hold a place
          waiting   \* the others, in the order they came

gate == <<inside, waiting>>

Elems(q) == {q[i] : i \in 1..Len(q)}

Init == inside = {} /\ waiting = <<>>

Enter(c) ==
  /\ c \notin inside /\ waiting = <<>> /\ Cardinality(inside) < Limit
  /\ inside' = inside \union {c}
  /\ UNCHANGED waiting

Wait(c) ==
  /\ c \notin inside /\ c \notin Elems(waiting)
  /\ Cardinality(inside) = Limit /\ Len(waiting) < MaxWaiting
  /\ waiting' = Append(waiting, c)
  /\ UNCHANGED inside

Leave(c) ==
  /\ c \in inside /\ waiting = <<>>
  /\ inside' = inside \ {c}
  /\ UNCHANGED waiting

HandOver(c) ==
  /\ c \in inside /\ waiting # <<>>
  /\ inside' = (inside \ {c}) \union {Head(waiting)}
  /\ waiting' = Tail(waiting)

Next == \E c \in Clients : Enter(c) \/ Wait(c) \/ Leave(c) \/ HandOver(c)

Spec == Init /\ [][Next]_gate

\* Whoever is inside leaves at some time.
FairSpec == Spec /\ \A c \in Clients : WF_gate(Leave(c) \/ HandOver(c))

=============================================================================
