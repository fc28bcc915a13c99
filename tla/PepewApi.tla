------------------------------ MODULE PepewApi ------------------------------
(***************************************************************************)
(* The routes of pepew-api that ask the node about an address, each a      *)
(* sequence of RPC calls through the semaphore of RpcSemaphore.  Fastify   *)
(* runs a handler to its end although nobody may wait for its answer any   *)
(* more.  History fetches its rows in a loop of its own, raced against a   *)
(* deadline: when the deadline wins the handler goes on to the net amounts *)
(* and answers, while the loop keeps calling the node.  The lookup of      *)
(* several addresses races the same way.                                   *)
(***************************************************************************)
EXTENDS RpcSemaphore

CONSTANTS Handlers,   \* handlers that may run together
          Rows        \* transactions of an address, limited by normalizeLimit

Main(h) == <<h, "main">>     \* the call a handler awaits
Loop(h) == <<h, "loop">>     \* the call of a race it may have lost interest in

VARIABLES
  what,    \* the route of a handler: balance, utxos, multi, history
  stage,   \* the call its main strand makes next, or has made
  left,    \* rows its loop has yet to fetch
  known,   \* it has seen a transaction in a block (txBlockHeights)
  cached   \* the utxos are in the cache

handlers == <<what, stage, left, known, cached>>
pepew == <<vars, handlers>>

InitHandlers ==
  /\ what = [h \in Handlers |-> "none"] /\ stage = [h \in Handlers |-> "free"]
  /\ left = [h \in Handlers |-> 0] /\ known = {} /\ cached = FALSE
-----------------------------------------------------------------------------
Move(h, s) == stage' = [stage EXCEPT ![h] = s]

Begin(h, k) ==
  /\ stage[h] = "free" /\ left[h] = 0
  /\ what' = [what EXCEPT ![h] = k] /\ Move(h, "height")
  /\ UNCHANGED <<vars, left, known, cached>>

Awaits(h) == stage[h] \in {"height", "index", "unspent", "deltas"}

\* A strand asks for a permit.
Ask(h) ==
  /\ UNCHANGED handlers
  /\ \/ Awaits(h) /\ Acquire(Main(h))
     \/ left[h] > 0 /\ Acquire(Loop(h))

\* What the race of several addresses leaves to its own strand: the index, then
\* the unspent outputs.
StartRace(h, n) == Move(h, "race") /\ left' = [left EXCEPT ![h] = n]

\* getBlockCount: its failure only costs a header.
HeightReply(h) ==
  /\ stage[h] = "height" /\ Release(Main(h))
  /\ IF what[h] = "multi" THEN StartRace(h, 2)
     ELSE /\ Move(h, IF what[h] = "utxos" /\ cached THEN "done" ELSE "index")
          /\ UNCHANGED left
  /\ UNCHANGED <<what, known, cached>>

\* The address index answers, or does not; history has its own second source.
IndexReply(h) ==
  /\ stage[h] = "index" /\ Release(Main(h))
  /\ \/ IF what[h] = "history" THEN StartRace(h, Rows)
        ELSE Move(h, "done") /\ UNCHANGED left
     \/ Move(h, "unspent") /\ UNCHANGED left
     \/ what[h] = "history" /\ Move(h, "done") /\ UNCHANGED left    \* POST /v1/history
  /\ cached' = (cached \/ (what[h] = "utxos" /\ stage'[h] = "done"))
  /\ UNCHANGED <<what, known>>

UnspentReply(h) ==
  /\ stage[h] = "unspent" /\ Release(Main(h))
  /\ \/ what[h] = "history" /\ StartRace(h, Rows)
     \/ Move(h, "done") /\ UNCHANGED left
  /\ \/ UNCHANGED cached
     \/ what[h] = "utxos" /\ cached' = TRUE
  /\ UNCHANGED <<what, known>>

\* A loop that tries a row again when its transaction is not found.
TryRowAgain(h) ==
  /\ Release(Loop(h))
  /\ UNCHANGED <<what, stage, left, cached>>
  /\ \/ UNCHANGED known
     \/ what[h] = "history" /\ stage[h] = "race" /\ known' = known \union {h}

\* One row of history, whether its transaction was found or not; or a step of
\* the lookup of several addresses, which ends when it finds something.
LoopReply(h) ==
  /\ Release(Loop(h))
  /\ \/ left' = [left EXCEPT ![h] = @ - 1]
     \/ what[h] = "multi" /\ left' = [left EXCEPT ![h] = 0]
  /\ \/ UNCHANGED known
     \/ what[h] = "history" /\ stage[h] = "race" /\ known' = known \union {h}
  /\ UNCHANGED <<what, stage, cached>>

\* The race is over, by its end or by the deadline.
RaceOver(h) ==
  /\ stage[h] = "race"
  /\ Move(h, IF h \in known THEN "deltas" ELSE "done")
  /\ UNCHANGED <<vars, what, left, known, cached>>

DeltasReply(h) ==
  /\ stage[h] = "deltas" /\ Release(Main(h)) /\ Move(h, "done")
  /\ UNCHANGED <<what, left, known, cached>>

\* The answer leaves, to a client that waits or to none.
Leave(h) ==
  /\ stage[h] = "done" /\ Move(h, "free")
  /\ known' = known \ {h}
  /\ UNCHANGED <<vars, what, left, cached>>

CacheExpires == cached /\ cached' = FALSE /\ UNCHANGED <<vars, what, stage, left, known>>

MainReply(h) == HeightReply(h) \/ IndexReply(h) \/ UnspentReply(h) \/ DeltasReply(h)
NodeReplies(h) == MainReply(h) \/ LoopReply(h)
=============================================================================
