----------------------------- MODULE WalletApi -----------------------------
(***************************************************************************)
(* The request handlers of wallet-api, composed with pepew-api: the reads  *)
(* of an address go through the slots of ApiSlots to a handler of PepewApi *)
(* and through its semaphore to the node; the lookups of raw transactions  *)
(* share a bounded cache; the broadcasts share the node's memory pool.  A  *)
(* request that fetchJson aborts leaves its upstream call running.         *)
(*                                                                         *)
(* kind says which handler serves each request of a behaviour.  The three  *)
(* families of handlers share no variable, so that a run takes them in     *)
(* separate behaviours without losing an interleaving that matters.        *)
(***************************************************************************)
EXTENDS ApiSlots

CONSTANTS
  Kinds,       \* which handler each request may meet: a set of functions
  Handlers, Permits, Rows, HandlerCalls,          \* of PepewApi
  Txids,       \* the transactions that are looked up
  CacheMax,    \* rawTxCacheMax
  Workers,     \* rawTxBatchConcurrency, as a set
  Txs,         \* the transactions that are broadcast
  Conflicts,   \* the pairs of them that spend an output twice
  Unfit        \* those the node's policy refuses

ASSUME PermitsPositive == Permits \in Nat \ {0}
ASSUME CacheHoldsOne == CacheMax \in Nat \ {0}
ASSUME WorkersExist == IsFiniteSet(Workers) /\ Workers # {}
ASSUME TxidsFinite == IsFiniteSet(Txids)
ASSUME CallsOfHandlers ==
  IsFiniteSet(HandlerCalls) /\ Handlers \X {"main", "loop"} \subseteq HandlerCalls

VARIABLES
  kind,                                   \* which handler serves a request
  count, tasks, cstate,                   \* RpcSemaphore
  what, stage, left, known, cached,       \* PepewApi
  at,                                     \* the upstream handler a read awaits
  cache, old,      \* rawTxCache: its keys, and those whose time is over
  batch, next,     \* the txids of a lookup, and the index its workers share
  wpc, widx,       \* where a worker stands, and the index it works at
  results,         \* what the batch will answer
  pool,            \* the node's memory pool
  sent,            \* copies of a broadcast the node has yet to take
  attempt,         \* attempts of fetchJson, and
  heard,           \* the node's word on the present one
  entered,         \* broadcasts of which a copy entered the pool
  answer           \* what a lookup or broadcast was answered

reads == <<active, queue, state, reply, count, tasks, cstate,
           what, stage, left, known, cached, at>>
lookups == <<cache, old, batch, next, wpc, widx, results>>
broadcasts == <<pool, sent, attempt, heard, entered>>
all == <<kind, reads, lookups, broadcasts, answer>>

P == INSTANCE PepewApi WITH Calls <- HandlerCalls, state <- cstate

Slotted == {"balance", "utxos", "history"}
NoHandler == "none"
Readers == {r \in Requests : kind[r] \in Slotted}

InitAll ==
  /\ kind \in Kinds
  /\ Init /\ P!Init /\ P!InitHandlers /\ at = [r \in Requests |-> NoHandler]
  /\ cache = {} /\ old = {} /\ batch = [r \in Requests |-> <<>>]
  /\ next = [r \in Requests |-> 1]
  /\ wpc = [r \in Requests |-> [w \in Workers |-> "idle"]]
  /\ widx = [r \in Requests |-> [w \in Workers |-> 0]]
  /\ results = [r \in Requests |-> <<>>]
  /\ pool = {} /\ sent = [r \in Requests |-> 0] /\ attempt = [r \in Requests |-> 0]
  /\ heard = [r \in Requests |-> "nothing"] /\ entered = {}
  /\ answer = [r \in Requests |-> "none"]
-----------------------------------------------------------------------------
(* The reads: withPepewApiSlot around fetchJson *)

reading == <<kind, lookups, broadcasts, answer>>
upstream == <<count, tasks, cstate, what, stage, left, known, cached>>

ReadArrives(r) == r \in Readers /\ Arrive(r) /\ UNCHANGED <<upstream, at, reading>>

\* The fetch of a request that got its slot reaches pepew-api.
ReadFetches(r) ==
  /\ state[r] = "fetching" /\ at[r] = NoHandler
  /\ \E h \in Handlers : P!Begin(h, kind[r]) /\ at' = [at EXCEPT ![r] = h]
  /\ UNCHANGED <<vars, reading>>

\* The answer comes, and the slot goes back.
ReadAnswered(r) ==
  /\ at[r] # NoHandler /\ P!Leave(at[r]) /\ Finish(r)
  /\ at' = [at EXCEPT ![r] = NoHandler]
  /\ UNCHANGED reading

\* The timer of fetchJson aborts the fetch, or it fails: pepew-api works on.
ReadAborted(r) ==
  /\ Finish(r) /\ at' = [at EXCEPT ![r] = NoHandler]
  /\ UNCHANGED <<upstream, reading>>

\* A lookup of several addresses comes straight to pepew-api, and is answered
\* or given up by its client.
DirectArrives(r) ==
  /\ kind[r] = "multi" /\ at[r] = NoHandler
  /\ \E h \in Handlers : P!Begin(h, "multi") /\ at' = [at EXCEPT ![r] = h]
  /\ UNCHANGED <<vars, reading>>
DirectEnds(r) ==
  /\ kind[r] = "multi" /\ at[r] # NoHandler
  /\ P!Leave(at[r]) \/ UNCHANGED upstream
  /\ at' = [at EXCEPT ![r] = NoHandler]
  /\ UNCHANGED <<vars, reading>>

\* pepew-api by itself: the node's replies, the deadlines of its races, and
\* answers nobody waits for.
above == <<vars, at, reading>>
Orphaned(h) == \A r \in Requests : at[r] # h
UpstreamStep(h) ==
  /\ P!Ask(h) \/ P!NodeReplies(h) \/ P!RaceOver(h) \/ (Orphaned(h) /\ P!Leave(h))
  /\ UNCHANGED above
Expires == P!CacheExpires /\ UNCHANGED above

ReadStep ==
  \/ \E r \in Requests :
       \/ ReadArrives(r) \/ ReadFetches(r) \/ ReadAnswered(r) \/ ReadAborted(r)
       \/ DirectArrives(r) \/ DirectEnds(r)
  \/ \E h \in Handlers : UpstreamStep(h)
  \/ Expires
-----------------------------------------------------------------------------
(* The lookups: handleRawTx and handleRawTxBatch over fetchRawTxWithCache *)

looking == <<kind, reads, broadcasts>>
Go(r, w, s) == wpc' = [wpc EXCEPT ![r][w] = s]

\* A list of txids, without repetitions; one worker suffices for one of them.
LookupArrives(r) ==
  /\ kind[r] \in {"rawtx", "batch"} /\ batch[r] = <<>>
  /\ \E n \in 1..(IF kind[r] = "batch" THEN Cardinality(Txids) ELSE 1) : \E q \in [1..n -> Txids] :
       /\ \A i, k \in 1..n : q[i] = q[k] => i = k
       /\ batch' = [batch EXCEPT ![r] = q]
       /\ results' = [results EXCEPT ![r] = [i \in 1..n |-> "none"]]
       /\ \E W \in SUBSET Workers :
            /\ Cardinality(W) = (IF n < Cardinality(Workers) THEN n ELSE Cardinality(Workers))
            /\ wpc' = [wpc EXCEPT ![r] = [w \in Workers |-> IF w \in W THEN "ready" ELSE "idle"]]
  /\ UNCHANGED <<looking, cache, old, next, widx, answer>>

\* Two claims of an index gone wrong.
LateClaim(r) == next' = next
Claim(r) == next' = [next EXCEPT ![r] = @ + 1]

\* A worker takes the next index and looks into the cache, where an entry whose
\* time is over is deleted; or it finds the list at its end.
WorkerTakes(r, w) ==
  /\ wpc[r][w] = "ready"
  /\ IF next[r] > Len(batch[r])
     THEN Go(r, w, "idle") /\ UNCHANGED <<next, widx, results, cache, old>>
     ELSE LET t == batch[r][next[r]] IN
          /\ Claim(r) /\ widx' = [widx EXCEPT ![r][w] = next[r]]
          /\ IF t \in cache \ old
             THEN /\ results' = [results EXCEPT ![r][next[r]] = "cache"]
                  /\ UNCHANGED <<wpc, cache, old>>
             ELSE /\ Go(r, w, "indexer") /\ UNCHANGED results
                  /\ cache' = cache \ {t} /\ old' = old \ {t}
  /\ UNCHANGED <<looking, batch, answer>>

\* setRawTxCache: the entry is fresh; over the bound the expired entries go, then
\* a tenth at random, the new one too.
Unbounded(t) == cache' = cache \union {t} /\ old' = old \ {t}
Remember(t) ==
  LET kept == (cache \union {t}) \ (old \ {t}) IN
  IF Cardinality(cache \union {t}) <= CacheMax
  THEN cache' = cache \union {t} /\ old' = old \ {t}
  ELSE /\ old' = {}
       /\ IF Cardinality(kept) <= CacheMax THEN cache' = kept
          ELSE \E C \in SUBSET kept :
               Cardinality(kept) - Cardinality(C) = (Cardinality(kept) + 9) \div 10 /\ cache' = C

Outcome(r, w, s) == results' = [results EXCEPT ![r][widx[r][w]] = s]

\* fetchRawTxUpstream asks the indexer, then the node; what fails for another
\* reason than that the transaction is not found is tried twice.
WorkerHears(r, w) ==
  /\ wpc[r][w] \in {"indexer", "node", "indexer2", "node2"}
  /\ LET t == batch[r][widx[r][w]]
         again == wpc[r][w] \in {"indexer2", "node2"}
     IN  \/ Remember(t) /\ Outcome(r, w, "upstream") /\ Go(r, w, "ready")
         \/ /\ wpc[r][w] \in {"indexer", "indexer2"}
            /\ Go(r, w, IF again THEN "node2" ELSE "node")
            /\ UNCHANGED <<results, cache, old>>
         \/ /\ wpc[r][w] \in {"node", "node2"}
            /\ \/ Outcome(r, w, "failed") /\ Go(r, w, "ready")
               \/ ~again /\ Go(r, w, "indexer2") /\ UNCHANGED results
            /\ UNCHANGED <<cache, old>>
  /\ UNCHANGED <<looking, batch, next, widx, answer>>

\* await Promise.all(workers)
LookupAnswered(r) ==
  /\ batch[r] # <<>> /\ answer[r] = "none" /\ \A w \in Workers : wpc[r][w] = "idle"
  /\ answer' = [answer EXCEPT ![r] = "data"]
  /\ UNCHANGED <<looking, lookups>>

EntryExpires ==
  /\ \E t \in cache \ old : old' = old \union {t}
  /\ UNCHANGED <<looking, cache, batch, next, wpc, widx, results, answer>>

LookupStep ==
  \/ \E r \in Requests :
       \/ LookupArrives(r) \/ LookupAnswered(r)
       \/ \E w \in Workers : WorkerTakes(r, w) \/ WorkerHears(r, w)
  \/ EntryExpires
-----------------------------------------------------------------------------
(* The broadcasts: handleBroadcast around one or two sendrawtransaction calls *)

sending == <<kind, reads, lookups>>
Tx(r) == kind[r]
Reply(r, a) == answer' = [answer EXCEPT ![r] = a]

BroadcastArrives(r) ==
  /\ kind[r] \in Txs /\ attempt[r] = 0
  /\ attempt' = [attempt EXCEPT ![r] = 1] /\ sent' = [sent EXCEPT ![r] = 1]
  /\ UNCHANGED <<sending, pool, heard, entered, answer>>

Rivals(t) == {u \in Txs : {t, u} \in Conflicts}

\* sendrawtransaction: what the node says of a transaction, if it has the time.
Verdict(t) ==
  IF t \in Unfit THEN "refused"
  ELSE IF t \in pool THEN "id"
  ELSE IF Rivals(t) \intersect pool # {} THEN "conflict"
  ELSE "id"

\* A copy reaches the node, maybe after its attempt was given up; the reply may
\* be lost, and then the attempt goes on waiting.
NodeTakes(r) ==
  /\ sent[r] > 0 /\ sent' = [sent EXCEPT ![r] = @ - 1]
  /\ \E v \in {Verdict(Tx(r)), "error", "overloaded"} :
       /\ IF v = "id" THEN pool' = pool \union {Tx(r)} ELSE UNCHANGED pool
       /\ entered' = IF v = "id" /\ Tx(r) \notin pool THEN entered \union {r} ELSE entered
       /\ \/ heard[r] = "nothing" /\ answer[r] = "none" /\ heard' = [heard EXCEPT ![r] = v]
          \/ UNCHANGED heard
  /\ UNCHANGED <<sending, attempt, answer>>

CopyLost(r) ==
  /\ sent[r] > 0 /\ sent' = [sent EXCEPT ![r] = @ - 1]
  /\ UNCHANGED <<sending, pool, attempt, heard, entered, answer>>

MaxAttempts == 2

Again(r) ==
  /\ attempt[r] < MaxAttempts
  /\ attempt' = [attempt EXCEPT ![r] = @ + 1] /\ sent' = [sent EXCEPT ![r] = @ + 1]
  /\ heard' = [heard EXCEPT ![r] = "nothing"]
  /\ UNCHANGED <<sending, pool, entered, answer>>

\* An error that does not count as transient is final at once.
GivesUp(r) ==
  /\ attempt[r] = MaxAttempts \/ heard[r] = "nothing"
  /\ Reply(r, "unsure")
  /\ UNCHANGED <<sending, broadcasts>>

\* What the client is told: a conflict in the pool counts as success.
RefusalIsOk(v) == IF v = "error" THEN "unsure" ELSE "accepted"
ErrorIsFinal(v) == IF v \in {"id", "conflict"} THEN "accepted" ELSE "rejected"
Told(v) ==
  CASE v \in {"id", "conflict"} -> "accepted"
    [] v = "refused" -> "rejected"
    [] v = "error" -> "unsure"

\* No reply in time, a refused connection, or a status that is tried again.
AttemptFails(r) ==
  /\ attempt[r] > 0 /\ answer[r] = "none" /\ heard[r] \in {"nothing", "overloaded"}
  /\ Again(r) \/ GivesUp(r)

\* The reply is read; a body that stops half-way leaves the outcome open.
BroadcastAnswered(r) ==
  /\ answer[r] = "none" /\ heard[r] \in {"id", "conflict", "refused", "error"}
  /\ Reply(r, Told(heard[r])) \/ Reply(r, "unsure")
  /\ UNCHANGED <<sending, broadcasts>>

BroadcastStep ==
  \E r \in Requests :
    \/ BroadcastArrives(r) \/ NodeTakes(r) \/ CopyLost(r) \/ AttemptFails(r)
    \/ BroadcastAnswered(r)
-----------------------------------------------------------------------------
NextAll == ReadStep \/ LookupStep \/ BroadcastStep

\* undici's timers end every call of the node, a deadline ends every race, and
\* what needs no reply happens by itself.  A request that waits holds its
\* handler until the timer of fetchJson lets go.
FairAll ==
  /\ InitAll /\ [][NextAll]_all
  /\ \A r \in Requests : WF_all(ReadAborted(r) \/ DirectEnds(r))
  /\ \A h \in Handlers :
       /\ WF_all(P!Ask(h) /\ UNCHANGED above)
       /\ WF_all(P!RaceOver(h) /\ UNCHANGED above)
       /\ WF_all(Orphaned(h) /\ P!Leave(h) /\ UNCHANGED above)
       /\ WF_all(P!LoopReply(h) /\ UNCHANGED above)
       /\ WF_all(P!MainReply(h) /\ UNCHANGED above)
-----------------------------------------------------------------------------
(* Properties *)

TypeAll ==
  /\ TypeOK /\ P!TypeOK
  /\ at \in [Requests -> Handlers \union {NoHandler}]
  /\ old \subseteq cache /\ cache \subseteq Txids /\ Cardinality(cache) <= CacheMax
  /\ pool \subseteq Txs

\* The slots of wallet-api and the permits of pepew-api stay exact together,
\* whatever was aborted above while it worked on below: wallet-api counts its
\* own fetches, and the node never sees more than Permits calls.
BothCountsExact == SlotsCounted /\ P!PermitsConserved

\* Each of the two limiters stays a first-in first-out gate that lets in whoever
\* waits, also under aborted fetches and the handlers these leave behind.
ImplementsGates == ImplementsGate /\ P!ImplementsGate

\* Whatever became of the request, an upstream handler comes to its end, the
\* loop that lost its race too: no handler waits for ever for the permit of another.
HandlersEnd ==
  \A h \in Handlers : stage[h] # "free" ~> stage[h] = "free" /\ left[h] = 0

\* The workers of a batch never work at one index together, and a batch is
\* answered only when each of its places has an outcome.
BatchIsComplete ==
  \A r \in Requests :
    /\ \A v, w \in Workers :
         v # w /\ wpc[r][v] \notin {"idle", "ready"} /\ wpc[r][w] \notin {"idle", "ready"}
           => widx[r][v] # widx[r][w]
    /\ answer[r] = "data" => \A i \in 1..Len(batch[r]) : results[r][i] # "none"

\* What a client is told of a broadcast is true after lost replies and second
\* attempts: success means that the transaction, or one that spends its outputs,
\* is in the pool, and a rejection that no copy of it has entered the pool.
BroadcastIsTrue ==
  \A r \in {q \in Requests : kind[q] \in Txs} :
    /\ answer[r] = "accepted" => ({Tx(r)} \union Rivals(Tx(r))) \intersect pool # {}
    /\ answer[r] = "rejected" => r \notin entered
=============================================================================
