------------------------- MODULE GridRunner_proofs -------------------------
(* Proofs about GridRunner, for every value of its constants. *)
EXTENDS GridRunner, FiniteSetTheorems, TLAPS

\* The units of the orders or targets of one side.
UnitsOf(S, s) == {o.unit : o \in {p \in S : p.side = s}}

\* Who answers for an order: the reply the tick awaits, or the history of lost
\* ones; the tables hold no order that is still on its way.
Accounted ==
  /\ sent \subseteq {cur} \union strays
  /\ live \subseteq registry \union {cur} \union strays
  /\ OnBook \ strays \subseteq grid \union {cur}
  /\ sent \intersect (grid \union registry) = {}
  /\ \A j \in Jobs : ids[j] \intersect sent = {}
  /\ IF pc = "creating" THEN cur \in Orders ELSE cur = NoOrder /\ verdict = "none"
  /\ verdict # "none" => cur \notin sent
  /\ verdict = "refused" => cur \notin live

\* The tick's snapshots, however old, still cover the table and never
\* hold an order that is on its way; a row to be closed has no order but a stray.
Snapshots ==
  /\ pc \in {"price", "list"} => aged \intersect young = {}
  /\ pc \in {"list", "sync", "dedupe", "cross"} =>
       rows \intersect sent = {} /\ todo \intersect sent = {}
  /\ pc \in {"idle", "price", "list", "sync"} => todo = {}
  /\ gone \intersect OnBook \subseteq strays
  /\ pc # "sync" => gone = {}
  /\ pc \in {"list", "sync", "dedupe", "cross", "plan"} => grid \subseteq rows

\* A plan has one target per tick, none where an order of the strategy stands.
PlanIsCarriedOut == pc \notin {"place", "creating"} => plan = {}
PlanIsFree ==
  /\ \A p \in plan, o \in OnBook \ strays : p.unit # o.unit
  /\ \A p, q \in plan : p.unit = q.unit => p = q

\* Carrying out the rest of the plan keeps within the limit.
PlanFits ==
  \A s \in Sides :
    Cardinality(UnitsOf(OnBook \ strays, s) \union UnitsOf(plan, s)) <= MaxLevels(s)

\* What a calm stop knows until it is over, and what stays true after it.
Calm ==
  /\ \A j \in Jobs : calm[j] =>
       /\ jpc[j] # "idle" /\ ~enabled /\ ~running /\ sent = {}
       /\ jpc[j] = "cancel" => live \subseteq ids[j]
  /\ stopped => ~enabled /\ ~running /\ OnBook = {}

\* A list that is not empty has a first element.
LEMMA FirstIn == ASSUME NEW S, S # {} PROVE First(S) \in S
  BY DEF First

\* The default of a count is one of the choices; the orders left behind are orders.
LEMMA ChoiceType == NoLevels \in LevelChoices
  BY LevelsAreCounts DEF NoLevels

\* The rows an earlier process left are leftovers, and orders.
LEMMA LeftoverType == \A R \in OldRows : R \subseteq Leftovers /\ R \subseteq Orders
  BY DEF Leftovers, Orders

\* A fault is counted within its bound.
LEMMA FaultType == ASSUME TypeOK, Fault PROVE faults' \in 0..MaxFaults
  BY GridBounds DEF TypeOK, Fault

\* What the steps below need of the types.
LEMMA TypeFacts ==
  ASSUME TypeOK
  PROVE  /\ running = (pc # "idle") /\ sent \intersect live = {} /\ NoOrder \notin Orders
         /\ sent \subseteq Orders /\ live \subseteq Orders /\ young \subseteq grid
         /\ ids \in [Jobs -> SUBSET Orders] /\ calm \in [Jobs -> BOOLEAN]
         /\ jpc \in [Jobs -> {"idle", "list", "cancel"}]
<1>1. \A o \in Orders : o.side \in Sides
  BY LeftoversAreOrders DEF Orders
<1>2. NoOrder.side \notin Sides
  BY DEF NoOrder, Sides
<1> QED
  BY <1>1, <1>2 DEF TypeOK

\* What the syncs, the tidying and the jobs take from a set is a part of it.
LEMMA ToCancel ==
  /\ \A S : \A D \in Duplicates(S) : D \subseteq S
  /\ \A S : Crossing(S) \subseteq S
  /\ \A S : Gone(S) \subseteq rows
  BY DEF Duplicates, Crossing, Gone

\* The initial states are typed.
LEMMA TypeInit == Init => TypeOK
<1> SUFFICES ASSUME Init PROVE TypeOK
  OBVIOUS
<1>1. live \subseteq Orders /\ levels \in LevelChoices
  BY LeftoverType DEF Init
<1>2. 0 \in 0..MaxFaults
  BY GridBounds
<1> QED
  BY <1>1, <1>2, ChoiceType DEF Init, TypeOK, NoLocals

\* Every step keeps the types.
LEMMA TypeStep ==
  ASSUME TypeOK, Accounted, [Next]_vars
  PROVE  TypeOK'
<1>1. CASE TickStart
  BY <1>1 DEF TickStart, config, tables, book, locals, tick, jobs, TypeOK
<1>2. CASE TickPrice
  BY <1>2, ChoiceType DEF TickPrice, Return, Unlocked, config, tables, book, locals, tick, jobs, TypeOK
<1>3. CASE ExchangeLists
  <2>1. gone' \subseteq Orders /\ faults' \in 0..MaxFaults
    <3>1. gone' \subseteq rows
      BY <1>3 DEF ExchangeLists, Gone
    <3>2. faults' \in 0..MaxFaults
      BY <1>3, FaultType DEF ExchangeLists, TypeOK
    <3> QED
      BY <3>1, <3>2 DEF TypeOK
  <2>2. strays' \subseteq Orders
    BY <1>3 DEF ExchangeLists, TypeOK
  <2> QED
    BY <1>3, <2>1, <2>2 DEF ExchangeLists, config, tables, book, locals, tick, jobs, TypeOK
<1>4. CASE TickSync
  <2>1. rows' \subseteq Orders
    BY <1>4 DEF TickSync, TypeOK
  <2>2. todo' \subseteq Orders
    BY <1>4, <2>1, ToCancel DEF TickSync
  <2> QED
    BY <1>4, <2>1, <2>2 DEF TickSync, config, tables, book, locals, tick, jobs, TypeOK
<1>5. CASE TickCancel
  <2>1. /\ todo' \subseteq todo /\ live' \subseteq live /\ grid' \subseteq grid
        /\ registry' \subseteq registry /\ strays' \subseteq strays /\ young' \subseteq grid'
        /\ tidied' \subseteq {"dedupe", "cross"}
    BY <1>5 DEF TickCancel, tables, TypeOK
  <2>2. faults' \in 0..MaxFaults
    BY <1>5, FaultType DEF TickCancel, TypeOK
  <2> QED
    BY <1>5, <2>1, <2>2 DEF TickCancel, config, tables, book, locals, tick, jobs, TypeOK
<1>6. CASE TickCross
  <2>1. rows' \subseteq Orders
    BY <1>6 DEF TickCross, TypeOK
  <2>2. todo' \subseteq Orders
    BY <1>6, <2>1, ToCancel DEF TickCross
  <2> QED
    BY <1>6, <2>1, <2>2 DEF TickCross, config, tables, book, locals, tick, jobs, TypeOK
<1>7. CASE TickTidied
  BY <1>7 DEF TickTidied, config, tables, book, locals, tick, jobs, TypeOK
<1>8. CASE TickPlan
  BY <1>8, ChoiceType DEF TickPlan, Return, Unlocked, config, tables, book, locals, tick, jobs, TypeOK
<1>9. CASE SkipTarget
  BY <1>9 DEF SkipTarget, config, tables, book, locals, tick, jobs, TypeOK
<1>10. CASE SendCreate
  <2>1. PICK o \in Orders : Fresh(o) /\ sent' = sent \union {o} /\ cur' = o
    BY <1>10 DEF SendCreate
  <2>2. o \notin live
    BY <2>1 DEF Fresh, OnBook
  <2> QED
    BY <1>10, <2>1, <2>2 DEF SendCreate, config, tables, book, locals, tick, jobs, TypeOK
<1>11. CASE CreateReply
  <2>1. strays' \subseteq strays \union {cur} /\ faults' \in 0..MaxFaults
    BY <1>11, FaultType DEF CreateReply, TypeOK
  <2>2. cur \in Orders
    BY <1>11 DEF CreateReply, Accounted
  <2>3. /\ grid' \subseteq grid \union {cur} /\ registry' \subseteq registry \union {cur}
        /\ young' \subseteq grid'
    BY <1>11 DEF CreateReply, tables, TypeOK
  <2> QED
    BY <1>11, <2>1, <2>2, <2>3 DEF CreateReply, config, tables, book, locals, tick, jobs, TypeOK
<1>12. CASE TickEnd
  BY <1>12, ChoiceType DEF TickEnd, Return, Unlocked, config, tables, book, locals, tick, jobs, TypeOK
<1>13. ASSUME NEW j \in Jobs, RequestCancel(j) PROVE TypeOK'
  BY <1>13 DEF RequestCancel, config, tables, book, locals, tick, jobs, TypeOK
<1>14. ASSUME NEW j \in Jobs, JobList(j) PROVE TypeOK'
  <2>1. ids' \in [Jobs -> SUBSET Orders] /\ calm' \in [Jobs -> BOOLEAN]
    BY <1>14 DEF JobList, Marked, TypeOK
  <2>2. faults' \in 0..MaxFaults
    BY <1>14, FaultType DEF JobList, TypeOK
  <2> QED
    BY <1>14, <2>1, <2>2 DEF JobList, config, tables, book, locals, tick, jobs, TypeOK
<1>15. ASSUME NEW j \in Jobs, JobCancel(j) PROVE TypeOK'
  <2>1. ids' \in [Jobs -> SUBSET Orders] /\ calm' \in [Jobs -> BOOLEAN]
    BY <1>15 DEF JobCancel, TypeOK
  <2>2. faults' \in 0..MaxFaults
    BY <1>15, FaultType DEF JobCancel, TypeOK
  <2>3. live' \subseteq live /\ registry' \subseteq registry /\ strays' \subseteq strays
    BY <1>15 DEF JobCancel
  <2> QED
    BY <1>15, <2>1, <2>2, <2>3 DEF JobCancel, config, tables, book, locals, tick, jobs, TypeOK
<1>16. ASSUME NEW j \in Jobs, JobFinish(j) PROVE TypeOK'
  BY <1>16 DEF JobFinish, config, tables, book, locals, tick, jobs, TypeOK
<1>17. ASSUME NEW o \in Orders, ExchangeAccepts(o) PROVE TypeOK'
  BY <1>17 DEF ExchangeAccepts, config, tables, book, locals, tick, jobs, TypeOK
<1>18. ASSUME NEW o \in Orders, ExchangeRejects(o) PROVE TypeOK'
  BY <1>18 DEF ExchangeRejects, config, tables, book, locals, tick, jobs, TypeOK
<1>19. ASSUME NEW o \in Orders, Fill(o) PROVE TypeOK'
  BY <1>19 DEF Fill, config, tables, book, locals, tick, jobs, TypeOK
<1>20. CASE TenSecondsPass
  BY <1>20 DEF TenSecondsPass, config, tables, book, locals, tick, jobs, TypeOK
<1>21. CASE Enable
  BY <1>21 DEF Enable, Reenabled, config, tables, book, locals, tick, jobs, TypeOK
<1>22. CASE Disable
  BY <1>22 DEF Disable, config, tables, book, locals, tick, jobs, TypeOK
<1>23. CASE Crash
  <2>1. strays' \subseteq Orders
    BY <1>23 DEF Crash, TypeOK, OnBook
  <2>2. faults' \in 0..MaxFaults
    BY <1>23, FaultType DEF Crash
  <2> QED
    BY <1>23, <2>1, <2>2, ChoiceType DEF Crash, Return, Unlocked, config, tables, book, locals, tick, jobs, TypeOK
<1>24. ASSUME NEW m \in LevelChoices, Upsert(m) PROVE TypeOK'
  BY <1>24 DEF Upsert, Reenabled, config, tables, book, locals, tick, jobs, TypeOK
<1>25. CASE UNCHANGED vars
  BY <1>25 DEF vars, config, tables, book, locals, tick, jobs, TypeOK
<1> QED
  BY <1>1, <1>2, <1>3, <1>4, <1>5, <1>6, <1>7, <1>8, <1>9, <1>10, <1>11, <1>12, <1>13,
     <1>14, <1>15, <1>16, <1>17, <1>18, <1>19, <1>20, <1>21, <1>22, <1>23, <1>24, <1>25 DEF
     Next, TickStep, Others, JobStep

\* Every order keeps someone who answers for it.
LEMMA AccountedStep ==
  ASSUME TypeOK, Accounted, Snapshots, [Next]_vars
  PROVE  Accounted'
<1>1. CASE TickStart
  BY <1>1, TypeFacts DEF TickStart, config, tables, book, locals, tick, jobs, Accounted, OnBook
<1>2. CASE TickPrice
  BY <1>2 DEF TickPrice, Return, Unlocked, config, tables, book, locals, tick, jobs,
     Accounted, OnBook
<1>3. CASE ExchangeLists
  BY <1>3 DEF ExchangeLists, Fault, config, tables, book, locals, tick, jobs, Accounted,
     OnBook
<1>4. CASE TickSync
  <2>1. gone \intersect OnBook \subseteq strays
    BY DEF Snapshots
  <2> QED
    BY <1>4, <2>1 DEF TickSync, config, tables, book, locals, tick, jobs, Accounted, OnBook
<1>5. CASE TickCancel
  <2> DEFINE o == First(todo)
  <2>1. o \in todo /\ o \notin sent /\ cur = NoOrder /\ sent \subseteq Orders
    BY <1>5, FirstIn, TypeFacts DEF TickCancel, Snapshots, Accounted
  <2>2. /\ live' \in {live, live \ {o}} /\ strays' \in {strays, strays \ {o}}
        /\ (o \in live' => strays' = strays /\ registry' = registry /\ grid' = grid)
        /\ registry \ {o} \subseteq registry' /\ registry' \subseteq registry
        /\ grid \ {o} \subseteq grid' /\ grid' \subseteq grid
    BY <1>5 DEF TickCancel, tables
  <2>3. /\ sent' = sent /\ cur' = cur /\ pc' = pc /\ verdict' = verdict /\ ids' = ids
    BY <1>5 DEF TickCancel, jobs
  <2> HIDE DEF o
  <2> QED
    BY <2>1, <2>2, <2>3 DEF Accounted, OnBook
<1>6. CASE TickCross
  BY <1>6 DEF TickCross, config, tables, book, locals, tick, jobs, Accounted, OnBook
<1>7. CASE TickTidied
  BY <1>7 DEF TickTidied, config, tables, book, locals, tick, jobs, Accounted, OnBook
<1>8. CASE TickPlan
  BY <1>8 DEF TickPlan, Return, Unlocked, config, tables, book, locals, tick, jobs,
     Accounted, OnBook
<1>9. CASE SkipTarget
  BY <1>9 DEF SkipTarget, config, tables, book, locals, tick, jobs, Accounted, OnBook
<1>10. CASE SendCreate
  <2>1. PICK o \in Orders : Fresh(o) /\ sent' = sent \union {o} /\ cur' = o
    BY <1>10 DEF SendCreate
  <2>2. o \notin OnBook \union grid \union registry /\ \A j \in Jobs : o \notin ids[j]
    BY <2>1 DEF Fresh
  <2>3. /\ cur = NoOrder /\ verdict = "none" /\ NoOrder \notin OnBook
    BY <1>10, TypeFacts DEF SendCreate, Accounted, OnBook
  <2>4. /\ pc' = "creating" /\ live' = live /\ grid' = grid /\ registry' = registry
        /\ ids' = ids /\ strays' = strays /\ verdict' = verdict
    BY <1>10 DEF SendCreate, tables, jobs
  <2> QED
    BY <2>1, <2>2, <2>3, <2>4 DEF Accounted, OnBook
<1>11. CASE CreateReply
  BY <1>11 DEF CreateReply, Fault, config, tables, book, locals, tick, jobs, Accounted,
     OnBook
<1>12. CASE TickEnd
  BY <1>12 DEF TickEnd, Return, Unlocked, config, tables, book, locals, tick, jobs,
     Accounted, OnBook
<1>13. ASSUME NEW j \in Jobs, RequestCancel(j) PROVE Accounted'
  BY <1>13 DEF RequestCancel, config, tables, book, locals, tick, jobs, Accounted, OnBook
<1>14. ASSUME NEW j \in Jobs, JobList(j) PROVE Accounted'
  <2>1. \A k \in Jobs : ids'[k] \subseteq ids[k] \union live
    BY <1>14, TypeFacts DEF JobList, Marked
  <2>2. sent \intersect live = {}
    BY TypeFacts
  <2> QED
    BY <1>14, <2>1, <2>2 DEF JobList, Fault, config, tables, book, locals, tick, jobs, Accounted, OnBook
<1>15. ASSUME NEW j \in Jobs, JobCancel(j) PROVE Accounted'
  <2> DEFINE o == First(ids[j])
  <2>1. o \in ids[j] /\ o \notin sent
    BY <1>15, FirstIn DEF JobCancel, Accounted
  <2>2. /\ live' \in {live, live \ {o}} /\ strays' \in {strays, strays \ {o}}
        /\ (o \in live' => strays' = strays /\ registry' = registry)
        /\ registry \ {o} \subseteq registry' /\ registry' \subseteq registry
    BY <1>15 DEF JobCancel
  <2>3. \A k \in Jobs : ids'[k] \subseteq ids[k]
    BY <1>15, TypeFacts DEF JobCancel
  <2>4. /\ sent' = sent /\ cur' = cur /\ pc' = pc /\ verdict' = verdict /\ grid' = grid
    BY <1>15 DEF JobCancel, tick, locals
  <2> HIDE DEF o
  <2> QED
    BY <2>1, <2>2, <2>3, <2>4 DEF Accounted, OnBook
<1>16. ASSUME NEW j \in Jobs, JobFinish(j) PROVE Accounted'
  BY <1>16 DEF JobFinish, config, tables, book, locals, tick, jobs, Accounted, OnBook
<1>17. ASSUME NEW o \in Orders, ExchangeAccepts(o) PROVE Accounted'
  BY <1>17, TypeFacts DEF ExchangeAccepts, config, tables, book, locals, tick, jobs, Accounted, OnBook
<1>18. ASSUME NEW o \in Orders, ExchangeRejects(o) PROVE Accounted'
  BY <1>18, TypeFacts DEF ExchangeRejects, config, tables, book, locals, tick, jobs, Accounted, OnBook
<1>19. ASSUME NEW o \in Orders, Fill(o) PROVE Accounted'
  BY <1>19, TypeFacts DEF Fill, config, tables, book, locals, tick, jobs, Accounted, OnBook
<1>20. CASE TenSecondsPass
  BY <1>20 DEF TenSecondsPass, config, tables, book, locals, tick, jobs, Accounted, OnBook
<1>21. CASE Enable
  BY <1>21 DEF Enable, Reenabled, config, tables, book, locals, tick, jobs, Accounted,
     OnBook
<1>22. CASE Disable
  BY <1>22 DEF Disable, config, tables, book, locals, tick, jobs, Accounted, OnBook
<1>23. CASE Crash
  BY <1>23 DEF Crash, Fault, Return, Unlocked, config, tables, book, locals, tick, jobs,
     Accounted, OnBook
<1>24. ASSUME NEW m \in LevelChoices, Upsert(m) PROVE Accounted'
  BY <1>24 DEF Upsert, Reenabled, config, tables, book, locals, tick, jobs, Accounted,
     OnBook
<1>25. CASE UNCHANGED vars
  BY <1>25 DEF vars, config, tables, book, locals, tick, jobs, Accounted, OnBook
<1> QED
  BY <1>1, <1>2, <1>3, <1>4, <1>5, <1>6, <1>7, <1>8, <1>9, <1>10, <1>11, <1>12, <1>13,
     <1>14, <1>15, <1>16, <1>17, <1>18, <1>19, <1>20, <1>21, <1>22, <1>23, <1>24, <1>25 DEF
     Next, TickStep, Others, JobStep

\* The snapshots stay good while orders come and go around the tick.
LEMMA SnapshotsStep ==
  ASSUME TypeOK, Accounted, Snapshots, [Next]_vars
  PROVE  Snapshots'
<1>1. CASE TickStart
  BY <1>1, TypeFacts DEF TickStart, config, tables, book, locals, tick, jobs, Snapshots, OnBook
<1>2. CASE TickPrice
  BY <1>2, TypeFacts DEF TickPrice, Return, Unlocked, Accounted, config, tables, book, locals, tick, jobs, Snapshots, OnBook
<1>3. CASE ExchangeLists
  <2>1. gone' \subseteq rows /\ gone' \intersect live \subseteq strays'
    <3>1. \A shown : Gone(shown) \subseteq rows
      BY DEF Gone
    <3>2. \A late \in SUBSET young : Gone(live \ late) \intersect live = {}
      BY <1>3, TypeFacts DEF ExchangeLists, Gone, Snapshots
    <3> QED
      BY <1>3, <3>1, <3>2 DEF ExchangeLists
  <2> QED
    BY <1>3, <2>1 DEF ExchangeLists, config, tables, book, locals, tick, jobs, Snapshots, OnBook
<1>4. CASE TickSync
  <2>1. rows' \intersect sent = {} /\ grid' \subseteq rows'
    BY <1>4 DEF TickSync, Snapshots, Accounted
  <2>2. todo' \subseteq rows'
    BY <1>4, ToCancel DEF TickSync
  <2> QED
    BY <1>4, <2>1, <2>2 DEF TickSync, config, tables, book, locals, tick, jobs, Snapshots, OnBook
<1>5. CASE TickCancel
  <2>1. live' \subseteq live /\ grid' \subseteq grid /\ young' \subseteq young
    BY <1>5 DEF TickCancel, tables
  <2> QED
    BY <1>5, <2>1 DEF TickCancel, config, tables, book, locals, tick, jobs, Snapshots, OnBook
<1>6. CASE TickCross
  <2>1. rows' \intersect sent = {} /\ grid' \subseteq rows'
    BY <1>6 DEF TickCross, Snapshots, Accounted, tables
  <2>2. todo' \subseteq rows'
    BY <1>6, ToCancel DEF TickCross
  <2> QED
    BY <1>6, <2>1, <2>2 DEF TickCross, config, tables, book, locals, tick, jobs, Snapshots, OnBook
<1>7. CASE TickTidied
  BY <1>7 DEF TickTidied, config, tables, book, locals, tick, jobs, Snapshots, OnBook
<1>8. CASE TickPlan
  BY <1>8 DEF TickPlan, Return, Unlocked, config, tables, book, locals, tick, jobs,
     Snapshots, OnBook
<1>9. CASE SkipTarget
  BY <1>9 DEF SkipTarget, config, tables, book, locals, tick, jobs, Snapshots, OnBook
<1>10. CASE SendCreate
  BY <1>10 DEF SendCreate, config, tables, book, locals, tick, jobs, Snapshots, OnBook
<1>11. CASE CreateReply
  BY <1>11 DEF CreateReply, Fault, config, tables, book, locals, tick, jobs, Snapshots,
     OnBook
<1>12. CASE TickEnd
  BY <1>12 DEF TickEnd, Return, Unlocked, config, tables, book, locals, tick, jobs,
     Snapshots, OnBook
<1>13. ASSUME NEW j \in Jobs, RequestCancel(j) PROVE Snapshots'
  BY <1>13 DEF RequestCancel, config, tables, book, locals, tick, jobs, Snapshots, OnBook
<1>14. ASSUME NEW j \in Jobs, JobList(j) PROVE Snapshots'
  BY <1>14 DEF JobList, Fault, config, tables, book, locals, tick, jobs, Snapshots, OnBook
<1>15. ASSUME NEW j \in Jobs, JobCancel(j) PROVE Snapshots'
  <2> DEFINE o == First(ids[j])
  <2>1. o \notin sent
    BY <1>15, FirstIn DEF JobCancel, Accounted
  <2>2. \/ live' = live \ {o} /\ strays' = strays \ {o}
        \/ live' = live /\ strays' = strays
    BY <1>15 DEF JobCancel
  <2> HIDE DEF o
  <2> QED
    BY <1>15, <2>1, <2>2 DEF JobCancel, config, tables, book, locals, tick, jobs, Snapshots, OnBook
<1>16. ASSUME NEW j \in Jobs, JobFinish(j) PROVE Snapshots'
  BY <1>16 DEF JobFinish, config, tables, book, locals, tick, jobs, Snapshots, OnBook
<1>17. ASSUME NEW o \in Orders, ExchangeAccepts(o) PROVE Snapshots'
  BY <1>17, TypeFacts DEF ExchangeAccepts, config, tables, book, locals, tick, jobs, Snapshots, OnBook
<1>18. ASSUME NEW o \in Orders, ExchangeRejects(o) PROVE Snapshots'
  BY <1>18, TypeFacts DEF ExchangeRejects, config, tables, book, locals, tick, jobs, Snapshots, OnBook
<1>19. ASSUME NEW o \in Orders, Fill(o) PROVE Snapshots'
  BY <1>19, TypeFacts DEF Fill, config, tables, book, locals, tick, jobs, Snapshots, OnBook
<1>20. CASE TenSecondsPass
  BY <1>20 DEF TenSecondsPass, config, tables, book, locals, tick, jobs, Snapshots, OnBook
<1>21. CASE Enable
  BY <1>21 DEF Enable, Reenabled, config, tables, book, locals, tick, jobs, Snapshots,
     OnBook
<1>22. CASE Disable
  BY <1>22 DEF Disable, config, tables, book, locals, tick, jobs, Snapshots, OnBook
<1>23. CASE Crash
  BY <1>23 DEF Crash, Fault, Return, Unlocked, config, tables, book, locals, tick, jobs,
     Snapshots, OnBook
<1>24. ASSUME NEW m \in LevelChoices, Upsert(m) PROVE Snapshots'
  BY <1>24 DEF Upsert, Reenabled, config, tables, book, locals, tick, jobs, Snapshots,
     OnBook
<1>25. CASE UNCHANGED vars
  BY <1>25 DEF vars, config, tables, book, locals, tick, jobs, Snapshots, OnBook
<1> QED
  BY <1>1, <1>2, <1>3, <1>4, <1>5, <1>6, <1>7, <1>8, <1>9, <1>10, <1>11, <1>12, <1>13,
     <1>14, <1>15, <1>16, <1>17, <1>18, <1>19, <1>20, <1>21, <1>22, <1>23, <1>24, <1>25 DEF
     Next, TickStep, Others, JobStep

\* Nothing sends an order while a calm stop is under way or after it.
LEMMA CalmStep ==
  ASSUME TypeOK, Accounted, Calm, [Next]_vars
  PROVE  Calm'
<1>1. CASE TickStart
  BY <1>1, TypeFacts DEF TickStart, config, tables, book, locals, tick, jobs, Calm, OnBook
<1>2. CASE TickPrice
  BY <1>2 DEF TickPrice, Return, Unlocked, config, tables, book, locals, tick, jobs, Calm,
     OnBook
<1>3. CASE ExchangeLists
  BY <1>3 DEF ExchangeLists, Fault, config, tables, book, locals, tick, jobs, Calm, OnBook
<1>4. CASE TickSync
  BY <1>4 DEF TickSync, config, tables, book, locals, tick, jobs, Calm, OnBook
<1>5. CASE TickCancel
  <2>1. live' \subseteq live /\ running
    BY <1>5, TypeFacts DEF TickCancel
  <2> QED
    BY <1>5, <2>1 DEF TickCancel, config, tables, book, locals, tick, jobs, Calm, OnBook
<1>6. CASE TickCross
  BY <1>6 DEF TickCross, config, tables, book, locals, tick, jobs, Calm, OnBook
<1>7. CASE TickTidied
  BY <1>7 DEF TickTidied, config, tables, book, locals, tick, jobs, Calm, OnBook
<1>8. CASE TickPlan
  BY <1>8 DEF TickPlan, Return, Unlocked, config, tables, book, locals, tick, jobs, Calm,
     OnBook
<1>9. CASE SkipTarget
  BY <1>9 DEF SkipTarget, config, tables, book, locals, tick, jobs, Calm, OnBook
<1>10. CASE SendCreate
  BY <1>10, TypeFacts DEF SendCreate, config, tables, book, locals, tick, jobs, Calm, OnBook
<1>11. CASE CreateReply
  BY <1>11 DEF CreateReply, Fault, config, tables, book, locals, tick, jobs, Calm, OnBook
<1>12. CASE TickEnd
  BY <1>12 DEF TickEnd, Return, Unlocked, config, tables, book, locals, tick, jobs, Calm,
     OnBook
<1>13. ASSUME NEW j \in Jobs, RequestCancel(j) PROVE Calm'
  <2>1. \A k \in Jobs : k # j => calm'[k] = calm[k] /\ jpc'[k] = jpc[k] /\ ids'[k] = ids[k]
    BY <1>13, TypeFacts DEF RequestCancel
  <2>2. jpc'[j] = "list" /\ (calm'[j] => ~enabled /\ ~running /\ sent = {})
    BY <1>13, TypeFacts DEF RequestCancel
  <2> QED
    BY <1>13, <2>1, <2>2 DEF RequestCancel, config, tables, book, locals, tick, jobs, Calm, OnBook
<1>14. ASSUME NEW j \in Jobs, JobList(j) PROVE Calm'
  <2>1. \A k \in Jobs : k # j => calm'[k] = calm[k] /\ jpc'[k] = jpc[k] /\ ids'[k] = ids[k]
    BY <1>14, TypeFacts DEF JobList
  <2>2. jpc'[j] = "cancel" /\ (calm'[j] => calm[j] /\ live \subseteq ids'[j])
    BY <1>14, TypeFacts DEF JobList, Marked
  <2> QED
    BY <1>14, <2>1, <2>2 DEF JobList, config, tables, book, locals, tick, jobs, Calm, OnBook
<1>15. ASSUME NEW j \in Jobs, JobCancel(j) PROVE Calm'
  <2>1. /\ \A k \in Jobs : k # j => calm'[k] = calm[k] /\ ids'[k] = ids[k]
        /\ ids'[j] = ids[j] \ {First(ids[j])} /\ jpc' = jpc
    BY <1>15, TypeFacts DEF JobCancel
  <2>2. live' \subseteq live /\ (calm'[j] => calm[j] /\ live' = live \ {First(ids[j])})
    BY <1>15, TypeFacts DEF JobCancel
  <2> QED
    BY <1>15, <2>1, <2>2 DEF JobCancel, config, tables, book, locals, tick, jobs, Calm, OnBook
<1>16. ASSUME NEW j \in Jobs, JobFinish(j) PROVE Calm'
  <2>1. \A k \in Jobs : k # j => calm'[k] = calm[k] /\ jpc'[k] = jpc[k]
    BY <1>16, TypeFacts DEF JobFinish
  <2>2. ~calm'[j]
    BY <1>16, TypeFacts DEF JobFinish
  <2>3. calm[j] => OnBook = {} /\ ~enabled /\ ~running
    BY <1>16 DEF JobFinish, Calm, OnBook
  <2> QED
    BY <1>16, <2>1, <2>2, <2>3 DEF JobFinish, config, tables, book, locals, tick, jobs, Calm, OnBook
<1>17. ASSUME NEW o \in Orders, ExchangeAccepts(o) PROVE Calm'
  BY <1>17 DEF ExchangeAccepts, config, tables, book, locals, tick, jobs, Calm, OnBook
<1>18. ASSUME NEW o \in Orders, ExchangeRejects(o) PROVE Calm'
  BY <1>18 DEF ExchangeRejects, config, tables, book, locals, tick, jobs, Calm, OnBook
<1>19. ASSUME NEW o \in Orders, Fill(o) PROVE Calm'
  BY <1>19 DEF Fill, config, tables, book, locals, tick, jobs, Calm, OnBook
<1>20. CASE TenSecondsPass
  BY <1>20 DEF TenSecondsPass, config, tables, book, locals, tick, jobs, Calm, OnBook
<1>21. CASE Enable
  BY <1>21 DEF Enable, Reenabled, config, tables, book, locals, tick, jobs, Calm, OnBook
<1>22. CASE Disable
  BY <1>22 DEF Disable, config, tables, book, locals, tick, jobs, Calm, OnBook
<1>23. CASE Crash
  BY <1>23, TypeFacts DEF Crash, Return, Unlocked, config, tables, book, locals, tick, jobs, Calm, OnBook
<1>24. ASSUME NEW m \in LevelChoices, Upsert(m) PROVE Calm'
  BY <1>24 DEF Upsert, Reenabled, config, tables, book, locals, tick, jobs, Calm, OnBook
<1>25. CASE UNCHANGED vars
  BY <1>25 DEF vars, config, tables, book, locals, tick, jobs, Calm, OnBook
<1> QED
  BY <1>1, <1>2, <1>3, <1>4, <1>5, <1>6, <1>7, <1>8, <1>9, <1>10, <1>11, <1>12, <1>13,
     <1>14, <1>15, <1>16, <1>17, <1>18, <1>19, <1>20, <1>21, <1>22, <1>23, <1>24, <1>25 DEF
     Next, TickStep, Others, JobStep

\* A plan exists only while it is carried out.
LEMMA CarryOutStep ==
  ASSUME TypeOK, PlanIsCarriedOut, [Next]_vars
  PROVE  PlanIsCarriedOut'
<1>1. CASE TickStart
  BY <1>1, TypeFacts DEF TickStart, config, tables, book, locals, tick, jobs, PlanIsCarriedOut
<1>2. CASE TickPrice
  BY <1>2 DEF TickPrice, Return, Unlocked, config, tables, book, locals, tick, jobs,
     PlanIsCarriedOut
<1>3. CASE ExchangeLists
  BY <1>3 DEF ExchangeLists, Fault, config, tables, book, locals, tick, jobs,
     PlanIsCarriedOut
<1>4. CASE TickSync
  BY <1>4 DEF TickSync, config, tables, book, locals, tick, jobs, PlanIsCarriedOut
<1>5. CASE TickCancel
  BY <1>5 DEF TickCancel, Fault, config, tables, book, locals, tick, jobs, PlanIsCarriedOut
<1>6. CASE TickCross
  BY <1>6 DEF TickCross, config, tables, book, locals, tick, jobs, PlanIsCarriedOut
<1>7. CASE TickTidied
  BY <1>7 DEF TickTidied, config, tables, book, locals, tick, jobs, PlanIsCarriedOut
<1>8. CASE TickPlan
  BY <1>8 DEF TickPlan, Return, Unlocked, config, tables, book, locals, tick, jobs,
     PlanIsCarriedOut
<1>9. CASE SkipTarget
  BY <1>9 DEF SkipTarget, config, tables, book, locals, tick, jobs, PlanIsCarriedOut
<1>10. CASE SendCreate
  BY <1>10 DEF SendCreate, config, tables, book, locals, tick, jobs, PlanIsCarriedOut
<1>11. CASE CreateReply
  BY <1>11 DEF CreateReply, Fault, config, tables, book, locals, tick, jobs,
     PlanIsCarriedOut
<1>12. CASE TickEnd
  BY <1>12 DEF TickEnd, Return, Unlocked, config, tables, book, locals, tick, jobs,
     PlanIsCarriedOut
<1>13. ASSUME NEW j \in Jobs, RequestCancel(j) PROVE PlanIsCarriedOut'
  BY <1>13 DEF RequestCancel, config, tables, book, locals, tick, jobs, PlanIsCarriedOut
<1>14. ASSUME NEW j \in Jobs, JobList(j) PROVE PlanIsCarriedOut'
  BY <1>14 DEF JobList, Fault, config, tables, book, locals, tick, jobs, PlanIsCarriedOut
<1>15. ASSUME NEW j \in Jobs, JobCancel(j) PROVE PlanIsCarriedOut'
  BY <1>15 DEF JobCancel, Fault, config, tables, book, locals, tick, jobs, PlanIsCarriedOut
<1>16. ASSUME NEW j \in Jobs, JobFinish(j) PROVE PlanIsCarriedOut'
  BY <1>16 DEF JobFinish, config, tables, book, locals, tick, jobs, PlanIsCarriedOut
<1>17. ASSUME NEW o \in Orders, ExchangeAccepts(o) PROVE PlanIsCarriedOut'
  BY <1>17 DEF ExchangeAccepts, config, tables, book, locals, tick, jobs, PlanIsCarriedOut
<1>18. ASSUME NEW o \in Orders, ExchangeRejects(o) PROVE PlanIsCarriedOut'
  BY <1>18 DEF ExchangeRejects, config, tables, book, locals, tick, jobs, PlanIsCarriedOut
<1>19. ASSUME NEW o \in Orders, Fill(o) PROVE PlanIsCarriedOut'
  BY <1>19 DEF Fill, config, tables, book, locals, tick, jobs, PlanIsCarriedOut
<1>20. CASE TenSecondsPass
  BY <1>20 DEF TenSecondsPass, config, tables, book, locals, tick, jobs, PlanIsCarriedOut
<1>21. CASE Enable
  BY <1>21 DEF Enable, Reenabled, config, tables, book, locals, tick, jobs,
     PlanIsCarriedOut
<1>22. CASE Disable
  BY <1>22 DEF Disable, config, tables, book, locals, tick, jobs, PlanIsCarriedOut
<1>23. CASE Crash
  BY <1>23 DEF Crash, Fault, Return, Unlocked, config, tables, book, locals, tick, jobs,
     PlanIsCarriedOut
<1>24. ASSUME NEW m \in LevelChoices, Upsert(m) PROVE PlanIsCarriedOut'
  BY <1>24 DEF Upsert, Reenabled, config, tables, book, locals, tick, jobs,
     PlanIsCarriedOut
<1>25. CASE UNCHANGED vars
  BY <1>25 DEF vars, config, tables, book, locals, tick, jobs, PlanIsCarriedOut
<1> QED
  BY <1>1, <1>2, <1>3, <1>4, <1>5, <1>6, <1>7, <1>8, <1>9, <1>10, <1>11, <1>12, <1>13,
     <1>14, <1>15, <1>16, <1>17, <1>18, <1>19, <1>20, <1>21, <1>22, <1>23, <1>24, <1>25 DEF
     Next, TickStep, Others, JobStep

\* Only a create adds an order that is not among the lost ones.
LEMMA OnlyCreatesAdd ==
  ASSUME TypeOK, Accounted, Snapshots, [Next]_vars
  PROVE  ((OnBook' \ strays' \subseteq OnBook \ strays) \/ SendCreate)
<1>1. CASE TickStart
  BY <1>1 DEF TickStart, config, tables, book, locals, tick, jobs, OnBook
<1>2. CASE TickPrice
  BY <1>2 DEF TickPrice, Return, Unlocked, config, tables, book, locals, tick, jobs, OnBook
<1>3. CASE ExchangeLists
  BY <1>3 DEF ExchangeLists, Fault, config, tables, book, locals, tick, jobs, OnBook
<1>4. CASE TickSync
  BY <1>4 DEF TickSync, config, tables, book, locals, tick, jobs, OnBook
<1>5. CASE TickCancel
  <2> DEFINE o == First(todo)
  <2>1. o \in todo /\ o \notin sent
    BY <1>5, FirstIn DEF TickCancel, Snapshots
  <2>2. \/ live' = live \ {o} /\ strays' = strays \ {o}
        \/ live' = live /\ strays' = strays
    BY <1>5 DEF TickCancel
  <2>3. sent' = sent
    BY <1>5 DEF TickCancel
  <2> HIDE DEF o
  <2> QED
    BY <2>1, <2>2, <2>3 DEF OnBook
<1>6. CASE TickCross
  BY <1>6 DEF TickCross, config, tables, book, locals, tick, jobs, OnBook
<1>7. CASE TickTidied
  BY <1>7 DEF TickTidied, config, tables, book, locals, tick, jobs, OnBook
<1>8. CASE TickPlan
  BY <1>8 DEF TickPlan, Return, Unlocked, config, tables, book, locals, tick, jobs, OnBook
<1>9. CASE SkipTarget
  BY <1>9 DEF SkipTarget, config, tables, book, locals, tick, jobs, OnBook
<1>10. CASE SendCreate
  BY <1>10 DEF SendCreate, config, tables, book, locals, tick, jobs, OnBook
<1>11. CASE CreateReply
  BY <1>11 DEF CreateReply, Fault, config, tables, book, locals, tick, jobs, OnBook
<1>12. CASE TickEnd
  BY <1>12 DEF TickEnd, Return, Unlocked, config, tables, book, locals, tick, jobs, OnBook
<1>13. ASSUME NEW j \in Jobs, RequestCancel(j) PROVE ((OnBook' \ strays' \subseteq OnBook \ strays) \/ SendCreate)
  BY <1>13 DEF RequestCancel, config, tables, book, locals, tick, jobs, OnBook
<1>14. ASSUME NEW j \in Jobs, JobList(j) PROVE ((OnBook' \ strays' \subseteq OnBook \ strays) \/ SendCreate)
  BY <1>14 DEF JobList, Fault, config, tables, book, locals, tick, jobs, OnBook
<1>15. ASSUME NEW j \in Jobs, JobCancel(j) PROVE ((OnBook' \ strays' \subseteq OnBook \ strays) \/ SendCreate)
  <2> DEFINE o == First(ids[j])
  <2>1. o \in ids[j] /\ o \notin sent
    BY <1>15, FirstIn DEF JobCancel, Accounted
  <2>2. \/ live' = live \ {o} /\ strays' = strays \ {o}
        \/ live' = live /\ strays' = strays
    BY <1>15 DEF JobCancel
  <2>3. sent' = sent
    BY <1>15 DEF JobCancel
  <2> HIDE DEF o
  <2> QED
    BY <2>1, <2>2, <2>3 DEF OnBook
<1>16. ASSUME NEW j \in Jobs, JobFinish(j) PROVE ((OnBook' \ strays' \subseteq OnBook \ strays) \/ SendCreate)
  BY <1>16 DEF JobFinish, config, tables, book, locals, tick, jobs, OnBook
<1>17. ASSUME NEW o \in Orders, ExchangeAccepts(o) PROVE ((OnBook' \ strays' \subseteq OnBook \ strays) \/ SendCreate)
  BY <1>17 DEF ExchangeAccepts, config, tables, book, locals, tick, jobs, OnBook
<1>18. ASSUME NEW o \in Orders, ExchangeRejects(o) PROVE ((OnBook' \ strays' \subseteq OnBook \ strays) \/ SendCreate)
  BY <1>18, TypeFacts DEF ExchangeRejects, config, tables, book, locals, tick, jobs, OnBook
<1>19. ASSUME NEW o \in Orders, Fill(o) PROVE ((OnBook' \ strays' \subseteq OnBook \ strays) \/ SendCreate)
  BY <1>19, TypeFacts DEF Fill, config, tables, book, locals, tick, jobs, OnBook
<1>20. CASE TenSecondsPass
  BY <1>20 DEF TenSecondsPass, config, tables, book, locals, tick, jobs, OnBook
<1>21. CASE Enable
  BY <1>21 DEF Enable, Reenabled, config, tables, book, locals, tick, jobs, OnBook
<1>22. CASE Disable
  BY <1>22 DEF Disable, config, tables, book, locals, tick, jobs, OnBook
<1>23. CASE Crash
  BY <1>23 DEF Crash, Fault, Return, Unlocked, config, tables, book, locals, tick, jobs,
     OnBook
<1>24. ASSUME NEW m \in LevelChoices, Upsert(m) PROVE ((OnBook' \ strays' \subseteq OnBook \ strays) \/ SendCreate)
  BY <1>24 DEF Upsert, Reenabled, config, tables, book, locals, tick, jobs, OnBook
<1>25. CASE UNCHANGED vars
  BY <1>25 DEF vars, config, tables, book, locals, tick, jobs, OnBook
<1> QED
  BY <1>1, <1>2, <1>3, <1>4, <1>5, <1>6, <1>7, <1>8, <1>9, <1>10, <1>11, <1>12, <1>13,
     <1>14, <1>15, <1>16, <1>17, <1>18, <1>19, <1>20, <1>21, <1>22, <1>23, <1>24, <1>25 DEF
     Next, TickStep, Others, JobStep

\* Only the planning step adds targets.
LEMMA PlanShrinks ==
  ASSUME [Next]_vars
  PROVE  (plan' \subseteq plan \/ TickPlan)
<1>1. CASE TickStart
  BY <1>1 DEF TickStart, config, tables, book, locals, tick, jobs
<1>2. CASE TickPrice
  BY <1>2 DEF TickPrice, Return, Unlocked, config, tables, book, locals, tick, jobs
<1>3. CASE ExchangeLists
  BY <1>3 DEF ExchangeLists, Fault, config, tables, book, locals, tick, jobs
<1>4. CASE TickSync
  BY <1>4 DEF TickSync, config, tables, book, locals, tick, jobs
<1>5. CASE TickCancel
  BY <1>5 DEF TickCancel, Fault, config, tables, book, locals, tick, jobs
<1>6. CASE TickCross
  BY <1>6 DEF TickCross, config, tables, book, locals, tick, jobs
<1>7. CASE TickTidied
  BY <1>7 DEF TickTidied, config, tables, book, locals, tick, jobs
<1>8. CASE TickPlan
  BY <1>8 DEF TickPlan, Return, Unlocked, config, tables, book, locals, tick, jobs
<1>9. CASE SkipTarget
  BY <1>9 DEF SkipTarget, config, tables, book, locals, tick, jobs
<1>10. CASE SendCreate
  BY <1>10 DEF SendCreate, config, tables, book, locals, tick, jobs
<1>11. CASE CreateReply
  BY <1>11 DEF CreateReply, Fault, config, tables, book, locals, tick, jobs
<1>12. CASE TickEnd
  BY <1>12 DEF TickEnd, Return, Unlocked, config, tables, book, locals, tick, jobs
<1>13. ASSUME NEW j \in Jobs, RequestCancel(j) PROVE (plan' \subseteq plan \/ TickPlan)
  BY <1>13 DEF RequestCancel, config, tables, book, locals, tick, jobs
<1>14. ASSUME NEW j \in Jobs, JobList(j) PROVE (plan' \subseteq plan \/ TickPlan)
  BY <1>14 DEF JobList, Fault, config, tables, book, locals, tick, jobs
<1>15. ASSUME NEW j \in Jobs, JobCancel(j) PROVE (plan' \subseteq plan \/ TickPlan)
  BY <1>15 DEF JobCancel, Fault, config, tables, book, locals, tick, jobs
<1>16. ASSUME NEW j \in Jobs, JobFinish(j) PROVE (plan' \subseteq plan \/ TickPlan)
  BY <1>16 DEF JobFinish, config, tables, book, locals, tick, jobs
<1>17. ASSUME NEW o \in Orders, ExchangeAccepts(o) PROVE (plan' \subseteq plan \/ TickPlan)
  BY <1>17 DEF ExchangeAccepts, config, tables, book, locals, tick, jobs
<1>18. ASSUME NEW o \in Orders, ExchangeRejects(o) PROVE (plan' \subseteq plan \/ TickPlan)
  BY <1>18 DEF ExchangeRejects, config, tables, book, locals, tick, jobs
<1>19. ASSUME NEW o \in Orders, Fill(o) PROVE (plan' \subseteq plan \/ TickPlan)
  BY <1>19 DEF Fill, config, tables, book, locals, tick, jobs
<1>20. CASE TenSecondsPass
  BY <1>20 DEF TenSecondsPass, config, tables, book, locals, tick, jobs
<1>21. CASE Enable
  BY <1>21 DEF Enable, Reenabled, config, tables, book, locals, tick, jobs
<1>22. CASE Disable
  BY <1>22 DEF Disable, config, tables, book, locals, tick, jobs
<1>23. CASE Crash
  BY <1>23 DEF Crash, Fault, Return, Unlocked, config, tables, book, locals, tick, jobs
<1>24. ASSUME NEW m \in LevelChoices, Upsert(m) PROVE (plan' \subseteq plan \/ TickPlan)
  BY <1>24 DEF Upsert, Reenabled, config, tables, book, locals, tick, jobs
<1>25. CASE UNCHANGED vars
  BY <1>25 DEF vars, config, tables, book, locals, tick, jobs
<1> QED
  BY <1>1, <1>2, <1>3, <1>4, <1>5, <1>6, <1>7, <1>8, <1>9, <1>10, <1>11, <1>12, <1>13,
     <1>14, <1>15, <1>16, <1>17, <1>18, <1>19, <1>20, <1>21, <1>22, <1>23, <1>24, <1>25 DEF
     Next, TickStep, Others, JobStep


(* Numbers: the least, the nearest, and what there is of each. *)

\* The order of the naturals is well founded.
LEMMA LessIsWellFounded == IsWellFoundedOn({p \in Nat \X Nat : p[1] < p[2]}, Nat)
  BY NatLessThanWellFounded DEF OpToRel

\* A set of naturals that is not empty has a least element.
LEMMA Least ==
  ASSUME NEW S \in SUBSET Nat, S # {}
  PROVE  \E x \in S : \A y \in S : x <= y
<1> DEFINE R == {p \in Nat \X Nat : p[1] < p[2]}
<1>1. \E x \in S : \A y \in S : <<y, x>> \notin R
  <2>1. IsWellFoundedOn(R, Nat)
    BY LessIsWellFounded
  <2> HIDE DEF R
  <2> QED
    BY <2>1, WFMin
<1>2. PICK x \in S : \A y \in S : <<y, x>> \notin R
  BY <1>1
<1>3. ASSUME NEW y \in S PROVE x <= y
  <2>1. x \in Nat /\ y \in Nat /\ <<y, x>> \notin R
    BY <1>2
  <2> QED
    BY <2>1
<1> QED
  BY <1>3

\* Of some ticks on a side, one is nearest to the base.
LEMMA NearestExists ==
  ASSUME NEW s \in Sides, NEW S \in SUBSET Units, S # {}
  PROVE  \E u \in S : \A v \in S : ~Nearer(s, v, u)
<1>1. \A u \in S : u \in Nat /\ u <= MaxUnit /\ MaxUnit \in Nat
  BY GridBounds DEF Units
<1>2. CASE s = "BUY"
  <2> DEFINE D == {MaxUnit - u : u \in S}
  <2>1. D \subseteq Nat /\ D # {}
    BY <1>1
  <2>2. PICK d \in D : \A e \in D : d <= e
    BY <2>1, Least
  <2>3. PICK u \in S : d = MaxUnit - u
    BY <2>2
  <2>4. ASSUME NEW v \in S PROVE ~(v > u)
    <3>1. d <= MaxUnit - v
      BY <2>2
    <3> QED
      BY <3>1, <2>3, <1>1
  <2> QED
    BY <2>4, <1>2 DEF Nearer
<1>3. CASE s = "SELL"
  <2>1. PICK u \in S : \A v \in S : u <= v
    BY <1>1, Least
  <2>2. \A v \in S : ~(v < u)
    BY <2>1, <1>1
  <2> QED
    BY <2>2, <1>3 DEF Nearer
<1> QED
  BY <1>2, <1>3 DEF Sides

\* However many levels, there is a ladder: each level takes the nearest free tick.
LEMMA LadderExists ==
  ASSUME NEW s \in Sides, NEW m \in Nat
  PROVE  \E L \in [1..m -> Units \union {0}] : IsLadder(s, L)
<1> DEFINE Exists(j) == \E L \in [1..j -> Units \union {0}] : IsLadder(s, L)
           Bad == {j \in Nat : ~Exists(j)}
<1> SUFFICES ASSUME Bad # {} PROVE FALSE
  OBVIOUS
<1>1. PICK j \in Bad : \A i \in Bad : j <= i
  BY Least
<1>2. j # 0
  <2>1. <<>> \in [1..0 -> Units \union {0}]
    OBVIOUS
  <2>2. IsLadder(s, <<>>)
    BY DEF IsLadder
  <2> QED
    BY <2>1, <2>2
<1>3. j - 1 \in Nat /\ Exists(j - 1)
  BY <1>1, <1>2
<1>4. PICK L \in [1..(j - 1) -> Units \union {0}] : IsLadder(s, L)
  BY <1>3
<1> DEFINE free == Beyond(s, j) \ ({o.unit : o \in rows} \union {L[i] : i \in 1..(j - 1)})
<1>5. free \subseteq Units
  BY DEF Beyond
<1>6. PICK x \in Units \union {0} :
        IF free = {} THEN x = 0 ELSE x \in free /\ \A u \in free : ~Nearer(s, u, x)
  BY <1>5, NearestExists
<1> DEFINE M == [i \in 1..j |-> IF i = j THEN x ELSE L[i]]
<1>7. M \in [1..j -> Units \union {0}]
  BY <1>3, <1>4, <1>6
<1>8. ASSUME NEW k \in 1..j PROVE {M[i] : i \in 1..(k - 1)} = {L[i] : i \in 1..(k - 1)}
  <2>1. \A i \in 1..(k - 1) : i \in 1..j /\ i # j
    BY <1>1
  <2>2. \A i \in 1..(k - 1) : M[i] = L[i]
    BY <2>1
  <2> HIDE DEF M
  <2> QED
    BY <2>2
<1>9. IsLadder(s, M)
  <2> SUFFICES ASSUME NEW k \in 1..j
               PROVE  LET others == {M[i] : i \in 1..(k - 1)}
                          left == Beyond(s, k) \ ({o.unit : o \in rows} \union others)
                      IN  IF left = {} THEN M[k] = 0
                                       ELSE M[k] \in left /\ \A u \in left : ~Nearer(s, u, M[k])
    BY DEF IsLadder
  <2>1. CASE k = j
    BY <2>1, <1>6, <1>8
  <2>2. CASE k # j
    <3>1. k \in 1..(j - 1) /\ M[k] = L[k]
      BY <2>2, <1>1
    <3> QED
      BY <3>1, <1>4, <1>8 DEF IsLadder
  <2> QED
    BY <2>1, <2>2
<1> QED
  BY <1>1, <1>7, <1>9

\* Its ticks are free, each side's on its own side of the base.
LEMMA RungsAreFree ==
  ASSUME TypeOK, NEW s \in Sides, NEW u \in Rungs(s)
  PROVE  /\ u \in Units /\ u \notin {o.unit : o \in rows}
         /\ s = "BUY" => u < b
         /\ s = "SELL" => u > b
<1>1. n[s] \in Nat
  BY LevelsAreCounts DEF TypeOK
<1>2. Ladder(s) \in [1..n[s] -> Units \union {0}] /\ IsLadder(s, Ladder(s))
  BY <1>1, LadderExists DEF Ladder
<1>3. PICK k \in 1..n[s] : u = Ladder(s)[k] /\ u # 0
  BY DEF Rungs
<1>4. u \in Beyond(s, k) /\ u \notin {o.unit : o \in rows}
  BY <1>2, <1>3 DEF IsLadder
<1> QED
  BY <1>4 DEF Beyond, Sides

\* The next target is one of the plan.
LEMMA NextIsPlanned ==
  ASSUME TypeOK, plan # {}
  PROVE  NextTarget \in plan
<1> DEFINE On(s) == {p.unit : p \in {q \in plan : q.side = s}}
           IsNext(p) == \A q \in plan :
             IF p.side = q.side THEN ~Nearer(p.side, q.unit, p.unit) ELSE p.side = "BUY"
<1>1. \A p \in plan : p.side \in Sides /\ p.unit \in Units
  BY DEF TypeOK, Targets
<1>2. \E p \in plan : IsNext(p)
  <2>1. PICK s \in Sides : On(s) # {} /\ (s # "BUY" => On("BUY") = {})
    BY <1>1 DEF Sides
  <2>2. On(s) \subseteq Units
    BY <1>1
  <2>3. PICK u \in On(s) : \A v \in On(s) : ~Nearer(s, v, u)
    BY <2>1, <2>2, NearestExists
  <2>4. PICK p \in plan : p.side = s /\ p.unit = u
    BY <2>3
  <2>5. ASSUME NEW q \in plan
        PROVE  IF p.side = q.side THEN ~Nearer(p.side, q.unit, p.unit) ELSE p.side = "BUY"
    <3>1. CASE q.side = s
      BY <3>1, <2>3, <2>4
    <3>2. CASE q.side # s
      BY <3>2, <2>1, <2>4, <1>1 DEF Sides
    <3> QED
      BY <3>1, <3>2
  <2> QED
    BY <2>4, <2>5
<1> QED
  BY <1>2 DEF NextTarget

\* What the planning step leaves free.
LEMMA PlanMade ==
  ASSUME TypeOK, Accounted, Snapshots, TickPlan
  PROVE  /\ \A p \in plan', o \in OnBook \ strays : p.unit # o.unit
         /\ \A p, q \in plan' : p.unit = q.unit => p = q
         /\ \A p \in plan' : p.side \in Sides /\ p.unit \in Chosen(p.side)
<1>1. \A p \in plan' : p \in Targets /\ p.unit \in Chosen(p.side)
  BY DEF TickPlan, Return
<1>2. \A p \in plan' : p.side \in Sides /\ p.unit \in Rungs(p.side)
  BY <1>1 DEF Targets, Chosen
<1>3. OnBook \ strays \subseteq rows
  BY TypeFacts DEF TickPlan, Accounted, Snapshots, OnBook
<1>4. \A p \in plan', o \in OnBook \ strays : p.unit # o.unit
  BY <1>2, <1>3, RungsAreFree
<1>5. ASSUME NEW p \in plan', NEW q \in plan', p.unit = q.unit PROVE p = q
  <2>1. p.side = q.side
    <3>1. /\ p.unit \in Int /\ b \in Int
      BY <1>1, PricesAreTicks DEF Targets, Units, TypeOK
    <3>2. /\ p.side = "BUY" => p.unit < b
          /\ p.side = "SELL" => p.unit > b
          /\ q.side = "BUY" => q.unit < b
          /\ q.side = "SELL" => q.unit > b
      BY <1>2, RungsAreFree
    <3> QED
      BY <1>2, <1>5, <3>1, <3>2 DEF Sides
  <2> QED
    BY <1>1, <1>5, <2>1 DEF Targets
<1> QED
  BY <1>1, <1>2, <1>4, <1>5

\* The order a create sends takes the place of its target.
LEMMA CreateMoves ==
  ASSUME TypeOK, SendCreate
  PROVE  \E o : \E t \in plan :
           /\ o.side = t.side /\ o.unit = t.unit /\ plan' = plan \ {t}
           /\ OnBook' \ strays' \subseteq (OnBook \ strays) \union {o}
<1>1. NextTarget \in plan
  BY NextIsPlanned DEF SendCreate
<1>2. PICK o \in Orders : /\ sent' = sent \union {o}
                          /\ o.side = NextTarget.side /\ o.unit = NextTarget.unit
  BY DEF SendCreate
<1>3. plan' = plan \ {NextTarget} /\ live' = live /\ strays' = strays
  BY DEF SendCreate
<1> HIDE DEF NextTarget
<1> QED
  BY <1>1, <1>2, <1>3 DEF OnBook

\* The plan stays free of orders while it is carried out.
LEMMA FreeStep ==
  ASSUME TypeOK, Accounted, Snapshots, PlanIsFree, [Next]_vars
  PROVE  PlanIsFree'
<1>1. CASE SendCreate
  <2>1. PICK o : \E t \in plan : /\ o.unit = t.unit /\ plan' = plan \ {t}
                             /\ OnBook' \ strays' \subseteq (OnBook \ strays) \union {o}
    BY <1>1, CreateMoves
  <2>2. \A p \in plan' : p.unit # o.unit
    BY <2>1 DEF PlanIsFree
  <2> QED
    BY <2>1, <2>2 DEF PlanIsFree
<1>2. CASE ~SendCreate
  <2>1. OnBook' \ strays' \subseteq OnBook \ strays
    BY <1>2, OnlyCreatesAdd
  <2>2. CASE TickPlan
    BY <2>1, <2>2, PlanMade DEF PlanIsFree
  <2>3. CASE ~TickPlan
    BY <2>1, <2>3, PlanShrinks DEF PlanIsFree
  <2> QED
    BY <2>2, <2>3
<1> QED
  BY <1>1, <1>2

\* Only a create could put two orders at one tick, and its tick was free.
LEMMA OneOrderStep ==
  ASSUME TypeOK, Accounted, Snapshots, PlanIsFree, OneOrderPerTick, [Next]_vars
  PROVE  OneOrderPerTick'
<1>1. CASE SendCreate
  <2>1. PICK o : \E t \in plan : /\ o.unit = t.unit
                             /\ OnBook' \ strays' \subseteq (OnBook \ strays) \union {o}
    BY <1>1, CreateMoves
  <2>2. \A p \in OnBook \ strays : p.unit # o.unit
    BY <2>1 DEF PlanIsFree
  <2> QED
    BY <2>1, <2>2 DEF OneOrderPerTick
<1>2. CASE ~SendCreate
  BY <1>2, OnlyCreatesAdd DEF OneOrderPerTick
<1> QED
  BY <1>1, <1>2


(* Counting. *)

\* A finite set of numbers has a greatest one.
LEMMA Greatest ==
  ASSUME NEW S \in SUBSET Nat, IsFiniteSet(S), S # {}
  PROVE  \E x \in S : \A y \in S : x >= y
<1> DEFINE HasMax(T) == \E x \in T : \A y \in T : x >= y
           Bad == {Cardinality(T) : T \in {U \in SUBSET S : U # {} /\ ~HasMax(U)}}
<1> SUFFICES ASSUME Bad # {} PROVE FALSE
  OBVIOUS
<1>1. \A U \in SUBSET S : IsFiniteSet(U) /\ Cardinality(U) \in Nat
  BY FS_Subset, FS_CardinalityType
<1>2. Bad \subseteq Nat
  BY <1>1
<1>3. PICK k \in Bad : \A i \in Bad : k <= i
  BY <1>2, Least
<1>4. PICK T \in SUBSET S : T # {} /\ ~HasMax(T) /\ k = Cardinality(T)
  BY <1>3
<1>5. PICK x \in T : TRUE
  BY <1>4
<1>6. Cardinality(T \ {x}) < k /\ Cardinality(T \ {x}) \in Nat /\ k \in Nat
  BY <1>1, <1>4, FS_RemoveElement
<1>7. T \ {x} = {} \/ HasMax(T \ {x})
  <2> SUFFICES ASSUME T \ {x} # {}, ~HasMax(T \ {x}) PROVE FALSE
    OBVIOUS
  <2>1. Cardinality(T \ {x}) \in Bad
    OBVIOUS
  <2>2. k <= Cardinality(T \ {x})
    BY <1>3, <2>1
  <2> HIDE DEF Bad
  <2> QED
    BY <1>6, <2>2
<1>8. CASE T \ {x} = {}
  BY <1>4, <1>8
<1>9. CASE HasMax(T \ {x})
  <2>1. PICK m \in T \ {x} : \A y \in T \ {x} : m >= y
    BY <1>9
  <2>2. m \in Nat /\ x \in Nat
    BY <1>4
  <2>3. CASE m >= x
    BY <2>1, <2>2, <2>3, <1>4
  <2>4. CASE m < x
    <3>1. \A y \in T : y \in Nat
      BY <1>4
    <3>2. \A y \in T : x >= y
      BY <2>1, <2>2, <2>4, <3>1
    <3> QED
      BY <3>2, <1>4
  <2> QED
    BY <2>2, <2>3, <2>4
<1> QED
  BY <1>7, <1>8, <1>9

\* Every configuration has at most as many levels of a side as the largest.
LEMMA LevelsWithinMax ==
  ASSUME NEW s \in Sides, NEW m \in LevelChoices
  PROVE  m[s] \in Nat /\ MaxLevels(s) \in Nat /\ m[s] <= MaxLevels(s)
<1> DEFINE S == {l[s] : l \in LevelChoices}
           f == [l \in LevelChoices |-> l[s]]
<1>1. S \subseteq Nat /\ m[s] \in S
  BY LevelsAreCounts
<1>2. IsFiniteSet(S)
  <2>1. f \in Surjection(LevelChoices, S)
    BY DEF Surjection
  <2> QED
    BY <2>1, FS_Surjection, LevelsAreCounts
<1>3. PICK x \in S : \A y \in S : x >= y
  BY <1>1, <1>2, Greatest
<1>4. MaxLevels(s) \in S /\ \A y \in S : MaxLevels(s) >= y
  BY <1>3 DEF MaxLevels, Max
<1> QED
  BY <1>1, <1>4

\* A set of ticks can be counted.
LEMMA TicksCount ==
  ASSUME NEW S \in SUBSET Units
  PROVE  /\ IsFiniteSet(S) /\ Cardinality(S) \in Nat
         /\ \A T \in SUBSET S : Cardinality(T) <= Cardinality(S)
<1>1. IsFiniteSet(Units)
  BY FS_Interval, GridBounds DEF Units
<1> QED
  BY <1>1, FS_Subset, FS_CardinalityType

\* The units of orders and of targets are units.
LEMMA UnitsType ==
  ASSUME NEW s \in Sides
  PROVE  /\ \A S \in SUBSET Orders : UnitsOf(S, s) \in SUBSET Units
         /\ \A S \in SUBSET Targets : UnitsOf(S, s) \in SUBSET Units
<1>1. \A o \in Orders : o.unit \in Units
  BY LeftoversAreOrders DEF Orders
<1>2. \A p \in Targets : p.unit \in Units
  BY DEF Targets
<1> QED
  BY <1>1, <1>2 DEF UnitsOf

\* Of the ladder no more is chosen than there is room for.
LEMMA ChosenFits ==
  ASSUME TypeOK, NEW s \in Sides
  PROVE  /\ Chosen(s) \in SUBSET Units /\ Room(s) \in Int
         /\ Chosen(s) # {} => Cardinality(Chosen(s)) <= Room(s)
<1>1. Rungs(s) \subseteq Units /\ Chosen(s) \subseteq Rungs(s)
  BY RungsAreFree DEF Chosen
<1>2. Room(s) \in Int
  <2>1. Groups(s) = UnitsOf(rows, s) /\ rows \in SUBSET Orders
    BY DEF Groups, UnitsOf, TypeOK
  <2>2. n[s] \in Nat
    BY LevelsAreCounts DEF TypeOK
  <2> QED
    BY <2>1, <2>2, UnitsType, TicksCount DEF Room
<1>3. ASSUME Chosen(s) # {} PROVE Cardinality(Chosen(s)) <= Room(s)
  <2>1. \E u \in Chosen(s) : \A v \in Chosen(s) \ {u} : Nearer(s, v, u)
    <3>1. \A u \in Units : u \in Int
      BY DEF Units
    <3>2. PICK u \in Chosen(s) : \A v \in Chosen(s) :
            ~Nearer(IF s = "BUY" THEN "SELL" ELSE "BUY", v, u)
      BY <1>1, <1>3, NearestExists DEF Sides
    <3>3. \A v \in Chosen(s) \ {u} : Nearer(s, v, u)
      BY <1>1, <3>1, <3>2 DEF Nearer, Sides
    <3> QED
      BY <3>3
  <2>2. PICK u \in Chosen(s) : \A v \in Chosen(s) \ {u} : Nearer(s, v, u)
    BY <2>1
  <2> DEFINE before == {v \in Rungs(s) : Nearer(s, v, u)}
  <2>3. Cardinality(before) < Room(s)
    BY DEF Chosen
  <2>4. Chosen(s) \ {u} \subseteq before /\ before \subseteq Units
    BY <1>1, <2>2
  <2> HIDE DEF before
  <2>5. Cardinality(Chosen(s) \ {u}) <= Cardinality(before) /\ Cardinality(before) \in Nat
    BY <2>4, TicksCount
  <2>6. IsFiniteSet(Chosen(s)) /\ Cardinality(Chosen(s)) \in Nat
    BY <1>1, TicksCount
  <2>7. Cardinality(Chosen(s) \ {u}) = Cardinality(Chosen(s)) - 1
    BY <2>6, FS_RemoveElement
  <2> QED
    BY <1>2, <2>3, <2>5, <2>6, <2>7
<1> QED
  BY <1>1, <1>2, <1>3

\* A new plan fills the side up to the levels, unless they are already exceeded.
LEMMA NewPlanFits ==
  ASSUME TypeOK, Accounted, Snapshots, PlanFits, TickPlan, NEW s \in Sides
  PROVE  Cardinality(UnitsOf(OnBook \ strays, s) \union UnitsOf(plan', s)) <= MaxLevels(s)
<1> DEFINE A == UnitsOf(OnBook \ strays, s)
           B == UnitsOf(plan', s)
<1>1. B \subseteq Chosen(s)
  BY PlanMade DEF UnitsOf
<1>2. A \subseteq Groups(s)
  <2>1. OnBook \ strays \subseteq rows
    BY TypeFacts DEF TickPlan, Accounted, Snapshots, OnBook
  <2> QED
    BY <2>1 DEF UnitsOf, Groups
<1>3. A \in SUBSET Units /\ Groups(s) \in SUBSET Units /\ UnitsOf(plan, s) \in SUBSET Units
  <2>1. OnBook \ strays \in SUBSET Orders /\ rows \in SUBSET Orders /\ plan \in SUBSET Targets
    BY DEF OnBook, TypeOK
  <2>2. Groups(s) = UnitsOf(rows, s)
    BY DEF Groups, UnitsOf
  <2> QED
    BY <2>1, <2>2, UnitsType
<1>4. MaxLevels(s) \in Nat /\ n[s] \in Nat /\ n[s] <= MaxLevels(s)
  BY LevelsWithinMax DEF TypeOK
<1>5. CASE Chosen(s) = {}
  <2>1. A \union B \subseteq A \union UnitsOf(plan, s)
    BY <1>1, <1>5
  <2>2. Cardinality(A \union UnitsOf(plan, s)) <= MaxLevels(s)
    BY DEF PlanFits
  <2>3. A \union UnitsOf(plan, s) \in SUBSET Units
    BY <1>3
  <2> HIDE DEF A, B
  <2>4. Cardinality(A \union B) <= Cardinality(A \union UnitsOf(plan, s))
    BY <2>1, <2>3, TicksCount
  <2>5. Cardinality(A \union B) \in Nat /\ Cardinality(A \union UnitsOf(plan, s)) \in Nat
    BY <2>1, <2>3, TicksCount
  <2>6. Cardinality(A \union B) <= MaxLevels(s)
    BY <1>4, <2>2, <2>4, <2>5
  <2> QED
    BY <2>6 DEF A, B
<1>6. CASE Chosen(s) # {}
  <2> DEFINE C == Chosen(s)
             G == Groups(s)
  <2>1. Cardinality(C) <= n[s] - Cardinality(G) /\ C \in SUBSET Units
    BY <1>6, ChosenFits DEF Room
  <2>2. A \union B \subseteq G \union C
    BY <1>1, <1>2
  <2> HIDE DEF A, B, C, G
  <2>3. /\ IsFiniteSet(G) /\ IsFiniteSet(C)
        /\ Cardinality(G) \in Nat /\ Cardinality(C) \in Nat /\ Cardinality(G \intersect C) \in Nat
    BY <1>3, <2>1, TicksCount DEF G
  <2>4. Cardinality(G \union C) = Cardinality(G) + Cardinality(C) - Cardinality(G \intersect C)
    BY <2>3, FS_Union
  <2>5. G \union C \in SUBSET Units
    BY <1>3, <2>1 DEF G
  <2>6. Cardinality(A \union B) <= Cardinality(G \union C) /\ Cardinality(A \union B) \in Nat
    BY <2>2, <2>5, TicksCount
  <2>7. Cardinality(A \union B) <= MaxLevels(s)
    BY <1>4, <2>1, <2>3, <2>4, <2>6
  <2> QED
    BY <2>7 DEF A, B
<1> QED
  BY <1>5, <1>6

\* Orders and targets together never exceed the levels.
LEMMA FitsStep ==
  ASSUME TypeOK, Accounted, Snapshots, PlanFits, [Next]_vars
  PROVE  PlanFits'
<1> SUFFICES ASSUME NEW s \in Sides
             PROVE  Cardinality(UnitsOf(OnBook' \ strays', s) \union UnitsOf(plan', s))
                      <= MaxLevels(s)
  BY DEF PlanFits, UnitsOf, MaxLevels
<1> DEFINE old == UnitsOf(OnBook \ strays, s) \union UnitsOf(plan, s)
           new == UnitsOf(OnBook' \ strays', s) \union UnitsOf(plan', s)
<1>1. MaxLevels(s) \in Nat
  BY LevelsWithinMax, ChoiceType
<1>2. old \in SUBSET Units
  <2>1. OnBook \ strays \in SUBSET Orders /\ plan \in SUBSET Targets
    BY DEF OnBook, TypeOK
  <2> QED
    BY <2>1, UnitsType
<1>3. Cardinality(old) <= MaxLevels(s)
  BY DEF PlanFits
<1>4. ASSUME NEW S \in SUBSET old PROVE Cardinality(S) <= MaxLevels(s)
  <2> HIDE DEF old
  <2>1. Cardinality(S) <= Cardinality(old) /\ Cardinality(S) \in Nat /\ Cardinality(old) \in Nat
    BY <1>2, <1>4, TicksCount
  <2> QED
    BY <1>1, <1>3, <2>1
<1>5. CASE SendCreate
  <2>1. PICK o : \E t \in plan : /\ o.side = t.side /\ o.unit = t.unit /\ plan' = plan \ {t}
                                 /\ OnBook' \ strays' \subseteq (OnBook \ strays) \union {o}
    BY <1>5, CreateMoves
  <2>2. new \in SUBSET old
    BY <2>1 DEF UnitsOf
  <2> QED
    BY <1>4, <2>2
<1>6. CASE ~SendCreate
  <2>1. OnBook' \ strays' \subseteq OnBook \ strays
    BY <1>6, OnlyCreatesAdd
  <2>2. CASE TickPlan
    <3>1. OnBook' \ strays' = OnBook \ strays
      BY <2>2 DEF TickPlan, book, OnBook
    <3> QED
      BY <2>2, <3>1, NewPlanFits
  <2>3. CASE ~TickPlan
    <3>1. plan' \subseteq plan
      BY <2>3, PlanShrinks
    <3>2. new \in SUBSET old
      BY <2>1, <3>1 DEF UnitsOf
    <3> QED
      BY <1>4, <3>2
  <2> QED
    BY <2>2, <2>3
<1> QED
  BY <1>5, <1>6


(* The theorems. *)

IInv ==
  /\ TypeOK /\ Accounted /\ Snapshots /\ PlanIsCarriedOut /\ PlanIsFree /\ PlanFits
  /\ OneOrderPerTick /\ Calm

\* The inductive invariant holds at the start.
LEMMA InvInit == Init => IInv
<1> SUFFICES ASSUME Init PROVE IInv
  OBVIOUS
<1>1. TypeOK
  BY TypeInit
<1>2. Accounted /\ Snapshots /\ PlanIsCarriedOut /\ PlanIsFree /\ Calm
  BY DEF Init, NoLocals, Accounted, Snapshots, PlanIsCarriedOut, PlanIsFree, Calm, OnBook
<1>3. PlanFits
  <2> SUFFICES ASSUME NEW s \in Sides
               PROVE  Cardinality(UnitsOf(OnBook \ strays, s) \union UnitsOf(plan, s))
                        <= MaxLevels(s)
    BY DEF PlanFits
  <2>1. UnitsOf(OnBook \ strays, s) \union UnitsOf(plan, s)
          = {o.unit : o \in {p \in live : p.side = s}}
    BY DEF Init, NoLocals, UnitsOf, OnBook
  <2> QED
    BY <2>1, LeftoversFit DEF Init
<1>4. OneOrderPerTick
  BY LeftoverType DEF Init, OneOrderPerTick, OnBook
<1> QED
  BY <1>1, <1>2, <1>3, <1>4 DEF IInv

\* Every step keeps the inductive invariant.
LEMMA InvStep == IInv /\ [Next]_vars => IInv'
  BY TypeStep, AccountedStep, SnapshotsStep, CarryOutStep, FreeStep, FitsStep, OneOrderStep,
     CalmStep DEF IInv

\* The inductive invariant holds in every reachable state.
LEMMA Invariance == Spec => []IInv
  BY InvInit, InvStep, PTL DEF Spec

\* Every variable of the grid runner keeps its type; one tick runs at a time.
THEOREM TypeCorrect == Spec => []TypeOK
<1>1. IInv => TypeOK
  BY DEF IInv
<1> QED
  BY Invariance, <1>1, PTL

\* An order that is open is in the registry, awaited, or among the lost ones:
\* neither the phantom sync, nor a tidy tick, nor a stop forgets one.
THEOREM NothingEscapes == Spec => []LiveIsTracked
<1>1. IInv => LiveIsTracked
  BY DEF IInv, Accounted, LiveIsTracked
<1> QED
  BY Invariance, <1>1, PTL

\* What a tick planned from its snapshot is still free when it is carried out.
THEOREM TicksAreUnique == Spec => []OneOrderPerTick
<1>1. IInv => OneOrderPerTick
  BY DEF IInv
<1> QED
  BY Invariance, <1>1, PTL

\* The limit on levels holds, however many calls and edits a tick overlaps.
THEOREM LimitHolds == Spec => []GridLimit
<1>1. ASSUME IInv, NEW s \in Sides
      PROVE  Cardinality({o.unit : o \in {p \in OnBook \ strays : p.side = s}}) <= MaxLevels(s)
  <2> DEFINE A == UnitsOf(OnBook \ strays, s)
             B == UnitsOf(plan, s)
  <2>1. OnBook \ strays \in SUBSET Orders /\ plan \in SUBSET Targets
    BY <1>1 DEF IInv, OnBook, TypeOK
  <2>2. A \in SUBSET Units /\ B \in SUBSET Units
    BY <2>1, UnitsType
  <2>3. Cardinality(A \union B) <= MaxLevels(s)
    BY <1>1 DEF IInv, PlanFits
  <2>4. MaxLevels(s) \in Nat
    BY LevelsWithinMax, ChoiceType
  <2> HIDE DEF A, B
  <2>5. /\ A \union B \in SUBSET Units
        /\ A \in SUBSET (A \union B)
    BY <2>2
  <2>6. Cardinality(A) <= Cardinality(A \union B) /\ Cardinality(A) \in Nat
        /\ Cardinality(A \union B) \in Nat
    BY <2>2, <2>5, TicksCount
  <2>7. Cardinality(A) <= MaxLevels(s)
    BY <2>3, <2>4, <2>6
  <2> QED
    BY <2>7 DEF A, UnitsOf
<1>2. IInv => GridLimit
  BY <1>1 DEF GridLimit
<1> QED
  BY Invariance, <1>2, PTL

\* After a calm stop no order is open or on its way, lost ones included.
THEOREM StopLeavesNothing == Spec => []StopIsClean
<1>1. IInv => StopIsClean
  BY DEF IInv, Calm, StopIsClean
<1> QED
  BY Invariance, <1>1, PTL
=============================================================================
