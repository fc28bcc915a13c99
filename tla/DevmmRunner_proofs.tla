------------------------ MODULE DevmmRunner_proofs ------------------------
(* Proofs about DevmmRunner, for every value of its constants. *)
EXTENDS DevmmRunner, FiniteSetTheorems, TLAPS
-----------------------------------------------------------------------------
(* The inductive invariant *)

Creating == pc \in {"creating", "verify"}
Placing  == pc \in {"place", "creating", "verify"}

\* The type invariant in parts: the setting, the ids of the state, the sets
\* of orders, the control of the tick, and the requests.
SettingType ==
  /\ exchange \in Exchanges /\ bounds \in Bounds /\ enabled \in BOOLEAN /\ boot \in BOOLEAN
  /\ faults \in 0..bounds.faults
IdsType ==
  /\ tracked \in [Sides -> Own \union {NoOrder}] /\ st \in [Sides -> Own \union {NoOrder}]
  /\ \A s \in Sides : tracked[s].side \in {s, "none"} /\ st[s].side \in {s, "none"}
BookType ==
  /\ pending \subseteq Own /\ over \subseteq pending /\ placed \subseteq Own
  /\ sent \subseteq Own /\ live \subseteq Orders /\ sent \intersect live = {}
  /\ unseen \subseteq live /\ filled \subseteq Orders
  /\ raw \subseteq Orders /\ todo \subseteq Orders
  /\ hidden \subseteq Own /\ lost \subseteq Own /\ booked \subseteq Own
TickType ==
  /\ running = (pc # "idle")
  /\ pc \in {"idle", "market", "list", "listed", "surplus", "stray", "check", "query", "stale",
             "relist", "relisted", "confirm", "plan", "place", "creating", "verify"}
  /\ blind \in BOOLEAN /\ unmanaged \in BOOLEAN /\ refresh \in BOOLEAN /\ made \in BOOLEAN
  /\ stopped \in BOOLEAN
  /\ side \in Sides /\ suppressed \subseteq Sides /\ plan \subseteq Sides
  /\ cur \in Own \union {NoOrder} /\ verdict \in {"none", "made", "refused"}
JobsType ==
  /\ jpc \in [Jobs -> {"idle", "list", "cancel", "sweep", "again", "end"}]
  /\ mode \in [Jobs -> {"managed", "unknown"}]
  /\ known \in [Jobs -> SUBSET Orders] /\ tried \in [Jobs -> SUBSET Orders]
  /\ ids \in [Jobs -> SUBSET Orders] /\ calm \in [Jobs -> BOOLEAN]

\* Where the locals of the tick stand between its awaits.
Control ==
  /\ Creating => cur \in Own
  /\ ~Creating => cur = NoOrder
  /\ verdict # "none" => pc = "creating"
  /\ ~Placing => ~refresh
  /\ pc \notin {"idle", "market", "list", "listed"} => over = {}
  /\ pc \notin {"check", "query", "stale", "confirm"} /\ ~Placing => side = "BUY"
  /\ pc = "query" => /\ exchange = "nonkyc" /\ st[side] # NoOrder
                     /\ st[side] \notin pending \union raw
  /\ pc = "confirm" => st[side] # NoOrder /\ st[side] \notin live
  /\ pc = "verify" => cur \in pending /\ (cur \in live => cur \in IdsOf(tracked) \union lost)

\* What the tick cancels is the strategy's, listed and so seen; what a request
\* cancels in the strategy's name is the strategy's.
Targets ==
  /\ pc \in {"surplus", "stray"} => todo \subseteq raw \intersect Own
  /\ \A j \in Jobs :
       /\ known[j] \subseteq Own
       /\ mode[j] = "managed" => ids[j] \subseteq Own
       /\ jpc[j] \in {"idle", "list", "sweep", "end"} => ids[j] = {}
       /\ jpc[j] \in {"idle", "list"} => tried[j] = {}

\* A request on its way has a tick that waits for it, or has been lost, and is
\* nothing the strategy has heard of; nor is the order a tick creates.
Apart ==
  /\ sent \subseteq lost \union {cur}
  /\ sent \intersect (pending \union raw \union IdsOf(tracked) \union IdsOf(st)) = {}
  /\ pc = "creating" => cur \notin pending \union raw \union IdsOf(tracked) \union IdsOf(st)
  /\ verdict = "made" => cur \notin sent
  /\ raw \intersect unseen = {}

\* An order no listing has shown is pending, or a crash has taken that from
\* memory, or it is being created, or it is lost and the strategy's ids name it nowhere.
Visibility ==
  \A o \in unseen \intersect Own :
    \/ o \in pending \ over
    \/ o \in hidden
    \/ o = cur
    \/ o \in lost /\ o \notin IdsOf(tracked) \union IdsOf(st)

\* What tick believes of its orders: those of its state are the tracked ones but for
\* what a stop has cleared; and those open are listed or pending.
Belief ==
  /\ pc \notin {"idle", "market"} /\ ~Placing => \A s \in Sides : tracked[s] \in {st[s], NoOrder}
  /\ pc \in {"listed", "relisted", "stray", "check", "query"} /\ ~blind =>
       \A o \in (live \intersect IdsOf(st)) \ hidden : o \in raw \union (pending \ over)

\* The sides whose tracked order has been checked.
Checked(s) ==
  \/ pc \in {"check", "query"} /\ side = "SELL" /\ s = "BUY"
  \/ pc \in {"stale", "confirm", "plan"}
  \/ refresh

\* On a checked side every order is known to be open; a side on which an order is to
\* be placed has none, and one on which an order is being placed no other.
Room ==
  /\ \A o \in (live \intersect Own) \ lost :
       Checked(o.side) => o \in raw \union pending \/ o = cur
  /\ Placing => \A o \in OnBook \intersect Own : o.side \in plan => o \in lost
  /\ Creating => /\ cur.side \notin plan
                 /\ \A o \in OnBook \intersect Own : o.side = cur.side => o \in lost \/ o = cur

\* While a calm stop is under way no tick can start, and what is still open is on
\* its list; once it is complete, nothing is.
CalmStops ==
  /\ \A j \in Jobs : calm[j] =>
       /\ pc = "idle" /\ ~enabled /\ sent = {} /\ mode[j] = "managed" /\ jpc[j] # "idle"
       /\ (live \intersect Own) \ lost \subseteq IF jpc[j] = "list" THEN known[j] ELSE ids[j]
  /\ stopped => pc = "idle" /\ ~enabled /\ OnBook \intersect Own \subseteq lost

IInv ==
  /\ SettingType /\ IdsType /\ BookType /\ TickType /\ JobsType
  /\ Control /\ Targets /\ Apart /\ Visibility /\ Belief /\ LiveIsTracked
  /\ Room /\ CalmStops

\* The orders of the strategy, those of others, and the order that is none.
LEMMA OwnFacts ==
  /\ \A o \in Own : o.side \in Sides /\ o # NoOrder
  /\ \A o \in Orders : o # NoOrder /\ o.side \in Sides
  /\ \A b \in Bounds : OwnIn(b) \subseteq Own /\ b.foreign \subseteq Foreign
  /\ Own \subseteq Orders /\ Foreign \subseteq Orders /\ Own \intersect Foreign = {}
  /\ NoOrder \notin Orders /\ NoOrder \notin Own /\ NoOrder.side = "none"
  BY ForeignAreOrders DEF Own, Orders, Foreign, OwnIn, Sides, NoOrder

\* A set that is not empty has a first order.
LEMMA FirstIn == ASSUME NEW S, S # {} PROVE First(S) \in S
  BY DEF First

\* Adoption gives an id to a side of the state that has none, and only that of a
\* listed order of the strategy; what it adopts is no longer lost.
LEMMA Adopts ==
  ASSUME IInv, TickReconcile
  PROVE  /\ tracked' \in [Sides -> Own \union {NoOrder}] /\ st' \in [Sides -> Own \union {NoOrder}]
         /\ \A s \in Sides : \/ tracked'[s] = tracked[s]
                             \/ /\ st[s] = NoOrder /\ tracked'[s] \in raw \intersect Own
                                /\ tracked'[s].side = s
         /\ \/ tracked' = tracked /\ st' = st /\ lost' = lost
            \/ st' = tracked' /\ lost' = lost \ IdsOf(tracked')
<1> DEFINE adopted == Adopted(st, raw)
           updated == [s \in Sides |-> IF adopted[s] # st[s] THEN adopted[s] ELSE tracked[s]]
<1>1. ASSUME NEW s \in Sides
      PROVE  \/ updated[s] = tracked[s]
             \/ st[s] = NoOrder /\ updated[s] \in raw \intersect Own /\ updated[s].side = s
  <2> DEFINE mine == {o \in OfSide(s, raw) : HasPrefix(o)}
  <2>1. adopted[s] = IF st[s] = NoOrder /\ mine # {} THEN First(mine) ELSE st[s]
    BY DEF Adopted
  <2>2. updated[s] = IF adopted[s] # st[s] THEN adopted[s] ELSE tracked[s]
    OBVIOUS
  <2>3. CASE st[s] = NoOrder /\ mine # {}
    <3>1. First(mine) \in mine
      BY <2>3, FirstIn
    <3>2. First(mine) \in raw \intersect Own /\ First(mine).side = s
      BY <3>1 DEF HasPrefix, OfSide
    <3> QED
      BY <2>1, <2>2, <2>3, <3>2
  <2>4. CASE ~(st[s] = NoOrder /\ mine # {})
    BY <2>1, <2>2, <2>4
  <2> QED
    BY <2>3, <2>4
<1>2. tracked \in [Sides -> Own \union {NoOrder}] /\ st \in [Sides -> Own \union {NoOrder}]
  BY DEF IInv, IdsType
<1>3. updated \in [Sides -> Own \union {NoOrder}]
  BY <1>1, <1>2
<1>4. \/ tracked' = tracked /\ st' = st /\ lost' = lost
      \/ tracked' = updated /\ st' = updated /\ lost' = lost \ IdsOf(updated)
  BY DEF TickReconcile
<1> HIDE DEF updated
<1> QED
  BY <1>1, <1>2, <1>3, <1>4

\* The tick takes the lock; its locals are as the last one left them, and no stop is calm
\* any more.
LEMMA TickStartKeeps == ASSUME IInv, TickStart PROVE IInv'
<1>1. SettingType'
  BY DEF SettingType, setting, db, memory, TickStart, IInv
<1>2. IdsType'
  BY DEF IdsType, db, locals, TickStart, IInv
<1>3. BookType'
  BY DEF BookType, memory, book, locals, history, TickStart, IInv
<1>4. TickType'
  BY DEF TickType, Sides, setting, db, memory, book, locals, history, TickStart, IInv
<1>5. JobsType'
  BY DEF JobsType, TickStart, IInv
<1>6. Control'
  BY OwnFacts DEF IdsType, BookType, TickType, Control, Sides, setting, db, memory, book,
     locals, history, IdsOf, TickStart, Creating, Placing, IInv
<1>7. Targets'
  BY DEF Targets, TickStart, IInv
<1>8. Apart'
  BY DEF Apart, db, memory, book, locals, history, TickStart, IInv
<1>9. Visibility'
  BY DEF Visibility, db, memory, book, locals, history, TickStart, IInv
<1>10. Belief'
  BY DEF Belief, TickStart, IInv
<1>11. LiveIsTracked'
  BY DEF LiveIsTracked, db, book, locals, history, TickStart, IInv
<1>12. Room'
  BY DEF Room, memory, book, locals, history, TickStart, Creating, Placing, Checked, IInv
<1>13. CalmStops'
  BY DEF CalmStops, history, TickStart, IInv
<1> QED
  BY <1>1, <1>2, <1>3, <1>4, <1>5, <1>6, <1>7, <1>8, <1>9, <1>10, <1>11, <1>12, <1>13 DEF IInv

\* The tick ends, or copies the state it goes on with.
LEMMA TickMarketKeeps == ASSUME IInv, TickMarket PROVE IInv'
<1>1. SettingType'
  BY DEF SettingType, setting, db, memory, TickMarket, IInv
<1>2. IdsType'
  BY OwnFacts DEF IdsType, db, Untracked, Return, TickMarket, IInv
<1>3. BookType'
  BY DEF BookType, memory, book, Return, TickMarket, IInv
<1>4. TickType'
  BY DEF TickType, Sides, setting, db, memory, book, jobs, Untracked, Unlocked, Return,
     TickMarket, IInv
<1>5. JobsType'
  BY DEF JobsType, jobs, TickMarket, IInv
<1>6. Control'
  BY DEF Control, Return, TickMarket, Creating, Placing, IInv
<1>7. Targets'
  BY DEF Targets, jobs, Return, TickMarket, IInv
<1>8. Apart'
  BY DEF Control, Apart, db, memory, book, Untracked, IdsOf, Return, TickMarket, Creating, IInv
<1>9. Visibility'
  BY DEF Control, Visibility, db, memory, book, Untracked, IdsOf, Return, TickMarket, Creating,
     IInv
<1>10. Belief'
  BY DEF Belief, db, Return, TickMarket, IInv
<1>11. LiveIsTracked'
  BY DEF LiveIsTracked, Control, db, book, Return, TickMarket, Creating, IInv
<1>12. Room'
  BY DEF Room, memory, book, Return, TickMarket, Creating, Placing, Checked, IInv
<1>13. CalmStops'
  BY DEF CalmStops, jobs, TickMarket, IInv
<1> QED
  BY <1>1, <1>2, <1>3, <1>4, <1>5, <1>6, <1>7, <1>8, <1>9, <1>10, <1>11, <1>12, <1>13 DEF IInv

\* A list shows what is live, less what the exchange has not yet made visible.
LEMMA ExchangeListsKeeps == ASSUME IInv, ExchangeLists PROVE IInv'
<1>1. SettingType'
  BY BoundsAreKnown DEF SettingType, setting, db, memory, Fault, ExchangeLists, IInv
<1>2. IdsType'
  BY DEF IdsType, db, ExchangeLists, IInv
<1>3. BookType'
  BY DEF BookType, memory, Shown, Misleads, ExchangeLists, IInv
<1>4. TickType'
  BY DEF TickType, Sides, setting, db, memory, jobs, Fault, Shown, Misleads, ExchangeLists, IInv
<1>5. JobsType'
  BY DEF JobsType, jobs, ExchangeLists, IInv
<1>6. Control'
  BY DEF Control, memory, ExchangeLists, Creating, Placing, IInv
<1>7. Targets'
  BY DEF Targets, jobs, ExchangeLists, IInv
<1>8. Apart'
  BY DEF BookType, Apart, db, memory, Shown, Misleads, ExchangeLists, IInv
<1>9. Visibility'
  BY DEF Visibility, db, memory, Shown, Misleads, ExchangeLists, IInv
<1>10. Belief'
  BY DEF IdsType, Control, Visibility, Belief, db, memory, IdsOf, Shown, Misleads, ExchangeLists,
     Creating, Placing, IInv
<1>11. LiveIsTracked'
  BY DEF LiveIsTracked, db, ExchangeLists, IInv
<1>12. Room'
  BY DEF Control, Room, ExchangeLists, Creating, Placing, Checked, IInv
<1>13. CalmStops'
  BY DEF CalmStops, jobs, ExchangeLists, IInv
<1> QED
  BY <1>1, <1>2, <1>3, <1>4, <1>5, <1>6, <1>7, <1>8, <1>9, <1>10, <1>11, <1>12, <1>13 DEF IInv

\* Adoption is the subject of the lemma above; the rest of the step moves ids only.
LEMMA TickReconcileKeeps == ASSUME IInv, TickReconcile PROVE IInv'
<1>1. SettingType'
  BY DEF SettingType, setting, TickReconcile, IInv
<1>2. IdsType'
  <2>1. \A s \in Sides : tracked'[s].side \in {s, "none"}
    BY Adopts DEF IInv, IdsType
  <2> QED
    BY Adopts, <2>1 DEF IInv, IdsType
<1>3. BookType'
  BY DEF BookType, book, Managed, StillPending, Strays, TickReconcile, IInv
<1>4. TickType'
  BY DEF TickType, TickReconcile, IInv
<1>5. JobsType'
  BY DEF JobsType, jobs, TickReconcile, IInv
<1>6. Control'
  BY DEF Control, TickReconcile, Creating, Placing, IInv
<1>7. Targets'
  <2>1. todo' \subseteq raw \intersect Own
    BY Adopts, OwnFacts DEF TickReconcile, Strays, Managed, HasPrefix, IdsOf, IInv, BookType
  <2> QED
    BY <2>1 DEF IInv, Targets, TickReconcile, jobs
<1>8. Apart'
  BY Adopts, OwnFacts
     DEF IInv, BookType, IdsType, TickType, Control, Apart, TickReconcile, IdsOf, StillPending, book
<1>9. Visibility'
  BY Adopts, OwnFacts
     DEF IInv, BookType, IdsType, TickType, Control, Apart, Visibility, TickReconcile, IdsOf,
         StillPending, book
<1>10. Belief'
  BY Adopts, OwnFacts
     DEF IInv, BookType, IdsType, TickType, Control, Apart, Visibility, Belief, Placing,
         TickReconcile, IdsOf, StillPending, book
<1>11. LiveIsTracked'
  BY Adopts, OwnFacts
     DEF IInv, BookType, IdsType, TickType, Belief, Placing, LiveIsTracked,
         TickReconcile, IdsOf, book
<1>12. Room'
  BY DEF Control, Room, TickReconcile, Creating, Placing, Checked, IInv
<1>13. CalmStops'
  BY DEF CalmStops, jobs, TickReconcile, IInv
<1> QED
  BY <1>1, <1>2, <1>3, <1>4, <1>5, <1>6, <1>7, <1>8, <1>9, <1>10, <1>11, <1>12, <1>13 DEF IInv

\* A surplus order is one of the strategy: the book and the memory lose it together.
LEMMA TickSurplusKeeps == ASSUME IInv, TickSurplus PROVE IInv'
<1>1. SettingType'
  BY BoundsAreKnown DEF SettingType, setting, db, Fault, TickSurplus, IInv
<1>2. IdsType'
  BY DEF IdsType, db, TickSurplus, IInv
<1>3. BookType'
  BY DEF BookType, history, TickSurplus, IInv
<1>4. TickType'
  BY DEF TickType, history, TickSurplus, IInv
<1>5. JobsType'
  BY DEF JobsType, jobs, TickSurplus, IInv
<1>6. Control'
  BY DEF Control, TickSurplus, Creating, Placing, IInv
<1>7. Targets'
  BY DEF Targets, jobs, TickSurplus, IInv
<1>8. Apart'
  BY DEF Apart, db, history, TickSurplus, IInv
<1>9. Visibility'
  BY FirstIn DEF Targets, Apart, Visibility, db, history, TickSurplus, IInv
<1>10. Belief'
  BY DEF Belief, db, TickSurplus, Placing, IInv
<1>11. LiveIsTracked'
  BY DEF LiveIsTracked, db, history, TickSurplus, IInv
<1>12. Room'
  BY DEF Control, Room, TickSurplus, Creating, Placing, Checked, IInv
<1>13. CalmStops'
  BY DEF CalmStops, jobs, history, TickSurplus, IInv
<1> QED
  BY <1>1, <1>2, <1>3, <1>4, <1>5, <1>6, <1>7, <1>8, <1>9, <1>10, <1>11, <1>12, <1>13 DEF IInv

\* The second list replaces the first and adopts nothing.
LEMMA TickRelistedKeeps == ASSUME IInv, TickRelisted PROVE IInv'
<1>1. SettingType'
  BY DEF SettingType, setting, db, TickRelisted, IInv
<1>2. IdsType'
  BY DEF IdsType, db, TickRelisted, IInv
<1>3. BookType'
  BY DEF BookType, book, history, Managed, StillPending, Strays, TickRelisted, IInv
<1>4. TickType'
  BY DEF TickType, history, TickRelisted, IInv
<1>5. JobsType'
  BY DEF JobsType, jobs, TickRelisted, IInv
<1>6. Control'
  BY DEF Control, TickRelisted, Creating, Placing, IInv
<1>7. Targets'
  BY DEF Targets, jobs, HasPrefix, Managed, Strays, TickRelisted, IInv
<1>8. Apart'
  BY DEF Apart, db, book, history, StillPending, TickRelisted, IInv
<1>9. Visibility'
  BY DEF Apart, Visibility, db, book, history, StillPending, TickRelisted, IInv
<1>10. Belief'
  BY DEF Belief, db, book, history, StillPending, TickRelisted, Placing, IInv
<1>11. LiveIsTracked'
  BY DEF LiveIsTracked, db, book, history, TickRelisted, IInv
<1>12. Room'
  BY DEF Control, Room, TickRelisted, Creating, Placing, Checked, IInv
<1>13. CalmStops'
  BY DEF CalmStops, jobs, history, TickRelisted, IInv
<1> QED
  BY <1>1, <1>2, <1>3, <1>4, <1>5, <1>6, <1>7, <1>8, <1>9, <1>10, <1>11, <1>12, <1>13 DEF IInv

\* A stray is an order of the strategy that no side of the state names.
LEMMA TickStrayKeeps == ASSUME IInv, TickStray PROVE IInv'
<1>1. SettingType'
  BY BoundsAreKnown DEF SettingType, setting, db, Fault, TickStray, IInv
<1>2. IdsType'
  BY OwnFacts DEF IdsType, db, Untracked, Return, TickStray, IInv
<1>3. BookType'
  BY DEF BookType, Return, TickStray, IInv
<1>4. TickType'
  BY DEF TickType, Sides, setting, db, jobs, Untracked, Fault, Unlocked, Return, TickStray,
     IInv
<1>5. JobsType'
  BY DEF JobsType, jobs, TickStray, IInv
<1>6. Control'
  BY DEF Control, Return, TickStray, Creating, Placing, IInv
<1>7. Targets'
  BY DEF Targets, jobs, Return, TickStray, IInv
<1>8. Apart'
  BY DEF Control, Apart, db, Untracked, IdsOf, Return, TickStray, Creating, IInv
<1>9. Visibility'
  BY DEF Control, Visibility, db, Untracked, IdsOf, Return, TickStray, Creating, IInv
<1>10. Belief'
  BY DEF Belief, db, Return, TickStray, Placing, IInv
<1>11. LiveIsTracked'
  BY DEF LiveIsTracked, Control, db, Return, TickStray, Creating, IInv
<1>12. Room'
  BY DEF Room, Return, TickStray, Creating, Placing, Checked, IInv
<1>13. CalmStops'
  BY DEF CalmStops, jobs, TickStray, IInv
<1> QED
  BY <1>1, <1>2, <1>3, <1>4, <1>5, <1>6, <1>7, <1>8, <1>9, <1>10, <1>11, <1>12, <1>13 DEF IInv

\* An id that is neither listed nor pending is asked about on NonKYC; elsewhere it is given
\* up or kept pending.
LEMMA TickCheckKeeps == ASSUME IInv, TickCheck PROVE IInv'
<1>1. SettingType'
  BY DEF SettingType, setting, TickCheck, IInv
<1>2. IdsType'
  BY OwnFacts DEF IdsType, GiveUp, KeepPending, TickCheck, IInv
<1>3. BookType'
  BY DEF IdsType, BookType, TickType, book, GiveUp, KeepPending, Expected, TickCheck, IInv
<1>4. TickType'
  BY DEF TickType, Sides, NextSide, GiveUp, TickCheck, IInv
<1>5. JobsType'
  BY DEF JobsType, jobs, TickCheck, IInv
<1>6. Control'
  BY DEF Control, setting, NextSide, GiveUp, KeepPending, Expected, TickCheck, Creating,
     Placing, IInv
<1>7. Targets'
  BY DEF Targets, jobs, NextSide, GiveUp, TickCheck, IInv
<1>8. Apart'
  BY DEF IdsType, TickType, Apart, book, IdsOf, NextSide, GiveUp, KeepPending, Expected,
     TickCheck, IInv
<1>9. Visibility'
  BY DEF IdsType, Visibility, book, IdsOf, GiveUp, KeepPending, Expected, TickCheck, IInv
<1>10. Belief'
  BY DEF IdsType, Belief, book, GiveUp, KeepPending, Expected, TickCheck, Placing, IInv
<1>11. LiveIsTracked'
  BY DEF LiveIsTracked, IdsType, Belief, book, OnBook, IdsOf, Informed, GiveUp, KeepPending,
     Expected, TickCheck, Placing, IInv
<1>12. Room'
  BY OwnFacts DEF LiveIsTracked, IdsType, TickType, Control, Belief, Room, Sides, book, OnBook,
     IdsOf, NextSide, Informed, GiveUp, KeepPending, Expected, TickCheck, Placing, Checked,
     IInv
<1>13. CalmStops'
  BY DEF CalmStops, jobs, TickCheck, IInv
<1> QED
  BY <1>1, <1>2, <1>3, <1>4, <1>5, <1>6, <1>7, <1>8, <1>9, <1>10, <1>11, <1>12, <1>13 DEF IInv

\* The id is given up, and is lost if something had misled the tick.
LEMMA TickQueryKeeps == ASSUME IInv, TickQuery PROVE IInv'
<1>1. SettingType'
  BY BoundsAreKnown DEF SettingType, setting, Fault, GiveUp, TickQuery, IInv
<1>2. IdsType'
  BY OwnFacts DEF IdsType, GiveUp, TickQuery, IInv
<1>3. BookType'
  BY DEF IdsType, BookType, TickType, Control, book, GiveUp, TickQuery, IInv
<1>4. TickType'
  BY DEF TickType, Sides, NextSide, TickQuery, IInv
<1>5. JobsType'
  BY DEF JobsType, jobs, TickQuery, IInv
<1>6. Control'
  BY DEF Control, NextSide, GiveUp, TickQuery, Creating, Placing, IInv
<1>7. Targets'
  BY DEF Targets, jobs, NextSide, TickQuery, IInv
<1>8. Apart'
  BY DEF IdsType, Apart, book, IdsOf, NextSide, GiveUp, TickQuery, IInv
<1>9. Visibility'
  BY DEF IdsType, Control, Visibility, book, IdsOf, GiveUp, TickQuery, IInv
<1>10. Belief'
  BY DEF IdsType, Control, Belief, book, GiveUp, TickQuery, Placing, IInv
<1>11. LiveIsTracked'
  BY DEF LiveIsTracked, IdsType, Control, Belief, book, OnBook, IdsOf, Informed, GiveUp,
     TickQuery, Placing, IInv
<1>12. Room'
  BY OwnFacts DEF LiveIsTracked, IdsType, TickType, Control, Belief, Room, Sides, book, OnBook,
     IdsOf, NextSide, Informed, GiveUp, TickQuery, Placing, Checked, IInv
<1>13. CalmStops'
  BY DEF CalmStops, jobs, TickQuery, IInv
<1> QED
  BY <1>1, <1>2, <1>3, <1>4, <1>5, <1>6, <1>7, <1>8, <1>9, <1>10, <1>11, <1>12, <1>13 DEF IInv

\* A stale order is cancelled at once; its id goes once a list confirms that.
LEMMA TickStaleKeeps == ASSUME IInv, TickStale PROVE IInv'
<1>1. SettingType'
  BY BoundsAreKnown DEF SettingType, setting, db, memory, Fault, TickStale, IInv
<1>2. IdsType'
  BY DEF IdsType, db, TickStale, IInv
<1>3. BookType'
  BY DEF BookType, memory, history, TickStale, IInv
<1>4. TickType'
  BY DEF TickType, Sides, setting, db, memory, jobs, history, Fault, NextSide, StaleDone,
     TickStale, IInv
<1>5. JobsType'
  BY DEF JobsType, jobs, TickStale, IInv
<1>6. Control'
  BY OwnFacts DEF BookType, Control, memory, NextSide, StaleDone, TickStale, Creating, Placing,
     IInv
<1>7. Targets'
  BY DEF Targets, jobs, NextSide, StaleDone, TickStale, IInv
<1>8. Apart'
  BY DEF Apart, db, memory, history, NextSide, StaleDone, TickStale, IInv
<1>9. Visibility'
  BY DEF Visibility, db, memory, history, TickStale, IInv
<1>10. Belief'
  BY DEF Belief, db, NextSide, StaleDone, TickStale, Placing, IInv
<1>11. LiveIsTracked'
  BY DEF LiveIsTracked, db, history, TickStale, IInv
<1>12. Room'
  BY DEF Room, memory, history, NextSide, StaleDone, TickStale, Creating, Placing, Checked,
     IInv
<1>13. CalmStops'
  BY DEF CalmStops, jobs, history, TickStale, IInv
<1> QED
  BY <1>1, <1>2, <1>3, <1>4, <1>5, <1>6, <1>7, <1>8, <1>9, <1>10, <1>11, <1>12, <1>13 DEF IInv

\* A list that answers frees the side, which may then get a new order.
LEMMA TickConfirmKeeps == ASSUME IInv, TickConfirm PROVE IInv'
<1>1. SettingType'
  BY BoundsAreKnown DEF SettingType, setting, memory, Fault, TickConfirm, IInv
<1>2. IdsType'
  BY OwnFacts DEF IdsType, TickConfirm, IInv
<1>3. BookType'
  BY DEF BookType, memory, Shown, StillPending, TickConfirm, IInv
<1>4. TickType'
  BY DEF TickType, Sides, setting, memory, jobs, OnBook, IdsOf, Fault, OfSide, Fresh, Spare,
     Shown, StillPending, NextSide, StaleDone, TickConfirm, IInv
<1>5. JobsType'
  BY DEF JobsType, jobs, TickConfirm, IInv
<1>6. Control'
  BY DEF Control, memory, NextSide, StaleDone, TickConfirm, Creating, Placing, IInv
<1>7. Targets'
  BY DEF Targets, jobs, NextSide, StaleDone, TickConfirm, IInv
<1>8. Apart'
  BY DEF IdsType, BookType, Apart, memory, IdsOf, Shown, StillPending, NextSide, StaleDone,
     TickConfirm, IInv
<1>9. Visibility'
  BY DEF IdsType, BookType, Control, Visibility, memory, IdsOf, Shown, StillPending,
     TickConfirm, IInv
<1>10. Belief'
  BY DEF Belief, NextSide, StaleDone, TickConfirm, Placing, IInv
<1>11. LiveIsTracked'
  BY DEF LiveIsTracked, IdsType, Control, Belief, IdsOf, TickConfirm, Placing, IInv
<1>12. Room'
  BY OwnFacts DEF LiveIsTracked, IdsType, Control, Apart, Belief, Room, Sides, memory, OnBook,
     IdsOf, Shown, StillPending, NextSide, StaleDone, TickConfirm, Creating, Placing, Checked,
     IInv
<1>13. CalmStops'
  BY DEF CalmStops, jobs, TickConfirm, IInv
<1> QED
  BY <1>1, <1>2, <1>3, <1>4, <1>5, <1>6, <1>7, <1>8, <1>9, <1>10, <1>11, <1>12, <1>13 DEF IInv

\* The plan holds sides with room for an order; the state's ids are of orders listed or
\* pending.
LEMMA TickPlanKeeps == ASSUME IInv, TickPlan PROVE IInv'
<1>1. SettingType'
  BY DEF SettingType, setting, memory, TickPlan, IInv
<1>2. IdsType'
  BY OwnFacts, FirstIn DEF IdsType, BookType, Untracked, IdsOf, OfSide, HasPrefix, Managed,
     TickPlan, IInv
<1>3. BookType'
  BY DEF BookType, memory, book, history, TickPlan, IInv
<1>4. TickType'
  BY DEF TickType, Sides, Other, setting, memory, book, jobs, history, OnBook, Untracked,
     IdsOf, OfSide, Fresh, Spare, HasPrefix, Managed, Has, MayPlace, TickPlan, IInv
<1>5. JobsType'
  BY DEF JobsType, jobs, TickPlan, IInv
<1>6. Control'
  BY DEF Control, memory, TickPlan, Creating, Placing, IInv
<1>7. Targets'
  BY DEF Targets, jobs, TickPlan, IInv
<1>8. Apart'
  BY FirstIn DEF Apart, Sides, memory, book, history, Untracked, IdsOf, OfSide, Managed,
     TickPlan, IInv
<1>9. Visibility'
  BY FirstIn DEF Control, Apart, Visibility, Sides, memory, book, history, Untracked, IdsOf,
     OfSide, Managed, TickPlan, IInv
<1>10. Belief'
  BY DEF Belief, TickPlan, Placing, IInv
<1>11. LiveIsTracked'
  BY DEF LiveIsTracked, Belief, book, history, IdsOf, TickPlan, Placing, IInv
<1>12. Room'
  BY OwnFacts DEF Control, Apart, Room, book, history, OnBook, OfSide, Has, MayPlace, TickPlan,
     Creating, Placing, Checked, IInv
<1>13. CalmStops'
  BY DEF CalmStops, jobs, history, TickPlan, IInv
<1> QED
  BY <1>1, <1>2, <1>3, <1>4, <1>5, <1>6, <1>7, <1>8, <1>9, <1>10, <1>11, <1>12, <1>13 DEF IInv

\* A create is sent for a side of the plan with a fresh id.
LEMMA SendCreateKeeps == ASSUME IInv, SendCreate PROVE IInv'
<1>1. SettingType'
  BY DEF SettingType, setting, db, SendCreate, IInv
<1>2. IdsType'
  BY DEF IdsType, db, SendCreate, IInv
<1>3. BookType'
  BY OwnFacts DEF SettingType, BookType, OnBook, Fresh, SendCreate, IInv
<1>4. TickType'
  BY OwnFacts DEF SettingType, TickType, SendCreate, IInv
<1>5. JobsType'
  BY DEF JobsType, jobs, SendCreate, IInv
<1>6. Control'
  BY OwnFacts DEF SettingType, Control, SendCreate, Creating, Placing, IInv
<1>7. Targets'
  BY DEF Targets, jobs, SendCreate, IInv
<1>8. Apart'
  BY OwnFacts DEF BookType, Control, Apart, db, Fresh, SendCreate, Creating, IInv
<1>9. Visibility'
  BY OwnFacts DEF Control, Visibility, db, SendCreate, Creating, IInv
<1>10. Belief'
  BY DEF Belief, SendCreate, Placing, IInv
<1>11. LiveIsTracked'
  BY OwnFacts DEF LiveIsTracked, Control, db, SendCreate, Creating, IInv
<1>12. Room'
  BY OwnFacts DEF TickType, Control, Room, Sides, OnBook, NextToPlace, SendCreate, Creating,
     Placing, Checked, IInv
<1>13. CalmStops'
  BY DEF CalmStops, jobs, SendCreate, IInv
<1> QED
  BY <1>1, <1>2, <1>3, <1>4, <1>5, <1>6, <1>7, <1>8, <1>9, <1>10, <1>11, <1>12, <1>13 DEF IInv

\* The reply brings the id of the order made, which is tracked; without it the order is
\* lost.
LEMMA CreateReplyKeeps == ASSUME IInv, CreateReply PROVE IInv'
<1>1. SettingType'
  BY BoundsAreKnown DEF SettingType, setting, Fault, CreateReply, IInv
<1>2. IdsType'
  BY OwnFacts DEF IdsType, TickType, Untracked, Return, CreateReply, IInv
<1>3. BookType'
  BY DEF BookType, Control, book, Return, CreateReply, Creating, IInv
<1>4. TickType'
  BY DEF TickType, Sides, setting, book, jobs, OnBook, Untracked, Fault, Unlocked, Return,
     CreateReply, IInv
<1>5. JobsType'
  BY DEF JobsType, jobs, CreateReply, IInv
<1>6. Control'
  BY OwnFacts DEF IdsType, Control, IdsOf, Return, CreateReply, Creating, Placing, IInv
<1>7. Targets'
  BY DEF Targets, jobs, Return, CreateReply, IInv
<1>8. Apart'
  BY DEF IdsType, Apart, book, OnBook, Untracked, IdsOf, Return, CreateReply, IInv
<1>9. Visibility'
  BY DEF IdsType, BookType, Apart, Visibility, book, OnBook, Untracked, IdsOf, Return,
     CreateReply, IInv
<1>10. Belief'
  BY DEF Belief, Return, CreateReply, Placing, IInv
<1>11. LiveIsTracked'
  BY OwnFacts DEF LiveIsTracked, IdsType, Room, Sides, book, OnBook, IdsOf, CreateReply,
     Creating, IInv
<1>12. Room'
  BY DEF Control, Room, book, OnBook, Return, CreateReply, Creating, Placing, Checked, IInv
<1>13. CalmStops'
  BY DEF CalmStops, jobs, CreateReply, IInv
<1> QED
  BY <1>1, <1>2, <1>3, <1>4, <1>5, <1>6, <1>7, <1>8, <1>9, <1>10, <1>11, <1>12, <1>13 DEF IInv

\* The listings that look for a new order only end its grace.
LEMMA TickVerifyKeeps == ASSUME IInv, TickVerify PROVE IInv'
<1>1. SettingType'
  BY BoundsAreKnown DEF SettingType, setting, db, Fault, TickVerify, IInv
<1>2. IdsType'
  BY DEF IdsType, db, TickVerify, IInv
<1>3. BookType'
  BY DEF BookType, history, Shown, TickVerify, IInv
<1>4. TickType'
  BY DEF TickType, history, TickVerify, IInv
<1>5. JobsType'
  BY DEF JobsType, jobs, TickVerify, IInv
<1>6. Control'
  BY DEF Control, TickVerify, Creating, Placing, IInv
<1>7. Targets'
  BY DEF Targets, jobs, TickVerify, IInv
<1>8. Apart'
  BY DEF BookType, Control, Apart, db, history, Shown, TickVerify, IInv
<1>9. Visibility'
  BY DEF Control, Visibility, db, history, Shown, TickVerify, IInv
<1>10. Belief'
  BY DEF Belief, TickVerify, Placing, IInv
<1>11. LiveIsTracked'
  BY DEF LiveIsTracked, Control, db, history, TickVerify, IInv
<1>12. Room'
  BY DEF Control, Apart, Room, history, OnBook, Shown, TickVerify, Creating, Placing, Checked,
     IInv
<1>13. CalmStops'
  BY DEF CalmStops, jobs, history, TickVerify, IInv
<1> QED
  BY <1>1, <1>2, <1>3, <1>4, <1>5, <1>6, <1>7, <1>8, <1>9, <1>10, <1>11, <1>12, <1>13 DEF IInv

\* A refresh ends where the stale orders go on; a tick ends without its locals.
LEMMA TickEndKeeps == ASSUME IInv, TickEnd PROVE IInv'
<1>1. SettingType'
  BY DEF SettingType, Sides, setting, db, book, jobs, Untracked, Unlocked, Return, NextSide,
     StaleDone, TickEnd, IInv
<1>2. IdsType'
  BY OwnFacts DEF IdsType, db, Untracked, Return, TickEnd, IInv
<1>3. BookType'
  BY DEF BookType, book, Return, TickEnd, IInv
<1>4. TickType'
  BY DEF TickType, Sides, setting, db, book, jobs, Untracked, Unlocked, Return, NextSide,
     StaleDone, TickEnd, IInv
<1>5. JobsType'
  BY DEF JobsType, jobs, TickEnd, IInv
<1>6. Control'
  BY DEF Control, Return, NextSide, StaleDone, TickEnd, Creating, IInv
<1>7. Targets'
  BY DEF Targets, jobs, Return, NextSide, StaleDone, TickEnd, IInv
<1>8. Apart'
  BY DEF Control, Apart, db, book, Untracked, IdsOf, Return, NextSide, StaleDone, TickEnd,
     Creating, IInv
<1>9. Visibility'
  BY DEF Control, Visibility, db, book, Untracked, IdsOf, Return, TickEnd, Creating, IInv
<1>10. Belief'
  BY DEF Belief, db, Return, NextSide, StaleDone, TickEnd, IInv
<1>11. LiveIsTracked'
  BY DEF LiveIsTracked, Control, db, book, Return, TickEnd, Creating, IInv
<1>12. Room'
  BY DEF Room, book, Return, NextSide, StaleDone, TickEnd, Creating, Checked, IInv
<1>13. CalmStops'
  BY DEF CalmStops, jobs, TickEnd, IInv
<1> QED
  BY <1>1, <1>2, <1>3, <1>4, <1>5, <1>6, <1>7, <1>8, <1>9, <1>10, <1>11, <1>12, <1>13 DEF IInv

\* An order sent enters the book, visible or not.
LEMMA ExchangeAcceptsKeeps == ASSUME IInv, NEW o \in Orders, ExchangeAccepts(o) PROVE IInv'
<1>1. SettingType'
  BY DEF SettingType, setting, db, memory, ExchangeAccepts, IInv
<1>2. IdsType'
  BY DEF IdsType, db, ExchangeAccepts, IInv
<1>3. BookType'
  BY DEF BookType, memory, history, ExchangeAccepts, IInv
<1>4. TickType'
  BY DEF TickType, history, ExchangeAccepts, IInv
<1>5. JobsType'
  BY DEF JobsType, jobs, ExchangeAccepts, IInv
<1>6. Control'
  BY OwnFacts DEF TickType, Control, Apart, setting, db, memory, history, IdsOf,
     ExchangeAccepts, Creating, Placing, IInv
<1>7. Targets'
  BY DEF Targets, jobs, ExchangeAccepts, IInv
<1>8. Apart'
  BY DEF Apart, db, memory, history, ExchangeAccepts, IInv
<1>9. Visibility'
  BY DEF Apart, Visibility, db, memory, history, ExchangeAccepts, IInv
<1>10. Belief'
  BY DEF Apart, Belief, db, memory, history, ExchangeAccepts, Placing, IInv
<1>11. LiveIsTracked'
  BY DEF LiveIsTracked, Apart, db, history, ExchangeAccepts, IInv
<1>12. Room'
  BY DEF Apart, Room, memory, history, OnBook, ExchangeAccepts, Creating, Placing, Checked,
     IInv
<1>13. CalmStops'
  BY DEF CalmStops, db, jobs, history, OnBook, ExchangeAccepts, IInv
<1> QED
  BY <1>1, <1>2, <1>3, <1>4, <1>5, <1>6, <1>7, <1>8, <1>9, <1>10, <1>11, <1>12, <1>13 DEF IInv

\* An order sent is refused and never enters the book.
LEMMA ExchangeRejectsKeeps == ASSUME IInv, NEW o \in Orders, ExchangeRejects(o) PROVE IInv'
<1>1. SettingType'
  BY DEF SettingType, setting, db, memory, ExchangeRejects, IInv
<1>2. IdsType'
  BY DEF IdsType, db, ExchangeRejects, IInv
<1>3. BookType'
  BY DEF BookType, memory, history, ExchangeRejects, IInv
<1>4. TickType'
  BY DEF TickType, history, ExchangeRejects, IInv
<1>5. JobsType'
  BY DEF JobsType, jobs, ExchangeRejects, IInv
<1>6. Control'
  BY OwnFacts DEF Control, Apart, setting, db, memory, history, ExchangeRejects, Creating,
     Placing, IInv
<1>7. Targets'
  BY DEF Targets, jobs, ExchangeRejects, IInv
<1>8. Apart'
  BY DEF Apart, db, memory, history, ExchangeRejects, IInv
<1>9. Visibility'
  BY DEF Visibility, db, memory, history, ExchangeRejects, IInv
<1>10. Belief'
  BY DEF Belief, db, memory, history, ExchangeRejects, Placing, IInv
<1>11. LiveIsTracked'
  BY DEF LiveIsTracked, db, history, ExchangeRejects, IInv
<1>12. Room'
  BY DEF Room, memory, history, OnBook, ExchangeRejects, Creating, Placing, Checked, IInv
<1>13. CalmStops'
  BY DEF CalmStops, db, jobs, history, OnBook, ExchangeRejects, IInv
<1> QED
  BY <1>1, <1>2, <1>3, <1>4, <1>5, <1>6, <1>7, <1>8, <1>9, <1>10, <1>11, <1>12, <1>13 DEF IInv

\* A live order is filled and leaves the book.
LEMMA FillKeeps == ASSUME IInv, NEW o \in Orders, Fill(o) PROVE IInv'
<1>1. SettingType'
  BY DEF SettingType, setting, db, memory, Fill, IInv
<1>2. IdsType'
  BY DEF IdsType, db, locals, tick, Fill, IInv
<1>3. BookType'
  BY DEF BookType, memory, locals, tick, history, Fill, IInv
<1>4. TickType'
  BY DEF TickType, locals, tick, history, Fill, IInv
<1>5. JobsType'
  BY DEF JobsType, jobs, Fill, IInv
<1>6. Control'
  BY DEF Control, setting, db, memory, locals, tick, history, Fill, Creating, Placing, IInv
<1>7. Targets'
  BY DEF Targets, locals, tick, jobs, Fill, IInv
<1>8. Apart'
  BY DEF Apart, db, memory, locals, tick, history, Fill, IInv
<1>9. Visibility'
  BY DEF Visibility, db, memory, locals, tick, history, Fill, IInv
<1>10. Belief'
  BY DEF Belief, db, memory, locals, tick, history, Fill, Placing, IInv
<1>11. LiveIsTracked'
  BY DEF LiveIsTracked, db, locals, tick, history, Fill, IInv
<1>12. Room'
  BY DEF Room, memory, locals, tick, history, OnBook, Fill, Creating, Placing, Checked, IInv
<1>13. CalmStops'
  BY DEF CalmStops, db, tick, jobs, history, OnBook, Fill, IInv
<1> QED
  BY <1>1, <1>2, <1>3, <1>4, <1>5, <1>6, <1>7, <1>8, <1>9, <1>10, <1>11, <1>12, <1>13 DEF IInv

\* The grace of a pending order ends after the exchange has made it visible.
LEMMA GracePassesKeeps == ASSUME IInv, GracePasses PROVE IInv'
<1>1. SettingType'
  BY DEF SettingType, setting, db, GracePasses, IInv
<1>2. IdsType'
  BY DEF IdsType, db, locals, tick, GracePasses, IInv
<1>3. BookType'
  BY DEF BookType, locals, tick, history, GracePasses, IInv
<1>4. TickType'
  BY DEF TickType, locals, tick, history, GracePasses, IInv
<1>5. JobsType'
  BY DEF JobsType, jobs, GracePasses, IInv
<1>6. Control'
  BY DEF Control, locals, tick, GracePasses, Creating, Placing, IInv
<1>7. Targets'
  BY DEF Targets, tick, jobs, GracePasses, IInv
<1>8. Apart'
  BY DEF Apart, db, locals, tick, history, GracePasses, IInv
<1>9. Visibility'
  BY DEF Visibility, db, locals, tick, history, GracePasses, IInv
<1>10. Belief'
  BY DEF Belief, tick, GracePasses, IInv
<1>11. LiveIsTracked'
  BY DEF LiveIsTracked, db, locals, tick, history, GracePasses, IInv
<1>12. Room'
  BY DEF Room, locals, tick, history, GracePasses, Creating, Placing, Checked, IInv
<1>13. CalmStops'
  BY DEF CalmStops, db, tick, jobs, history, OnBook, GracePasses, IInv
<1> QED
  BY <1>1, <1>2, <1>3, <1>4, <1>5, <1>6, <1>7, <1>8, <1>9, <1>10, <1>11, <1>12, <1>13 DEF IInv

\* Only the bootstrap window closes.
LEMMA BootstrapPassesKeeps == ASSUME IInv, BootstrapPasses PROVE IInv'
<1>1. SettingType'
  BY DEF SettingType, setting, db, book, locals, tick, jobs, history, BootstrapPasses, IInv
<1>2. IdsType'
  BY DEF IdsType, db, locals, tick, BootstrapPasses, IInv
<1>3. BookType'
  BY DEF BookType, book, locals, tick, history, BootstrapPasses, IInv
<1>4. TickType'
  BY DEF TickType, locals, tick, history, BootstrapPasses, IInv
<1>5. JobsType'
  BY DEF JobsType, jobs, BootstrapPasses, IInv
<1>6. Control'
  BY DEF Control, locals, tick, BootstrapPasses, Creating, Placing, IInv
<1>7. Targets'
  BY DEF Targets, tick, jobs, BootstrapPasses, IInv
<1>8. Apart'
  BY DEF Apart, db, book, locals, tick, history, BootstrapPasses, IInv
<1>9. Visibility'
  BY DEF Visibility, db, book, locals, tick, history, BootstrapPasses, IInv
<1>10. Belief'
  BY DEF Belief, tick, BootstrapPasses, IInv
<1>11. LiveIsTracked'
  BY DEF LiveIsTracked, db, book, locals, tick, history, BootstrapPasses, IInv
<1>12. Room'
  BY DEF Room, book, locals, tick, history, BootstrapPasses, Creating, Placing, Checked, IInv
<1>13. CalmStops'
  BY DEF CalmStops, db, book, tick, jobs, history, OnBook, BootstrapPasses, IInv
<1> QED
  BY <1>1, <1>2, <1>3, <1>4, <1>5, <1>6, <1>7, <1>8, <1>9, <1>10, <1>11, <1>12, <1>13 DEF IInv

\* A start opens the bootstrap window and ends what was said of the stops before it.
LEMMA StartKeeps == ASSUME IInv, Start PROVE IInv'
<1>1. SettingType'
  BY DEF SettingType, setting, Start, IInv
<1>2. IdsType'
  BY DEF IdsType, locals, tick, Start, IInv
<1>3. BookType'
  BY DEF BookType, book, locals, tick, Start, IInv
<1>4. TickType'
  BY DEF TickType, Sides, setting, book, locals, tick, Start, IInv
<1>5. JobsType'
  BY DEF JobsType, Start, IInv
<1>6. Control'
  BY DEF Control, setting, book, locals, tick, Start, Creating, Placing, IInv
<1>7. Targets'
  BY DEF Targets, locals, tick, Start, IInv
<1>8. Apart'
  BY DEF Apart, book, locals, tick, Start, IInv
<1>9. Visibility'
  BY DEF Visibility, book, locals, tick, Start, IInv
<1>10. Belief'
  BY DEF Belief, book, locals, tick, Start, Placing, IInv
<1>11. LiveIsTracked'
  BY DEF LiveIsTracked, book, locals, tick, Start, IInv
<1>12. Room'
  BY DEF Room, book, locals, tick, OnBook, Start, Creating, Placing, Checked, IInv
<1>13. CalmStops'
  BY DEF CalmStops, Start, IInv
<1> QED
  BY <1>1, <1>2, <1>3, <1>4, <1>5, <1>6, <1>7, <1>8, <1>9, <1>10, <1>11, <1>12, <1>13 DEF IInv

\* A stop disables the strategy and remembers the ids of the state; it is calm if all that
\* is open is in them.
LEMMA RequestStopKeeps == ASSUME IInv, NEW j \in Jobs, RequestStop(j) PROVE IInv'
<1>1. SettingType'
  BY DEF SettingType, Sides, setting, memory, book, locals, tick, history, IdsOf, Begin,
     RequestStop, IInv
<1>2. IdsType'
  BY DEF IdsType, locals, tick, RequestStop, IInv
<1>3. BookType'
  BY DEF BookType, memory, book, locals, tick, history, RequestStop, IInv
<1>4. TickType'
  BY DEF TickType, locals, tick, history, RequestStop, IInv
<1>5. JobsType'
  BY OwnFacts DEF IdsType, JobsType, IdsOf, Begin, RequestStop, IInv
<1>6. Control'
  BY DEF Control, setting, memory, book, locals, tick, history, RequestStop, Creating, Placing,
     IInv
<1>7. Targets'
  BY DEF IdsType, Targets, locals, tick, IdsOf, Begin, RequestStop, IInv
<1>8. Apart'
  BY DEF Apart, memory, book, locals, tick, history, RequestStop, IInv
<1>9. Visibility'
  BY DEF Visibility, memory, book, locals, tick, history, RequestStop, IInv
<1>10. Belief'
  BY DEF Belief, memory, book, locals, tick, history, RequestStop, Placing, IInv
<1>11. LiveIsTracked'
  BY DEF LiveIsTracked, book, locals, tick, history, RequestStop, IInv
<1>12. Room'
  BY DEF Room, memory, book, locals, tick, history, OnBook, RequestStop, Creating, Placing,
     Checked, IInv
<1>13. CalmStops'
  BY OwnFacts DEF LiveIsTracked, TickType, JobsType, Control, CalmStops, book, tick, history,
     OnBook, Begin, RequestStop, Creating, IInv
<1> QED
  BY <1>1, <1>2, <1>3, <1>4, <1>5, <1>6, <1>7, <1>8, <1>9, <1>10, <1>11, <1>12, <1>13 DEF IInv

\* A cancellation of unknown orders leaves the setting alone.
LEMMA RequestUnknownKeeps == ASSUME IInv, NEW j \in Jobs, RequestUnknown(j) PROVE IInv'
<1>1. SettingType'
  BY DEF SettingType, setting, db, memory, RequestUnknown, IInv
<1>2. IdsType'
  BY DEF IdsType, db, locals, tick, RequestUnknown, IInv
<1>3. BookType'
  BY DEF BookType, memory, book, locals, tick, history, RequestUnknown, IInv
<1>4. TickType'
  BY DEF TickType, locals, tick, history, RequestUnknown, IInv
<1>5. JobsType'
  BY OwnFacts DEF IdsType, JobsType, IdsOf, Begin, RequestUnknown, IInv
<1>6. Control'
  BY DEF Control, setting, db, memory, book, locals, tick, history, RequestUnknown, Creating,
     Placing, IInv
<1>7. Targets'
  BY DEF IdsType, Targets, locals, tick, IdsOf, Begin, RequestUnknown, IInv
<1>8. Apart'
  BY DEF Apart, db, memory, book, locals, tick, history, RequestUnknown, IInv
<1>9. Visibility'
  BY DEF Visibility, db, memory, book, locals, tick, history, RequestUnknown, IInv
<1>10. Belief'
  BY DEF Belief, db, memory, book, locals, tick, history, RequestUnknown, Placing, IInv
<1>11. LiveIsTracked'
  BY DEF LiveIsTracked, db, book, locals, tick, history, RequestUnknown, IInv
<1>12. Room'
  BY DEF Room, memory, book, locals, tick, history, OnBook, RequestUnknown, Creating, Placing,
     Checked, IInv
<1>13. CalmStops'
  BY DEF CalmStops, db, book, tick, history, OnBook, Begin, RequestUnknown, IInv
<1> QED
  BY <1>1, <1>2, <1>3, <1>4, <1>5, <1>6, <1>7, <1>8, <1>9, <1>10, <1>11, <1>12, <1>13 DEF IInv

\* What a request will cancel is the tracked or the listed, but never twice the same.
LEMMA JobListKeeps == ASSUME IInv, NEW j \in Jobs, JobList(j) PROVE IInv'
<1>1. SettingType'
  BY BoundsAreKnown DEF SettingType, setting, db, memory, Fault, JobList, IInv
<1>2. IdsType'
  BY DEF IdsType, db, locals, tick, JobList, IInv
<1>3. BookType'
  BY DEF BookType, memory, locals, tick, history, Shown, Misleads, JobList, IInv
<1>4. TickType'
  BY DEF TickType, locals, tick, history, JobList, IInv
<1>5. JobsType'
  <2>1. \A seen \in SUBSET Orders :
          (Selected(j, seen) \union Anyway(j)) \ tried[j] \in SUBSET Orders
    BY DEF IInv, JobsType, Selected, Anyway
  <2>2. Anyway(j) \ tried[j] \in SUBSET Orders
    BY DEF IInv, JobsType, Anyway
  <2>3. PICK S \in SUBSET Orders : ids' = [ids EXCEPT ![j] = S]
    BY <2>1, <2>2 DEF JobList
  <2>4. /\ \E p \in {"cancel", "end", "again"} : jpc' = [jpc EXCEPT ![j] = p]
        /\ calm' = calm \/ calm' = [calm EXCEPT ![j] = FALSE]
        /\ UNCHANGED <<mode, known, tried>>
    BY DEF JobList
  <2> QED
    BY <2>3, <2>4 DEF IInv, JobsType
<1>6. Control'
  BY DEF Control, setting, db, memory, locals, tick, history, JobList, Creating, Placing, IInv
<1>7. Targets'
  BY DEF JobsType, Targets, locals, tick, HasPrefix, Selected, Anyway, JobList, IInv
<1>8. Apart'
  BY DEF Apart, db, memory, locals, tick, history, Shown, Misleads, JobList, IInv
<1>9. Visibility'
  BY DEF Visibility, db, memory, locals, tick, history, Shown, Misleads, JobList, IInv
<1>10. Belief'
  BY DEF Belief, db, memory, locals, tick, history, JobList, Placing, IInv
<1>11. LiveIsTracked'
  BY DEF LiveIsTracked, db, locals, tick, history, JobList, IInv
<1>12. Room'
  BY DEF Room, memory, locals, tick, history, OnBook, JobList, Creating, Placing, Checked, IInv
<1>13. CalmStops'
  BY DEF JobsType, Targets, CalmStops, db, tick, history, OnBook, Anyway, JobList, IInv
<1> QED
  BY <1>1, <1>2, <1>3, <1>4, <1>5, <1>6, <1>7, <1>8, <1>9, <1>10, <1>11, <1>12, <1>13 DEF IInv

\* An order on the request's list is closed, or the cancel fails and the stop is not calm.
LEMMA JobCancelKeeps == ASSUME IInv, NEW j \in Jobs, JobCancel(j) PROVE IInv'
<1>1. SettingType'
  BY BoundsAreKnown DEF SettingType, setting, db, memory, Fault, JobCancel, IInv
<1>2. IdsType'
  BY DEF IdsType, db, locals, tick, JobCancel, IInv
<1>3. BookType'
  BY DEF BookType, memory, locals, tick, history, JobCancel, IInv
<1>4. TickType'
  BY DEF TickType, locals, tick, history, JobCancel, IInv
<1>5. JobsType'
  <2>1. ids[j] \ {First(ids[j])} \in SUBSET Orders
    BY DEF IInv, JobsType
  <2>2. tried[j] \union {First(ids[j])} \in SUBSET Orders
    BY FirstIn DEF IInv, JobsType, JobCancel
  <2>3. /\ ids' = [ids EXCEPT ![j] = ids[j] \ {First(ids[j])}]
        /\ tried' = [tried EXCEPT ![j] = tried[j] \union {First(ids[j])}]
        /\ calm' = calm \/ calm' = [calm EXCEPT ![j] = FALSE]
        /\ UNCHANGED <<jpc, mode, known>>
    BY DEF JobCancel
  <2> QED
    BY <2>1, <2>2, <2>3 DEF IInv, JobsType
<1>6. Control'
  BY DEF Control, setting, db, memory, locals, tick, history, JobCancel, Creating, Placing,
     IInv
<1>7. Targets'
  BY DEF Targets, locals, tick, JobCancel, IInv
<1>8. Apart'
  BY DEF Apart, db, memory, locals, tick, history, JobCancel, IInv
<1>9. Visibility'
  BY DEF Visibility, db, memory, locals, tick, history, JobCancel, IInv
<1>10. Belief'
  BY DEF Belief, db, memory, locals, tick, history, JobCancel, Placing, IInv
<1>11. LiveIsTracked'
  BY DEF LiveIsTracked, db, locals, tick, history, JobCancel, IInv
<1>12. Room'
  BY DEF Room, memory, locals, tick, history, OnBook, JobCancel, Creating, Placing, Checked,
     IInv
<1>13. CalmStops'
  BY DEF JobsType, CalmStops, db, tick, history, OnBook, JobCancel, IInv
<1> QED
  BY <1>1, <1>2, <1>3, <1>4, <1>5, <1>6, <1>7, <1>8, <1>9, <1>10, <1>11, <1>12, <1>13 DEF IInv

\* With nothing left to cancel the request ends, or looks again.
LEMMA JobCancelledKeeps == ASSUME IInv, NEW j \in Jobs, JobCancelled(j) PROVE IInv'
<1>1. SettingType'
  BY DEF SettingType, setting, db, memory, JobCancelled, IInv
<1>2. IdsType'
  BY DEF IdsType, db, locals, tick, JobCancelled, IInv
<1>3. BookType'
  BY DEF BookType, memory, book, locals, tick, history, JobCancelled, IInv
<1>4. TickType'
  BY DEF TickType, locals, tick, history, JobCancelled, IInv
<1>5. JobsType'
  BY DEF JobsType, JobCancelled, IInv
<1>6. Control'
  BY DEF Control, setting, db, memory, book, locals, tick, history, JobCancelled, Creating,
     Placing, IInv
<1>7. Targets'
  BY DEF JobsType, Targets, locals, tick, JobCancelled, IInv
<1>8. Apart'
  BY DEF Apart, db, memory, book, locals, tick, history, JobCancelled, IInv
<1>9. Visibility'
  BY DEF Visibility, db, memory, book, locals, tick, history, JobCancelled, IInv
<1>10. Belief'
  BY DEF Belief, db, memory, book, locals, tick, history, JobCancelled, Placing, IInv
<1>11. LiveIsTracked'
  BY DEF LiveIsTracked, db, book, locals, tick, history, JobCancelled, IInv
<1>12. Room'
  BY DEF Room, memory, book, locals, tick, history, OnBook, JobCancelled, Creating, Placing,
     Checked, IInv
<1>13. CalmStops'
  BY DEF JobsType, CalmStops, db, book, tick, history, OnBook, JobCancelled, IInv
<1> QED
  BY <1>1, <1>2, <1>3, <1>4, <1>5, <1>6, <1>7, <1>8, <1>9, <1>10, <1>11, <1>12, <1>13 DEF IInv

\* A stop forgets the ids of the state: what is still open is lost unless the stop was
\* calm, and then none is.
LEMMA JobFinishKeeps == ASSUME IInv, NEW j \in Jobs, JobFinish(j) PROVE IInv'
<1>1. SettingType'
  BY DEF SettingType, Sides, setting, book, locals, tick, OnBook, Untracked, IdsOf, JobFinish,
     IInv
<1>2. IdsType'
  BY OwnFacts DEF IdsType, locals, tick, Untracked, JobFinish, IInv
<1>3. BookType'
  BY DEF IdsType, BookType, book, locals, tick, IdsOf, JobFinish, IInv
<1>4. TickType'
  BY DEF TickType, JobsType, locals, tick, JobFinish, IInv
<1>5. JobsType'
  BY DEF JobsType, JobFinish, IInv
<1>6. Control'
  BY DEF Control, CalmStops, setting, book, locals, tick, OnBook, JobFinish, Creating, Placing,
     IInv
<1>7. Targets'
  BY DEF JobsType, Targets, locals, tick, JobFinish, IInv
<1>8. Apart'
  BY DEF Apart, book, locals, tick, Untracked, IdsOf, JobFinish, IInv
<1>9. Visibility'
  BY DEF Visibility, book, locals, tick, Untracked, IdsOf, JobFinish, IInv
<1>10. Belief'
  BY DEF Belief, book, locals, tick, Untracked, JobFinish, Placing, IInv
<1>11. LiveIsTracked'
  BY DEF LiveIsTracked, Targets, CalmStops, book, locals, tick, OnBook, JobFinish, IInv
<1>12. Room'
  BY DEF Room, book, locals, tick, OnBook, JobFinish, Creating, Placing, Checked, IInv
<1>13. CalmStops'
  BY DEF JobsType, Targets, CalmStops, book, tick, OnBook, JobFinish, IInv
<1> QED
  BY <1>1, <1>2, <1>3, <1>4, <1>5, <1>6, <1>7, <1>8, <1>9, <1>10, <1>11, <1>12, <1>13 DEF IInv

\* A crash loses the tick, the requests and the memory, not the state saved.
LEMMA CrashKeeps == ASSUME IInv, Crash PROVE IInv'
<1>1. SettingType'
  BY BoundsAreKnown DEF SettingType, setting, db, Fault, Crash, IInv
<1>2. IdsType'
  BY OwnFacts DEF IdsType, db, Untracked, Return, Crash, IInv
<1>3. BookType'
  BY OwnFacts DEF BookType, TickType, book, OnBook, Return, Crash, IInv
<1>4. TickType'
  BY DEF TickType, Sides, setting, db, book, OnBook, Untracked, IdsOf, Fault, Unlocked, Return,
     Crash, IInv
<1>5. JobsType'
  BY DEF JobsType, Crash, IInv
<1>6. Control'
  BY DEF Control, Return, Crash, Creating, IInv
<1>7. Targets'
  BY DEF Targets, Return, Crash, IInv
<1>8. Apart'
  BY DEF Apart, db, book, OnBook, Untracked, IdsOf, Return, Crash, IInv
<1>9. Visibility'
  BY DEF Visibility, book, Crash, IInv
<1>10. Belief'
  BY DEF Belief, Return, Crash, IInv
<1>11. LiveIsTracked'
  BY DEF LiveIsTracked, db, book, OnBook, Crash, IInv
<1>12. Room'
  BY DEF Room, Return, Crash, Creating, Checked, IInv
<1>13. CalmStops'
  BY DEF CalmStops, db, book, OnBook, Return, Crash, IInv
<1> QED
  BY <1>1, <1>2, <1>3, <1>4, <1>5, <1>6, <1>7, <1>8, <1>9, <1>10, <1>11, <1>12, <1>13 DEF IInv

\* The inductive invariant holds at the start: nothing is placed.
LEMMA Starts == ASSUME Init PROVE IInv
<1>1. SettingType /\ IdsType /\ BookType /\ TickType /\ JobsType
  <2> USE DEF Init, NoLocals, IdleJobs
  <2>1. SettingType
    <3>1. bounds.faults \in Nat /\ faults = 0
      BY BoundsAreKnown
    <3>2. 0 \in 0..bounds.faults
      BY <3>1
    <3> QED
      BY <3>1, <3>2 DEF SettingType
  <2>2. IdsType
    BY OwnFacts DEF IdsType, Untracked
  <2>3. BookType
    BY OwnFacts DEF BookType
  <2>4. TickType
    BY DEF TickType, Sides
  <2>5. JobsType
    BY DEF JobsType
  <2> QED
    BY <2>1, <2>2, <2>3, <2>4, <2>5
<1>2. Control /\ Targets /\ Apart
  BY OwnFacts DEF Init, NoLocals, IdleJobs, Untracked, IdsOf, Control, Creating, Placing, Targets, Apart
<1>3. Visibility /\ Belief /\ LiveIsTracked
  BY OwnFacts DEF Init, NoLocals, IdleJobs, Visibility, Belief, Placing, LiveIsTracked
<1>4. Room /\ CalmStops
  BY OwnFacts
     DEF Init, NoLocals, IdleJobs, Room, Checked, Creating, Placing, CalmStops, OnBook
<1> QED
  BY <1>1, <1>2, <1>3, <1>4 DEF IInv

\* Every step of the tick, the requests, the exchange and time keeps it.
LEMMA Keeps == ASSUME IInv, [Next]_vars PROVE IInv'
<1>1. CASE TickStep
  BY <1>1, TickMarketKeeps, ExchangeListsKeeps, TickReconcileKeeps, TickSurplusKeeps,
     TickRelistedKeeps, TickStrayKeeps, TickCheckKeeps, TickQueryKeeps, TickStaleKeeps,
     TickConfirmKeeps, TickPlanKeeps, SendCreateKeeps, CreateReplyKeeps, TickVerifyKeeps,
     TickEndKeeps
     DEF TickStep
<1>2. CASE Others
  BY <1>2, TickStartKeeps, ExchangeAcceptsKeeps, ExchangeRejectsKeeps, FillKeeps, GracePassesKeeps,
     BootstrapPassesKeeps, StartKeeps, RequestStopKeeps, RequestUnknownKeeps, JobListKeeps,
     JobCancelKeeps, JobCancelledKeeps, JobFinishKeeps, CrashKeeps
     DEF Others
<1>3. CASE UNCHANGED vars
  <2> USE <1>3 DEF vars, setting, db, memory, book, locals, tick, jobs, history
  <2>1. SettingType' /\ IdsType' /\ BookType' /\ TickType' /\ JobsType'
    BY DEF IInv, SettingType, IdsType, BookType, TickType, JobsType
  <2>2. Control' /\ Targets' /\ Apart'
    BY DEF IInv, Control, Creating, Placing, Targets, Apart, IdsOf
  <2>3. Visibility' /\ Belief' /\ LiveIsTracked'
    BY DEF IInv, Visibility, Belief, Placing, LiveIsTracked, IdsOf
  <2>4. Room' /\ CalmStops'
    BY DEF IInv, Room, Checked, Creating, Placing, CalmStops, OnBook
  <2> QED
    BY <2>1, <2>2, <2>3, <2>4 DEF IInv
<1> QED
  BY <1>1, <1>2, <1>3 DEF Next

\* The inductive invariant holds in every reachable state.
THEOREM Invariance == Spec => []IInv
<1>1. Init => IInv
  BY Starts
<1>2. IInv /\ [Next]_vars => IInv'
  BY Keeps
<1> QED
  BY <1>1, <1>2, PTL DEF Spec

\* Every variable of the runner keeps its type, and one tick runs at a time.
THEOREM TypeCorrect == Spec => []TypeOK
<1>1. IInv => TypeOK
  BY DEF IInv, TypeOK, SettingType, IdsType, BookType, TickType, JobsType
<1> QED
  BY Invariance, <1>1, PTL

\* An open order of the strategy is the tracked one of its side, the one being
\* placed, or one that a fault has made it lose.
THEOREM NothingIsForgotten == Spec => []LiveIsTracked
<1>1. IInv => LiveIsTracked
  BY DEF IInv
<1> QED
  BY Invariance, <1>1, PTL

\* The strategy has at most one order of a side, those on their way included: a
\* request is sent only from a tick that has seen that nothing of its side is left.
THEOREM OneOrderOfASide == Spec => []OneQuotePerSide
<1>1. ASSUME IInv, NEW s \in Sides
      PROVE  Cardinality(OfSide(s, (OnBook \intersect Own) \ lost)) <= 1
  <2> DEFINE mine == OfSide(s, (OnBook \intersect Own) \ lost)
  <2>1. ASSUME NEW o \in mine PROVE o = cur \/ o = tracked[s]
    BY <1>1, <2>1, OwnFacts DEF OfSide, OnBook, IInv, IdsType, Apart, LiveIsTracked, IdsOf, Sides
  <2>2. ASSUME cur \in mine, NEW o \in mine PROVE o = cur
    BY <1>1, <2>2, OwnFacts DEF OfSide, OnBook, IInv, Control, Room
  <2>3. PICK x : mine \subseteq {x}
    <3>1. CASE cur \in mine
      BY <2>2, <3>1
    <3>2. CASE cur \notin mine
      BY <2>1, <3>2
    <3> QED
      BY <3>1, <3>2
  <2> HIDE DEF mine
  <2>4. IsFiniteSet({x}) /\ Cardinality({x}) = 1
    BY FS_Singleton
  <2>5. Cardinality(mine) <= Cardinality({x})
    BY <2>3, <2>4, FS_Subset
  <2>6. Cardinality(mine) <= 1
    BY <2>4, <2>5
  <2> QED
    BY <2>6 DEF mine
<1>2. IInv => OneQuotePerSide
  BY <1>1 DEF OneQuotePerSide
<1> QED
  BY Invariance, <1>2, PTL

\* After a calm stop nothing of the strategy is open or on its way but what
\* had been lost before.
THEOREM StopLeavesNothing == Spec => []StopIsClean
<1>1. IInv => StopIsClean
  BY DEF IInv, CalmStops, StopIsClean
<1> QED
  BY Invariance, <1>1, PTL

\* NonKYC is asked about an order only when the tick believes it closed, and an
\* informed tick is right: what it then books was filled.
LEMMA QueryIsInformed ==
  ASSUME IInv, pc = "query", Informed(st[side]) PROVE st[side] \notin OnBook
  BY OwnFacts
     DEF IInv, IdsType, TickType, BookType, Control, Apart, Belief, Placing, Informed, OnBook, IdsOf

\* A fill is recorded when a tick gives an order up, and nowhere else.
LEMMA BookedIsFilled ==
  ASSUME IInv, [Next]_vars, NEW o \in booked' \ booked, exchange = "nonkyc"
  PROVE  o \in filled \/ ~Informed(o) \/ faults' # faults
<1>1. CASE TickQuery
  BY <1>1, QueryIsInformed, BoundsAreKnown
     DEF TickQuery, GiveUp, CountsAsFill, Fault, IInv, SettingType
<1>2. CASE TickCheck
  BY <1>2 DEF TickCheck, KeepPending, GiveUp
<1>3. ~TickQuery /\ ~TickCheck => booked' \subseteq booked
  <2>1. TickStep /\ ~TickQuery /\ ~TickCheck => booked' \subseteq booked
    BY DEF TickStep, setting, history, Return, TickMarket, ExchangeLists, TickReconcile, TickSurplus,
       TickRelisted, TickStray, TickStale, TickConfirm, TickPlan, SendCreate, CreateReply,
       TickVerify, TickEnd
  <2>2. Others => booked' \subseteq booked
    BY DEF Others, history, Return, TickStart, ExchangeAccepts, ExchangeRejects, Fill, GracePasses,
       BootstrapPasses, Start, Begin, RequestStop, RequestUnknown, JobList, JobCancel,
       JobCancelled, JobFinish, Crash
  <2>3. UNCHANGED vars => booked' \subseteq booked
    BY DEF vars, history
  <2> QED
    BY <2>1, <2>2, <2>3 DEF Next
<1> QED
  BY <1>1, <1>2, <1>3

\* On NonKYC a fill that is recorded was one, unless a fault had misled the tick.
THEOREM FillsAreTrue == Spec => FillsAreReal
<1>1. IInv /\ [Next]_vars =>
        \A o \in booked' \ booked :
          (exchange = "nonkyc" => o \in filled \/ ~Informed(o) \/ faults' # faults)
  BY BookedIsFilled
<1> QED
  BY Invariance, <1>1, PTL DEF Spec, FillsAreReal

\* Who closes an order: its fill, a request's cancel, or the tick that cancels its own.
LEMMA ForeignStays ==
  ASSUME IInv, [Next]_vars, NEW o \in live \intersect Foreign, o \notin live'
  PROVE  \/ UNCHANGED <<tick, jobs>>
         \/ \E j \in Jobs : mode[j] = "unknown" /\ o \in ids[j]
<1>0. o \notin Own
  BY OwnFacts
<1>1. TickStep => o \in live'
  <2>1. TickSurplus \/ TickStray => o \in live'
    BY <1>0, FirstIn DEF TickSurplus, TickStray, IInv, Targets
  <2>2. TickStale => o \in live'
    BY <1>0, OwnFacts DEF TickStale, IInv, IdsType, TickType
  <2>3. TickStep /\ ~TickSurplus /\ ~TickStray /\ ~TickStale => o \in live'
    BY DEF TickStep, book, Return, TickMarket, ExchangeLists, TickReconcile, TickRelisted, TickCheck,
       TickQuery, TickConfirm, TickPlan, SendCreate, CreateReply, TickVerify, TickEnd
  <2> QED
    BY <2>1, <2>2, <2>3
<1>2. ASSUME Others
      PROVE  \/ UNCHANGED <<tick, jobs>>
             \/ \E j \in Jobs : mode[j] = "unknown" /\ o \in ids[j]
  <2>1. ASSUME NEW j \in Jobs, JobCancel(j) PROVE mode[j] = "unknown" /\ o \in ids[j]
    <3>1. o = First(ids[j])
      BY <2>1 DEF JobCancel
    <3>2. o \in ids[j]
      BY <2>1, <3>1, FirstIn DEF JobCancel
    <3> QED
      BY <1>0, <3>2 DEF IInv, Targets, JobsType
  <2>2. ASSUME NEW p \in Orders, Fill(p) PROVE UNCHANGED <<tick, jobs>>
    BY <2>2 DEF Fill
  <2>3. \/ \E j \in Jobs : JobCancel(j)
        \/ \E p \in Orders : Fill(p)
    BY <1>2 DEF Others, book, TickStart, ExchangeAccepts, ExchangeRejects, Fill, GracePasses, BootstrapPasses,
       Start, RequestStop, RequestUnknown, JobList, JobCancel, JobCancelled, JobFinish, Crash
  <2> QED
    BY <2>1, <2>2, <2>3
<1>3. UNCHANGED vars => o \in live'
  BY DEF vars, book
<1> QED
  BY <1>1, <1>2, <1>3 DEF Next

\* The order of somebody else is closed by its fill or by cancel-unknown-orders.
THEOREM ForeignIsLeftAlone == Spec => ForeignUntouched
<1>1. IInv /\ [Next]_vars =>
        \A o \in live \intersect Foreign : o \notin live' =>
          \/ UNCHANGED <<tick, jobs>>
          \/ \E j \in Jobs : mode[j] = "unknown" /\ o \in ids[j]
  BY ForeignStays
<1> QED
  BY Invariance, <1>1, PTL DEF Spec, ForeignUntouched
=============================================================================
