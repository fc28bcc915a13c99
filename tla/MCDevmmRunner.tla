--------------------------- MODULE MCDevmmRunner ---------------------------
(* Small instances of DevmmRunner for TLC. *)
EXTENDS DevmmRunner

\* Both sides and a buy order the user placed by hand, with no fault; and one
\* side, of which two orders are too many, with two faults.
Calm == [copies  |-> [s \in Sides |-> IF s = "BUY" THEN {1, 2} ELSE {1}],
         foreign |-> {[side |-> "BUY", copy |-> 9]},
         faults  |-> 0,
         total   |-> 2]
Faulty == [copies  |-> [s \in Sides |-> IF s = "BUY" THEN {1, 2} ELSE {}],
           foreign |-> {},
           faults  |-> 2,
           total   |-> 1]
CalmOrFaulty == {Calm, Faulty}
OneEach == {[copies |-> [s \in Sides |-> {1}], foreign |-> {}, faults |-> 0, total |-> 2]}

\* What the rest of the run depends on: of the orders nothing refers to any
\* more the past does not matter.
Referred == IdsOf(tracked) \union IdsOf(st) \union pending \union raw \union {cur}
Matters ==
  <<setting, db, boot, pending, over, placed \intersect Referred, sent, live, unseen,
    filled \intersect Referred, tick, jobs,
    hidden \intersect (OnBook \union Referred), lost \intersect OnBook, booked, stopped, faults>>
=============================================================================
