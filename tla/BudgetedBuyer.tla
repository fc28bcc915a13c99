--------------------------- MODULE BudgetedBuyer ---------------------------
(***************************************************************************)
(* What a DCA configuration promises its user, without ticks, orders and   *)
(* exchanges: purchases of at most Budget each, at least Interval apart,   *)
(* none of which takes the total over the spending limit it was made       *)
(* under.  DcaRunner implements it with the database rows it records.      *)
(***************************************************************************)
EXTENDS Integers

CONSTANTS Budget, Interval, Caps

VARIABLES spent,    \* total of the recorded purchases
          lastRun,  \* time of the last one, 0 before the first
          cap       \* the spending limit in force

buyer == <<spent, lastRun, cap>>

Init == spent = 0 /\ lastRun = 0 /\ cap \in Caps

\* The user sets a limit.
SetCap(c) == cap' = c /\ UNCHANGED <<spent, lastRun>>

\* A purchase decided under the limit c, at the time it is stamped with.
Buy(c) ==
  /\ spent' - spent \in 1..Budget
  /\ spent + Budget <= c
  /\ lastRun' \in Nat
  /\ lastRun = 0 \/ lastRun' - lastRun >= Interval
  /\ cap' = c

Next == \E c \in Caps : SetCap(c) \/ Buy(c)

Spec == Init /\ [][Next]_buyer

=============================================================================
