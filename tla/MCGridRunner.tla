---------------------------- MODULE MCGridRunner ----------------------------
(* A small instance of GridRunner for TLC. *)
EXTENDS GridRunner

\* Two buys at one tick, or a buy and a sell at one tick; once they are cancelled
\* the grid is empty.
Old(s, c) == [side |-> s, unit |-> 3, copy |-> c]
Rows == {{Old("BUY", 8), Old("BUY", 9)}, {Old("BUY", 8), Old("SELL", 9)}}

\* One level, on both sides.
LevelRows == {[BUY |-> 1, SELL |-> 1]}
=============================================================================
