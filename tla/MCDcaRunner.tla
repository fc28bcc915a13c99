---------------------------- MODULE MCDcaRunner ----------------------------
(* Small instances of DcaRunner for TLC. *)
EXTENDS DcaRunner, TLC

\* Ticks, jobs and orders are interchangeable.
Symmetry == Permutations(Ticks) \union Permutations(Jobs) \union Permutations(Orders)
=============================================================================
