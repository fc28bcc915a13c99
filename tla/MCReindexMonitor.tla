-------------------------- MODULE MCReindexMonitor --------------------------
(* A small instance of ReindexMonitor for TLC: binaries that are not the     *)
(* official ones, of which a swap makes official ones, so that a replacement *)
(* of block files may follow; and a damaged block database.                  *)
EXTENDS ReindexMonitor

Situations ==
  {[allow |-> {"swap", "replace"}, reference |-> TRUE, official |-> FALSE,
    artifact |-> TRUE, genuine |-> TRUE, donor |-> TRUE],
   [allow |-> {"reset"}, reference |-> TRUE, official |-> TRUE,
    artifact |-> FALSE, genuine |-> FALSE, donor |-> FALSE]}
=============================================================================
