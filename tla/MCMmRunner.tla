---------------------------- MODULE MCMmRunner ----------------------------
(* Small instances of MmRunner for TLC. *)
EXTENDS MmRunner, TLC

\* Ticks, jobs and the orders of a side are interchangeable.
Symmetry == Permutations(Ticks) \union Permutations(Jobs)
            \union Permutations(BuyOrders) \union Permutations(SellOrders)

\* Whether an order that is gone was a stray matters to nothing.
View == <<config, registry, book, running, tickLocals, jobLocals, clean, settled,
          {o \in strays : book[o] \in {"sent", "live"}}, crashes, exchange>>
=============================================================================
