---------------------------- MODULE MCReconciler ----------------------------
(***************************************************************************)
(* A small instance of Reconciler: one account in each of two partitions.  *)
(***************************************************************************)
EXTENDS Reconciler

CONSTANTS a1, a2, p1, p2, f1, f2, k1, k2

MCPartOf   == (a1 :> p1) @@ (a2 :> p2)
MCVisits   == <<p1, p2>>
MCDepositBound == (a1 :> 1) @@ (a2 :> 1)
MCOpeningBound == (a1 :> 1) @@ (a2 :> 0)
\* A position opened at an odd price, sold whole or by halves.
MCTrades   == {[qty |-> 1, price |-> 3, takerBuys |-> FALSE],
                 [qty |-> 2, price |-> 3, takerBuys |-> TRUE]}
MCOpenings == {[qty |-> 2, price |-> 3]}
MCDeposits == {5}

Interchangeable == Permutations(Fills) \union Permutations(Checkpointers)
=============================================================================
