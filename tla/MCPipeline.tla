----------------------------- MODULE MCPipeline -----------------------------
(***************************************************************************)
(* Small instances of the pipeline for TLC.                                *)
(***************************************************************************)
EXTENDS Pipeline, TLC

CONSTANTS p1, p2, s1, s2, c1

MCPartOf == [o \in 1 .. MaxOrders |-> p1]
=============================================================================
