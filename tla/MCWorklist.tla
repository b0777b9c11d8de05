----------------------------- MODULE MCWorklist -----------------------------
(***************************************************************************)
(* Worklist and the refinement, on the graphs of MCGraphs.                 *)
(***************************************************************************)
EXTENDS WorklistRefinement, MCGraphs

=============================================================================
