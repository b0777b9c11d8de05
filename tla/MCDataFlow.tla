----------------------------- MODULE MCDataFlow -----------------------------
(***************************************************************************)
(* DataFlow on the graphs of MCGraphs.                                     *)
(***************************************************************************)
EXTENDS DataFlowProperties, MCGraphs

=============================================================================
