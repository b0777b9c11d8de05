------------------------- MODULE WorklistRefinement -------------------------
(***************************************************************************)
(* Worklist implements DataFlow, in graphs where no edge leads to the      *)
(* entry; there may be dead code and cycles.                               *)
(***************************************************************************)
EXTENDS WorklistProperties

\* The values are the pres of the blocks that recompute has run.
Values == [l \in Visited |-> pre[l].states]

Abstract == INSTANCE DataFlow WITH value <- Values, safe <- satisfied

\* What the loop and its counters compute is what the abstract analysis
\* computes: each visit of the list solves one block that is ready, nothing is
\* judged while a block could still be solved, and both end.  Stated for the
\* graphs that are Orderly.
Implements == Abstract!Spec

=============================================================================
