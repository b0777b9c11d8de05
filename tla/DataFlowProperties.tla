------------------------- MODULE DataFlowProperties -------------------------
(***************************************************************************)
(* Why the promise is worth having: the values are those of the program's  *)
(* executions.                                                             *)
(***************************************************************************)
EXTENDS DataFlow

\* The program's executions: <<l, s>> when one comes to l in state s.  An
\* execution ends at an assertion that fails.
Reachable ==
  LET bound == Cardinality(Keys) * Cardinality(State)
      step(R) == UNION {{<<b, s>> : b \in Succs(r[1]), s \in Run(r[1], {r[2]})} : r \in R}
      grow[k \in 0..bound] ==
        IF k = 0 THEN {<<EntryLabel, s>> : s \in Entries}
        ELSE LET prior == grow[k - 1] IN prior \cup step(prior)
  IN  grow[bound]

\* Every set of blocks has one without a predecessor in the set.
Acyclic ==
  \A S \in SUBSET Keys : S # {} => \E l \in S : Preds(l) \cap S = {}

-----------------------------------------------------------------------------
\* The blocks without predecessors: dead code, but for the entry.
DeadSources == {l \in Keys \ {EntryLabel} : Preds(l) = {}}

\* l is a dead source, or a path that does not end in the entry leads from one
\* to l: each set that is closed in this way has it.
BehindDead(l) ==
  \A S \in SUBSET Keys :
    DeadSources \subseteq S /\ (\A k \in S : Succs(k) \ {EntryLabel} \subseteq S) => l \in S

-----------------------------------------------------------------------------
\* A value is exact, cycles or not, at every moment and in every order: the
\* states in which an execution comes to the block, no more and no fewer.  A
\* block on a cycle, a dead source, and what is behind them are never given one.
ValueExact ==
  \A l \in DOMAIN value : value[l] = {r[2] : r \in {q \in Reachable : q[1] = l}}

\* Nothing is left to solve or to judge: no step of Next is enabled.
Over == \A l \in Keys : ~ Solvable(l) /\ (l \in safe \/ ~ Holds(l))

\* The assertions that no execution breaks.
Sound == {l \in Keys : \A r \in Reachable : r[1] = l => r[2] \in cfg.asserted[l]}

\* Once the judging is over, the assertions judged to hold are those that no
\* execution breaks and those of the blocks that were never given a value, which
\* executions may break; in an acyclic graph these are the blocks that a dead
\* source leads to.  Before, none but these are judged to hold.
VerdictExact ==
  /\ safe \subseteq Sound \cup (Keys \ DOMAIN value)
  /\ Over => safe = Sound \cup (Keys \ DOMAIN value)
  /\ Over /\ Acyclic => Keys \ DOMAIN value = {l \in Keys : BehindDead(l)}

-----------------------------------------------------------------------------
(***************************************************************************)
(* Why: the invariant that the proofs use.                                 *)
(***************************************************************************)

\* The blocks of S, and no path from the entry leaves them.
Ahead(S) ==
  /\ S \subseteq Keys \ {EntryLabel}
  /\ \A l \in S \cup {EntryLabel} : Succs(l) \subseteq S

\* Blocks are solved from their predecessors on, so a value still is what the
\* values of the predecessors make it, and each state in it was reached; what
\* is judged was judged by values that can no longer change.
SolvedInv ==
  /\ DOMAIN value \subseteq Keys
  /\ \A S : Ahead(S) => DOMAIN value \subseteq S \cup {EntryLabel}
  /\ \A l \in DOMAIN value \ {EntryLabel} : Preds(l) # {} /\ Preds(l) \subseteq DOMAIN value
  /\ \A l \in DOMAIN value : value[l] = ValueOf(l)
  /\ \A l \in DOMAIN value : \A s \in value[l] : <<l, s>> \in Reachable
  /\ safe # {} => \A l \in Keys : ~ Solvable(l)
  /\ safe \subseteq Keys /\ \A l \in safe : Holds(l)

=============================================================================
