------------------------------ MODULE DataFlow ------------------------------
(***************************************************************************)
(* What the RCP analysis of src/src/ai.cpp promises, without its list and  *)
(* its counters: the entry is given its value first, every other block one *)
(* from the values of all its predecessors, in any order that allows it;   *)
(* when no block can be given a value any more, the assertions are judged, *)
(* in any order.  Worklist implements it (WorklistRefinement).             *)
(***************************************************************************)
EXTENDS Integers, FiniteSets, Sequences

CONSTANTS
  State,        (* The states of the machine the program runs on.          *)
  Entries,      (* Those in which the program may start.                   *)
  Cfgs          (* The control-flow graphs that Init chooses from.         *)

KeysOf(c) == {c.keys[i] : i \in DOMAIN c.keys}

\* No path leads back to the entry: some set of blocks holds its successors and
\* theirs, and not the entry.
NoReturn(c) ==
  \E S \in SUBSET (KeysOf(c) \ {c.keys[1]}) :
    \A l \in S \cup {c.keys[1]} : \A i \in DOMAIN c.nextlist[l] : c.nextlist[l][i] \in S

\* A graph with its blocks' effects and assertions.  The two lists of edges
\* list the same ones, which is what Cfg sees to (EdgesAgree in CfgProperties).
\* Where a path leads back to the entry, blocks run again: a value given once
\* is not what the loop promises there.
IsGraph(c) ==
  /\ c.keys \in Seq(KeysOf(c)) /\ c.keys # <<>>
  /\ c.nextlist \in [KeysOf(c) -> Seq(KeysOf(c))]
  /\ c.prevlist \in [KeysOf(c) -> Seq(KeysOf(c))]
  /\ \A a, b \in KeysOf(c) :
       (\E i \in DOMAIN c.nextlist[a] : c.nextlist[a][i] = b)
         <=> (\E j \in DOMAIN c.prevlist[b] : c.prevlist[b][j] = a)
  /\ c.effect \in [KeysOf(c) -> SUBSET (State \X State)]
  /\ c.asserted \in [KeysOf(c) -> SUBSET State]
  /\ NoReturn(c)

\* The machine's states are finitely many: its registers and memory are.
ASSUME DataFlowAssumption ==
  /\ Entries \subseteq State /\ IsFiniteSet(State)
  /\ \A c \in Cfgs : IsGraph(c)

VARIABLES
  cfg,          (* the graph, never changed                                *)
  value,        (* the states before each block that was given a value     *)
  safe          (* the blocks whose assertion is judged to hold            *)

vars == <<cfg, value, safe>>

Keys     == KeysOf(cfg)
Preds(l) == {cfg.prevlist[l][i] : i \in DOMAIN cfg.prevlist[l]}
Succs(l) == {cfg.nextlist[l][i] : i \in DOMAIN cfg.nextlist[l]}

EntryLabel == cfg.keys[1]
Initial(l) == IF l = EntryLabel THEN Entries ELSE {}

\* The assertion at the start of l is assumed, then its instructions run.
Run(l, S) ==
  {p[2] : p \in {q \in cfg.effect[l] : q[1] \in S \cap cfg.asserted[l]}}

\* Mutant: a block that no block leads to is taken for an entry.
SolvableSources(l) == l \in Keys \ DOMAIN value /\ Preds(l) \subseteq DOMAIN value

\* The entry starts the list; another block is pushed by the last of its
\* predecessors, and never when it has none.
Solvable(l) ==
  /\ l \in Keys \ DOMAIN value
  /\ (l = EntryLabel) \/ (Preds(l) # {} /\ Preds(l) \subseteq DOMAIN value)

\* Mutant: the states in which the program starts are left out.
ValueOfPreds(l) == UNION {Run(p, value[p]) : p \in Preds(l) \cap DOMAIN value}

\* The post of a block without a value is bottom and adds nothing.
ValueOf(l) ==
  Initial(l) \cup UNION {Run(p, value[p]) : p \in Preds(l) \cap DOMAIN value}

Solve(l) ==
  /\ Solvable(l)
  /\ value' = [m \in DOMAIN value \cup {l} |-> IF m = l THEN ValueOf(l) ELSE value[m]]
  /\ UNCHANGED <<cfg, safe>>

\* A block without a value is never reached, or so the analysis takes it.
Holds(l) == l \in DOMAIN value => value[l] \subseteq cfg.asserted[l]

Judge(l) ==
  /\ \A m \in Keys : ~ Solvable(m)
  /\ l \in Keys \ safe /\ Holds(l)
  /\ safe' = safe \cup {l}
  /\ UNCHANGED <<cfg, value>>

Init == cfg \in Cfgs /\ value = [l \in {} |-> {}] /\ safe = {}

Next == \E l \in Keys : Solve(l) \/ Judge(l)

Safety == Init /\ [][Next]_vars

\* The analysis runs until nothing is left to solve and to judge.
Spec == Safety /\ WF_vars(Next)

=============================================================================
