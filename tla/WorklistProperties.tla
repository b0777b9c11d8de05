------------------------- MODULE WorklistProperties -------------------------
(***************************************************************************)
(* What worklist and analyze_rcp promise, and for which graphs.            *)
(***************************************************************************)
EXTENDS Worklist

IsListing(s) == \A i, j \in DOMAIN s : s[i] = s[j] => i = j

\* nextlist and prevlist list the same edges, each once.
EdgesMatch ==
  /\ \A l \in Keys : IsListing(cfg.nextlist[l]) /\ IsListing(cfg.prevlist[l])
  /\ \A a, b \in Keys : b \in Succs(a) <=> a \in Preds(b)

\* No cycle: every set of blocks has one without a predecessor in the set.
Acyclic ==
  \A S \in SUBSET Keys : S # {} => \E l \in S : Preds(l) \cap S = {}

\* The entry, and in an acyclic graph no other block, has no predecessor.
EntryIsSource == Preds(EntryLabel) = {}
NoOtherSource == \A l \in Keys : Preds(l) = {} => l = EntryLabel

\* The labels in the worklist.
Queued == {w[i] : i \in DOMAIN w}

\* The graphs in which the loop makes one pass.
Orderly == EdgesMatch /\ EntryIsSource

\* The graphs the analysis covers.
Analysable == Orderly /\ Acyclic /\ NoOtherSource

\* The labels reached from the entry.
Live ==
  LET grow[k \in 0..Cardinality(Keys)] ==
        IF k = 0 THEN {EntryLabel}
        ELSE LET prior == grow[k - 1] IN prior \cup UNION {Succs(l) : l \in prior}
  IN  grow[Cardinality(Keys)]

\* The program's executions: <<l, s>> when one comes to l in state s.  An
\* execution ends at an assertion that fails.
Reachable ==
  LET bound == Cardinality(Keys) * Cardinality(State)
      step(R) == UNION {{<<b, s>> : b \in Succs(r[1]), s \in Run(r[1], {r[2]})} : r \in R}
      grow[k \in 0..bound] ==
        IF k = 0 THEN {<<EntryLabel, s>> : s \in Entries}
        ELSE LET prior == grow[k - 1] IN prior \cup step(prior)
  IN  grow[bound]

-----------------------------------------------------------------------------
\* The shape of the state.
TypeOK ==
  /\ IsCfg(cfg)
  /\ pc \in {"start", "pop", "push", "erase", "check", "done"}
  /\ w \in Seq(Keys)
  /\ count \in [Keys -> Nat]
  /\ pre \in [Keys -> Value]
  /\ post \in [Keys -> Value]
  /\ cur \in Keys
  /\ pos \in Nat
  /\ pc = "push" => pos <= Len(cfg.nextlist[cur])
  /\ pc = "check" => pos <= Len(cfg.keys)
  /\ satisfied \subseteq Keys

\* A block is queued or analysed only when every predecessor has been: its
\* pre then joins values that will not change.  The counters, compared with
\* prevlist.size() while nextlists are walked, are all that ensures it.  It
\* holds also in graphs with cycles, as long as none goes through the entry.
PredecessorsFirst ==
  Orderly => \A l \in Visited \cup Queued : Preds(l) \subseteq Visited

\* In the same graphs a block that was analysed is never analysed again with
\* another result: the loop makes one pass.
AnalysedOnce ==
  [][Orderly =>
       \A l \in Visited : pre'[l] = pre[l] /\ post'[l] = post[l]]_vars

\* When the list runs empty, a block of which every predecessor has been
\* analysed has an input as recent as their outputs, also where cycles through
\* the entry make blocks run again and outputs grow.
NoStaleInput ==
  EdgesMatch /\ pc \in {"check", "done"} =>
    \A b \in Visited :
      Preds(b) \subseteq Visited =>
        \A a \in Preds(b) : post[a].states \subseteq pre[b].states

\* The result proves itself: pre holds in the initial states, is preserved by
\* every block along every edge, and implies each assertion marked satisfied.
Certified ==
  /\ Entries \subseteq pre[EntryLabel].states
  /\ \A a \in Keys : \A b \in Succs(a) : Run(a, pre[a].states) \subseteq pre[b].states
  /\ \A l \in satisfied : pre[l].states \subseteq cfg.asserted[l]

ResultCertified == Analysable /\ pc = "done" => Certified

\* The verdict: an assertion that is marked satisfied fails in no execution.
SafeVerdict ==
  pc = "done" =>
    \A r \in Reachable : r[1] \in satisfied => r[2] \in cfg.asserted[r[1]]

SatisfiedIsSafe == Analysable => SafeVerdict

\* The analysis ends, also on graphs with cycles: a block is queued again
\* only after the output of a predecessor has changed.
Termination == <>(pc = "done")

-----------------------------------------------------------------------------
(***************************************************************************)
(* Why the order is right: the invariant that the proofs use.              *)
(***************************************************************************)

\* The successors of the current block that have not been counted yet.
Coming ==
  IF pc = "push"
  THEN {cfg.nextlist[cur][i] : i \in (pos + 1)..Len(cfg.nextlist[cur])} ELSE {}

\* The predecessors that l has counted.
Arrived(l) == {p \in Preds(l) : p \in Visited /\ ~ (p = cur /\ l \in Coming)}

\* A counter is the number of predecessors analysed so far, each counted once,
\* so a block is due when the last of them arrives, and not again.
OrderInv ==
  /\ \A l \in Keys : count[l] = Cardinality(Arrived(l))
  /\ IsListing(w)
  /\ Queued \cap Visited = {}
  /\ \A l \in Keys \ {EntryLabel} :
       l \in Queued \cup Visited => Preds(l) # {} /\ Arrived(l) = Preds(l)
  /\ pc = "start" => Visited = {} /\ w = <<>>
  /\ pc # "start" => ~ pre[EntryLabel].bot
  /\ pc = "push" => cur \in Visited

OneArrivalEach == Orderly => OrderInv

\* What the constructor and init() put into pre.
Initial(l) == IF l = EntryLabel /\ pc # "start" THEN Entries ELSE {}

\* A block is queued as soon as the last predecessor has been counted, a value
\* once computed stays up to date, and what is marked satisfied follows from
\* the final values.
SolutionInv ==
  /\ pc # "start" => Entries \subseteq pre[EntryLabel].states
  /\ pc # "start" => EntryLabel \in Visited \cup Queued
  /\ \A l \in Keys \ {EntryLabel} :
       Preds(l) # {} /\ Arrived(l) = Preds(l) => l \in Visited \cup Queued
  /\ \A l \in Keys \ Visited : pre[l].states = Initial(l)
  /\ \A l \in Visited : post[l].states = Run(l, pre[l].states)
  /\ \A b \in Visited : \A a \in Preds(b) : post[a].states \subseteq pre[b].states
  /\ pc \in {"check", "done"} => w = <<>>
  /\ satisfied # {} => pc \in {"check", "done"}
  /\ \A l \in satisfied : pre[l].states \subseteq cfg.asserted[l]

NoneForgotten == Orderly => SolutionInv

\* Where cycles go through the entry blocks run again.  A counter is then at
\* least the number of predecessors analysed, and a block that has seen all of
\* them and not their latest values is queued, or about to be.
RerunInv ==
  /\ \A l \in Keys : count[l] >= Cardinality(Arrived(l))
  /\ \A l \in Visited : ~ pre[l].bot
  /\ \A b \in Visited : Preds(b) \subseteq Visited =>
       \A a \in Preds(b) :
         post[a].states \subseteq pre[b].states \/ b \in Queued \cup Coming
  /\ pc \in {"check", "done"} => w = <<>>

NoChangeLost == EdgesMatch => RerunInv

=============================================================================
