---------------------------- MODULE DataFlowProofs ----------------------------
(***************************************************************************)
(* The values and the verdicts of DataFlow are exact, for every set of     *)
(* graphs.  Reachable is defined by iteration: the proofs need only that   *)
(* it is the least set that has the starts and is closed under the edges.  *)
(***************************************************************************)
EXTENDS DataFlowProperties, Iteration, SequenceTheorems

-----------------------------------------------------------------------------
(***************************************************************************)
(* The graph.                                                              *)
(***************************************************************************)
LEMMA GraphFacts ==
  ASSUME IsGraph(cfg)
  PROVE  /\ IsFiniteSet(Keys) /\ Cardinality(Keys) \in Nat /\ EntryLabel \in Keys
         /\ \A l \in Keys : Preds(l) \subseteq Keys /\ Succs(l) \subseteq Keys
         /\ \A a, b \in Keys : b \in Succs(a) <=> a \in Preds(b)
         /\ \A l \in Keys : \A S : Run(l, S) \subseteq State
<1> DEFINE s == cfg.keys
<1>1. /\ s \in Seq(Keys) /\ Len(s) \in Nat \ {0} /\ s \in [1..Len(s) -> Keys]
      /\ DOMAIN s = 1..Len(s)
  BY LenProperties, EmptySeq DEF IsGraph, Keys
<1>2. IsFiniteSet(Keys) /\ Cardinality(Keys) \in Nat /\ EntryLabel \in Keys
  <2>1. IsFiniteSet(1..Len(s))
    BY <1>1, FS_Interval
  <2>2. s \in Surjection(1..Len(s), Keys)
    BY <1>1 DEF Surjection, Keys, KeysOf
  <2>3. IsFiniteSet(Keys)
    BY <2>1, <2>2, FS_Surjection
  <2>4. EntryLabel \in Keys
    BY <1>1 DEF EntryLabel
  <2>5. QED
    BY <2>3, <2>4, FS_CardinalityType
<1>3. ASSUME NEW l \in Keys PROVE Preds(l) \subseteq Keys /\ Succs(l) \subseteq Keys
  <2>1. cfg.prevlist[l] \in Seq(Keys) /\ cfg.nextlist[l] \in Seq(Keys)
    BY DEF IsGraph, Keys
  <2>2. /\ \A i \in DOMAIN cfg.prevlist[l] : cfg.prevlist[l][i] \in Keys
        /\ \A i \in DOMAIN cfg.nextlist[l] : cfg.nextlist[l][i] \in Keys
    BY <2>1, LenProperties, ElementOfSeq
  <2>3. QED
    BY <2>2 DEF Preds, Succs
<1>4. ASSUME NEW a \in Keys, NEW b \in Keys PROVE b \in Succs(a) <=> a \in Preds(b)
  <2>1. (\E i \in DOMAIN cfg.nextlist[a] : cfg.nextlist[a][i] = b)
          <=> (\E j \in DOMAIN cfg.prevlist[b] : cfg.prevlist[b][j] = a)
    BY DEF IsGraph, Keys
  <2>2. b \in Succs(a) <=> \E i \in DOMAIN cfg.nextlist[a] : cfg.nextlist[a][i] = b
    BY DEF Succs
  <2>3. a \in Preds(b) <=> \E j \in DOMAIN cfg.prevlist[b] : cfg.prevlist[b][j] = a
    BY DEF Preds
  <2>4. QED
    BY <2>1, <2>2, <2>3
<1>5. ASSUME NEW l \in Keys, NEW S PROVE Run(l, S) \subseteq State
  <2>1. cfg.effect[l] \subseteq State \X State
    BY DEF IsGraph, Keys
  <2>2. QED
    BY <2>1 DEF Run
<1>6. QED
  BY <1>2, <1>3, <1>4, <1>5

-----------------------------------------------------------------------------
(***************************************************************************)
(* The executions.                                                         *)
(***************************************************************************)

\* The blocks to which the entry leads are a set without the entry.
LEMMA AheadExists == IsGraph(cfg) => \E S : Ahead(S)
<1> SUFFICES ASSUME IsGraph(cfg) PROVE \E S : Ahead(S)
  OBVIOUS
<1>1. PICK S \in SUBSET (Keys \ {EntryLabel}) :
        \A l \in S \cup {EntryLabel} :
          \A i \in DOMAIN cfg.nextlist[l] : cfg.nextlist[l][i] \in S
  BY DEF IsGraph, NoReturn, Keys, EntryLabel
<1>2. Ahead(S)
  BY <1>1 DEF Ahead, Succs
<1>3. QED
  BY <1>2

\* D has the starts of the program, and with a point where an execution is the
\* points to which the block takes it.
Closed(D) ==
  /\ \A s \in Entries : <<EntryLabel, s>> \in D
  /\ \A a \in Keys, s \in State : \A b \in Succs(a), t \in Run(a, {s}) :
       <<a, s>> \in D => <<b, t>> \in D

\* Reachable is the least set that is Closed: the bound of the iteration lets
\* it find every point there is.
LEMMA ReachableIsLeast ==
  ASSUME IsGraph(cfg)
  PROVE  /\ Reachable \subseteq Keys \X State
         /\ Closed(Reachable)
         /\ \A D : Closed(D) => Reachable \subseteq D
<1> DEFINE U       == Keys \X State
           bound   == Cardinality(Keys) * Cardinality(State)
           from(r) == {<<b, s>> : b \in Succs(r[1]), s \in Run(r[1], {r[2]})}
           next(R) == UNION {from(r) : r \in R}
           start   == {<<EntryLabel, s>> : s \in Entries}
           body(g) == [k \in 0..bound |->
                         IF k = 0 THEN start ELSE g[k - 1] \cup next(g[k - 1])]
           Eq(g)   == g = body(g)
           reached == CHOOSE g : Eq(g)
           add     == [R \in SUBSET U |-> R \cup next(R)]
<1>1. bound \in Nat
  BY GraphFacts, FS_CardinalityType, DataFlowAssumption
<1>2. IsFiniteSet(U) /\ Cardinality(U) = bound
  BY GraphFacts, FS_Product, DataFlowAssumption
<1>3. start \subseteq U
  BY GraphFacts, DataFlowAssumption
<1>4. ASSUME NEW r, NEW x \in from(r)
      PROVE  \E b \in Succs(r[1]), s \in Run(r[1], {r[2]}) : x = <<b, s>>
  OBVIOUS
<1>5. ASSUME NEW r, NEW b \in Succs(r[1]), NEW s \in Run(r[1], {r[2]})
      PROVE  <<b, s>> \in from(r)
  OBVIOUS
<1> HIDE DEF from
<1>6. ASSUME NEW R \in SUBSET U PROVE next(R) \subseteq U
  <2> SUFFICES ASSUME NEW r \in R, NEW x \in from(r) PROVE x \in U
    OBVIOUS
  <2>1. PICK b \in Succs(r[1]), s \in Run(r[1], {r[2]}) : x = <<b, s>>
    BY <1>4
  <2>2. r[1] \in Keys /\ r[2] \in State
    OBVIOUS
  <2>3. QED
    BY <2>1, <2>2, GraphFacts
<1>7. \A R \in SUBSET U : R \subseteq add[R] /\ add[R] \subseteq U /\ add[R] = R \cup next(R)
  <2> HIDE DEF next
  <2>1. QED
    BY <1>6
<1>8. ASSUME NEW f, Iterates(f, start, add, bound) PROVE Eq(f)
  <2>1. \A k \in 0..bound : f[k] \subseteq U
    <3> HIDE DEF bound, start, add, U
    <3>1. QED
      BY <1>1, <1>3, <1>7, <1>8, IterationStays
  <2>2. ASSUME NEW k \in 0..bound, k # 0 PROVE f[k] = f[k - 1] \cup next(f[k - 1])
    <3>1. f[k - 1] \subseteq U
      BY <1>1, <2>1, <2>2
    <3>2. f[k] = add[f[k - 1]]
      <4> HIDE DEF add, start, bound
      <4>1. QED
        BY <1>8, <2>2 DEF Iterates
    <3> HIDE DEF next, U, bound, add
    <3>3. QED
      BY <1>7, <3>1, <3>2
  <2>3. f[0] = start /\ f = [k \in 0..bound |-> f[k]]
    BY <1>1, <1>8 DEF Iterates
  <2> HIDE DEF next, start, bound
  <2>4. QED
    BY <2>2, <2>3
<1>9. Eq(reached)
  <2>1. PICK f : Iterates(f, start, add, bound)
    <3> HIDE DEF bound, start, add
    <3>1. QED
      BY <1>1, IterationExists
  <2>2. Eq(f)
    BY <1>8, <2>1
  <2> HIDE DEF Eq
  <2>3. QED
    BY <2>2
<1> HIDE DEF reached
<1>10. Reachable = reached[bound]
  BY DEF Reachable, reached, from
<1>11. /\ reached = [k \in 0..bound |-> reached[k]]
       /\ \A k \in 0..bound :
            reached[k] = IF k = 0 THEN start ELSE reached[k - 1] \cup next(reached[k - 1])
  <2>1. /\ body(reached) = [k \in 0..bound |-> body(reached)[k]]
        /\ \A k \in 0..bound :
             body(reached)[k] = IF k = 0 THEN start ELSE reached[k - 1] \cup next(reached[k - 1])
    <3> HIDE DEF next, start, bound
    <3>1. QED
      OBVIOUS
  <2>2. reached = body(reached)
    BY <1>9
  <2> HIDE DEF body
  <2>3. QED
    BY <2>1, <2>2
<1>12. 0 \in 0..bound /\ reached[0] = start
  <2>1. 0 \in 0..bound
    BY <1>1
  <2> HIDE DEF next, start, bound
  <2>2. QED
    BY <2>1, <1>11, Zenon
<1>13. ASSUME NEW k \in 0..bound - 1
       PROVE  /\ k \in 0..bound /\ k + 1 \in 0..bound
              /\ reached[k + 1] = reached[k] \cup next(reached[k])
  <2> HIDE DEF next, start, bound
  <2>1. k \in 0..bound /\ k + 1 \in 0..bound /\ k + 1 # 0 /\ (k + 1) - 1 = k
    BY <1>1
  <2>2. reached[k + 1] = reached[(k + 1) - 1] \cup next(reached[(k + 1) - 1])
    BY <1>11, <2>1
  <2>3. QED
    BY <2>1, <2>2
<1>14. \A k \in 0..bound : reached[k] \subseteq U
  <2> DEFINE G == {k \in 0..bound : reached[k] \subseteq U}
  <2>1. 0 \in G
    BY <1>3, <1>12
  <2>2. ASSUME NEW k \in 0..bound - 1, k \in G PROVE k + 1 \in G
    <3> HIDE DEF next, bound, U
    <3>1. QED
      BY <1>6, <1>13, <2>2
  <2>3. 0..bound \subseteq G
    <3> HIDE DEF G, bound
    <3>1. QED
      BY <1>1, <2>1, <2>2, IntervalInduction
  <2>4. QED
    BY <2>3
<1>15. Iterates(reached, start, add, bound)
  <2>1. ASSUME NEW k \in 0..bound, k # 0 PROVE reached[k] = add[reached[k - 1]]
    <3>1. k - 1 \in 0..bound
      BY <1>1, <2>1
    <3> HIDE DEF next, bound, U, add, start
    <3>2. reached[k] = reached[k - 1] \cup next(reached[k - 1])
      BY <1>11, <2>1
    <3>3. reached[k - 1] \in SUBSET U
      BY <1>14, <3>1
    <3>4. QED
      BY <1>7, <3>2, <3>3
  <2>2. \A k \in 0..bound : reached[k] = IF k = 0 THEN start ELSE add[reached[k - 1]]
    <3> HIDE DEF bound, add, start
    <3>1. QED
      BY <1>12, <2>1, Zenon
  <2> HIDE DEF bound, add, start
  <2>3. [k \in 0..bound |-> reached[k]] = [k \in 0..bound |-> IF k = 0 THEN start ELSE add[reached[k - 1]]]
    BY <2>2, Zenon
  <2>4. QED
    BY <1>11, <2>3 DEF Iterates
<1>16. Reachable \subseteq U /\ start \subseteq Reachable /\ add[Reachable] = Reachable
  <2>1. Cardinality(U) <= bound
    BY <1>1, <1>2
  <2> HIDE DEF U, add, start, bound
  <2>2. QED
    BY <1>1, <1>2, <1>3, <1>7, <1>10, <1>15, <2>1, IterationCloses
<1>17. Closed(Reachable)
  <2>1. \A s \in Entries : <<EntryLabel, s>> \in Reachable
    BY <1>16
  <2>2. ASSUME NEW a \in Keys, NEW s \in State, NEW b \in Succs(a), NEW t \in Run(a, {s}),
               <<a, s>> \in Reachable
        PROVE  <<b, t>> \in Reachable
    <3>1. next(Reachable) \subseteq Reachable
      <4> HIDE DEF next, U, add
      <4>1. QED
        BY <1>7, <1>16
    <3>2. <<b, t>> \in from(<<a, s>>)
      BY <1>5
    <3>3. QED
      BY <2>2, <3>1, <3>2
  <2>3. QED
    BY <2>1, <2>2 DEF Closed
<1>18. ASSUME NEW D, Closed(D) PROVE Reachable \subseteq D
  <2> DEFINE G == {k \in 0..bound : reached[k] \subseteq D}
  <2>1. 0 \in G
    BY <1>12, <1>18 DEF Closed
  <2>2. ASSUME NEW k \in 0..bound - 1, k \in G PROVE k + 1 \in G
    <3>1. ASSUME NEW r \in reached[k], NEW x \in from(r) PROVE x \in D
      <4>1. r \in U /\ r \in D
        BY <1>13, <1>14, <2>2
      <4>2. PICK b \in Succs(r[1]), s \in Run(r[1], {r[2]}) : x = <<b, s>>
        BY <1>4
      <4>3. r = <<r[1], r[2]>> /\ r[1] \in Keys /\ r[2] \in State
        BY <4>1
      <4>4. QED
        BY <1>18, <4>1, <4>2, <4>3 DEF Closed
    <3>2. next(reached[k]) \subseteq D
      BY <3>1
    <3> HIDE DEF next, bound
    <3>3. QED
      BY <1>13, <2>2, <3>2
  <2>3. 0..bound \subseteq G
    <3> HIDE DEF G, bound
    <3>1. QED
      BY <1>1, <2>1, <2>2, IntervalInduction
  <2>4. QED
    BY <1>1, <1>10, <2>3
<1>19. QED
  BY <1>16, <1>17, <1>18

-----------------------------------------------------------------------------
(***************************************************************************)
(* The steps.                                                              *)
(***************************************************************************)
LEMMA GraphConstant ==
  ASSUME [Next]_vars
  PROVE  /\ cfg' = cfg /\ Keys' = Keys /\ EntryLabel' = EntryLabel /\ Reachable' = Reachable
         /\ \A S : Ahead(S)' = Ahead(S)
         /\ \A l : Preds(l)' = Preds(l) /\ Succs(l)' = Succs(l) /\ Initial(l)' = Initial(l)
         /\ \A l, S : Run(l, S)' = Run(l, S)
<1>1. cfg' = cfg
  BY DEF Next, Solve, Judge, vars
<1>2. QED
  BY <1>1 DEF Keys, EntryLabel, Reachable, Preds, Succs, Initial, Run, Ahead

LEMMA SolvedStart == Init => SolvedInv /\ IsGraph(cfg)
<1> SUFFICES ASSUME Init PROVE SolvedInv /\ IsGraph(cfg)
  OBVIOUS
<1>1. DOMAIN value = {} /\ safe = {} /\ IsGraph(cfg)
  BY DataFlowAssumption DEF Init
<1>2. QED
  BY <1>1 DEF SolvedInv

\* A block that is solved now was not used by any block solved before.
LEMMA SolvedSolve ==
  ASSUME IsGraph(cfg), SolvedInv, NEW l \in Keys, Solve(l)
  PROVE  SolvedInv'
<1>1. [Next]_vars
  BY DEF Next
<1>2. /\ l \notin DOMAIN value
      /\ l # EntryLabel => Preds(l) # {} /\ Preds(l) \subseteq DOMAIN value
      /\ DOMAIN value' = DOMAIN value \cup {l} /\ value'[l] = ValueOf(l)
      /\ \A m \in DOMAIN value : value'[m] = value[m]
      /\ safe' = safe
  BY DEF Solve, Solvable
<1>3. safe = {}
  BY DEF Solve, SolvedInv
<1>10. ASSUME NEW S, Ahead(S) PROVE DOMAIN value' \subseteq S \cup {EntryLabel}
  <2>1. DOMAIN value \subseteq S \cup {EntryLabel}
    BY <1>10 DEF SolvedInv
  <2>2. ASSUME l # EntryLabel PROVE l \in S
    <3>1. PICK p \in Preds(l) : p \in S \cup {EntryLabel}
      BY <1>2, <2>1, <2>2
    <3>2. l \in Succs(p)
      BY <3>1, GraphFacts
    <3>3. QED
      BY <1>10, <3>1, <3>2 DEF Ahead
  <2>3. QED
    BY <1>2, <2>1, <2>2
<1>11. Preds(EntryLabel) \cap DOMAIN value' = {}
  <2>1. PICK S : Ahead(S)
    BY AheadExists
  <2>2. ASSUME NEW p \in Preds(EntryLabel), p \in DOMAIN value' PROVE FALSE
    <3>1. p \in S \cup {EntryLabel} /\ EntryLabel \in Succs(p)
      BY <1>10, <2>1, <2>2, GraphFacts
    <3>2. QED
      BY <2>1, <3>1 DEF Ahead
  <2>3. QED
    BY <2>2
<1>4. ASSUME NEW m \in DOMAIN value'
      PROVE  /\ m # EntryLabel => Preds(m) # {} /\ Preds(m) \subseteq DOMAIN value
             /\ ValueOf(m)' = ValueOf(m) /\ value'[m] = ValueOf(m)
  <2>1. m # EntryLabel => Preds(m) # {} /\ Preds(m) \subseteq DOMAIN value
    BY <1>2, <1>4 DEF SolvedInv
  <2>2. Preds(m) \cap DOMAIN value' = Preds(m) \cap DOMAIN value
    BY <1>2, <1>11, <2>1
  <2>3. ValueOf(m)' = ValueOf(m)
    <3>1. ValueOf(m)' = Initial(m) \cup UNION {Run(p, value'[p]) : p \in Preds(m) \cap DOMAIN value'}
      BY <1>1, GraphConstant DEF ValueOf
    <3>2. {Run(p, value'[p]) : p \in Preds(m) \cap DOMAIN value'}
            = {Run(p, value[p]) : p \in Preds(m) \cap DOMAIN value}
      BY <1>2, <2>2
    <3>3. QED
      BY <3>1, <3>2 DEF ValueOf
  <2>4. QED
    BY <1>2, <1>4, <2>1, <2>3 DEF SolvedInv
<1>5. ASSUME NEW s \in ValueOf(l) PROVE <<l, s>> \in Reachable
  <2>1. Closed(Reachable) /\ Reachable \subseteq Keys \X State
    BY ReachableIsLeast
  <2>2. CASE s \in Initial(l)
    BY <2>1, <2>2 DEF Closed, Initial
  <2>3. CASE s \notin Initial(l)
    <3>1. PICK p \in Preds(l) : p \in DOMAIN value /\ s \in Run(p, value[p])
      BY <2>3 DEF ValueOf
    <3>2. PICK t \in value[p] : s \in Run(p, {t})
      BY <3>1 DEF Run
    <3>3. <<p, t>> \in Reachable /\ p \in Keys /\ t \in State /\ l \in Succs(p)
      BY <1>2, <2>1, <3>1, <3>2, GraphFacts DEF SolvedInv
    <3>4. QED
      BY <2>1, <3>2, <3>3 DEF Closed
  <2>4. QED
    BY <2>2, <2>3
<1>6. \A m \in DOMAIN value' : \A s \in value'[m] : <<m, s>> \in Reachable
  BY <1>2, <1>5 DEF SolvedInv
<1>7. \A m \in DOMAIN value' :
        /\ m # EntryLabel => Preds(m)' # {} /\ Preds(m)' \subseteq DOMAIN value'
        /\ value'[m] = ValueOf(m)'
  BY <1>1, <1>2, <1>4, GraphConstant
<1>8. DOMAIN value' \subseteq Keys'
  BY <1>1, <1>2, GraphConstant DEF SolvedInv
<1>9. QED
  BY <1>1, <1>2, <1>3, <1>6, <1>7, <1>8, <1>10, GraphConstant DEF SolvedInv

LEMMA SolvedJudge ==
  ASSUME SolvedInv, NEW l \in Keys, Judge(l)
  PROVE  SolvedInv'
<1>1. [Next]_vars
  BY DEF Next
<1>2. value' = value /\ safe' = safe \cup {l} /\ Holds(l) /\ \A m \in Keys : ~ Solvable(m)
  BY DEF Judge
<1>3. \A m : /\ ValueOf(m)' = ValueOf(m) /\ (Solvable(m)' <=> Solvable(m))
             /\ (Holds(m)' <=> Holds(m))
  BY <1>1, <1>2, GraphConstant DEF ValueOf, Solvable, Holds
<1>4. QED
  BY <1>1, <1>2, <1>3, GraphConstant DEF SolvedInv

LEMMA SolvedStep == IsGraph(cfg) /\ SolvedInv /\ [Next]_vars => (SolvedInv /\ IsGraph(cfg))'
<1> SUFFICES ASSUME IsGraph(cfg), SolvedInv, [Next]_vars PROVE SolvedInv'
  BY GraphConstant
<1>1. ASSUME NEW l \in Keys, Solve(l) PROVE SolvedInv'
  BY <1>1, SolvedSolve
<1>2. ASSUME NEW l \in Keys, Judge(l) PROVE SolvedInv'
  BY <1>2, SolvedJudge
<1>3. CASE UNCHANGED vars
  <2>1. value' = value /\ safe' = safe
    BY <1>3 DEF vars
  <2>2. \A m : /\ ValueOf(m)' = ValueOf(m) /\ (Solvable(m)' <=> Solvable(m))
               /\ (Holds(m)' <=> Holds(m))
    BY <2>1, GraphConstant DEF ValueOf, Solvable, Holds
  <2>3. QED
    BY <2>1, <2>2, GraphConstant DEF SolvedInv
<1>4. QED
  BY <1>1, <1>2, <1>3 DEF Next

-----------------------------------------------------------------------------
(***************************************************************************)
(* What the values and the verdicts are.                                   *)
(***************************************************************************)

\* Nothing that is reached is left out of the value of a solved block: its
\* predecessors are solved too, and the value is made of theirs.
LEMMA ValuesCover ==
  ASSUME IsGraph(cfg), SolvedInv, NEW l \in DOMAIN value, NEW s, <<l, s>> \in Reachable
  PROVE  s \in value[l]
<1> PICK S : Ahead(S)
  BY AheadExists
<1> DEFINE D == {r \in Keys \X State :
                   /\ r[1] \in S \cup {EntryLabel}
                   /\ r[1] \in DOMAIN value => r[2] \in value[r[1]]}
<1>1. ASSUME NEW t \in Entries PROVE <<EntryLabel, t>> \in D
  <2>1. <<EntryLabel, t>> \in Keys \X State
    BY GraphFacts, DataFlowAssumption
  <2>2. EntryLabel \in DOMAIN value => t \in value[EntryLabel]
    BY DEF SolvedInv, ValueOf, Initial
  <2>3. QED
    BY <2>1, <2>2
<1>2. ASSUME NEW a \in Keys, NEW t \in State, NEW b \in Succs(a), NEW u \in Run(a, {t}),
             <<a, t>> \in D
      PROVE  <<b, u>> \in D
  <2>1. b \in Keys /\ u \in State /\ a \in Preds(b)
    BY GraphFacts
  <2>4. b \in S /\ b # EntryLabel
    BY <1>2 DEF Ahead
  <2>2. ASSUME b \in DOMAIN value PROVE u \in value[b]
    <3>1. a \in DOMAIN value /\ value[b] = ValueOf(b)
      BY <2>1, <2>2, <2>4 DEF SolvedInv
    <3>2. u \in Run(a, value[a])
      BY <1>2, <3>1 DEF Run
    <3>3. QED
      BY <2>1, <3>1, <3>2 DEF ValueOf
  <2>3. QED
    BY <2>1, <2>2, <2>4
<1>3. Reachable \subseteq D
  <2>1. Closed(D)
    <3> HIDE DEF D
    <3>1. QED
      BY <1>1, <1>2 DEF Closed
  <2> HIDE DEF D
  <2>2. QED
    BY <2>1, ReachableIsLeast
<1>4. QED
  BY <1>3

LEMMA ExactlyReached ==
  ASSUME IsGraph(cfg), SolvedInv
  PROVE  /\ ValueExact
         /\ \A l \in DOMAIN value : \A s : s \in value[l] <=> <<l, s>> \in Reachable
<1>1. Reachable \subseteq Keys \X State
  BY ReachableIsLeast
<1>2. ASSUME NEW l \in DOMAIN value, NEW s PROVE s \in value[l] <=> <<l, s>> \in Reachable
  BY ValuesCover DEF SolvedInv
<1>3. ASSUME NEW l \in DOMAIN value
      PROVE  value[l] = {r[2] : r \in {q \in Reachable : q[1] = l}}
  <2>1. ASSUME NEW s \in value[l] PROVE s \in {r[2] : r \in {q \in Reachable : q[1] = l}}
    <3>1. <<l, s>> \in {q \in Reachable : q[1] = l}
      BY <1>2
    <3>2. QED
      BY <3>1
  <2>2. ASSUME NEW r \in Reachable, r[1] = l PROVE r[2] \in value[l]
    <3>1. r = <<l, r[2]>>
      BY <1>1, <2>2
    <3>2. QED
      BY <1>2, <2>2, <3>1
  <2>3. QED
    BY <2>1, <2>2
<1>4. QED
  BY <1>2, <1>3 DEF ValueExact

\* The value of a block, once it has one, is the set of states in which the
\* program's executions come to it (the pre of Analyzer), no more and no fewer,
\* in every graph IsGraph admits and in whatever order the blocks were solved.
THEOREM ValuesAlwaysExact == Safety => []ValueExact
<1>1. Safety => [](SolvedInv /\ IsGraph(cfg))
  BY SolvedStart, SolvedStep, PTL DEF Safety
<1>2. SolvedInv /\ IsGraph(cfg) => ValueExact
  BY ExactlyReached
<1>3. QED
  BY <1>1, <1>2, PTL

\* In an acyclic graph, the blocks left without a value when nothing can be
\* solved are the dead sources and what is behind them.
LEMMA WithoutValue ==
  ASSUME IsGraph(cfg), SolvedInv, Acyclic, \A l \in Keys : ~ Solvable(l)
  PROVE  Keys \ DOMAIN value = {l \in Keys : BehindDead(l)}
<1> DEFINE Rest == Keys \ DOMAIN value
<1>1. /\ Rest \in SUBSET Keys /\ DeadSources \subseteq Rest
      /\ \A k \in Rest : Succs(k) \ {EntryLabel} \subseteq Rest
  <2>1. DeadSources \subseteq Rest
    BY DEF DeadSources, SolvedInv
  <2>2. ASSUME NEW k \in Rest, NEW b \in Succs(k), b # EntryLabel PROVE b \in Rest
    <3>1. b \in Keys /\ k \in Preds(b)
      BY GraphFacts
    <3>2. QED
      BY <2>2, <3>1 DEF SolvedInv
  <2>3. QED
    BY <2>1, <2>2
<1>2. ASSUME NEW l \in Keys, BehindDead(l) PROVE l \in Rest
  <2> HIDE DEF Rest
  <2>1. QED
    BY <1>1, <1>2 DEF BehindDead
<1>3. ASSUME NEW l \in Rest, ~ BehindDead(l) PROVE FALSE
  <2>1. PICK S \in SUBSET Keys :
          /\ DeadSources \subseteq S /\ l \notin S
          /\ \A k \in S : Succs(k) \ {EntryLabel} \subseteq S
    BY <1>3 DEF BehindDead
  <2>2. PICK m \in Rest \ S : Preds(m) \cap (Rest \ S) = {}
    <3>1. Rest \ S \in SUBSET Keys /\ Rest \ S # {}
      BY <1>3, <2>1
    <3> HIDE DEF Rest
    <3>2. QED
      BY <3>1 DEF Acyclic
  <2>3. m \in Keys /\ m # EntryLabel
    BY <2>2 DEF Solvable
  <2>4. ASSUME NEW p \in Preds(m) PROVE p \in DOMAIN value
    <3>1. p \in Keys /\ m \in Succs(p)
      BY <2>3, GraphFacts
    <3>2. p \notin S
      BY <2>1, <2>2, <2>3, <3>1
    <3>3. QED
      BY <2>2, <3>1, <3>2
  <2>5. Preds(m) # {}
    BY <2>1, <2>2, <2>3 DEF DeadSources
  <2>6. QED
    BY <2>2, <2>3, <2>4, <2>5 DEF Solvable
<1>4. QED
  BY <1>2, <1>3

\* The assertions analyze_rcp marks satisfied are those that no execution breaks
\* and all of the blocks worklist gave no value: of a graph without cycles, the
\* blocks that dead code leads to.
THEOREM VerdictsAlwaysExact == Safety => []VerdictExact
<1>1. Safety => [](SolvedInv /\ IsGraph(cfg))
  BY SolvedStart, SolvedStep, PTL DEF Safety
<1>2. SolvedInv /\ IsGraph(cfg) => VerdictExact
  <2> SUFFICES ASSUME SolvedInv, IsGraph(cfg) PROVE VerdictExact
    OBVIOUS
  <2>1. Reachable \subseteq Keys \X State /\ DOMAIN value \subseteq Keys
    BY ReachableIsLeast DEF SolvedInv
  <2>2. ASSUME NEW l \in safe, l \in DOMAIN value PROVE l \in Sound
    <3>1. l \in Keys /\ value[l] \subseteq cfg.asserted[l]
      BY <2>2 DEF SolvedInv, Holds
    <3>2. ASSUME NEW r \in Reachable, r[1] = l PROVE r[2] \in cfg.asserted[l]
      <4>1. r = <<l, r[2]>>
        BY <2>1, <3>2
      <4>2. QED
        BY <2>2, <3>1, <3>2, <4>1, ExactlyReached
    <3>3. QED
      BY <3>1, <3>2 DEF Sound
  <2>3. ASSUME Over, NEW l \in Sound PROVE l \in safe
    <3>1. ASSUME l \in DOMAIN value, NEW s \in value[l] PROVE s \in cfg.asserted[l]
      <4>1. <<l, s>> \in Reachable
        BY <3>1, ExactlyReached
      <4>2. QED
        BY <4>1 DEF Sound
    <3>2. QED
      BY <2>3, <3>1 DEF Over, Holds, Sound
  <2>4. ASSUME Over, NEW l \in Keys, l \notin DOMAIN value PROVE l \in safe
    BY <2>4 DEF Over, Holds
  <2>5. safe \subseteq Keys /\ Sound \subseteq Keys
    BY DEF SolvedInv, Sound
  <2>6. Over /\ Acyclic => Keys \ DOMAIN value = {l \in Keys : BehindDead(l)}
    BY WithoutValue DEF Over
  <2>7. QED
    BY <2>2, <2>3, <2>4, <2>5, <2>6 DEF VerdictExact
<1>3. QED
  BY <1>1, <1>2, PTL

=============================================================================
