--------------------------- MODULE WorklistProofs ---------------------------
(***************************************************************************)
(* Proofs about Worklist, for every set of graphs, states and labels.      *)
(***************************************************************************)
EXTENDS WorklistRefinement, Iteration, SequenceTheorems

(***************************************************************************)
(* A graph that satisfies IsCfg: what the provers need to know of it.      *)
(***************************************************************************)
LEMMA CfgFacts ==
  ASSUME IsCfg(cfg)
  PROVE  /\ EntryLabel \in Keys
         /\ \A l \in Keys : /\ cfg.nextlist[l] \in Seq(Keys)
                            /\ cfg.prevlist[l] \in Seq(Keys)
                            /\ Preds(l) \subseteq Keys
                            /\ Succs(l) \subseteq Keys
         /\ \A i \in 1..Len(cfg.keys) : cfg.keys[i] \in Keys
<1>1. cfg.keys \in Seq(Label) /\ Len(cfg.keys) \in Nat \ {0} /\ DOMAIN cfg.keys = 1..Len(cfg.keys)
  BY LenProperties, EmptySeq DEF IsCfg
<1>2. EntryLabel \in Keys
  BY <1>1 DEF EntryLabel, Keys, KeysOf
<1>3. ASSUME NEW l \in Keys
      PROVE  cfg.nextlist[l] \in Seq(Keys) /\ cfg.prevlist[l] \in Seq(Keys)
  BY DEF IsCfg, Keys
<1>4. ASSUME NEW l \in Keys
      PROVE  Preds(l) \subseteq Keys /\ Succs(l) \subseteq Keys
  BY <1>3, ElementOfSeq, LenProperties DEF Preds, Succs
<1>5. \A i \in 1..Len(cfg.keys) : cfg.keys[i] \in Keys
  BY <1>1 DEF Keys, KeysOf
<1>6. QED
  BY <1>2, <1>3, <1>4, <1>5

\* The value of a block after it was joined or run is a value.
LEMMA ValueClosed ==
  ASSUME IsCfg(cfg), NEW l \in Keys, NEW v \in Value, post \in [Keys -> Value]
  PROVE  /\ Transfer(l, v) \in Value
         /\ Joined(v, {post[p] : p \in Preds(l)}) \in Value
<1>1. Preds(l) \subseteq Keys
  BY CfgFacts
<1>2. Run(l, v.states) \subseteq State
  <2>1. cfg.effect[l] \subseteq State \X State
    BY DEF IsCfg, Keys
  <2>2. QED
    BY <2>1 DEF Run
<1>3. Transfer(l, v) \in Value
  BY <1>2 DEF Transfer, Value
<1>4. \A u \in {post[p] : p \in Preds(l)} : u.states \subseteq State
  BY <1>1 DEF Value
<1>5. Joined(v, {post[p] : p \in Preds(l)}) \in Value
  BY <1>4 DEF Joined, Value
<1>6. QED
  BY <1>3, <1>5

-----------------------------------------------------------------------------
(***************************************************************************)
(* Type correctness: the worklist holds labels of the graph, the counters  *)
(* are naturals and the maps are total, whatever the graph.  The code      *)
(* behind it is every access through at() in worklist and Analyzer.        *)
(***************************************************************************)
LEMMA TypeInit == Init => TypeOK
<1> SUFFICES ASSUME Init PROVE TypeOK
  OBVIOUS
<1>1. IsCfg(cfg)
  BY WorklistAssumption DEF Init
<1>2. EntryLabel \in Keys
  BY <1>1, CfgFacts
<1>3. Bot \in Value
  BY DEF Bot, Value
<1>4. QED
  BY <1>1, <1>2, <1>3, EmptySeq DEF Init, TypeOK

LEMMA TypeStep == TypeOK /\ [Next]_vars => TypeOK'
<1> SUFFICES ASSUME TypeOK, [Next]_vars PROVE TypeOK'
  OBVIOUS
<1>0. IsCfg(cfg) /\ EntryLabel \in Keys /\ Bot \in Value
  BY CfgFacts DEF TypeOK, Bot, Value
<1>1. CASE Start
  <2>1. [bot |-> FALSE, states |-> Entries] \in Value
    BY WorklistAssumption DEF Value
  <2>2. <<EntryLabel>> \in Seq(Keys)
    BY <1>0
  <2>3. cfg' = cfg /\ Keys' = Keys
    BY <1>1 DEF Start, Keys
  <2>4. QED
    BY <1>0, <1>1, <2>1, <2>2, <2>3 DEF Start, TypeOK
<1>2. CASE Visit
  <2>1. Head(w) \in Keys /\ Tail(w) \in Seq(Keys)
    BY <1>2, HeadTailProperties DEF Visit, TypeOK
  <2>2. cfg' = cfg /\ Keys' = Keys
    BY <1>2 DEF Visit, Keys
  <2> DEFINE newpre == Joined(pre[Head(w)], {post[p] : p \in Preds(Head(w))})
             dom    == Transfer(Head(w), newpre)
  <2>3. newpre \in Value /\ dom \in Value
    BY <1>0, <2>1, ValueClosed DEF TypeOK
  <2>4. /\ pre' = [pre EXCEPT ![Head(w)] = newpre]
        /\ post' = [post EXCEPT ![Head(w)] = dom]
        /\ pc' \in {"push", "pop"}
        /\ cur' = Head(w)
    BY <1>2 DEF Visit, Recompute
  <2>5. pre' \in [Keys -> Value] /\ post' \in [Keys -> Value]
    BY <2>1, <2>3, <2>4 DEF TypeOK
  <2>6. Len(cfg.nextlist[Head(w)]) \in Nat
    BY <1>0, <2>1, CfgFacts, LenProperties
  <2>7. QED
    BY <1>2, <2>1, <2>2, <2>4, <2>5, <2>6 DEF Visit, TypeOK
<1>3. CASE Arrive
  <2> DEFINE next == cfg.nextlist[cur][pos + 1]
  <2>1. Len(cfg.nextlist[cur]) \in Nat /\ next \in Keys
    BY <1>0, <1>3, CfgFacts, ElementOfSeq, LenProperties DEF Arrive, TypeOK
  <2>2. cfg' = cfg /\ Keys' = Keys
    BY <1>3 DEF Arrive, Keys
  <2>3. w' \in Seq(Keys)
    BY <1>3, <2>1, AppendProperties DEF Arrive, TypeOK
  <2>4. count' \in [Keys -> Nat]
    <3>1. count' = [count EXCEPT ![next] = count[next] + 1]
      BY <1>3 DEF Arrive
    <3>2. count \in [Keys -> Nat] /\ count[next] + 1 \in Nat
      BY <2>1 DEF TypeOK
    <3>3. QED
      BY <3>1, <3>2
  <2>5. QED
    BY <1>3, <2>1, <2>2, <2>3, <2>4 DEF Arrive, TypeOK
<1>4. CASE EndArrive
  BY <1>4 DEF EndArrive, TypeOK, Keys
<1>5. CASE Dedup
  <2>1. PICK i \in Repeats : w' = SubSeq(w, 1, i) \o SubSeq(w, i + 2, Len(w))
    BY <1>5 DEF Dedup
  <2>2. i \in Int /\ i >= 1 /\ i < Len(w) /\ Len(w) \in Nat
    BY LenProperties DEF Repeats, TypeOK
  <2>3. \A k \in 1..Len(w) : w[k] \in Keys
    BY ElementOfSeq DEF TypeOK
  <2>4. SubSeq(w, 1, i) \in Seq(Keys) /\ SubSeq(w, i + 2, Len(w)) \in Seq(Keys)
    BY <2>2, <2>3, SubSeqProperties
  <2>5. w' \in Seq(Keys)
    BY <2>1, <2>4, ConcatProperties
  <2>6. QED
    BY <1>5, <2>5 DEF Dedup, TypeOK, Keys
<1>6. CASE EndVisit
  BY <1>6 DEF EndVisit, TypeOK, Keys
<1>7. CASE EndSolve
  <2>1. Len(cfg.keys) \in Nat
    BY <1>0, LenProperties DEF IsCfg
  <2>2. QED
    BY <1>7, <2>1 DEF EndSolve, TypeOK, Keys
<1>8. CASE Check
  <2>1. Len(cfg.keys) \in Nat
    BY <1>0, LenProperties DEF IsCfg
  <2>2. cfg.keys[pos + 1] \in Keys
    BY <1>0, <1>8, <2>1, CfgFacts DEF Check, TypeOK
  <2>3. QED
    BY <1>8, <2>1, <2>2 DEF Check, TypeOK, Keys
<1>9. CASE EndCheck
  BY <1>9 DEF EndCheck, TypeOK, Keys
<1>10. CASE UNCHANGED vars
  BY <1>10 DEF vars, TypeOK, Keys
<1>11. QED
  BY <1>1, <1>2, <1>3, <1>4, <1>5, <1>6, <1>7, <1>8, <1>9, <1>10 DEF Next, Solve

\* Spec keeps TypeOK: every label the loop touches has its block, its counter
\* and its two values.
THEOREM TypeCorrect == Spec => []TypeOK
<1>1. Init => TypeOK
  BY TypeInit
<1>2. TypeOK /\ [Next]_vars => TypeOK'
  BY TypeStep
<1>3. QED
  BY <1>1, <1>2, PTL DEF Spec

-----------------------------------------------------------------------------
(***************************************************************************)
(* The order of the analysis.  OrderInv is inductive in the graphs that    *)
(* are Orderly, given TypeOK.                                              *)
(***************************************************************************)

\* In a listing the number of predecessors is the length of prevlist, which is
\* what the code compares the counter with.
LEMMA PredsFinite ==
  ASSUME IsCfg(cfg), NEW l \in Keys
  PROVE  /\ IsFiniteSet(Preds(l))
         /\ IsListing(cfg.prevlist[l]) => Cardinality(Preds(l)) = Len(cfg.prevlist[l])
<1> DEFINE s == cfg.prevlist[l]
           D == 1..Len(s)
<1>1. s \in Seq(Keys) /\ Len(s) \in Nat /\ s \in [D -> Keys] /\ DOMAIN s = D
  BY CfgFacts, LenProperties
<1>2. IsFiniteSet(D) /\ Cardinality(D) = Len(s)
  <2>1. ASSUME NEW n \in Nat
        PROVE  IsFiniteSet(1..n) /\ Cardinality(1..n) = n
    <3>1. 1 \in Int /\ n \in Int
      OBVIOUS
    <3>2. IsFiniteSet(1..n) /\ Cardinality(1..n) = IF 1 > n THEN 0 ELSE n - 1 + 1
      BY <3>1, FS_Interval
    <3>3. QED
      BY <3>2
  <2>2. QED
    BY <1>1, <2>1
<1>3. s \in Surjection(D, Preds(l))
  BY <1>1 DEF Surjection, Preds
<1>4. IsFiniteSet(Preds(l)) /\ (Cardinality(Preds(l)) = Cardinality(D) <=> s \in Injection(D, Preds(l)))
  BY <1>2, <1>3, FS_Surjection
<1>5. IsListing(s) => s \in Injection(D, Preds(l))
  BY <1>1, <1>3 DEF IsListing, Injection, IsInjective, Surjection
<1>6. QED
  BY <1>2, <1>4, <1>5

\* The graph never changes, and neither does anything said of it alone.
LEMMA CfgConstant ==
  ASSUME [Next]_vars
  PROVE  /\ cfg' = cfg /\ Keys' = Keys /\ EntryLabel' = EntryLabel
         /\ Orderly' = Orderly
         /\ \A l : Preds(l)' = Preds(l) /\ Succs(l)' = Succs(l)
<1>1. cfg' = cfg
  BY DEF Next, Solve, Start, Visit, Arrive, EndArrive, Dedup, EndVisit, EndSolve,
         Check, EndCheck, vars
<1>2. QED
  BY <1>1 DEF Keys, EntryLabel, Orderly, EdgesMatch, EntryIsSource, Preds, Succs

LEMMA OrderInit == Init => OrderInv
<1> SUFFICES ASSUME Init PROVE OrderInv
  OBVIOUS
<1>1. TypeOK
  BY TypeInit
<1>2. Visited = {}
  BY DEF Init, Visited, Bot
<1>3. Queued = {}
  BY DEF Init, Queued
<1>4. \A l \in Keys : Arrived(l) = {}
  BY <1>2 DEF Arrived
<1>5. \A l \in Keys : count[l] = Cardinality(Arrived(l))
  BY <1>4, FS_EmptySet DEF Init
<1>6. QED
  BY <1>2, <1>3, <1>5 DEF OrderInv, Init, IsListing

\* Steps that leave the queue, the counters and the values alone.
LEMMA OrderFrame ==
  ASSUME TypeOK, OrderInv, [Next]_vars,
         UNCHANGED <<w, count, pre, post, cur>>,
         Coming' = Coming,
         pc' # "start" \/ pc' = pc,
         pc # "start" \/ pc' = pc,
         pc' = "push" => pc = "push"
  PROVE  OrderInv'
<1>1. Visited' = Visited /\ Queued' = Queued
  BY DEF Visited, Queued
<1>2. \A l : Arrived(l)' = Arrived(l)
  BY <1>1, CfgConstant DEF Arrived
<1>3. QED
  BY <1>1, <1>2, CfgConstant DEF OrderInv, IsListing

LEMMA OrderStart ==
  ASSUME TypeOK, OrderInv, Start
  PROVE  OrderInv'
<1>1. [Next]_vars
  BY DEF Next, Solve
<1>2. Visited' = {} /\ Queued' = {EntryLabel}
  BY DEF Start, Visited, Queued, Bot
<1>3. \A l \in Keys : Arrived(l)' = {}
  BY <1>2 DEF Arrived
<1>4. \A l \in Keys : count'[l] = Cardinality({})
  BY FS_EmptySet DEF Start
<1>5. ~ pre'[EntryLabel].bot
  BY CfgFacts DEF Start, TypeOK
<1>6. IsListing(w')
  BY DEF Start, IsListing
<1>7. QED
  BY <1>1, <1>2, <1>3, <1>4, <1>5, <1>6, CfgConstant DEF OrderInv, Start, IsListing

\* A label is popped once all it needs is there, and its new value differs
\* from Bot: the loop always goes on to count its successors.
LEMMA OrderVisit ==
  ASSUME TypeOK, OrderInv, Orderly, Visit
  PROVE  /\ OrderInv'
         /\ Head(w) \in Keys /\ Head(w) \notin Visited
         /\ Visited' = Visited \cup {Head(w)}
         /\ Queued' \cup Visited' = Queued \cup Visited
         /\ \A m \in Keys : Arrived(m)' = Arrived(m)
<1> DEFINE l      == Head(w)
           newpre == Joined(pre[l], {post[p] : p \in Preds(l)})
           dom    == Transfer(l, newpre)
<1>0. [Next]_vars /\ IsCfg(cfg) /\ EntryLabel \in Keys
  BY CfgFacts DEF Next, Solve, TypeOK
<1>1. /\ l \in Keys /\ l = w[1] /\ 1 \in DOMAIN w
      /\ Len(w) \in Nat \ {0} /\ DOMAIN w = 1..Len(w)
      /\ Tail(w) \in Seq(Keys) /\ Len(Tail(w)) = Len(w) - 1
      /\ DOMAIN Tail(w) = 1..Len(Tail(w))
      /\ \A i \in 1..Len(Tail(w)) : Tail(w)[i] = w[i + 1]
  BY HeadTailProperties, LenProperties, EmptySeq DEF Visit, TypeOK
<1>2. l \notin Visited
  BY <1>1 DEF OrderInv, Queued
<1>3. ~ newpre.bot
  <2>1. CASE l = EntryLabel
    BY <2>1 DEF OrderInv, Visit, Joined
  <2>2. CASE l # EntryLabel
    <3>1. PICK p \in Preds(l) : p \in Visited
      BY <1>1, <2>2 DEF OrderInv, Queued, Arrived
    <3>2. ~ post[p].bot
      BY <3>1 DEF Visited
    <3>3. QED
      BY <3>1, <3>2 DEF Joined
  <2>3. QED
    BY <2>1, <2>2
<1>4. ~ dom.bot
  BY <1>3 DEF Transfer
<1>5. post[l].bot
  BY <1>1, <1>2 DEF Visited, TypeOK
<1>6. post' = [post EXCEPT ![l] = dom] /\ pre' = [pre EXCEPT ![l] = newpre]
  BY DEF Visit, Recompute
<1>7. pc' = "push" /\ cur' = l /\ pos' = 0 /\ w' = Tail(w) /\ count' = count /\ pc = "pop"
  <2>1. pc' = IF post[l] # dom THEN "push" ELSE "pop"
    BY DEF Visit, Recompute, Changed
  <2>2. pc' = "push"
    BY <1>4, <1>5, <2>1
  <2>3. QED
    BY <2>2 DEF Visit
<1>8. Visited' = Visited \cup {l}
  BY <1>1, <1>4, <1>6 DEF Visited, TypeOK
<1>9. Queued' = Queued \ {l}
  <2>1. \A i \in DOMAIN w : w[i] = l => i = 1
    BY <1>1 DEF OrderInv, IsListing
  <2>2. Queued' = {Tail(w)[i] : i \in 1..Len(Tail(w))}
    BY <1>1, <1>7 DEF Queued
  <2>3. \A x \in Queued' : x \in Queued \ {l}
    BY <1>1, <2>1, <2>2 DEF Queued
  <2>4. ASSUME NEW x \in Queued \ {l}
        PROVE  x \in Queued'
    <3>1. PICK i \in DOMAIN w : w[i] = x
      BY DEF Queued
    <3>2. i - 1 \in 1..Len(Tail(w)) /\ Tail(w)[i - 1] = x
      BY <1>1, <3>1
    <3>3. QED
      BY <2>2, <3>2
  <2>5. QED
    BY <2>3, <2>4
<1>10. IsListing(w')
  BY <1>1, <1>7 DEF OrderInv, IsListing
<1>11. Coming = {} /\ Coming' = Succs(l)
  <2>1. Coming = {}
    BY <1>7 DEF Coming
  <2>2. DOMAIN cfg.nextlist[l] = 1..Len(cfg.nextlist[l])
    BY <1>0, <1>1, CfgFacts, LenProperties
  <2>3. Coming' = {cfg.nextlist[l][i] : i \in 1..Len(cfg.nextlist[l])}
    <3>1. cfg' = cfg
      BY <1>0, CfgConstant
    <3>2. Coming' = {cfg'.nextlist[l][i] : i \in 1..Len(cfg'.nextlist[l])}
      BY <1>7 DEF Coming
    <3>3. QED
      BY <3>1, <3>2
  <2>4. QED
    BY <2>1, <2>2, <2>3 DEF Succs
<1>12. ASSUME NEW m \in Keys
       PROVE  Arrived(m)' = Arrived(m)
  <2>1. m \in Succs(l) <=> l \in Preds(m)
    BY <1>1 DEF Orderly, EdgesMatch
  <2>2. Arrived(m) = Preds(m) \cap Visited
    BY <1>11 DEF Arrived
  <2>3. Arrived(m)' = {p \in Preds(m) : p \in Visited \cup {l} /\ ~ (p = l /\ m \in Succs(l))}
    BY <1>0, <1>7, <1>8, <1>11, CfgConstant DEF Arrived
  <2>4. QED
    BY <1>2, <2>1, <2>2, <2>3
<1>13. ~ pre'[EntryLabel].bot
  BY <1>0, <1>1, <1>3, <1>6, <1>7 DEF OrderInv, TypeOK
<1>14. \A m \in Keys \ {EntryLabel} :
         m \in Queued' \cup Visited' => Preds(m) # {} /\ Arrived(m)' = Preds(m)
  <2>1. Queued' \cup Visited' \subseteq Queued \cup Visited
    BY <1>1, <1>8, <1>9 DEF Queued
  <2>2. QED
    BY <1>12, <2>1 DEF OrderInv
<1>15. Queued' \cap Visited' = {}
  BY <1>2, <1>8, <1>9 DEF OrderInv
<1>16. \A m \in Keys : count'[m] = Cardinality(Arrived(m)')
  BY <1>7, <1>12 DEF OrderInv
<1>17. OrderInv'
  BY <1>0, <1>7, <1>8, <1>10, <1>13, <1>14, <1>15, <1>16, CfgConstant DEF OrderInv
<1>18. Queued' \cup Visited' = Queued \cup Visited
  <2>1. l \in Queued
    BY <1>1 DEF Queued
  <2>2. QED
    BY <1>8, <1>9, <2>1
<1>19. QED
  BY <1>1, <1>2, <1>8, <1>12, <1>17, <1>18

\* Counting one successor: when the count is that of all predecessors, all of
\* them have been analysed, and the label was not due before.
\* The successors still to come are those after the one that is counted.
LEMMA ArriveComing ==
  ASSUME TypeOK, EdgesMatch, Arrive, NEW next, next = cfg.nextlist[cur][pos + 1]
  PROVE  /\ next \in Succs(cur) /\ next \in Keys
         /\ next \in Coming /\ Coming' = Coming \ {next}
<1>0. [Next]_vars /\ IsCfg(cfg) /\ EntryLabel \in Keys /\ cur \in Keys
  BY CfgFacts DEF Next, Solve, TypeOK
<1>1. pc = "push" /\ pc' = "push" /\ cur' = cur /\ pos' = pos + 1 /\ cfg' = cfg
  BY DEF Arrive
<1>2. /\ Len(cfg.nextlist[cur]) \in Nat /\ DOMAIN cfg.nextlist[cur] = 1..Len(cfg.nextlist[cur])
      /\ pos \in Nat /\ pos + 1 \in 1..Len(cfg.nextlist[cur])
  BY <1>0, CfgFacts, LenProperties DEF Arrive, TypeOK
<1>3. next \in Succs(cur) /\ next \in Keys
  BY <1>0, <1>2, CfgFacts DEF Succs
<1>4. next \in Coming /\ Coming' = Coming \ {next}
  <2>1. Coming = {cfg.nextlist[cur][i] : i \in (pos + 1)..Len(cfg.nextlist[cur])}
    BY <1>1 DEF Coming
  <2>2. Coming' = {cfg.nextlist[cur][i] : i \in (pos + 2)..Len(cfg.nextlist[cur])}
    <3>1. Coming' = {cfg.nextlist[cur][i] : i \in ((pos + 1) + 1)..Len(cfg.nextlist[cur])}
      BY <1>1 DEF Coming
    <3>2. (pos + 1) + 1 = pos + 2
      BY <1>2
    <3>3. QED
      BY <3>1, <3>2
  <2>3. \A i, j \in 1..Len(cfg.nextlist[cur]) : cfg.nextlist[cur][i] = cfg.nextlist[cur][j] => i = j
    BY <1>0, <1>2 DEF EdgesMatch, IsListing
  <2>4. \A i \in (pos + 2)..Len(cfg.nextlist[cur]) : cfg.nextlist[cur][i] # next
    BY <1>2, <2>3
  <2>5. next \in Coming
    BY <1>2, <2>1
  <2>6. \A x \in Coming' : x \in Coming \ {next}
    BY <1>2, <2>1, <2>2, <2>4
  <2>7. ASSUME NEW x \in Coming \ {next}
        PROVE  x \in Coming'
    <3>1. PICK i \in (pos + 1)..Len(cfg.nextlist[cur]) : cfg.nextlist[cur][i] = x
      BY <2>1
    <3>2. i # pos + 1
      BY <3>1
    <3>3. i \in (pos + 2)..Len(cfg.nextlist[cur])
      BY <1>2, <3>1, <3>2
    <3>4. QED
      BY <2>2, <3>1, <3>3
  <2>8. QED
    BY <2>5, <2>6, <2>7
<1>5. QED
  BY <1>3, <1>4

LEMMA OrderArrive ==
  ASSUME TypeOK, OrderInv, Orderly, Arrive
  PROVE  /\ OrderInv'
         /\ Visited' = Visited /\ Queued \subseteq Queued'
         /\ \A m \in Keys : Arrived(m)' = Preds(m) => Arrived(m) = Preds(m) \/ m \in Queued'
<1> PICK next : next = cfg.nextlist[cur][pos + 1]
  OBVIOUS
<1>0. [Next]_vars /\ IsCfg(cfg) /\ EntryLabel \in Keys /\ cur \in Keys
  BY CfgFacts DEF Next, Solve, TypeOK
<1>1. /\ pc = "push" /\ pc' = "push" /\ cur' = cur /\ pos' = pos + 1
      /\ post' = post /\ pre' = pre
      /\ count' = [count EXCEPT ![next] = @ + 1]
      /\ w' = IF count[next] + 1 >= Len(cfg.prevlist[next]) THEN Append(w, next) ELSE w
      /\ cfg' = cfg
  BY DEF Arrive, Due
<1>2. /\ Len(cfg.nextlist[cur]) \in Nat /\ DOMAIN cfg.nextlist[cur] = 1..Len(cfg.nextlist[cur])
      /\ pos \in Nat /\ pos + 1 \in 1..Len(cfg.nextlist[cur])
  BY <1>0, CfgFacts, LenProperties DEF Arrive, TypeOK
<1>3. next \in Succs(cur) /\ next \in Keys
  BY <1>0, <1>2, CfgFacts DEF Succs
<1>4. next \in Coming /\ Coming' = Coming \ {next}
  BY ArriveComing DEF Orderly
<1>5. cur \in Visited /\ cur \in Preds(next)
  BY <1>0, <1>1, <1>3 DEF OrderInv, Orderly, EdgesMatch
<1>6. cur \notin Arrived(next)
  BY <1>4 DEF Arrived
<1>7. Visited' = Visited
  BY <1>1 DEF Visited
<1>a. ASSUME NEW m \in Keys
      PROVE  Arrived(m)' = {p \in Preds(m) : p \in Visited /\ ~ (p = cur /\ m \in Coming \ {next})}
  <2>1. Preds(m)' = Preds(m)
    BY <1>0, CfgConstant
  <2>2. cur' = cur
    BY <1>1
  <2>3. QED
    BY <1>4, <1>7, <2>1, <2>2 DEF Arrived
<1>8. Arrived(next)' = Arrived(next) \cup {cur}
  BY <1>3, <1>4, <1>5, <1>a DEF Arrived
<1>9. ASSUME NEW m \in Keys, m # next
      PROVE  Arrived(m)' = Arrived(m)
  BY <1>9, <1>a DEF Arrived
<1>10. /\ IsFiniteSet(Preds(next)) /\ Arrived(next) \subseteq Preds(next)
       /\ Cardinality(Preds(next)) = Len(cfg.prevlist[next])
  BY <1>0, <1>3, PredsFinite DEF Arrived, Orderly, EdgesMatch
<1>11. /\ IsFiniteSet(Arrived(next)')
       /\ Cardinality(Arrived(next)') = count[next] + 1
  <2>1. IsFiniteSet(Arrived(next))
    BY <1>10, FS_Subset
  <2>2. /\ IsFiniteSet(Arrived(next) \cup {cur})
        /\ Cardinality(Arrived(next) \cup {cur}) = Cardinality(Arrived(next)) + 1
    BY <1>6, <2>1, FS_AddElement
  <2>3. QED
    BY <1>3, <1>8, <2>2 DEF OrderInv
<1>12. \A m \in Keys : count'[m] = Cardinality(Arrived(m)')
  <2>1. count'[next] = Cardinality(Arrived(next)')
    BY <1>1, <1>3, <1>11 DEF TypeOK
  <2>2. ASSUME NEW m \in Keys, m # next
        PROVE  count'[m] = Cardinality(Arrived(m)')
    BY <1>1, <1>9, <2>2 DEF OrderInv, TypeOK
  <2>3. QED
    BY <2>1, <2>2
<1>13. next # EntryLabel
  BY <1>5 DEF Orderly, EntryIsSource
<1>14. next \notin Queued \cup Visited
  BY <1>3, <1>5, <1>6, <1>13 DEF OrderInv
<1>15. count[next] + 1 >= Len(cfg.prevlist[next]) => Arrived(next)' = Preds(next)
  <2>1. SUFFICES ASSUME count[next] + 1 >= Len(cfg.prevlist[next])
                 PROVE  Arrived(next)' = Preds(next)
    OBVIOUS
  <2>2. Arrived(next)' \in SUBSET Preds(next)
    BY <1>5, <1>8, <1>10
  <2>3. /\ Cardinality(Arrived(next)') <= Cardinality(Preds(next))
        /\ Cardinality(Preds(next)) = Cardinality(Arrived(next)') => Preds(next) = Arrived(next)'
    BY <1>10, <2>2, FS_Subset
  <2>4. count[next] \in Nat /\ Len(cfg.prevlist[next]) \in Nat
    BY <1>0, <1>3, CfgFacts, LenProperties DEF TypeOK
  <2>5. QED
    BY <1>10, <1>11, <2>1, <2>3, <2>4
<1>16. CASE count[next] + 1 >= Len(cfg.prevlist[next])
  <2>1. w' = Append(w, next)
    BY <1>1, <1>16
  <2>2. /\ Len(w) \in Nat /\ DOMAIN w = 1..Len(w) /\ DOMAIN w' = 1..(Len(w) + 1)
        /\ \A i \in 1..Len(w) : w'[i] = w[i]
        /\ w'[Len(w) + 1] = next
    BY <1>3, <2>1, AppendProperties, LenProperties DEF TypeOK
  <2>3. Queued' = Queued \cup {next}
    <3>1. \A x \in Queued' : x \in Queued \cup {next}
      BY <2>2 DEF Queued
    <3>2. \A x \in Queued \cup {next} : x \in Queued'
      BY <2>2 DEF Queued
    <3>3. QED
      BY <3>1, <3>2
  <2>4. IsListing(w')
    BY <1>14, <2>2 DEF OrderInv, IsListing, Queued
  <2>5. \A m \in Keys \ {EntryLabel} :
          m \in Queued' \cup Visited' => Preds(m) # {} /\ Arrived(m)' = Preds(m)
    BY <1>5, <1>7, <1>9, <1>15, <1>16, <2>3 DEF OrderInv
  <2>6. OrderInv'
    BY <1>0, <1>1, <1>5, <1>7, <1>12, <1>14, <2>3, <2>4, <2>5, CfgConstant DEF OrderInv
  <2>7. QED
    BY <1>7, <1>9, <2>3, <2>6
<1>17. CASE ~ (count[next] + 1 >= Len(cfg.prevlist[next]))
  <2>1. w' = w /\ Queued' = Queued
    BY <1>1, <1>17 DEF Queued
  <2>2. \A m \in Keys \ {EntryLabel} :
          m \in Queued' \cup Visited' => Preds(m) # {} /\ Arrived(m)' = Preds(m)
    BY <1>7, <1>9, <1>14, <2>1 DEF OrderInv
  <2>3. OrderInv'
    BY <1>0, <1>1, <1>5, <1>7, <1>12, <2>1, <2>2, CfgConstant DEF OrderInv, IsListing
  <2>4. Arrived(next)' # Preds(next)
    <3>1. count[next] \in Nat /\ Len(cfg.prevlist[next]) \in Nat
      BY <1>0, <1>3, CfgFacts, LenProperties DEF TypeOK
    <3>2. QED
      BY <1>10, <1>11, <1>17, <3>1
  <2>5. QED
    BY <1>7, <1>9, <2>1, <2>3, <2>4
<1>18. QED
  BY <1>16, <1>17

LEMMA OrderStep == TypeOK /\ Orderly /\ OrderInv /\ [Next]_vars => OrderInv'
<1> SUFFICES ASSUME TypeOK, Orderly, OrderInv, [Next]_vars PROVE OrderInv'
  OBVIOUS
<1>1. CASE Start
  BY <1>1, OrderStart
<1>2. CASE Visit
  BY <1>2, OrderVisit
<1>3. CASE Arrive
  BY <1>3, OrderArrive
<1>4. CASE EndArrive
  <2>1. pos = Len(cfg.nextlist[cur]) /\ pos \in Nat
    BY <1>4 DEF EndArrive, TypeOK
  <2>2. Coming = {} /\ Coming' = {}
    BY <1>4, <2>1 DEF EndArrive, Coming
  <2>3. QED
    BY <1>4, <2>2, OrderFrame DEF EndArrive
<1>5. CASE Dedup
  <2>1. Repeats = {}
    BY LenProperties DEF Repeats, OrderInv, IsListing, TypeOK
  <2>2. QED
    BY <1>5, <2>1 DEF Dedup
<1>6. CASE EndVisit
  BY <1>6, OrderFrame DEF EndVisit, Coming
<1>7. CASE EndSolve
  BY <1>7, OrderFrame DEF EndSolve, Coming
<1>8. CASE Check
  BY <1>8, OrderFrame DEF Check, Coming
<1>9. CASE EndCheck
  BY <1>9, OrderFrame DEF EndCheck, Coming
<1>10. CASE UNCHANGED vars
  BY <1>10, OrderFrame DEF vars, Coming
<1>11. QED
  BY <1>1, <1>2, <1>3, <1>4, <1>5, <1>6, <1>7, <1>8, <1>9, <1>10 DEF Next, Solve

\* The counters count each analysed predecessor once, in every graph whose two
\* edge lists agree and whose entry nothing goes back to.
THEOREM OrderCorrect == Spec => []OneArrivalEach
<1>1. Init => OneArrivalEach
  BY OrderInit DEF OneArrivalEach
<1>2. TypeOK /\ OneArrivalEach /\ [Next]_vars => OneArrivalEach'
  <2> SUFFICES ASSUME TypeOK, OneArrivalEach, [Next]_vars, Orderly' PROVE OrderInv'
    BY DEF OneArrivalEach
  <2>1. Orderly
    BY CfgConstant
  <2>2. QED
    BY <2>1, OrderStep DEF OneArrivalEach
<1>3. QED
  BY <1>1, <1>2, TypeCorrect, PTL DEF Spec

\* The predecessors of a block that was analysed were analysed.
LEMMA VisitedPreds ==
  ASSUME TypeOK, OrderInv, Orderly, NEW l \in Visited \cup Queued
  PROVE  l \in Keys /\ Preds(l) \subseteq Visited
<1>1. l \in Keys
  BY ElementOfSeq, LenProperties DEF Visited, Queued, TypeOK
<1>2. CASE l = EntryLabel
  BY <1>1, <1>2 DEF Orderly, EntryIsSource
<1>3. CASE l # EntryLabel
  BY <1>1, <1>3 DEF OrderInv, Arrived
<1>4. QED
  BY <1>2, <1>3

\* No block is queued or analysed before its predecessors.
THEOREM PredecessorsAlwaysFirst == Spec => []PredecessorsFirst
<1>1. TypeOK /\ OneArrivalEach => PredecessorsFirst
  <2> SUFFICES ASSUME TypeOK, OrderInv, Orderly,
                      NEW l \in Visited \cup Queued
               PROVE  Preds(l) \subseteq Visited
    BY DEF OneArrivalEach, PredecessorsFirst
  <2>1. QED
    BY VisitedPreds
<1>2. QED
  BY <1>1, TypeCorrect, OrderCorrect, PTL

\* No block that was analysed is analysed again with another result.
THEOREM EachAnalysedOnce == Spec => AnalysedOnce
<1>1. ASSUME TypeOK, OneArrivalEach, [Next]_vars, Orderly, NEW l \in Visited
      PROVE  pre'[l] = pre[l] /\ post'[l] = post[l]
  <2>1. OrderInv
    BY <1>1 DEF OneArrivalEach
  <2>2. CASE Start
    BY <2>1, <2>2 DEF Start, OrderInv
  <2>3. CASE Visit
    <3>1. Head(w) # l
      BY <1>1, <2>1, <2>3, OrderVisit
    <3>2. QED
      BY <2>3, <3>1 DEF Visit, Recompute, Visited, TypeOK
  <2>4. CASE ~ Start /\ ~ Visit
    BY <1>1, <2>4 DEF Next, Solve, Arrive, EndArrive, Dedup, EndVisit, EndSolve, Check,
                      EndCheck, vars
  <2>5. QED
    BY <2>2, <2>3, <2>4
<1>2. TypeOK /\ OneArrivalEach /\ [Next]_vars =>
        [Orderly => \A l \in Visited : pre'[l] = pre[l] /\ post'[l] = post[l]]_vars
  BY <1>1
<1>3. QED
  BY <1>2, TypeCorrect, OrderCorrect, PTL DEF Spec, AnalysedOnce

-----------------------------------------------------------------------------
(***************************************************************************)
(* The result of the analysis.  SolutionInv is inductive in the Orderly    *)
(* graphs, given TypeOK and OrderInv.                                      *)
(***************************************************************************)

\* Steps that leave the queue and the values alone, and mark nothing.
LEMMA SolutionFrame ==
  ASSUME TypeOK, SolutionInv, [Next]_vars,
         UNCHANGED <<w, pre, post, cur, satisfied>>,
         Coming' = Coming,
         pc = "start" <=> pc' = "start",
         pc' \in {"check", "done"} => w = <<>>,
         pc \in {"check", "done"} => pc' \in {"check", "done"}
  PROVE  SolutionInv'
<1>1. Visited' = Visited /\ Queued' = Queued
  BY DEF Visited, Queued
<1>2. \A l : Arrived(l)' = Arrived(l)
  BY <1>1, CfgConstant DEF Arrived
<1>3. (\A l \in Visited : post[l].states = Run(l, pre[l].states))'
  BY <1>1, CfgConstant DEF SolutionInv, Run
<1>4. (\A l \in Keys \ Visited : pre[l].states = Initial(l))'
  BY <1>1, CfgConstant DEF SolutionInv, Initial
<1>5. QED
  BY <1>1, <1>2, <1>3, <1>4, CfgConstant DEF SolutionInv

LEMMA SolutionStart ==
  ASSUME TypeOK, SolutionInv, Start
  PROVE  SolutionInv'
<1>1. [Next]_vars /\ EntryLabel \in Keys
  BY CfgFacts DEF Next, Solve, TypeOK
<1>2. Visited' = {} /\ Queued' = {EntryLabel}
  BY DEF Start, Visited, Queued, Bot
<1>3. \A l : Arrived(l)' = {}
  BY <1>2 DEF Arrived
<1>4. Entries \subseteq pre'[EntryLabel].states
  BY <1>1 DEF Start
<1>5. pc' = "pop" /\ satisfied' = {}
  BY DEF Start, SolutionInv
<1>6. (\A l \in Keys \ Visited : pre[l].states = Initial(l))'
  BY <1>1, <1>5, CfgConstant DEF Start, Initial, Bot
<1>7. QED
  BY <1>1, <1>2, <1>3, <1>4, <1>5, <1>6, CfgConstant DEF SolutionInv

\* The new value of the popped label follows from its own pre, which takes in
\* the values of its predecessors; nothing else changes.
LEMMA SolutionVisit ==
  ASSUME TypeOK, OrderInv, Orderly, SolutionInv, Visit
  PROVE  SolutionInv'
<1> PICK h : h = Head(w)
  OBVIOUS
<1> PICK newpre : newpre = Joined(pre[h], {post[p] : p \in Preds(h)})
  OBVIOUS
<1>1. [Next]_vars /\ EntryLabel \in Keys
  BY CfgFacts DEF Next, Solve, TypeOK
<1>2. /\ h \in Keys /\ h \notin Visited
      /\ Visited' = Visited \cup {h}
      /\ Queued' \cup Visited' = Queued \cup Visited
      /\ \A m \in Keys : Arrived(m)' = Arrived(m)
  BY OrderVisit
<1>3. /\ pre' = [pre EXCEPT ![h] = newpre]
      /\ post' = [post EXCEPT ![h] = Transfer(h, newpre)]
      /\ pc = "pop" /\ pc' \in {"push", "pop"} /\ satisfied' = satisfied
  BY DEF Visit, Recompute
<1>4. \A m \in Keys : m # h => pre'[m] = pre[m] /\ post'[m] = post[m]
  BY <1>3 DEF TypeOK
<1>5. /\ pre'[h] = newpre /\ post'[h].states = Run(h, newpre.states)
      /\ pre[h].states \subseteq newpre.states
      /\ \A p \in Preds(h) : post[p].states \subseteq newpre.states
  <2>1. pre'[h] = newpre /\ post'[h] = Transfer(h, newpre)
    BY <1>2, <1>3 DEF TypeOK
  <2>2. post'[h].states = Run(h, newpre.states)
    BY <2>1 DEF Transfer
  <2>3. newpre.states = pre[h].states \cup UNION {u.states : u \in {post[p] : p \in Preds(h)}}
    BY DEF Joined
  <2>4. QED
    BY <2>1, <2>2, <2>3
<1>6. h \in Visited \cup Queued
  BY <1>2
<1>7. Visited \subseteq Keys
  BY DEF Visited, TypeOK
<1>8. \A m \in Visited' : m \in Keys /\ Preds(m) \subseteq Visited
  BY <1>2, <1>6, VisitedPreds
<1>9. Entries \subseteq pre'[EntryLabel].states
  BY <1>1, <1>3, <1>4, <1>5 DEF SolutionInv
<1>10. ASSUME NEW m \in Visited'
       PROVE  post'[m].states = Run(m, pre'[m].states)
  BY <1>2, <1>4, <1>5, <1>8 DEF SolutionInv
<1>11. ASSUME NEW b \in Visited', NEW a \in Preds(b)
       PROVE  post'[a].states \subseteq pre'[b].states
  <2>1. a \in Visited /\ a # h /\ a \in Keys /\ b \in Keys
    BY <1>2, <1>7, <1>8
  <2>2. post'[a] = post[a]
    BY <1>4, <2>1
  <2>3. CASE b = h
    BY <1>5, <2>2, <2>3
  <2>4. CASE b # h
    BY <1>2, <1>4, <2>1, <2>2, <2>4 DEF SolutionInv
  <2>5. QED
    BY <2>3, <2>4
<1>12. satisfied' = {}
  BY <1>3 DEF SolutionInv
<1>13. /\ EntryLabel \in Visited' \cup Queued'
       /\ \A m \in Keys \ {EntryLabel} :
            Preds(m) # {} /\ Arrived(m)' = Preds(m) => m \in Visited' \cup Queued'
  BY <1>2, <1>3 DEF SolutionInv
<1>14. (\A l \in Visited : post[l].states = Run(l, pre[l].states))'
  <2>1. cfg' = cfg
    BY <1>1, CfgConstant
  <2>2. QED
    BY <1>10, <2>1 DEF Run
<1>15. (\A b \in Visited : \A a \in Preds(b) : post[a].states \subseteq pre[b].states)'
  BY <1>1, <1>11, CfgConstant
<1>16. (\A l \in Keys \ {EntryLabel} :
          Preds(l) # {} /\ Arrived(l) = Preds(l) => l \in Visited \cup Queued)'
  BY <1>1, <1>13, CfgConstant
<1>17. (\A l \in Keys \ Visited : pre[l].states = Initial(l))'
  <2>1. \A l \in Keys \ Visited' : pre'[l].states = IF l = EntryLabel THEN Entries ELSE {}
    BY <1>2, <1>3, <1>4 DEF SolutionInv, Initial
  <2>2. pc' # "start"
    BY <1>3
  <2>3. QED
    BY <1>1, <2>1, <2>2, CfgConstant DEF Initial
<1>18. QED
  BY <1>1, <1>3, <1>9, <1>12, <1>13, <1>14, <1>15, <1>16, <1>17, CfgConstant DEF SolutionInv

\* A block is queued when its last predecessor arrives.
LEMMA SolutionArrive ==
  ASSUME TypeOK, OrderInv, Orderly, SolutionInv, Arrive
  PROVE  SolutionInv'
<1>1. [Next]_vars /\ EntryLabel \in Keys
  BY CfgFacts DEF Next, Solve, TypeOK
<1>2. /\ Visited' = Visited /\ Queued \subseteq Queued'
      /\ \A m \in Keys : Arrived(m)' = Preds(m) => Arrived(m) = Preds(m) \/ m \in Queued'
  BY OrderArrive
<1>3. pc = "push" /\ UNCHANGED <<cfg, pc, pre, post, satisfied>>
  BY DEF Arrive
<1>4. (\A l \in Keys \ {EntryLabel} :
          Preds(l) # {} /\ Arrived(l) = Preds(l) => l \in Visited \cup Queued)'
  BY <1>1, <1>2, CfgConstant DEF SolutionInv
<1>5. (\A l \in Visited : post[l].states = Run(l, pre[l].states))'
  BY <1>2, <1>3 DEF SolutionInv, Run
<1>6. (\A b \in Visited : \A a \in Preds(b) : post[a].states \subseteq pre[b].states)'
  <2>1. \A b \in Visited : \A a \in Preds(b) : post[a].states \subseteq pre[b].states
    BY DEF SolutionInv
  <2>2. QED
    BY <1>1, <1>2, <1>3, <2>1, CfgConstant
<1>7. (\A l \in Keys \ Visited : pre[l].states = Initial(l))'
  BY <1>1, <1>2, <1>3, CfgConstant DEF SolutionInv, Initial
<1>8. QED
  BY <1>1, <1>2, <1>3, <1>4, <1>5, <1>6, <1>7, CfgConstant DEF SolutionInv

LEMMA SolutionCheck ==
  ASSUME TypeOK, SolutionInv, Check
  PROVE  SolutionInv'
<1>1. [Next]_vars /\ Coming = {} /\ Coming' = {}
  BY DEF Next, Coming, Check
<1>2. Visited' = Visited /\ Queued' = Queued
  BY DEF Check, Visited, Queued
<1>3. pc = "check" /\ UNCHANGED <<cfg, pc, w, pre, post, cur>>
  BY DEF Check
<1>4. \A l : Arrived(l)' = Arrived(l)
  BY <1>1, <1>2, <1>3, CfgConstant DEF Arrived
<1>5. (\A l \in Keys \ {EntryLabel} :
          Preds(l) # {} /\ Arrived(l) = Preds(l) => l \in Visited \cup Queued)'
  BY <1>1, <1>2, <1>4, CfgConstant DEF SolutionInv
<1>6. (\A l \in Visited : post[l].states = Run(l, pre[l].states))'
  BY <1>2, <1>3 DEF SolutionInv, Run
<1>7. (\A b \in Visited : \A a \in Preds(b) : post[a].states \subseteq pre[b].states)'
  BY <1>1, <1>2, <1>3, CfgConstant DEF SolutionInv
<1>8. \A l \in satisfied' : pre[l].states \subseteq cfg.asserted[l]
  BY DEF Check, Holds, SolutionInv
<1>9. (\A l \in Keys \ Visited : pre[l].states = Initial(l))'
  BY <1>1, <1>2, <1>3, CfgConstant DEF SolutionInv, Initial
<1>10. QED
  BY <1>1, <1>2, <1>3, <1>5, <1>6, <1>7, <1>8, <1>9, CfgConstant DEF SolutionInv

LEMMA SolutionStep == TypeOK /\ Orderly /\ OrderInv /\ SolutionInv /\ [Next]_vars => SolutionInv'
<1> SUFFICES ASSUME TypeOK, Orderly, OrderInv, SolutionInv, [Next]_vars PROVE SolutionInv'
  OBVIOUS
<1>1. CASE Start
  BY <1>1, SolutionStart
<1>2. CASE Visit
  BY <1>2, SolutionVisit
<1>3. CASE Arrive
  BY <1>3, SolutionArrive
<1>4. CASE EndArrive
  <2>1. pos = Len(cfg.nextlist[cur]) /\ pos \in Nat
    BY <1>4 DEF EndArrive, TypeOK
  <2>2. Coming = {} /\ Coming' = {}
    BY <1>4, <2>1 DEF EndArrive, Coming
  <2>3. QED
    BY <1>4, <2>2, SolutionFrame DEF EndArrive
<1>5. CASE Dedup
  <2>1. Repeats = {}
    BY LenProperties DEF Repeats, OrderInv, IsListing, TypeOK
  <2>2. QED
    BY <1>5, <2>1 DEF Dedup
<1>6. CASE EndVisit
  BY <1>6, SolutionFrame DEF EndVisit, Coming
<1>7. CASE EndSolve
  BY <1>7, SolutionFrame DEF EndSolve, Coming
<1>8. CASE Check
  BY <1>8, SolutionCheck
<1>9. CASE EndCheck
  BY <1>9, SolutionFrame DEF EndCheck, Coming, SolutionInv
<1>10. CASE UNCHANGED vars
  BY <1>10, SolutionFrame DEF vars, Coming, SolutionInv
<1>11. QED
  BY <1>1, <1>2, <1>3, <1>4, <1>5, <1>6, <1>7, <1>8, <1>9, <1>10 DEF Next, Solve

\* In the Orderly graphs no block is forgotten whose predecessors have all been
\* counted, and the values computed so far remain a solution of the equations.
THEOREM SolutionCorrect == Spec => []NoneForgotten
<1>1. Init => NoneForgotten
  <2> SUFFICES ASSUME Init PROVE SolutionInv
    BY DEF NoneForgotten
  <2>1. Visited = {}
    BY DEF Init, Visited, Bot
  <2>2. \A l : Arrived(l) = {}
    BY <2>1 DEF Arrived
  <2>3. \A l \in Keys : pre[l].states = Initial(l)
    BY DEF Init, Initial, Bot
  <2>4. QED
    BY <2>1, <2>2, <2>3 DEF Init, SolutionInv
<1>2. TypeOK /\ OneArrivalEach /\ NoneForgotten /\ [Next]_vars => NoneForgotten'
  <2> SUFFICES ASSUME TypeOK, OneArrivalEach, NoneForgotten, [Next]_vars, Orderly'
               PROVE  SolutionInv'
    BY DEF NoneForgotten
  <2>1. Orderly
    BY CfgConstant
  <2>2. QED
    BY <2>1, SolutionStep DEF OneArrivalEach, NoneForgotten
<1>3. QED
  BY <1>1, <1>2, TypeCorrect, OrderCorrect, PTL DEF Spec

\* In an Analysable graph every block is analysed by the time the list is empty:
\* among the others, one would have no predecessor among them, and been due.
LEMMA AllAnalysed ==
  ASSUME TypeOK, OrderInv, SolutionInv, Analysable, pc = "done"
  PROVE  Visited = Keys
<1>1. Queued = {} /\ Coming = {}
  BY DEF SolutionInv, Queued, Coming
<1>2. Visited \subseteq Keys /\ EntryLabel \in Visited
  BY <1>1 DEF SolutionInv, Visited, TypeOK
<1>3. SUFFICES ASSUME Keys \ Visited # {} PROVE FALSE
  BY <1>2
<1>4. PICK l \in Keys \ Visited : Preds(l) \cap (Keys \ Visited) = {}
  BY <1>3 DEF Analysable, Acyclic
<1>5. Preds(l) \subseteq Visited
  BY <1>4, CfgFacts DEF TypeOK
<1>6. l # EntryLabel /\ Preds(l) # {}
  BY <1>2, <1>4 DEF Analysable, NoOtherSource
<1>7. Arrived(l) = Preds(l)
  BY <1>1, <1>5 DEF Arrived
<1>8. QED
  BY <1>1, <1>4, <1>6, <1>7 DEF SolutionInv

\* The result of the analysis of an Analysable graph is an inductive argument
\* for every assertion marked satisfied.
THEOREM ResultAlwaysCertified == Spec => []ResultCertified
<1>1. TypeOK /\ OneArrivalEach /\ NoneForgotten => ResultCertified
  <2> SUFFICES ASSUME TypeOK, OneArrivalEach, NoneForgotten, Analysable, pc = "done"
               PROVE  Certified
    BY DEF ResultCertified
  <2>1. OrderInv /\ SolutionInv /\ Orderly
    BY DEF OneArrivalEach, NoneForgotten, Analysable
  <2>2. Visited = Keys
    BY <2>1, AllAnalysed
  <2>3. ASSUME NEW a \in Keys, NEW b \in Succs(a)
        PROVE  Run(a, pre[a].states) \subseteq pre[b].states
    <3>1. b \in Keys /\ a \in Preds(b)
      BY <2>1, CfgFacts DEF Orderly, EdgesMatch, TypeOK
    <3>2. QED
      BY <2>1, <2>2, <3>1 DEF SolutionInv
  <2>4. QED
    BY <2>1, <2>3 DEF Certified, SolutionInv
<1>2. QED
  BY <1>1, TypeCorrect, OrderCorrect, SolutionCorrect, PTL

-----------------------------------------------------------------------------
(***************************************************************************)
(* The verdict.  Reachable is defined by iteration; what the iteration     *)
(* starts in and does not leave has all of it.                             *)
(***************************************************************************)
LEMMA KeysFinite ==
  ASSUME IsCfg(cfg)
  PROVE  IsFiniteSet(Keys) /\ Cardinality(Keys) \in Nat
<1> DEFINE s == cfg.keys
<1>1. s \in Seq(Label) /\ Len(s) \in Nat /\ s \in [1..Len(s) -> Label] /\ DOMAIN s = 1..Len(s)
  BY LenProperties DEF IsCfg
<1>2. IsFiniteSet(1..Len(s))
  BY <1>1, FS_Interval
<1>3. s \in Surjection(1..Len(s), Keys)
  BY <1>1 DEF Surjection, Keys, KeysOf
<1>4. QED
  BY <1>2, <1>3, FS_Surjection, FS_CardinalityType

LEMMA ReachableWithin ==
  ASSUME IsCfg(cfg), NEW D,
         \A s \in Entries : <<EntryLabel, s>> \in D,
         \A a \in Keys, s \in State : \A b \in Succs(a), t \in Run(a, {s}) :
            <<a, s>> \in D => <<b, t>> \in D
  PROVE  Reachable \subseteq D
<1> DEFINE U       == Keys \X State
           bound   == Cardinality(Keys) * Cardinality(State)
           from(r) == {<<b, s>> : b \in Succs(r[1]), s \in Run(r[1], {r[2]})}
           next(R) == UNION {from(r) : r \in R}
           start   == {<<EntryLabel, s>> : s \in Entries}
           body(g) == [k \in 0..bound |->
                         IF k = 0 THEN start ELSE g[k - 1] \cup next(g[k - 1])]
           Eq(g)   == g = body(g)
           reached == CHOOSE g : Eq(g)
           add     == [R \in SUBSET U |-> R \cup next(R)]
<1>1. bound \in Nat
  BY KeysFinite, FS_CardinalityType, WorklistAssumption
<1>2. start \subseteq U
  BY CfgFacts, WorklistAssumption
<1>3. ASSUME NEW r, NEW x \in from(r)
      PROVE  \E b \in Succs(r[1]), s \in Run(r[1], {r[2]}) : x = <<b, s>>
  OBVIOUS
<1> HIDE DEF from
<1>4. ASSUME NEW r \in U, NEW x \in from(r)
      PROVE  x \in U /\ (r \in D => x \in D)
  <2>1. PICK b \in Succs(r[1]), s \in Run(r[1], {r[2]}) : x = <<b, s>>
    BY <1>3
  <2>2. r = <<r[1], r[2]>> /\ r[1] \in Keys /\ r[2] \in State /\ Succs(r[1]) \subseteq Keys
    BY CfgFacts
  <2>3. Run(r[1], {r[2]}) \subseteq State
    <3>1. cfg.effect[r[1]] \subseteq State \X State
      BY <2>2 DEF IsCfg, Keys
    <3>2. QED
      BY <3>1 DEF Run
  <2>4. QED
    BY <2>1, <2>2, <2>3
<1>5. ASSUME NEW R \in SUBSET U
      PROVE  next(R) \subseteq U /\ (R \subseteq D => next(R) \subseteq D)
  BY <1>4
<1>6. Eq(reached)
  <2>1. PICK f : Iterates(f, start, add, bound)
    <3> HIDE DEF bound, start, add
    <3>1. QED
      BY <1>1, IterationExists
  <2>2. \A k \in 0..bound : f[k] \subseteq U
    <3>1. \A R \in SUBSET U : add[R] \subseteq U
      <4> HIDE DEF next
      <4>1. QED
        BY <1>5
    <3> HIDE DEF bound, start, add, U
    <3>2. QED
      BY <1>1, <1>2, <2>1, <3>1, IterationStays
  <2>3. ASSUME NEW k \in 0..bound, k # 0 PROVE f[k] = f[k - 1] \cup next(f[k - 1])
    <3>1. f[k - 1] \subseteq U
      BY <1>1, <2>2, <2>3
    <3>2. f[k] = add[f[k - 1]]
      <4> HIDE DEF add, start, bound
      <4>1. QED
        BY <2>1, <2>3 DEF Iterates
    <3> HIDE DEF next, U, bound
    <3>3. QED
      BY <3>1, <3>2
  <2>4. f[0] = start /\ f = [k \in 0..bound |-> f[k]]
    BY <1>1, <2>1 DEF Iterates
  <2>5. Eq(f)
    <3> HIDE DEF next, start, bound
    <3>1. QED
      BY <2>3, <2>4
  <2> HIDE DEF Eq
  <2>6. QED
    BY <2>5
<1> HIDE DEF reached
<1>7. Reachable = reached[bound]
  BY DEF Reachable, reached, from
<1> DEFINE G == {k \in 0..bound : reached[k] \subseteq U \cap D}
<1>8. \A k \in 0..bound :
        reached[k] = IF k = 0 THEN start ELSE reached[k - 1] \cup next(reached[k - 1])
  <2> TAKE k \in 0..bound
  <2>1. body(reached)[k] = IF k = 0 THEN start ELSE reached[k - 1] \cup next(reached[k - 1])
    <3> HIDE DEF next, start, bound
    <3>1. QED
      OBVIOUS
  <2>2. reached = body(reached)
    BY <1>6
  <2> HIDE DEF body
  <2>3. QED
    BY <2>1, <2>2
<1>9. 0 \in G
  <2>1. 0 \in 0..bound
    BY <1>1
  <2>2. reached[0] = start
    <3> HIDE DEF next, start, bound
    <3>1. QED
      BY <2>1, <1>8, Zenon
  <2>3. QED
    BY <1>1, <1>2, <2>2
<1>10. ASSUME NEW k \in 0..bound - 1, k \in G PROVE k + 1 \in G
  <2> HIDE DEF next, start, bound
  <2>1. k + 1 \in 0..bound /\ k + 1 # 0 /\ (k + 1) - 1 = k
    BY <1>1
  <2>2. reached[k + 1] = reached[k] \cup next(reached[k])
    <3>1. reached[k + 1] = reached[(k + 1) - 1] \cup next(reached[(k + 1) - 1])
      BY <1>8, <2>1
    <3>2. QED
      BY <2>1, <3>1
  <2>3. next(reached[k]) \subseteq U \cap D
    BY <1>10, <1>5
  <2>4. QED
    BY <1>1, <1>10, <2>1, <2>2, <2>3
<1>11. 0..bound \subseteq G
  <2> HIDE DEF G, bound
  <2>1. QED
    BY <1>1, <1>9, <1>10, IntervalInduction
<1>12. QED
  BY <1>1, <1>7, <1>11

\* An assertion marked satisfied in an Analysable graph fails in no execution
\* of the program (analyze_rcp): the certificate is carried along each one.
THEOREM SatisfiedAlwaysSafe == Spec => []SatisfiedIsSafe
<1>1. TypeOK /\ ResultCertified => SatisfiedIsSafe
  <2> SUFFICES ASSUME TypeOK, ResultCertified, Analysable, pc = "done"
               PROVE  \A r \in Reachable : r[1] \in satisfied => r[2] \in cfg.asserted[r[1]]
    BY DEF SatisfiedIsSafe, SafeVerdict
  <2>1. Certified
    BY DEF ResultCertified
  <2> DEFINE D == {r \in Keys \X State : r[2] \in pre[r[1]].states}
  <2>2. \A s \in Entries : <<EntryLabel, s>> \in D
    BY <2>1, CfgFacts, WorklistAssumption DEF Certified, TypeOK
  <2>3. ASSUME NEW a \in Keys, NEW s \in State, NEW b \in Succs(a), NEW t \in Run(a, {s}),
               <<a, s>> \in D
        PROVE  <<b, t>> \in D
    <3>1. t \in Run(a, pre[a].states)
      BY <2>3 DEF Run
    <3>2. b \in Keys /\ t \in pre[b].states
      BY <2>1, <3>1, CfgFacts DEF Certified, TypeOK
    <3>3. pre[b].states \subseteq State
      BY <3>2 DEF TypeOK, Value
    <3>4. QED
      BY <3>2, <3>3
  <2>4. Reachable \subseteq D
    <3> HIDE DEF D
    <3>1. QED
      BY <2>2, <2>3, ReachableWithin DEF TypeOK
  <2>5. QED
    BY <2>1, <2>4 DEF Certified
<1>2. QED
  BY <1>1, TypeCorrect, ResultAlwaysCertified, PTL

-----------------------------------------------------------------------------
(***************************************************************************)
(* Blocks that run again.  RerunInv is inductive in the graphs of which    *)
(* the two lists of edges agree, whatever goes back to the entry.          *)
(***************************************************************************)
LEMMA RerunFrame ==
  ASSUME TypeOK, RerunInv, [Next]_vars,
         UNCHANGED <<count, pre, post, cur>>,
         Queued' = Queued, Coming' = Coming,
         pc' \in {"check", "done"} => w' = <<>>
  PROVE  RerunInv'
<1>1. Visited' = Visited
  BY DEF Visited
<1>2. \A l : Arrived(l)' = Arrived(l)
  BY <1>1, CfgConstant DEF Arrived
<1>3. QED
  BY <1>1, <1>2, CfgConstant DEF RerunInv

LEMMA RerunStart ==
  ASSUME TypeOK, Start
  PROVE  RerunInv'
<1>1. Visited' = {}
  BY DEF Start, Visited, Bot
<1>2. \A l \in Keys : Arrived(l)' = {}
  BY <1>1 DEF Arrived
<1>3. \A l \in Keys : count'[l] >= Cardinality({})
  BY FS_EmptySet DEF Start
<1>4. Keys' = Keys
  BY DEF Start, Keys
<1>5. QED
  BY <1>1, <1>2, <1>3, <1>4 DEF RerunInv, Start

\* A block that is run joins the latest values of its predecessors, and when
\* its own has changed, it is about to tell its successors.
LEMMA RerunVisit ==
  ASSUME TypeOK, RerunInv, EdgesMatch, Visit
  PROVE  RerunInv'
<1> DEFINE l      == Head(w)
           newpre == Joined(pre[l], {post[p] : p \in Preds(l)})
           dom    == Transfer(l, newpre)
<1>1. [Next]_vars /\ IsCfg(cfg)
  BY DEF Next, Solve, TypeOK
<1>2. /\ l \in Keys
      /\ \A b \in Queued : b = l \/ b \in Queued'
  <2>1. /\ l \in Keys /\ l = w[1] /\ Len(w) \in Nat \ {0} /\ DOMAIN w = 1..Len(w)
        /\ w' = Tail(w) /\ DOMAIN Tail(w) = 1..Len(w) - 1
        /\ \A i \in 1..Len(w) - 1 : Tail(w)[i] = w[i + 1]
    BY HeadTailProperties, LenProperties, EmptySeq DEF Visit, TypeOK
  <2>2. ASSUME NEW b \in Queued, b # l PROVE b \in Queued'
    <3>1. PICK i \in 1..Len(w) : w[i] = b
      BY <2>1 DEF Queued
    <3>2. i - 1 \in 1..Len(w) - 1 /\ Tail(w)[i - 1] = b
      BY <2>1, <2>2, <3>1
    <3>3. QED
      BY <2>1, <3>2 DEF Queued
  <2>3. QED
    BY <2>1, <2>2
<1>3. /\ post' = [post EXCEPT ![l] = dom] /\ pre' = [pre EXCEPT ![l] = newpre]
      /\ pc' = (IF post[l] # dom THEN "push" ELSE "pop")
      /\ cur' = l /\ pos' = 0 /\ count' = count /\ pc = "pop"
  BY DEF Visit, Recompute, Changed
<1>4. Coming = {} /\ (pc' = "push" => Coming' = Succs(l)) /\ (pc' # "push" => Coming' = {})
  <2>1. cfg.nextlist[l] \in Seq(Keys)
    BY <1>1, <1>2, CfgFacts
  <2>2. DOMAIN cfg.nextlist[l] = 1..Len(cfg.nextlist[l])
    BY <2>1, LenProperties
  <2>3. Coming' = IF pc' = "push"
                  THEN {cfg.nextlist[l][i] : i \in (0 + 1)..Len(cfg.nextlist[l])} ELSE {}
    BY <1>1, <1>3, CfgConstant DEF Coming
  <2>4. Coming' = IF pc' = "push" THEN Succs(l) ELSE {}
    BY <2>2, <2>3 DEF Succs
  <2>5. QED
    BY <1>3, <2>4 DEF Coming
<1>5. /\ \A b \in Keys : b # l => post'[b] = post[b] /\ pre'[b] = pre[b]
      /\ post'[l] = dom /\ pre'[l] = newpre
      /\ DOMAIN post = Keys /\ DOMAIN post' = Keys
  BY <1>2, <1>3 DEF TypeOK
<1>6. Visited \subseteq Visited' /\ Visited' \subseteq Visited \cup {l} /\ Visited \subseteq Keys
  <2>1. \A b \in Visited : b \in Visited'
    <3>1. l \in Visited => ~ dom.bot
      BY DEF RerunInv, Joined, Transfer
    <3>2. QED
      BY <1>5, <3>1 DEF Visited
  <2>2. QED
    BY <1>5, <2>1 DEF Visited
<1>7. ASSUME NEW m \in Keys
      PROVE  count'[m] >= Cardinality(Arrived(m)')
  <2>1. Arrived(m)' \subseteq Arrived(m)
    <3>1. CASE pc' = "push"
      <4>1. \A p \in Preds(m) : p = l => m \in Succs(l)
        BY <1>2, <1>1, CfgFacts DEF EdgesMatch
      <4>2. QED
        BY <1>1, <1>3, <1>4, <1>6, <3>1, <4>1, CfgConstant DEF Arrived
    <3>2. CASE pc' # "push"
      <4>1. Visited' = Visited
        BY <1>3, <1>5, <3>2 DEF Visited
      <4>2. QED
        BY <1>1, <1>4, <3>2, <4>1, CfgConstant DEF Arrived
    <3>3. QED
      BY <3>1, <3>2
  <2>2. IsFiniteSet(Arrived(m))
    <3>1. Arrived(m) \subseteq Preds(m)
      BY DEF Arrived
    <3>2. QED
      BY <1>1, <3>1, PredsFinite, FS_Subset
  <2>3. /\ Cardinality(Arrived(m)') <= Cardinality(Arrived(m))
        /\ Cardinality(Arrived(m)) \in Nat /\ Cardinality(Arrived(m)') \in Nat
    BY <2>1, <2>2, FS_Subset, FS_CardinalityType
  <2>4. count'[m] >= Cardinality(Arrived(m)) /\ count[m] \in Nat
    BY <1>3 DEF RerunInv, TypeOK
  <2>5. QED
    BY <1>3, <2>3, <2>4
<1>8. ASSUME NEW b \in Visited' PROVE ~ pre'[b].bot
  <2>1. CASE b = l
    <3>1. ~ dom.bot
      BY <1>5, <2>1 DEF Visited
    <3>2. QED
      BY <1>5, <2>1, <3>1 DEF Transfer
  <2>2. CASE b # l
    BY <1>5, <1>6, <2>2 DEF RerunInv
  <2>3. QED
    BY <2>1, <2>2
<1>9. ASSUME NEW b \in Visited', Preds(b) \subseteq Visited', NEW a \in Preds(b)
      PROVE  post'[a].states \subseteq pre'[b].states \/ b \in Queued' \cup Coming'
  <2>0. b \in Keys /\ a \in Keys
    BY <1>1, <1>2, <1>6, CfgFacts
  <2>1. CASE l \in Preds(b) /\ pc' = "push"
    <3>1. b \in Succs(l)
      BY <1>2, <2>0, <2>1 DEF EdgesMatch
    <3>2. QED
      BY <1>4, <2>1, <3>1
  <2>2. CASE b = l /\ ~(l \in Preds(b) /\ pc' = "push")
    <3>1. post'[a] = post[a]
      BY <1>3, <1>5, <2>0, <2>2
    <3>2. post[a].states \subseteq newpre.states
      BY <1>9, <2>2 DEF Joined
    <3>3. QED
      BY <1>5, <2>2, <3>1, <3>2
  <2>3. CASE b # l /\ ~(l \in Preds(b) /\ pc' = "push")
    <3>1. post'[a] = post[a] /\ pre'[b] = pre[b]
      BY <1>3, <1>5, <1>9, <2>0, <2>3
    <3>2. b \in Visited /\ Preds(b) \subseteq Visited
      <4>1. pc' # "push" => Visited' = Visited
        BY <1>3, <1>5 DEF Visited
      <4>2. QED
        BY <1>6, <1>9, <2>3, <4>1
    <3>3. post[a].states \subseteq pre[b].states \/ b \in Queued
      BY <1>4, <3>2, <1>9 DEF RerunInv
    <3>4. QED
      BY <1>2, <2>3, <3>1, <3>3
  <2>4. QED
    BY <2>1, <2>2, <2>3
<1>10. pc' \notin {"check", "done"}
  BY <1>3
<1>11. QED
  BY <1>1, <1>7, <1>8, <1>9, <1>10, CfgConstant DEF RerunInv

\* A block that has now counted all its predecessors is due, and is queued.
LEMMA RerunArrive ==
  ASSUME TypeOK, RerunInv, EdgesMatch, Arrive
  PROVE  RerunInv'
<1> PICK next : next = cfg.nextlist[cur][pos + 1]
  OBVIOUS
<1>1. [Next]_vars /\ IsCfg(cfg)
  BY DEF Next, Solve, TypeOK
<1>2. /\ pc' = "push" /\ cur' = cur /\ post' = post /\ pre' = pre
      /\ count' = [count EXCEPT ![next] = @ + 1]
      /\ w' = IF count[next] + 1 >= Len(cfg.prevlist[next]) THEN Append(w, next) ELSE w
  BY DEF Arrive, Due
<1>3. next \in Keys /\ next \in Coming /\ Coming' = Coming \ {next}
  BY ArriveComing
<1>4. Visited' = Visited
  BY <1>2 DEF Visited
<1>5. Queued \subseteq Queued'
  <2>1. CASE w' = w
    BY <2>1 DEF Queued
  <2>2. CASE w' = Append(w, next)
    <3>1. /\ Len(w) \in Nat /\ DOMAIN w = 1..Len(w) /\ DOMAIN w' = 1..Len(w) + 1
          /\ \A i \in 1..Len(w) : w'[i] = w[i]
      BY <1>3, <2>2, AppendProperties, LenProperties DEF TypeOK
    <3>2. QED
      BY <3>1 DEF Queued
  <2>3. QED
    BY <1>2, <2>1, <2>2
<1>6. ASSUME NEW m \in Keys
      PROVE  Arrived(m)' = {p \in Preds(m) : p \in Visited /\ ~ (p = cur /\ m \in Coming \ {next})}
  BY <1>1, <1>2, <1>3, <1>4, CfgConstant DEF Arrived
<1>7. ASSUME NEW m \in Keys
      PROVE  count'[m] >= Cardinality(Arrived(m)')
  <2>1. IsFiniteSet(Arrived(m)) /\ Cardinality(Arrived(m)) \in Nat
    <3>1. Arrived(m) \subseteq Preds(m)
      BY DEF Arrived
    <3>2. QED
      BY <1>1, <3>1, PredsFinite, FS_Subset, FS_CardinalityType
  <2>2. count[m] >= Cardinality(Arrived(m)) /\ count[m] \in Nat
    BY DEF RerunInv, TypeOK
  <2>3. CASE m = next
    <3>1. Arrived(m)' \subseteq Arrived(m) \cup {cur}
      BY <1>6 DEF Arrived
    <3>2. /\ IsFiniteSet(Arrived(m) \cup {cur})
          /\ Cardinality(Arrived(m) \cup {cur}) \in Nat
          /\ Cardinality(Arrived(m) \cup {cur}) <= Cardinality(Arrived(m)) + 1
      <4> DEFINE S == Arrived(m)
      <4>1. IsFiniteSet(S) /\ Cardinality(S) \in Nat
        BY <2>1
      <4> HIDE DEF S
      <4>2. /\ IsFiniteSet(S \cup {cur})
            /\ \/ Cardinality(S \cup {cur}) = Cardinality(S)
               \/ Cardinality(S \cup {cur}) = Cardinality(S) + 1
        BY <4>1, FS_AddElement
      <4>3. /\ Cardinality(S \cup {cur}) \in Nat
            /\ Cardinality(S \cup {cur}) <= Cardinality(S) + 1
        BY <4>1, <4>2
      <4>4. QED
        BY <4>2, <4>3 DEF S
    <3>3. /\ Cardinality(Arrived(m)') <= Cardinality(Arrived(m) \cup {cur})
          /\ Cardinality(Arrived(m)') \in Nat
      BY <3>1, <3>2, FS_Subset, FS_CardinalityType
    <3>4. count'[m] = count[m] + 1
      BY <1>2, <2>3 DEF TypeOK
    <3>5. QED
      BY <2>1, <2>2, <3>2, <3>3, <3>4
  <2>4. CASE m # next
    <3>1. Arrived(m)' = Arrived(m)
      BY <1>3, <1>6, <2>4 DEF Arrived
    <3>2. count'[m] = count[m]
      BY <1>2, <2>4 DEF TypeOK
    <3>3. QED
      BY <2>2, <3>1, <3>2
  <2>5. QED
    BY <2>3, <2>4
<1>8. ASSUME Preds(next) \subseteq Visited
      PROVE  next \in Queued'
  <2>1. Arrived(next)' = Preds(next)
    BY <1>3, <1>6, <1>8
  <2>2. count'[next] >= Len(cfg.prevlist[next])
    BY <1>1, <1>3, <1>7, <2>1, PredsFinite DEF EdgesMatch
  <2>3. w' = Append(w, next)
    BY <1>2, <1>3, <2>2 DEF TypeOK
  <2>4. Len(w) + 1 \in DOMAIN w' /\ w'[Len(w) + 1] = next
    BY <1>3, <2>3, AppendProperties, LenProperties DEF TypeOK
  <2>5. QED
    BY <2>4 DEF Queued
<1>9. ASSUME NEW b \in Visited', Preds(b) \subseteq Visited', NEW a \in Preds(b)
      PROVE  post'[a].states \subseteq pre'[b].states \/ b \in Queued' \cup Coming'
  <2>1. post[a].states \subseteq pre[b].states \/ b \in Queued \cup Coming
    BY <1>4, <1>9 DEF RerunInv
  <2>2. b = next => b \in Queued'
    BY <1>4, <1>8, <1>9
  <2>3. QED
    BY <1>2, <1>3, <1>5, <2>1, <2>2
<1>10. QED
  BY <1>1, <1>2, <1>4, <1>7, <1>9, CfgConstant DEF RerunInv

LEMMA RerunStep == TypeOK /\ EdgesMatch /\ RerunInv /\ [Next]_vars => RerunInv'
<1> SUFFICES ASSUME TypeOK, EdgesMatch, RerunInv, [Next]_vars PROVE RerunInv'
  OBVIOUS
<1>1. CASE Start
  BY <1>1, RerunStart
<1>2. CASE Visit
  BY <1>2, RerunVisit
<1>3. CASE Arrive
  BY <1>3, RerunArrive
<1>4. CASE EndArrive
  <2>1. pos = Len(cfg.nextlist[cur]) /\ pos \in Nat
    BY <1>4 DEF EndArrive, TypeOK
  <2>2. Coming = {} /\ Coming' = {}
    BY <1>4, <2>1 DEF EndArrive, Coming
  <2>3. QED
    BY <1>4, <2>2, RerunFrame DEF EndArrive, Queued
<1>5. CASE Dedup
  <2>1. PICK i \in Repeats : w' = SubSeq(w, 1, i) \o SubSeq(w, i + 2, Len(w))
    BY <1>5 DEF Dedup
  <2>2. i \in Int /\ i >= 1 /\ i < Len(w) /\ Len(w) \in Nat /\ w[i] = w[i + 1]
    BY LenProperties DEF Repeats, TypeOK
  <2>3. \A k \in 1..Len(w) : w[k] \in Keys
    BY ElementOfSeq DEF TypeOK
  <2>4. /\ SubSeq(w, 1, i) \in Seq(Keys) /\ Len(SubSeq(w, 1, i)) = i
        /\ \A k \in 1..i : SubSeq(w, 1, i)[k] = w[k]
    BY <2>2, <2>3, SubSeqProperties
  <2>5. /\ SubSeq(w, i + 2, Len(w)) \in Seq(Keys)
        /\ Len(SubSeq(w, i + 2, Len(w))) = Len(w) - i - 1
        /\ \A k \in 1..Len(w) - i - 1 : SubSeq(w, i + 2, Len(w))[k] = w[k + i + 1]
    BY <2>2, <2>3, SubSeqProperties
  <2>6. /\ Len(w') = Len(w) - 1 /\ DOMAIN w' = 1..Len(w) - 1
        /\ \A k \in 1..i : w'[k] = w[k]
        /\ \A k \in i + 1..Len(w) - 1 : w'[k] = w[k + 1]
    BY <2>1, <2>2, <2>4, <2>5, ConcatProperties, LenProperties
  <2>7. DOMAIN w = 1..Len(w)
    BY LenProperties DEF TypeOK
  <2>8. \A k \in 1..Len(w) - 1 : w'[k] \in Queued
    <3>1. ASSUME NEW k \in 1..Len(w) - 1 PROVE w'[k] = w[k] \/ w'[k] = w[k + 1]
      BY <2>2, <2>6
    <3>2. QED
      BY <2>2, <2>7, <3>1 DEF Queued
  <2>9. \A k \in 1..Len(w) : w[k] \in Queued'
    <3>1. ASSUME NEW k \in 1..Len(w), k <= i PROVE w[k] \in Queued'
      BY <2>2, <2>6, <3>1 DEF Queued
    <3>2. ASSUME NEW k \in 1..Len(w), k > i + 1 PROVE w[k] \in Queued'
      <4>1. k - 1 \in i + 1..Len(w) - 1 /\ k - 1 \in 1..Len(w) - 1 /\ (k - 1) + 1 = k
        BY <2>2, <3>2
      <4>2. w'[k - 1] = w[k]
        BY <2>6, <4>1
      <4>3. QED
        BY <2>6, <4>1, <4>2 DEF Queued
    <3>3. QED
      BY <2>2, <3>1, <3>2
  <2>10. Queued' = Queued
    BY <2>6, <2>7, <2>8, <2>9 DEF Queued
  <2>11. QED
    BY <1>5, <2>10, RerunFrame DEF Dedup, Coming
<1>6. CASE EndVisit
  BY <1>6, RerunFrame DEF EndVisit, Coming, Queued
<1>7. CASE EndSolve
  BY <1>7, RerunFrame DEF EndSolve, Coming, Queued
<1>8. CASE Check
  BY <1>8, RerunFrame DEF Check, Coming, Queued, RerunInv
<1>9. CASE EndCheck
  BY <1>9, RerunFrame DEF EndCheck, Coming, Queued, RerunInv
<1>10. CASE UNCHANGED vars
  BY <1>10, RerunFrame DEF vars, Coming, Queued, RerunInv
<1>11. QED
  BY <1>1, <1>2, <1>3, <1>4, <1>5, <1>6, <1>7, <1>8, <1>9, <1>10 DEF Next, Solve

\* When the list runs empty no block is left with an input older than the
\* outputs it is joined from (worklist), in any graph of which the two lists
\* of edges agree: a change is told to each successor, and one that has
\* counted all its predecessors is queued again at each arrival.
THEOREM InputsAlwaysFresh == Spec => []NoStaleInput
<1>1. Init => NoChangeLost
  <2> SUFFICES ASSUME Init PROVE RerunInv
    BY DEF NoChangeLost
  <2>1. Visited = {}
    BY DEF Init, Visited, Bot
  <2>2. \A l : Arrived(l) = {}
    BY <2>1 DEF Arrived
  <2>3. \A l \in Keys : count[l] >= Cardinality(Arrived(l))
    <3> SUFFICES ASSUME NEW l \in Keys PROVE count[l] >= Cardinality(Arrived(l))
      OBVIOUS
    <3>1. count[l] = 0
      BY DEF Init
    <3>2. Cardinality(Arrived(l)) = 0
      BY <2>2, FS_EmptySet
    <3>3. QED
      BY <3>1, <3>2
  <2>4. QED
    BY <2>1, <2>3 DEF Init, RerunInv
<1>2. TypeOK /\ NoChangeLost /\ [Next]_vars => NoChangeLost'
  <2> SUFFICES ASSUME TypeOK, NoChangeLost, [Next]_vars, EdgesMatch'
               PROVE  RerunInv'
    BY DEF NoChangeLost
  <2>1. EdgesMatch
    BY CfgConstant DEF EdgesMatch
  <2>2. QED
    BY <2>1, RerunStep DEF NoChangeLost
<1>3. NoChangeLost => NoStaleInput
  <2>1. pc \in {"check", "done"} /\ w = <<>> => Coming = {} /\ Queued = {}
    BY DEF Coming, Queued
  <2>2. QED
    BY <2>1 DEF NoChangeLost, RerunInv, NoStaleInput
<1>4. QED
  BY <1>1, <1>2, <1>3, TypeCorrect, PTL DEF Spec

-----------------------------------------------------------------------------
(***************************************************************************)
(* Worklist implements the safety part of DataFlow: each step is a Solve,  *)
(* a Judge, or changes neither the values nor the verdicts.                *)
(***************************************************************************)

\* The two modules speak of the same graph.
LEMMA SameGraph ==
  /\ Abstract!Keys = Keys /\ Abstract!EntryLabel = EntryLabel
  /\ \A l : Abstract!Preds(l) = Preds(l)
  /\ \A l, S : Abstract!Run(l, S) = Run(l, S)
  /\ \A l : Abstract!Initial(l) = IF l = EntryLabel THEN Entries ELSE {}
BY DEF Abstract!Keys, Abstract!KeysOf, Keys, KeysOf, Abstract!EntryLabel, EntryLabel, Abstract!Preds, Preds,
       Abstract!Run, Run, Abstract!Initial

LEMMA RefinesInit == Init => Abstract!Init
<1> SUFFICES ASSUME Init PROVE Abstract!Init
  OBVIOUS
<1>1. Visited = {}
  BY DEF Init, Visited, Bot
<1>2. Values = [l \in {} |-> {}]
  BY <1>1 DEF Values
<1>3. QED
  BY <1>2 DEF Init, Abstract!Init

\* The value recompute gives a block is the abstract one.
LEMMA RefinesVisit ==
  ASSUME TypeOK, OrderInv, SolutionInv, Orderly, Visit
  PROVE  Abstract!Solve(Head(w))
<1> PICK h : h = Head(w)
  OBVIOUS
<1> PICK newpre : newpre = Joined(pre[h], {post[p] : p \in Preds(h)})
  OBVIOUS
<1>1. [Next]_vars /\ Orderly
  BY DEF Next, Solve
<1>2. /\ h \in Keys /\ h \notin Visited
      /\ Visited' = Visited \cup {h}
      /\ Queued' \cup Visited' = Queued \cup Visited
  BY <1>1, OrderVisit
<1>3. Preds(h) \subseteq Visited /\ Visited \subseteq Keys
  BY <1>1, <1>2, VisitedPreds DEF Visited, TypeOK
<1>4. DOMAIN Values = Visited /\ \A l \in Visited : Values[l] = pre[l].states
  BY DEF Values
<1>5. Abstract!Solvable(h)
  <2>1. h # EntryLabel => Preds(h) # {}
    BY <1>2 DEF OrderInv, Visit, Queued
  <2>2. QED
    BY <1>2, <1>3, <1>4, <2>1, SameGraph DEF Abstract!Solvable
<1>6. pre' = [pre EXCEPT ![h] = newpre] /\ pc = "pop"
  BY DEF Visit, Recompute
<1>7. newpre.states = Abstract!ValueOf(h)
  <2>1. newpre.states = pre[h].states \cup UNION {u.states : u \in {post[p] : p \in Preds(h)}}
    BY DEF Joined
  <2>2. pre[h].states = Abstract!Initial(h)
    BY <1>2, <1>6, SameGraph DEF SolutionInv, Initial
  <2>3. \A p \in Preds(h) : post[p].states = Abstract!Run(p, Values[p])
    BY <1>3, <1>4, SameGraph DEF SolutionInv
  <2>4. UNION {u.states : u \in {post[p] : p \in Preds(h)}}
          = UNION {Abstract!Run(p, Values[p]) : p \in Preds(h) \cap DOMAIN Values}
    BY <1>3, <1>4, <2>3
  <2>5. QED
    BY <2>1, <2>2, <2>4, SameGraph DEF Abstract!ValueOf
<1>8. Values' = [m \in Visited \cup {h} |-> IF m = h THEN newpre.states ELSE Values[m]]
  <2>1. Values' = [m \in Visited \cup {h} |-> pre'[m].states]
    BY <1>2 DEF Values
  <2>2. \A m \in Visited \cup {h} :
          pre'[m].states = IF m = h THEN newpre.states ELSE Values[m]
    BY <1>2, <1>3, <1>4, <1>6 DEF TypeOK
  <2>3. QED
    BY <2>1, <2>2
<1>9. cfg' = cfg /\ satisfied' = satisfied
  BY DEF Visit
<1>10. Abstract!Solve(h)
  BY <1>4, <1>5, <1>7, <1>8, <1>9 DEF Abstract!Solve
<1>11. QED
  BY <1>10

\* When the assertions are checked no block is left that could be analysed.
LEMMA NoneLeft ==
  ASSUME TypeOK, OrderInv, SolutionInv, Orderly, pc = "check"
  PROVE  \A l \in Keys : ~ Abstract!Solvable(l)
<1>1. Queued = {} /\ Coming = {}
  BY DEF SolutionInv, Queued, Coming
<1>2. SUFFICES ASSUME NEW l \in Keys, l \notin Visited,
                      (l = EntryLabel) \/ (Preds(l) # {} /\ Preds(l) \subseteq Visited)
               PROVE  FALSE
  BY SameGraph DEF Abstract!Solvable, Values
<1>3. l # EntryLabel /\ Preds(l) # {}
  BY <1>1, <1>2, SameGraph DEF SolutionInv, Abstract!Solvable, Values
<1>4. Arrived(l) = Preds(l)
  BY <1>1, <1>2, <1>3 DEF Arrived
<1>5. QED
  BY <1>1, <1>2, <1>3, <1>4 DEF SolutionInv

LEMMA RefinesCheck ==
  ASSUME TypeOK, OrderInv, SolutionInv, Orderly, Check
  PROVE  [Abstract!Next]_(Abstract!vars)
<1> PICK l : l = cfg.keys[pos + 1]
  OBVIOUS
<1>1. /\ pc = "check" /\ UNCHANGED <<cfg, pre, post>>
      /\ satisfied' = IF Holds(l) THEN satisfied \cup {l} ELSE satisfied
  BY DEF Check
<1>2. Values' = Values
  BY <1>1 DEF Values, Visited
<1>3. CASE Holds(l) /\ l \notin satisfied
  <2>1. Len(cfg.keys) \in Nat
    BY LenProperties DEF IsCfg, TypeOK
  <2>2. l \in Keys
    BY <2>1, CfgFacts DEF Check, TypeOK
  <2>3. Abstract!Holds(l)
    BY <1>3 DEF Holds, Abstract!Holds, Values
  <2>4. Abstract!Judge(l)
    BY <1>1, <1>2, <1>3, <2>2, <2>3, NoneLeft, SameGraph DEF Abstract!Judge
  <2>5. QED
    BY <2>2, <2>4, SameGraph DEF Abstract!Next
<1>4. CASE ~ (Holds(l) /\ l \notin satisfied)
  <2>1. satisfied' = satisfied
    BY <1>1, <1>4
  <2>2. QED
    BY <1>1, <1>2, <2>1 DEF Abstract!vars
<1>5. QED
  BY <1>3, <1>4

\* Every step of the loop that pops nothing, and the constructor, stutter.
LEMMA RefinesOther ==
  ASSUME TypeOK, OrderInv, [Next]_vars, ~ Visit, ~ Check
  PROVE  UNCHANGED Abstract!vars
<1>1. CASE Start
  <2>1. Visited = {} /\ Visited' = {}
    BY <1>1 DEF OrderInv, Start, Visited, Bot
  <2>2. Values' = Values
    BY <2>1 DEF Values
  <2>3. QED
    BY <1>1, <2>2 DEF Start, Abstract!vars
<1>2. CASE ~ Start
  <2>1. UNCHANGED <<cfg, pre, post, satisfied>>
    BY <1>2 DEF Next, Solve, Arrive, EndArrive, Dedup, EndVisit, EndSolve, EndCheck, vars
  <2>2. QED
    BY <2>1 DEF Values, Visited, Abstract!vars
<1>3. QED
  BY <1>1, <1>2

LEMMA RefinesStep ==
  TypeOK /\ OrderInv /\ SolutionInv /\ Orderly /\ [Next]_vars
    => [Abstract!Next]_(Abstract!vars)
<1> SUFFICES ASSUME TypeOK, OrderInv, SolutionInv, Orderly, [Next]_vars
             PROVE  [Abstract!Next]_(Abstract!vars)
  OBVIOUS
<1>1. CASE Visit
  <2>1. Head(w) \in Keys
    BY <1>1, OrderVisit
  <2>2. QED
    BY <1>1, <2>1, RefinesVisit, SameGraph DEF Abstract!Next
<1>2. CASE Check
  BY <1>2, RefinesCheck
<1>3. CASE ~ Visit /\ ~ Check
  BY <1>3, RefinesOther
<1>4. QED
  BY <1>1, <1>2, <1>3

\* Where nothing goes back to the entry, dead code and cycles or not, worklist
\* and analyze_rcp do what DataFlow allows:
\* whatever is true of every behaviour of DataFlow is true of the values and
\* the verdicts of the analysis.
THEOREM ImplementsDataFlow == Spec /\ Orderly => Abstract!Safety
<1>1. Orderly /\ [Next]_vars => Orderly'
  BY CfgConstant
<1>2. TypeOK /\ OneArrivalEach /\ NoneForgotten /\ Orderly /\ [Next]_vars
        => [Abstract!Next]_(Abstract!vars)
  BY RefinesStep DEF OneArrivalEach, NoneForgotten
<1>3. QED
  BY <1>1, <1>2, RefinesInit, TypeCorrect, OrderCorrect, SolutionCorrect, PTL
     DEF Spec, Abstract!Safety

=============================================================================
