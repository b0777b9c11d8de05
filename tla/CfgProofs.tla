----------------------------- MODULE CfgProofs -----------------------------
(***************************************************************************)
(* For every set of programs: the two lists of edges of a Cfg agree        *)
(* through make, to_nondet and simplify, and simplify leaves no chain,     *)
(* when no conditional jump goes to its own fallthrough; and the graph     *)
(* shows the items of the program, each once, in the order in which the    *)
(* program runs them, after to_nondet and through every merge; and a       *)
(* program without loops and dead code ends as a graph that the worklist   *)
(* covers whole.                                                           *)
(***************************************************************************)
EXTENDS CfgProperties, Iteration, SequenceTheorems

-----------------------------------------------------------------------------
(***************************************************************************)
(* How often a list names a label.                                         *)
(***************************************************************************)
LEMMA OccurrencesFinite ==
  ASSUME NEW S, NEW s \in Seq(S), NEW x
  PROVE  /\ IsFiniteSet({k \in DOMAIN s : s[k] = x}) /\ Occurrences(s, x) \in Nat
         /\ Occurrences(s, x) = 0 <=> x \notin ToSet(s)
<1>1. IsFiniteSet(1 .. Len(s)) /\ DOMAIN s = 1 .. Len(s)
  BY FS_Interval
<1>2. PICK T : T = {k \in DOMAIN s : s[k] = x}
  OBVIOUS
<1>3. IsFiniteSet(T)
  BY <1>1, <1>2, FS_Subset
<1>4. Cardinality(T) \in Nat /\ (Cardinality(T) = 0 <=> T = {})
  BY <1>3, FS_CardinalityType, FS_EmptySet
<1>5. T = {} <=> x \notin ToSet(s)
  BY <1>2 DEF ToSet
<1>6. QED
  BY <1>2, <1>3, <1>4, <1>5 DEF Occurrences

LEMMA OccurrencesAppend ==
  ASSUME NEW S, NEW s \in Seq(S), NEW y \in S, NEW x
  PROVE  Occurrences(Append(s, y), x) = Occurrences(s, x) + (IF x = y THEN 1 ELSE 0)
<1>1. PICK t : t = Append(s, y)
  OBVIOUS
<1>2. /\ DOMAIN s = 1 .. Len(s) /\ Len(s) \in Nat /\ DOMAIN t = 1 .. Len(s) + 1
      /\ \A k \in 1 .. Len(s) : t[k] = s[k]
      /\ t[Len(s) + 1] = y
  BY <1>1
<1>3. PICK T, U : T = {k \in DOMAIN s : s[k] = x} /\ U = {k \in DOMAIN t : t[k] = x}
  OBVIOUS
<1>4. U = IF x = y THEN T \cup {Len(s) + 1} ELSE T
  BY <1>2, <1>3
<1>5. IsFiniteSet(T)
  BY <1>3, OccurrencesFinite
<1>6. Len(s) + 1 \notin T
  BY <1>2, <1>3
<1>7. Cardinality(T \cup {Len(s) + 1}) = Cardinality(T) + 1
  BY <1>5, <1>6, FS_AddElement
<1>8. Cardinality(T) \in Nat
  BY <1>5, FS_CardinalityType
<1>9. Cardinality(U) = Cardinality(T) + (IF x = y THEN 1 ELSE 0)
  BY <1>4, <1>7, <1>8
<1>10. Occurrences(t, x) = Cardinality(U) /\ Occurrences(s, x) = Cardinality(T)
  BY <1>3 DEF Occurrences
<1>11. QED
  BY <1>1, <1>9, <1>10

LEMMA OccurrencesNone ==
  ASSUME NEW x
  PROVE  Occurrences(<<>>, x) = 0
<1>1. <<>> \in Seq({}) /\ x \notin ToSet(<<>>)
  BY DEF ToSet
<1>2. QED
  BY <1>1, OccurrencesFinite

LEMMA OccurrencesOne ==
  ASSUME NEW S, NEW s \in Seq(S), NEW x \in ToSet(s), NoRepeats(s)
  PROVE  Occurrences(s, x) = 1
<1>1. PICK i \in DOMAIN s : s[i] = x
  BY DEF ToSet
<1>2. {k \in DOMAIN s : s[k] = x} = {i}
  BY <1>1 DEF NoRepeats
<1>3. QED
  BY <1>2, FS_Singleton DEF Occurrences

LEMMA OccurrencesSingle ==
  ASSUME NEW x, NEW y
  PROVE  Occurrences(<<y>>, x) = IF x = y THEN 1 ELSE 0
<1>1. PICK S : y \in S
  BY y \in {y}
<1>2. PICK s : s \in Seq(S) /\ s = <<>>
  BY EmptySeq
<1>3. s \in Seq(S)
  BY <1>2
<1>4. Occurrences(Append(s, y), x) = Occurrences(s, x) + (IF x = y THEN 1 ELSE 0)
  BY <1>1, <1>3, OccurrencesAppend
<1>5. Append(s, y) = <<y>> /\ Occurrences(s, x) = 0
  BY <1>2, OccurrencesNone
<1>6. QED
  BY <1>4, <1>5

LEMMA AppendTwo ==
  ASSUME NEW y, NEW z
  PROVE  Append(<<y>>, z) = <<y, z>>
<1>1. PICK S : y \in S /\ z \in S
  BY y \in {y, z} /\ z \in {y, z}
<1>2. PICK s : s = <<y>>
  OBVIOUS
<1>3. PICK t, u : t = <<y, z>> /\ u = Append(s, z)
  OBVIOUS
<1>4. s \in Seq(S) /\ Len(s) = 1 /\ s[1] = y
  BY <1>1, <1>2
<1>5. t \in Seq(S) /\ Len(t) = 2 /\ t[1] = y /\ t[2] = z
  BY <1>1, <1>3
<1>6. u \in Seq(S) /\ Len(u) = 2 /\ u[1] = y /\ u[2] = z
  <2>1. u \in Seq(S) /\ Len(u) = Len(s) + 1
    <3>1. Append(s, z) \in Seq(S)
      BY <1>1, <1>4
    <3>2. Len(Append(s, z)) = Len(s) + 1
      BY <1>1, <1>4, AppendProperties
    <3>3. QED
      BY <1>3, <3>1, <3>2
  <2>2. \A k \in 1..Len(s) : u[k] = s[k]
    BY <1>1, <1>3, <1>4
  <2>3. u[Len(s) + 1] = z
    BY <1>1, <1>3, <1>4
  <2>4. 1 \in 1..Len(s) /\ Len(s) + 1 = 2
    BY <1>4
  <2>5. QED
    BY <1>4, <2>1, <2>2, <2>3, <2>4
<1>7. \A k \in 1..2 : t[k] = u[k]
  BY <1>5, <1>6
<1>8. t = u
  BY <1>5, <1>6, <1>7, SeqEqual
<1>9. QED
  BY <1>2, <1>3, <1>8

LEMMA OccurrencesPair ==
  ASSUME NEW x, NEW y, NEW z
  PROVE  Occurrences(<<y, z>>, x) = (IF x = y THEN 1 ELSE 0) + (IF x = z THEN 1 ELSE 0)
<1>1. PICK S : y \in S /\ z \in S
  BY y \in {y, z} /\ z \in {y, z}
<1>2. PICK s : s = <<y>>
  OBVIOUS
<1>3. s \in Seq(S)
  BY <1>1, <1>2
<1>4. Occurrences(Append(s, z), x) = Occurrences(s, x) + (IF x = z THEN 1 ELSE 0)
  BY <1>1, <1>3, OccurrencesAppend
<1>5. Append(s, z) = <<y, z>>
  BY <1>2, AppendTwo
<1>6. Occurrences(s, x) = IF x = y THEN 1 ELSE 0
  BY <1>2, OccurrencesSingle
<1>7. QED
  BY <1>2, <1>4, <1>5, <1>6

LEMMA OccurrencesReplaced ==
  ASSUME NEW S, NEW s \in Seq(S), NEW from, NEW to \in S, from # to
  PROVE  LET t == ReplaceAll(s, from, to) IN
         /\ t \in Seq(S) /\ Len(t) = Len(s)
         /\ \A x : x \notin {from, to} => Occurrences(t, x) = Occurrences(s, x)
         /\ to \notin ToSet(s) => Occurrences(t, to) = Occurrences(s, from)
         /\ ToSet(t) \subseteq (ToSet(s) \ {from}) \cup {to}
         /\ to \in ToSet(t) => to \in ToSet(s) \/ from \in ToSet(s)
<1>1. PICK t : t = ReplaceAll(s, from, to)
  OBVIOUS
<1>2. /\ DOMAIN s = 1 .. Len(s) /\ Len(s) \in Nat /\ DOMAIN t = 1 .. Len(s)
      /\ \A k \in 1 .. Len(s) : t[k] = IF s[k] = from THEN to ELSE s[k]
  BY <1>1 DEF ReplaceAll
<1>3. \A k \in 1 .. Len(s) : s[k] \in S
  OBVIOUS
<1>4. t \in Seq(S) /\ Len(t) = Len(s)
  BY <1>1, <1>2, <1>3 DEF ReplaceAll
<1>5. ASSUME NEW x, x \notin {from, to}
      PROVE  Occurrences(t, x) = Occurrences(s, x)
  <2>1. {k \in DOMAIN t : t[k] = x} = {k \in DOMAIN s : s[k] = x}
    BY <1>2, <1>5
  <2>2. QED
    BY <2>1 DEF Occurrences
<1>6. ASSUME to \notin ToSet(s)
      PROVE  Occurrences(t, to) = Occurrences(s, from)
  <2>1. {k \in DOMAIN t : t[k] = to} = {k \in DOMAIN s : s[k] = from}
    BY <1>2, <1>6 DEF ToSet
  <2>2. QED
    BY <2>1 DEF Occurrences
<1>7. ToSet(t) \subseteq (ToSet(s) \ {from}) \cup {to}
  BY <1>2 DEF ToSet
<1>8. to \in ToSet(t) => to \in ToSet(s) \/ from \in ToSet(s)
  BY <1>2 DEF ToSet
<1>9. QED
  BY <1>1, <1>4, <1>5, <1>6, <1>7, <1>8

-----------------------------------------------------------------------------
(***************************************************************************)
(* simplify.                                                               *)
(***************************************************************************)
LEMMA BlankLinked ==
  NoBlock.nextlist = <<>> /\ NoBlock.prevlist = <<>> /\ IsBlock(NoBlock)
<1>1. <<>> \in Seq(Labels)
  BY EmptySeq
<1>2. QED
  BY <1>1 DEF NoBlock, IsBlock

\* To look for a block that is not there makes an empty one, of no label of K.
LEMMA TouchLinked ==
  ASSUME NEW g, NEW K, Linked(g, K), NEW l \in DOMAIN g
  PROVE  LET h == TouchNext(g, l) IN
         /\ Linked(h, K) /\ DOMAIN h \cap K = DOMAIN g \cap K
         /\ DOMAIN g \subseteq DOMAIN h /\ \A x \in DOMAIN g : h[x] = g[x]
         /\ \A x \in DOMAIN h \ DOMAIN g : h[x] = NoBlock
         /\ Len(g[l].nextlist) = 1 => g[l].nextlist[1] \in DOMAIN h
<1>1. PICK h : h = TouchNext(g, l)
  OBVIOUS
<1>2. PICK n : n = g[l].nextlist[1]
  OBVIOUS
<1>3. g[l].nextlist \in Seq(Labels)
  BY DEF Linked, IsGraphOf, IsBlock
<1>4. CASE Len(g[l].nextlist) = 1
  <2>1. n \in ToSet(g[l].nextlist) /\ n \in Labels
    BY <1>2, <1>3, <1>4 DEF ToSet
  <2>2. h = [x \in DOMAIN g \cup {n} |-> IF x \in DOMAIN g THEN g[x] ELSE NoBlock]
    BY <1>1, <1>2, <1>4 DEF TouchNext, Touch, TouchAll
  <2>3. /\ DOMAIN h = DOMAIN g \cup {n} /\ \A x \in DOMAIN g : h[x] = g[x]
        /\ \A x \in DOMAIN h \ DOMAIN g : x = n /\ h[x] = NoBlock
    BY <2>2
  <2>4. n \in K => n \in DOMAIN g
    BY <2>1 DEF Linked
  <2>5. IsGraphOf(h)
    BY <2>1, <2>3, BlankLinked DEF Linked, IsGraphOf
  <2>6. Agree(h, K)
    <3> SUFFICES ASSUME NEW a \in DOMAIN h, NEW b \in DOMAIN h \cap K
        PROVE  Occurrences(h[a].nextlist, b) = Occurrences(h[b].prevlist, a)
      BY DEF Agree
    <3>1. b \in DOMAIN g \cap K /\ h[b] = g[b]
      BY <2>3, <2>4
    <3>2. CASE a \in DOMAIN g
      BY <2>3, <3>1, <3>2 DEF Linked, Agree
    <3>3. CASE a \notin DOMAIN g
      <4>1. h[a].nextlist = <<>>
        BY <2>3, <3>3, BlankLinked
      <4>2. Occurrences(<<>>, b) = 0
        BY OccurrencesNone
      <4>3. a \notin ToSet(g[b].prevlist) /\ g[b].prevlist \in Seq(Labels)
        BY <3>1, <3>3 DEF Linked, IsGraphOf, IsBlock
      <4>4. Occurrences(g[b].prevlist, a) = 0
        BY <4>3, OccurrencesFinite
      <4>5. QED
        BY <3>1, <4>1, <4>2, <4>4
    <3>4. QED
      BY <3>2, <3>3
  <2>7. ASSUME NEW a \in DOMAIN h
        PROVE  /\ ToSet(h[a].nextlist) \cap K \subseteq DOMAIN h
               /\ ToSet(h[a].prevlist) \subseteq DOMAIN h \cap K
               /\ NoRepeats(h[a].nextlist)
               /\ a \notin K => h[a] = NoBlock
    <3>1. CASE a \in DOMAIN g
      <4>1. h[a] = g[a]
        BY <2>3, <3>1
      <4>2. QED
        BY <2>3, <3>1, <4>1 DEF Linked
    <3>2. CASE a \notin DOMAIN g
      <4>1. h[a] = NoBlock /\ h[a].nextlist = <<>> /\ h[a].prevlist = <<>>
        BY <2>3, <2>7, <3>2, BlankLinked
      <4>2. ToSet(<<>>) = {} /\ NoRepeats(<<>>)
        BY DEF ToSet, NoRepeats
      <4>3. QED
        BY <4>1, <4>2
    <3>3. QED
      BY <3>1, <3>2
  <2>8. Linked(h, K)
    BY <2>5, <2>6, <2>7 DEF Linked
  <2>9. QED
    BY <1>1, <1>2, <2>3, <2>4, <2>8
<1>5. CASE Len(g[l].nextlist) # 1
  BY <1>5 DEF TouchNext
<1>6. QED
  BY <1>4, <1>5

\* The block that is absorbed is named by the block that absorbs it, once,
\* and by no other, itself included.
LEMMA OnlyEdge ==
  ASSUME NEW g, NEW K, Linked(g, K), NEW l \in DOMAIN g \cap K, CanAbsorb(g, l),
         g[l].nextlist[1] \in DOMAIN g
  PROVE  LET n == g[l].nextlist[1] IN
         /\ n \in K /\ n # l /\ ToSet(g[l].nextlist) = {n}
         /\ \A a \in DOMAIN g : n \in ToSet(g[a].nextlist) => a = l
         /\ n \notin ToSet(g[n].nextlist)
<1>1. PICK n : n = g[l].nextlist[1]
  OBVIOUS
<1>2. n \in DOMAIN g /\ n # l /\ Len(g[l].nextlist) = 1 /\ Len(g[n].prevlist) = 1
  BY <1>1 DEF CanAbsorb
<1>3. g[l].nextlist \in Seq(Labels) /\ g[n].prevlist \in Seq(Labels)
  BY <1>2 DEF Linked, IsGraphOf, IsBlock
<1>4. ToSet(g[l].nextlist) = {n}
  BY <1>1, <1>2, <1>3 DEF ToSet
<1>5. n \in K
  <2>1. g[n].prevlist # <<>>
    BY <1>2, <1>3
  <2>2. QED
    BY <1>2, <2>1, BlankLinked DEF Linked
<1>6. ASSUME NEW a \in DOMAIN g, n \in ToSet(g[a].nextlist)
      PROVE  a = g[n].prevlist[1]
  <2>1. g[a].nextlist \in Seq(Labels)
    BY DEF Linked, IsGraphOf, IsBlock
  <2>2. Occurrences(g[a].nextlist, n) # 0
    BY <1>6, <2>1, OccurrencesFinite
  <2>3. Occurrences(g[n].prevlist, a) # 0
    BY <1>2, <1>5, <2>2 DEF Linked, Agree
  <2>4. a \in ToSet(g[n].prevlist)
    BY <1>3, <2>3, OccurrencesFinite
  <2>5. QED
    BY <1>2, <1>3, <2>4 DEF ToSet
<1>7. l = g[n].prevlist[1]
  BY <1>4, <1>6
<1>8. QED
  BY <1>1, <1>2, <1>4, <1>5, <1>6, <1>7, Zenon

\* What one turn of the inner loop, in which l absorbs n, makes of the blocks.
Merged(g, K, l, n, h) ==
  LET succs == ToSet(g[n].nextlist)
  IN  /\ DOMAIN h = (DOMAIN g \ {n}) \cup succs
      /\ \A x \in DOMAIN h :
           /\ IsBlock(h[x])
           /\ x \in DOMAIN g =>
                /\ h[x].nextlist = IF x = l THEN g[n].nextlist ELSE g[x].nextlist
                /\ h[x].prevlist = IF x \in succs THEN ReplaceAll(g[x].prevlist, n, l)
                                   ELSE g[x].prevlist
           /\ x \notin K => h[x] = NoBlock
           /\ x \notin DOMAIN g => h[x] = NoBlock

LEMMA AbsorbedBlocks ==
  ASSUME NEW g, NEW K, Linked(g, K), NEW l \in DOMAIN g \cap K, CanAbsorb(g, l),
         g[l].nextlist[1] \in DOMAIN g
  PROVE  Merged(g, K, l, g[l].nextlist[1], Absorbed(g, l))
<1>1. PICK n : n = g[l].nextlist[1]
  OBVIOUS
<1>2. PICK succs : succs = ToSet(g[n].nextlist)
  OBVIOUS
<1>3. PICK merged : merged = [g EXCEPT ![l].nextlist = g[n].nextlist,
                                       ![l].insts    = @ \o g[n].insts]
  OBVIOUS
<1>4. PICK touched : touched = TouchAll(Restrict(merged, DOMAIN g \ {n}), succs)
  OBVIOUS
<1>5. PICK h : h = Absorbed(g, l)
  OBVIOUS
<1>6. h = [x \in DOMAIN touched |->
             IF x \in succs THEN Reconnected(touched[x], n, l) ELSE touched[x]]
  BY <1>1, <1>2, <1>3, <1>4, <1>5 DEF Absorbed
<1>7. n \in K /\ n # l /\ n \notin succs /\ n \in DOMAIN g
  BY <1>1, <1>2, OnlyEdge
<1>8. DOMAIN merged = DOMAIN g
  BY <1>3
<1>9. DOMAIN touched = (DOMAIN g \ {n}) \cup succs
  BY <1>4, <1>8 DEF TouchAll, Restrict
<1>10. DOMAIN h = (DOMAIN g \ {n}) \cup succs
  BY <1>6, <1>9
<1>11. \A x \in DOMAIN touched : touched[x] = IF x \in DOMAIN g THEN merged[x] ELSE NoBlock
  BY <1>4, <1>7, <1>8 DEF TouchAll, Restrict
<1>12. /\ IsBlock(merged[l]) /\ merged[l].nextlist = g[n].nextlist
       /\ merged[l].prevlist = g[l].prevlist
  <2>1. PICK b : b = g[l]
    OBVIOUS
  <2>2. /\ b = [insts |-> b.insts, nextlist |-> b.nextlist, prevlist |-> b.prevlist]
        /\ b.prevlist \in Seq(Labels) /\ g[n].nextlist \in Seq(Labels)
    BY <2>1, <1>7 DEF Linked, IsGraphOf, IsBlock
  <2>3. merged[l] = [[b EXCEPT !.nextlist = g[n].nextlist] EXCEPT !.insts = @ \o g[n].insts]
    BY <1>3, <2>1
  <2>4. merged[l] = [insts |-> b.insts \o g[n].insts, nextlist |-> g[n].nextlist,
                     prevlist |-> b.prevlist]
    BY <2>2, <2>3
  <2>5. QED
    BY <2>1, <2>2, <2>4 DEF IsBlock
<1>13. \A x \in DOMAIN g \ {l} : merged[x] = g[x]
  BY <1>3
<1>14. ASSUME NEW x \in DOMAIN g \ {n}
       PROVE  /\ IsBlock(merged[x])
              /\ merged[x].nextlist = IF x = l THEN g[n].nextlist ELSE g[x].nextlist
              /\ merged[x].prevlist = g[x].prevlist
              /\ x \notin K => merged[x] = NoBlock
  BY <1>12, <1>13 DEF Linked, IsGraphOf
<1>15. l \in Labels /\ n \in Labels
  BY <1>7 DEF Linked, IsGraphOf
<1>16. ASSUME NEW b, IsBlock(b)
       PROVE  LET r == Reconnected(b, n, l) IN
              /\ IsBlock(r) /\ r.nextlist = b.nextlist
              /\ r.prevlist = ReplaceAll(b.prevlist, n, l)
              /\ b = NoBlock => r = NoBlock
  <2>1. PICK r : r = Reconnected(b, n, l)
    OBVIOUS
  <2>2. r = [insts |-> b.insts, nextlist |-> b.nextlist,
             prevlist |-> ReplaceAll(b.prevlist, n, l)]
    BY <1>16, <2>1 DEF Reconnected, IsBlock
  <2>3. ReplaceAll(b.prevlist, n, l) \in Seq(Labels)
    BY <1>7, <1>15, <1>16, OccurrencesReplaced DEF IsBlock
  <2>4. ReplaceAll(<<>>, n, l) = <<>>
    BY DEF ReplaceAll
  <2>5. b = NoBlock => r = NoBlock
    BY <2>2, <2>4 DEF NoBlock
  <2>6. QED
    BY <1>16, <2>1, <2>2, <2>3, <2>5 DEF IsBlock
<1>17. ASSUME NEW x \in DOMAIN h
       PROVE  /\ IsBlock(h[x])
              /\ x \in DOMAIN g =>
                   /\ h[x].nextlist = IF x = l THEN g[n].nextlist ELSE g[x].nextlist
                   /\ h[x].prevlist = IF x \in succs THEN ReplaceAll(g[x].prevlist, n, l)
                                      ELSE g[x].prevlist
              /\ x \notin K => h[x] = NoBlock
              /\ x \notin DOMAIN g => h[x] = NoBlock
  <2>1. x \in DOMAIN touched
        /\ h[x] = IF x \in succs THEN Reconnected(touched[x], n, l) ELSE touched[x]
    BY <1>6
  <2>2. CASE x \in DOMAIN g
    <3>1. x \in DOMAIN g \ {n} /\ touched[x] = merged[x]
      BY <1>7, <1>9, <1>11, <2>1, <2>2
    <3>2. CASE x \in succs
      BY <1>14, <1>16, <2>1, <2>2, <3>1, <3>2
    <3>3. CASE x \notin succs
      BY <1>14, <2>1, <2>2, <3>1, <3>3
    <3>4. QED
      BY <3>2, <3>3
  <2>3. CASE x \notin DOMAIN g
    <3>1. touched[x] = NoBlock
      BY <1>11, <2>1, <2>3
    <3>2. h[x] = NoBlock
      BY <1>16, <2>1, <3>1, BlankLinked
    <3>3. QED
      BY <2>3, <3>2, BlankLinked
  <2>4. QED
    BY <2>2, <2>3
<1>18. Merged(g, K, l, n, h)
  BY <1>2, <1>10, <1>17 DEF Merged
<1>19. QED
  BY <1>1, <1>5, <1>18

\* The merge moves the edges of the absorbed block as they are.
LEMMA AbsorbLinked ==
  ASSUME NEW g, NEW K, Linked(g, K), NEW l \in DOMAIN g \cap K, CanAbsorb(g, l),
         g[l].nextlist[1] \in DOMAIN g
  PROVE  LET n == g[l].nextlist[1]
             h == Absorbed(g, l)
         IN  Linked(h, K) /\ DOMAIN h \cap K = (DOMAIN g \cap K) \ {n}
<1>1. PICK n : n = g[l].nextlist[1]
  OBVIOUS
<1>2. PICK succs : succs = ToSet(g[n].nextlist)
  OBVIOUS
<1>3. PICK h : h = Absorbed(g, l)
  OBVIOUS
<1>4. /\ DOMAIN h = (DOMAIN g \ {n}) \cup succs
      /\ \A x \in DOMAIN h :
           /\ IsBlock(h[x])
           /\ x \in DOMAIN g =>
                /\ h[x].nextlist = IF x = l THEN g[n].nextlist ELSE g[x].nextlist
                /\ h[x].prevlist = IF x \in succs THEN ReplaceAll(g[x].prevlist, n, l)
                                   ELSE g[x].prevlist
           /\ x \notin K => h[x] = NoBlock
           /\ x \notin DOMAIN g => h[x] = NoBlock
  <2>1. Merged(g, K, l, n, h)
    BY <1>1, <1>3, AbsorbedBlocks
  <2>2. QED
    BY <1>2, <2>1 DEF Merged
<1>5. /\ n \in DOMAIN g \cap K /\ n # l /\ ToSet(g[l].nextlist) = {n} /\ n \notin succs
      /\ \A a \in DOMAIN g : n \in ToSet(g[a].nextlist) => a = l
  BY <1>1, <1>2, OnlyEdge
<1>6. /\ \A x \in DOMAIN g : /\ x \in Labels /\ IsBlock(g[x])
                             /\ g[x].nextlist \in Seq(Labels) /\ g[x].prevlist \in Seq(Labels)
                             /\ ToSet(g[x].nextlist) \cap K \subseteq DOMAIN g
                             /\ ToSet(g[x].prevlist) \subseteq DOMAIN g \cap K
                             /\ NoRepeats(g[x].nextlist)
      /\ \A x \in DOMAIN g : x \notin K => g[x] = NoBlock
      /\ \A a \in DOMAIN g : \A b \in DOMAIN g \cap K :
           Occurrences(g[a].nextlist, b) = Occurrences(g[b].prevlist, a)
  BY DEF Linked, IsGraphOf, IsBlock, Agree
<1>7. succs \cap K \subseteq DOMAIN g /\ succs \subseteq Labels
  BY <1>2, <1>5, <1>6 DEF ToSet
<1>8. DOMAIN h \cap K = (DOMAIN g \cap K) \ {n}
  BY <1>4, <1>5, <1>7
<1>9. IsGraphOf(h)
  BY <1>4, <1>6, <1>7 DEF IsGraphOf
<1>10. ASSUME NEW b \in DOMAIN g \cap K, b # n
       PROVE  /\ Occurrences(h[b].prevlist, l) = Occurrences(g[b].prevlist, n)
              /\ \A a : a \notin {l, n} =>
                   Occurrences(h[b].prevlist, a) = Occurrences(g[b].prevlist, a)
              /\ ToSet(h[b].prevlist) \subseteq (ToSet(g[b].prevlist) \ {n}) \cup {l}
  <2>1. b \in DOMAIN h
    BY <1>4, <1>10
  <2>2. PICK s : s = g[b].prevlist
    OBVIOUS
  <2>3. s \in Seq(Labels)
    BY <1>6, <2>2
  <2>4. Occurrences(g[l].nextlist, b) = 0
    BY <1>5, <1>6, <1>10, OccurrencesFinite
  <2>5. Occurrences(s, l) = 0
    BY <1>6, <2>2, <2>4
  <2>6. l \notin ToSet(s)
    BY <2>3, <2>5, OccurrencesFinite
  <2>7. CASE b \in succs
    <3>1. h[b].prevlist = ReplaceAll(s, n, l)
      BY <1>4, <2>1, <2>2, <2>7
    <3>2. PICK t : t = ReplaceAll(s, n, l)
      OBVIOUS
    <3>3. /\ \A x : x \notin {n, l} => Occurrences(t, x) = Occurrences(s, x)
          /\ Occurrences(t, l) = Occurrences(s, n)
          /\ ToSet(t) \subseteq (ToSet(s) \ {n}) \cup {l}
      BY <1>5, <1>6, <2>3, <2>6, <3>2, OccurrencesReplaced
    <3>4. QED
      BY <2>2, <3>1, <3>2, <3>3
  <2>8. CASE b \notin succs
    <3>1. h[b].prevlist = s
      BY <1>4, <2>1, <2>2, <2>8
    <3>2. Occurrences(g[n].nextlist, b) = 0
      BY <1>2, <1>5, <1>6, <2>8, OccurrencesFinite
    <3>3. Occurrences(s, n) = 0
      BY <1>5, <1>6, <2>2, <3>2
    <3>4. n \notin ToSet(s)
      BY <2>3, <3>3, OccurrencesFinite
    <3>5. QED
      BY <2>2, <2>5, <3>1, <3>3, <3>4
  <2>9. QED
    BY <2>7, <2>8
<1>11. Agree(h, K)
  <2> SUFFICES ASSUME NEW a \in DOMAIN h, NEW b \in DOMAIN h \cap K
      PROVE  Occurrences(h[a].nextlist, b) = Occurrences(h[b].prevlist, a)
    BY DEF Agree
  <2>1. b \in DOMAIN g \cap K /\ b # n
    BY <1>8
  <2>2. a # n
    BY <1>4, <1>5
  <2>3. CASE a = l
    <3>1. h[a].nextlist = g[n].nextlist
      BY <1>4, <2>3
    <3>2. Occurrences(g[n].nextlist, b) = Occurrences(g[b].prevlist, n)
      BY <1>5, <1>6, <2>1
    <3>3. QED
      BY <1>10, <2>1, <2>3, <3>1, <3>2
  <2>4. CASE a # l /\ a \in DOMAIN g
    <3>1. h[a].nextlist = g[a].nextlist
      BY <1>4, <2>4
    <3>2. Occurrences(g[a].nextlist, b) = Occurrences(g[b].prevlist, a)
      BY <1>6, <2>1, <2>4
    <3>3. QED
      BY <1>10, <2>1, <2>2, <2>4, <3>1, <3>2
  <2>5. CASE a # l /\ a \notin DOMAIN g
    <3>1. h[a].nextlist = <<>>
      BY <1>4, <2>5, BlankLinked
    <3>2. Occurrences(<<>>, b) = 0
      BY OccurrencesNone
    <3>3. a \notin ToSet(g[b].prevlist)
      BY <1>6, <2>1, <2>5
    <3>4. Occurrences(g[b].prevlist, a) = 0
      BY <1>6, <2>1, <3>3, OccurrencesFinite
    <3>5. QED
      BY <1>10, <2>1, <2>2, <2>5, <3>1, <3>2, <3>4
  <2>6. QED
    BY <2>3, <2>4, <2>5
<1>12. ASSUME NEW a \in DOMAIN h
       PROVE  /\ ToSet(h[a].nextlist) \cap K \subseteq DOMAIN h
              /\ ToSet(h[a].prevlist) \subseteq DOMAIN h \cap K
              /\ NoRepeats(h[a].nextlist)
              /\ a \notin K => h[a] = NoBlock
  <2>1. a # n
    BY <1>4, <1>5
  <2>2. CASE a \in K
    <3>1. a \in DOMAIN g \cap K
      BY <1>8, <1>12, <2>2
    <3>2. h[a].nextlist = IF a = l THEN g[n].nextlist ELSE g[a].nextlist
      BY <1>4, <1>12, <3>1
    <3>3. NoRepeats(h[a].nextlist)
      BY <1>5, <1>6, <3>1, <3>2
    <3>4. ToSet(h[a].nextlist) \cap K \subseteq DOMAIN h
      BY <1>2, <1>4, <1>5, <1>6, <3>1, <3>2
    <3>5. ToSet(h[a].prevlist) \subseteq (ToSet(g[a].prevlist) \ {n}) \cup {l}
      BY <1>10, <2>1, <3>1
    <3>6. ToSet(h[a].prevlist) \subseteq DOMAIN h \cap K
      BY <1>4, <1>5, <1>6, <3>1, <3>5
    <3>7. QED
      BY <2>2, <3>3, <3>4, <3>6
  <2>3. CASE a \notin K
    <3>1. h[a] = NoBlock /\ h[a].nextlist = <<>> /\ h[a].prevlist = <<>>
      BY <1>4, <1>12, <2>3, BlankLinked
    <3>2. ToSet(<<>>) = {} /\ NoRepeats(<<>>)
      BY DEF ToSet, NoRepeats
    <3>3. QED
      BY <3>1, <3>2
  <2>4. QED
    BY <2>2, <2>3
<1>13. Linked(h, K)
  BY <1>9, <1>11, <1>12 DEF Linked
<1>14. QED
  BY <1>1, <1>3, <1>8, <1>13

\* Of the two conditions of the inner loop, without the look that may create
\* the block.
Chained(g, a) ==
  /\ Len(g[a].nextlist) = 1 /\ g[a].nextlist[1] # a
  /\ g[a].nextlist[1] \in DOMAIN g /\ Len(g[g[a].nextlist[1]].prevlist) = 1

LEMMA ChainedTouched ==
  ASSUME NEW g, NEW a \in DOMAIN g
  PROVE  CanAbsorb(TouchNext(g, a), a) <=> Chained(g, a)
<1>1. PICK n : n = g[a].nextlist[1]
  OBVIOUS
<1>2. PICK h : h = TouchNext(g, a)
  OBVIOUS
<1>3. CASE Len(g[a].nextlist) = 1
  <2>1. h = [x \in DOMAIN g \cup {n} |-> IF x \in DOMAIN g THEN g[x] ELSE NoBlock]
    BY <1>1, <1>2, <1>3 DEF TouchNext, Touch, TouchAll
  <2>2. h[a] = g[a] /\ h[n] = IF n \in DOMAIN g THEN g[n] ELSE NoBlock
    BY <2>1
  <2>3. Len(NoBlock.prevlist) = 0
    BY DEF NoBlock
  <2>4. CanAbsorb(h, a) <=> n # a /\ Len(h[n].prevlist) = 1
    BY <1>1, <1>3, <2>2 DEF CanAbsorb
  <2>5. Chained(g, a) <=> n # a /\ n \in DOMAIN g /\ Len(g[n].prevlist) = 1
    BY <1>1, <1>3 DEF Chained
  <2>6. CanAbsorb(h, a) <=> Chained(g, a)
    <3>1. CASE n \in DOMAIN g
      <4>1. h[n] = g[n]
        BY <2>2, <3>1
      <4>2. QED
        BY <2>4, <2>5, <3>1, <4>1
    <3>2. CASE n \notin DOMAIN g
      <4>1. h[n] = NoBlock
        BY <2>2, <3>2
      <4>2. QED
        BY <2>3, <2>4, <2>5, <3>2, <4>1
    <3>3. QED
      BY <3>1, <3>2
  <2>7. QED
    BY <1>2, <2>6
<1>4. CASE Len(g[a].nextlist) # 1
  BY <1>4 DEF TouchNext, CanAbsorb, Chained
<1>5. QED
  BY <1>3, <1>4

\* To look for a block does not make a chain of what was none.
LEMMA TouchChains ==
  ASSUME NEW g, NEW K, Linked(g, K), NEW l \in DOMAIN g, NEW a \in DOMAIN g
  PROVE  Chained(TouchNext(g, l), a) <=> Chained(g, a)
<1>1. PICK h : h = TouchNext(g, l)
  OBVIOUS
<1>2. /\ DOMAIN g \subseteq DOMAIN h /\ \A x \in DOMAIN g : h[x] = g[x]
      /\ \A x \in DOMAIN h \ DOMAIN g : h[x] = NoBlock
  BY <1>1, TouchLinked
<1>3. Len(NoBlock.prevlist) = 0
  BY DEF NoBlock
<1>4. PICK n : n = g[a].nextlist[1]
  OBVIOUS
<1>5. CASE n \in DOMAIN g
  <2>1. h[a] = g[a] /\ h[n] = g[n] /\ n \in DOMAIN h
    BY <1>2, <1>5
  <2>2. Chained(h, a) <=> Chained(g, a)
    BY <1>4, <1>5, <2>1 DEF Chained
  <2>3. QED
    BY <1>1, <2>2
<1>6. CASE n \notin DOMAIN g
  <2>1. ~ Chained(g, a)
    BY <1>4, <1>6 DEF Chained
  <2>2. h[a].nextlist[1] = n
    BY <1>2, <1>4
  <2>3. n \in DOMAIN h => Len(h[n].prevlist) = 0
    BY <1>2, <1>3, <1>6
  <2>4. ~ Chained(h, a)
    BY <2>2, <2>3 DEF Chained
  <2>5. QED
    BY <1>1, <2>1, <2>4
<1>7. QED
  BY <1>1, <1>5, <1>6

\* Nor does a merge, elsewhere than at the block that it extends.
LEMMA AbsorbChains ==
  ASSUME NEW g, NEW K, Linked(g, K), NEW l \in DOMAIN g \cap K, CanAbsorb(g, l),
         g[l].nextlist[1] \in DOMAIN g,
         NEW a \in (DOMAIN g \cap K) \ {l, g[l].nextlist[1]}, Chained(Absorbed(g, l), a)
  PROVE  Chained(g, a)
<1>1. PICK n : n = g[l].nextlist[1]
  OBVIOUS
<1>2. PICK h : h = Absorbed(g, l)
  OBVIOUS
<1>3. Merged(g, K, l, n, h)
  BY <1>1, <1>2, AbsorbedBlocks
<1>4. PICK m : m = g[a].nextlist[1]
  OBVIOUS
<1>5. a \in DOMAIN h /\ h[a].nextlist = g[a].nextlist
  BY <1>1, <1>3 DEF Merged
<1>6. Len(g[a].nextlist) = 1 /\ m # a /\ m \in DOMAIN h /\ Len(h[m].prevlist) = 1
  BY <1>2, <1>4, <1>5 DEF Chained
<1>7. Len(NoBlock.prevlist) = 0
  BY DEF NoBlock
<1>8. m \in DOMAIN g
  <2>1. \A x \in DOMAIN h : x \notin DOMAIN g => h[x] = NoBlock
    BY <1>3 DEF Merged
  <2>2. m \notin DOMAIN g => h[m] = NoBlock
    BY <1>6, <2>1
  <2>3. h[m] # NoBlock
    <3> SUFFICES ASSUME h[m] = NoBlock PROVE FALSE
      OBVIOUS
    <3>1. Len(h[m].prevlist) = 0
      BY <1>7
    <3>2. Len(h[m].prevlist) = 1
      BY <1>6
    <3>3. 0 # 1
      OBVIOUS
    <3>4. QED
      BY <3>1, <3>2, <3>3, Zenon
  <2>4. QED
    BY <2>2, <2>3
<1>9. Len(ReplaceAll(g[m].prevlist, n, l)) = Len(g[m].prevlist)
  <2>1. n # l /\ l \in Labels /\ g[m].prevlist \in Seq(Labels)
    BY <1>1, <1>8, OnlyEdge DEF Linked, IsGraphOf, IsBlock
  <2>2. PICK s : s = g[m].prevlist
    OBVIOUS
  <2>3. Len(ReplaceAll(s, n, l)) = Len(s)
    BY <2>1, <2>2, OccurrencesReplaced
  <2>4. QED
    BY <2>2, <2>3
<1>10. Len(g[m].prevlist) = 1
  <2>1. h[m].prevlist = IF m \in ToSet(g[n].nextlist) THEN ReplaceAll(g[m].prevlist, n, l)
                        ELSE g[m].prevlist
    BY <1>3, <1>6, <1>8 DEF Merged
  <2>2. QED
    BY <1>6, <1>9, <2>1
<1>11. QED
  BY <1>4, <1>6, <1>8, <1>10 DEF Chained

\* What simplify keeps of the ordered labels.
LEMMA RemainingKept ==
  ASSUME NEW T, NEW s \in Seq(T), NEW S
  PROVE  /\ Remaining(s, S) \in Seq(T) /\ ToSet(Remaining(s, S)) = ToSet(s) \cap S
         /\ s # <<>> /\ s[1] \in S => Remaining(s, S) # <<>> /\ Remaining(s, S)[1] = s[1]
<1> DEFINE body(m, f) == [k \in 0..m |->
             IF k = 0 THEN <<>>
             ELSE IF s[k] \in S THEN Append(f[k - 1], s[k]) ELSE f[k - 1]]
           n    == Len(s)
           G    == {m \in 0..n : \E f : f = body(m, f)}
           kept == CHOOSE f : f = body(n, f)
<1>1. n \in Nat /\ DOMAIN s = 1..n /\ \A k \in 1..n : s[k] \in T
  OBVIOUS
<1>2. 0 \in G
  <2>1. [k \in 0..0 |-> <<>>] = body(0, [k \in 0..0 |-> <<>>])
    OBVIOUS
  <2>2. 0 \in 0..n
    BY <1>1
  <2> HIDE DEF body, n
  <2>3. QED
    BY <2>1, <2>2
<1>3. ASSUME NEW m \in 0..n - 1, m \in G PROVE m + 1 \in G
  <2>1. PICK f : f = body(m, f)
    BY <1>3
  <2> DEFINE g == [k \in 0..m + 1 |->
               IF k = m + 1 THEN IF s[k] \in S THEN Append(f[m], s[k]) ELSE f[m]
               ELSE f[k]]
  <2>2. ASSUME NEW k \in 0..m + 1
        PROVE  g[k] = IF k = 0 THEN <<>>
                      ELSE IF s[k] \in S THEN Append(g[k - 1], s[k]) ELSE g[k - 1]
    <3>1. CASE k = m + 1
      <4>1. g[k] = (IF s[k] \in S THEN Append(f[m], s[k]) ELSE f[m]) /\ k # 0
        BY <3>1
      <4>2. g[m] = f[m] /\ k - 1 = m
        BY <3>1
      <4> HIDE DEF g
      <4>3. QED
        BY <4>1, <4>2
    <3>2. CASE k # m + 1
      <4>1. k \in 0..m /\ g[k] = f[k] /\ (k # 0 => g[k - 1] = f[k - 1])
        BY <3>2
      <4>2. f[k] = IF k = 0 THEN <<>>
                   ELSE IF s[k] \in S THEN Append(f[k - 1], s[k]) ELSE f[k - 1]
        <5>1. body(m, f)[k] = IF k = 0 THEN <<>>
                   ELSE IF s[k] \in S THEN Append(f[k - 1], s[k]) ELSE f[k - 1]
          BY <4>1
        <5> HIDE DEF body
        <5>2. QED
          BY <2>1, <5>1
      <4> HIDE DEF g, body
      <4>3. QED
        BY <4>1, <4>2
    <3>3. QED
      BY <3>1, <3>2
  <2>3. g = body(m + 1, g)
    <3>1. DOMAIN g = 0..m + 1 /\ g = [k \in 0..m + 1 |-> g[k]]
      OBVIOUS
    <3> HIDE DEF g
    <3>2. QED
      BY <2>2, <3>1
  <2>4. QED
    <3> HIDE DEF g, body
    <3>1. m + 1 \in 0..n
      BY <1>1
    <3>2. QED
      BY <2>3, <3>1
<1>4. n \in G
  <2> HIDE DEF G, n
  <2>1. 0..n \subseteq G
    BY <1>1, <1>2, <1>3, IntervalInduction
  <2>2. QED
    BY <1>1, <2>1
<1>5. kept = body(n, kept)
  <2> HIDE DEF body, n
  <2>1. QED
    BY <1>4
<1>6. \A k \in 0..n : kept[k] = IF k = 0 THEN <<>>
                                ELSE IF s[k] \in S THEN Append(kept[k - 1], s[k])
                                ELSE kept[k - 1]
  <2> SUFFICES ASSUME NEW k \in 0..n
      PROVE  kept[k] = IF k = 0 THEN <<>>
                       ELSE IF s[k] \in S THEN Append(kept[k - 1], s[k]) ELSE kept[k - 1]
    OBVIOUS
  <2> HIDE DEF kept
  <2>1. body(n, kept)[k] = IF k = 0 THEN <<>>
                       ELSE IF s[k] \in S THEN Append(kept[k - 1], s[k]) ELSE kept[k - 1]
    OBVIOUS
  <2> HIDE DEF body
  <2>2. QED
    BY <1>5, <2>1
<1> DEFINE first(k, t) == k > 0 /\ s[1] \in S => t # <<>> /\ t[1] = s[1]
           H == {k \in 0..n : /\ kept[k] \in Seq(T) /\ ToSet(kept[k]) = {s[j] : j \in 1..k} \cap S
                              /\ first(k, kept[k])}
<1> HIDE DEF kept
<1>7. 0 \in H
  <2>1. kept[0] = <<>>
    BY <1>1, <1>6
  <2>2. <<>> \in Seq(T) /\ ToSet(<<>>) = {}
    BY EmptySeq DEF ToSet
  <2>3. {s[j] : j \in 1..0} \cap S = {}
    OBVIOUS
  <2>4. 0 \in 0..n /\ first(0, kept[0])
    BY <1>1
  <2> HIDE DEF n, first
  <2>5. QED
    BY <2>1, <2>2, <2>3, <2>4
<1>8. ASSUME NEW k \in 0..n - 1, k \in H PROVE k + 1 \in H
  <2>1. PICK t : t = kept[k]
    OBVIOUS
  <2>2. t \in Seq(T) /\ ToSet(t) = {s[j] : j \in 1..k} \cap S
    BY <1>8, <2>1
  <2>3. k + 1 \in 1..n /\ s[k + 1] \in T
    BY <1>1
  <2>4. kept[k + 1] = IF s[k + 1] \in S THEN Append(t, s[k + 1]) ELSE t
    <3>1. k + 1 \in 0..n /\ k + 1 # 0 /\ (k + 1) - 1 = k
      BY <1>1
    <3>2. QED
      BY <1>6, <2>1, <3>1
  <2>0. first(k, t)
    BY <1>8, <2>1
  <2> HIDE DEF first
  <2>5. {s[j] : j \in 1..k + 1} = {s[j] : j \in 1..k} \cup {s[k + 1]}
    BY <1>1
  <2>6. /\ Append(t, s[k + 1]) \in Seq(T) /\ ToSet(Append(t, s[k + 1])) = ToSet(t) \cup {s[k + 1]}
        /\ Append(t, s[k + 1]) # <<>>
        /\ Append(t, s[k + 1])[1] = IF t = <<>> THEN s[k + 1] ELSE t[1]
    <3>1. PICK x : x = s[k + 1]
      OBVIOUS
    <3>2. PICK u : u = Append(t, x)
      OBVIOUS
    <3>3. /\ u \in Seq(T) /\ DOMAIN u = 1..Len(t) + 1 /\ DOMAIN t = 1..Len(t) /\ Len(t) \in Nat
          /\ \A i \in 1..Len(t) : u[i] = t[i]
          /\ u[Len(t) + 1] = x
      BY <2>2, <2>3, <3>1, <3>2
    <3>4. ToSet(u) = ToSet(t) \cup {x}
      BY <3>3 DEF ToSet
    <3>5. u # <<>> /\ u[1] = IF t = <<>> THEN x ELSE t[1]
      BY <2>2, <3>3
    <3>6. QED
      BY <3>1, <3>2, <3>3, <3>4, <3>5
  <2>10. k = 0 => t = <<>> /\ s[k + 1] = s[1]
    <3>1. 0 \in 0..n
      BY <1>1
    <3>2. k = 0 => k + 1 = 1
      OBVIOUS
    <3>3. kept[0] = <<>>
      BY <1>6, <3>1
    <3>4. QED
      BY <2>1, <3>2, <3>3
  <2>11. k \in Int /\ k + 1 > 0 /\ (k # 0 => k > 0)
    BY <1>1
  <2>12. first(k + 1, kept[k + 1])
    <3>1. CASE k = 0
      BY <2>4, <2>6, <2>10, <3>1 DEF first
    <3>2. CASE k # 0
      BY <2>0, <2>4, <2>6, <2>11, <3>2 DEF first
    <3>3. QED
      BY <3>1, <3>2
  <2>7. kept[k + 1] \in Seq(T) /\ ToSet(kept[k + 1]) = {s[j] : j \in 1..k + 1} \cap S
    <3>1. CASE s[k + 1] \in S
      BY <2>2, <2>4, <2>5, <2>6, <3>1
    <3>2. CASE s[k + 1] \notin S
      BY <2>2, <2>4, <2>5, <3>2
    <3>3. QED
      BY <3>1, <3>2
  <2>8. QED
    BY <1>1, <2>7, <2>12
<1>9. n \in H
  <2> HIDE DEF H, n
  <2>1. 0..n \subseteq H
    BY <1>1, <1>7, <1>8, IntervalInduction
  <2>2. QED
    BY <1>1, <2>1
<1>10. {s[j] : j \in 1..n} = ToSet(s) /\ (s # <<>> => n > 0)
  BY <1>1 DEF ToSet
<1>11. Remaining(s, S) = kept[n]
  BY DEF Remaining, kept
<1>12. QED
  BY <1>9, <1>10, <1>11

\* A program does not change, nor does what is read off it.
LEMMA ProgKept ==
  ASSUME prog' = prog
  PROVE  /\ JumpsToFallthrough' <=> JumpsToFallthrough
         /\ \A ins : Shapes(ins)' = Shapes(ins)
         /\ \A n : Seen(n)' = Seen(n)
BY DEF JumpsToFallthrough, Defined, Shapes, FallLabel, Seen

LEMMA PopKeepsInv ==
  ASSUME SimplifyInv, Pop
  PROVE  SimplifyInv'
<1> SUFFICES ASSUME ~ JumpsToFallthrough PROVE SimplifyInv'
  BY ProgKept DEF Pop, SimplifyInv
<1>1. PICK l \in work : label' = l /\ work' = work \ {l}
  BY DEF Pop
<1>2. phase = "simplify" /\ label = NoLabel /\ UNCHANGED <<graph, keys>>
  BY DEF Pop
<1>3. /\ Linked(graph, ToSet(keys)) /\ keys \in Seq(Labels) /\ NoLabel \notin ToSet(keys)
      /\ work \subseteq DOMAIN graph \cap ToSet(keys)
      /\ \A a \in (DOMAIN graph \cap ToSet(keys)) \ (work \cup {label}) :
           ~ CanAbsorb(TouchNext(graph, a), a)
  BY <1>2 DEF SimplifyInv
<1>4. (DOMAIN graph \cap ToSet(keys)) \ (work' \cup {label'})
        = (DOMAIN graph \cap ToSet(keys)) \ (work \cup {label})
  BY <1>1, <1>2, <1>3
<1>5. \A a \in (DOMAIN graph \cap ToSet(keys)) \ (work' \cup {label'}) :
        ~ CanAbsorb(TouchNext(graph, a), a)
  BY <1>3, <1>4
<1>6. work' \subseteq DOMAIN graph \cap ToSet(keys) /\ label' \in DOMAIN graph \cap ToSet(keys)
  BY <1>1, <1>3
<1>7. QED
  BY <1>2, <1>3, <1>5, <1>6 DEF SimplifyInv

LEMMA StopKeepsInv ==
  ASSUME SimplifyInv, StopAbsorbing
  PROVE  SimplifyInv'
<1> SUFFICES ASSUME ~ JumpsToFallthrough PROVE SimplifyInv'
  BY ProgKept DEF StopAbsorbing, SimplifyInv
<1>1. /\ phase = "simplify" /\ label # NoLabel /\ ~ CanAbsorb(TouchNext(graph, label), label)
      /\ graph' = TouchNext(graph, label) /\ label' = NoLabel /\ UNCHANGED <<keys, work>>
  BY DEF StopAbsorbing
<1>2. PICK K : K = ToSet(keys)
  OBVIOUS
<1>3. /\ Linked(graph, K) /\ keys \in Seq(Labels) /\ NoLabel \notin K
      /\ work \subseteq DOMAIN graph \cap K /\ label \in DOMAIN graph \cap K
      /\ \A a \in (DOMAIN graph \cap K) \ (work \cup {label}) :
           ~ CanAbsorb(TouchNext(graph, a), a)
  BY <1>1, <1>2 DEF SimplifyInv
<1>4. PICK g, h, l : g = graph /\ h = graph' /\ l = label
  OBVIOUS
<1>5. h = TouchNext(g, l) /\ Linked(g, K) /\ l \in DOMAIN g
  BY <1>1, <1>3, <1>4
<1>6. Linked(h, K) /\ DOMAIN h \cap K = DOMAIN g \cap K /\ DOMAIN g \subseteq DOMAIN h
  BY <1>5, TouchLinked
<1>7. ASSUME NEW a \in (DOMAIN h \cap K) \ work
      PROVE  ~ CanAbsorb(TouchNext(h, a), a)
  <2>1. a \in DOMAIN g /\ a \in DOMAIN h
    BY <1>6
  <2>2. ~ CanAbsorb(TouchNext(g, a), a)
    BY <1>1, <1>3, <1>4, <1>6
  <2>3. ~ Chained(g, a)
    BY <2>1, <2>2, ChainedTouched
  <2>4. ~ Chained(h, a)
    BY <1>5, <2>1, <2>3, TouchChains
  <2>5. QED
    BY <2>1, <2>4, ChainedTouched
<1>8. work \subseteq DOMAIN h \cap K
  BY <1>3, <1>4, <1>6
<1>9. QED
  BY <1>1, <1>2, <1>3, <1>4, <1>6, <1>7, <1>8 DEF SimplifyInv

LEMMA AbsorbKeepsInv ==
  ASSUME SimplifyInv, Absorb
  PROVE  SimplifyInv'
<1> SUFFICES ASSUME ~ JumpsToFallthrough PROVE SimplifyInv'
  BY ProgKept DEF Absorb, SimplifyInv
<1>1. /\ phase = "simplify" /\ label # NoLabel /\ CanAbsorb(TouchNext(graph, label), label)
      /\ graph' = Absorbed(TouchNext(graph, label), label)
      /\ work' = work \ {graph[label].nextlist[1]} /\ UNCHANGED <<keys, label>>
  BY DEF Absorb
<1>2. PICK K : K = ToSet(keys)
  OBVIOUS
<1>3. /\ Linked(graph, K) /\ keys \in Seq(Labels) /\ NoLabel \notin K
      /\ work \subseteq DOMAIN graph \cap K /\ label \in DOMAIN graph \cap K
      /\ \A a \in (DOMAIN graph \cap K) \ (work \cup {label}) :
           ~ CanAbsorb(TouchNext(graph, a), a)
  BY <1>1, <1>2 DEF SimplifyInv
<1>4. PICK g0, l : g0 = graph /\ l = label
  OBVIOUS
<1>5. PICK g : g = TouchNext(g0, l)
  OBVIOUS
<1>6. PICK h : h = Absorbed(g, l)
  OBVIOUS
<1>7. PICK n : n = g[l].nextlist[1]
  OBVIOUS
<1>8. Linked(g0, K) /\ l \in DOMAIN g0
  BY <1>3, <1>4
<1>9. /\ Linked(g, K) /\ DOMAIN g \cap K = DOMAIN g0 \cap K /\ DOMAIN g0 \subseteq DOMAIN g
      /\ g[l] = g0[l]
      /\ Len(g0[l].nextlist) = 1 => g0[l].nextlist[1] \in DOMAIN g
  BY <1>5, <1>8, TouchLinked
<1>10. /\ l \in DOMAIN g \cap K /\ CanAbsorb(g, l) /\ n \in DOMAIN g
       /\ work' = work \ {n} /\ graph' = h
  BY <1>1, <1>3, <1>4, <1>5, <1>6, <1>7, <1>9 DEF CanAbsorb
<1>11. Linked(h, K) /\ DOMAIN h \cap K = (DOMAIN g \cap K) \ {n}
  BY <1>6, <1>7, <1>9, <1>10, AbsorbLinked
<1>12. n # l
  BY <1>7, <1>10 DEF CanAbsorb
<1>13. ASSUME NEW a \in (DOMAIN h \cap K) \ ((work \ {n}) \cup {l})
       PROVE  ~ CanAbsorb(TouchNext(h, a), a)
  <2>1. a \in (DOMAIN g \cap K) \ {l, n} /\ a \in DOMAIN g /\ a \in DOMAIN g0 /\ a \in DOMAIN h
    BY <1>9, <1>11
  <2>2. ~ CanAbsorb(TouchNext(g0, a), a)
    BY <1>3, <1>4, <1>11, <2>1
  <2>3. ~ Chained(g0, a)
    BY <2>1, <2>2, ChainedTouched
  <2>4. ~ Chained(g, a)
    BY <1>5, <1>8, <2>1, <2>3, TouchChains
  <2>5. ~ Chained(h, a)
    BY <1>6, <1>7, <1>9, <1>10, <2>1, <2>4, AbsorbChains
  <2>6. QED
    BY <2>1, <2>5, ChainedTouched
<1>14. work' \subseteq DOMAIN h \cap K /\ l \in DOMAIN h \cap K
  BY <1>3, <1>4, <1>9, <1>10, <1>11, <1>12
<1>15. label' = l /\ keys' = keys
  BY <1>1, <1>4
<1>16. QED
  BY <1>2, <1>3, <1>10, <1>11, <1>13, <1>14, <1>15 DEF SimplifyInv

LEMMA SimplifyAgrees ==
  ASSUME SimplifyInv, phase = "simplify"
  PROVE  EdgesAgree
BY DEF SimplifyInv, Linked, Agree, EdgesAgree

\* A list of which every element is a, and which names a once, is short.
LEMMA OneElement ==
  ASSUME NEW S, NEW s \in Seq(S), NEW a, ToSet(s) \subseteq {a}, Occurrences(s, a) = 1
  PROVE  Len(s) = 1
<1>1. DOMAIN s = 1..Len(s) /\ Len(s) \in Nat
  OBVIOUS
<1>2. {k \in DOMAIN s : s[k] = a} = 1..Len(s)
  BY <1>1 DEF ToSet
<1>3. Cardinality(1..Len(s)) = Len(s)
  BY <1>1, FS_Interval
<1>4. QED
  BY <1>2, <1>3 DEF Occurrences

\* Nothing is left to merge when the worklist is empty.
LEMMA SimplifyEnds ==
  ASSUME SimplifyInv, SimplifyReturns
  PROVE  EdgesAgree' /\ ChainsReplaced'
<1> SUFFICES ASSUME ~ JumpsToFallthrough PROVE EdgesAgree' /\ ChainsReplaced'
  BY ProgKept DEF SimplifyReturns, EdgesAgree, ChainsReplaced
<1>1. /\ phase = "simplify" /\ label = NoLabel /\ work = {}
      /\ keys' = Remaining(keys, DOMAIN graph) /\ graph' = graph
  BY DEF SimplifyReturns
<1>2. PICK K, g : K = ToSet(keys) /\ g = graph
  OBVIOUS
<1>3. /\ Linked(g, K) /\ keys \in Seq(Labels)
      /\ \A a \in DOMAIN g \cap K : ~ CanAbsorb(TouchNext(g, a), a)
  BY <1>1, <1>2 DEF SimplifyInv
<1>4. ToSet(keys') = DOMAIN g \cap K
  BY <1>1, <1>2, <1>3, RemainingKept
<1>5. EdgesAgree'
  BY <1>1, <1>2, <1>3, <1>4 DEF EdgesAgree, Linked, Agree
<1>6. ASSUME NEW a \in DOMAIN g \cap K, NEW b \in DOMAIN g \cap K, a # b,
             ToSet(g[a].nextlist) = {b},
             {c \in DOMAIN g \cap K : Contains(g[c].nextlist, b)} = {a}
      PROVE  FALSE
  <2>1. g[a].nextlist \in Seq(Labels) /\ g[b].prevlist \in Seq(Labels)
        /\ NoRepeats(g[a].nextlist) /\ ToSet(g[b].prevlist) \subseteq DOMAIN g \cap K
    BY <1>3 DEF Linked, IsGraphOf, IsBlock
  <2>2. b \in ToSet(g[a].nextlist)
    BY <1>6
  <2>3. Occurrences(g[a].nextlist, b) = 1
    BY <2>1, <2>2, OccurrencesOne
  <2>4. Len(g[a].nextlist) = 1
    BY <1>6, <2>1, <2>3, OneElement
  <2>5. g[a].nextlist[1] = b
    BY <2>1, <2>4, <1>6 DEF ToSet
  <2>6. Occurrences(g[b].prevlist, a) = 1
    BY <1>3, <2>3 DEF Linked, Agree
  <2>7. ToSet(g[b].prevlist) \subseteq {a}
    <3> SUFFICES ASSUME NEW c \in ToSet(g[b].prevlist) PROVE c = a
      OBVIOUS
    <3>1. c \in DOMAIN g \cap K
      BY <2>1
    <3>2. Occurrences(g[b].prevlist, c) # 0
      BY <2>1, OccurrencesFinite
    <3>3. Occurrences(g[c].nextlist, b) # 0
      BY <1>3, <3>1, <3>2 DEF Linked, Agree
    <3>4. g[c].nextlist \in Seq(Labels)
      BY <1>3, <3>1 DEF Linked, IsGraphOf, IsBlock
    <3>5. b \in ToSet(g[c].nextlist)
      BY <3>3, <3>4, OccurrencesFinite
    <3>6. Contains(g[c].nextlist, b)
      <4>1. DOMAIN g[c].nextlist = 1..Len(g[c].nextlist)
        BY <3>4
      <4>2. QED
        BY <3>5, <4>1 DEF ToSet, Contains
    <3>7. QED
      BY <1>6, <3>1, <3>6
  <2>8. Len(g[b].prevlist) = 1
    BY <2>1, <2>6, <2>7, OneElement
  <2>9. Chained(g, a)
    BY <1>6, <2>4, <2>5, <2>8 DEF Chained
  <2>10. QED
    BY <1>3, <2>9, ChainedTouched
<1>7. ChainsReplaced'
  <2> SUFFICES ASSUME NEW a \in ToSet(keys'), NEW b \in ToSet(keys'), a # b,
                      ToSet(graph'[a].nextlist) = {b},
                      {c \in ToSet(keys') : Contains(graph'[c].nextlist, b)} = {a}
               PROVE  FALSE
    BY DEF ChainsReplaced, NoChainLeft
  <2>1. QED
    BY <1>1, <1>2, <1>4, <1>6
<1>8. QED
  BY <1>5, <1>7

-----------------------------------------------------------------------------
(***************************************************************************)
(* to_nondet.                                                              *)
(***************************************************************************)

\* The label of the block on the edge from a to x.
Mid(a, x) == a \o x

\* The label of a block between two instructions is no instruction's, and
\* tells which two.
LEMMA LabelPairs ==
  ASSUME NEW a \in Labels, NEW x \in Labels, Len(a) = 1, Len(x) = 1
  PROVE  /\ Mid(a, x) \in Labels /\ Len(Mid(a, x)) = 2
         /\ \A b, y \in Labels : Len(b) = 1 /\ Len(y) = 1 /\ Mid(a, x) = Mid(b, y) => a = b /\ x = y
<1>1. ASSUME NEW b \in Labels, NEW y \in Labels, Len(b) = 1, Len(y) = 1
      PROVE  /\ Mid(b, y) \in Labels /\ Len(Mid(b, y)) = 2
             /\ Mid(b, y)[1] = b[1] /\ Mid(b, y)[2] = y[1]
             /\ b = <<b[1]>> /\ y = <<y[1]>>
  <2>1. PICK S : Labels = Seq(S)
    BY DEF Labels
  <2>2. PICK z : z = b \o y
    OBVIOUS
  <2>3. b \in Seq(S) /\ y \in Seq(S)
    BY <2>1
  <2>4. z \in Seq(S) /\ Len(z) = 2
    <3>1. z \in Seq(S) /\ Len(z) = Len(b) + Len(y)
      BY <2>2, <2>3, ConcatProperties
    <3>2. QED
      BY <1>1, <3>1
  <2>5. z[1] = b[1] /\ z[2] = y[1]
    <3>1. \A i \in 1..Len(b) + Len(y) : z[i] = IF i <= Len(b) THEN b[i] ELSE y[i - Len(b)]
      BY <2>2, <2>3, ConcatProperties
    <3>2. QED
      BY <1>1, <3>1
  <2>6. b = <<b[1]>> /\ y = <<y[1]>>
    BY <1>1, <2>3
  <2>7. QED
    BY <2>1, <2>2, <2>4, <2>5, <2>6 DEF Mid
<1>2. QED
  BY <1>1

\* What make may have left as successors: two at most, and each of them has a
\* block.  Two equal ones are a jump to the fallthrough.
LEMMA NextsFacts ==
  ASSUME IsProgram(prog), NEW n \in 0..Len(prog), NEW g, Made(g, n), NEW a \in DOMAIN g
  PROVE  LET s == g[a].nextlist IN
         /\ s \in Seq(Labels) /\ Unique(s) \in Seq(Labels)
         /\ Len(Unique(s)) \in {0, 1, 2} /\ ToSet(Unique(s)) = ToSet(s)
         /\ Len(Unique(s)) = 2 => Unique(s)[1] # Unique(s)[2]
         /\ \A x \in ToSet(s) : x \in DOMAIN g /\ x \in Labels /\ Len(x) = 1
         /\ ~ JumpsToFallthrough => Unique(s) = s
<1>1. PICK s : s = g[a].nextlist
  OBVIOUS
<1>2. PICK u : u = Unique(s)
  OBVIOUS
<1>3. s \in Seq(Labels) /\ DOMAIN s = 1..Len(s)
  BY <1>1 DEF Made, IsGraphOf, IsBlock
<1>4. \A x \in ToSet(s) : x \in DOMAIN g /\ x \in Labels /\ Len(x) = 1
  BY <1>1 DEF Made, IsGraphOf
<1>5. Len(s) \in {0, 1, 2} /\ (Len(s) = 2 /\ s[1] = s[2] => JumpsToFallthrough)
  <2>1. CASE s = <<>>
    BY <2>1
  <2>2. CASE s # <<>>
    <3>1. PICK m \in 1..n : prog[m].op # "undef" /\ s \in Shapes(prog[m])
      BY <1>1, <2>2 DEF Made
    <3>2. m \in DOMAIN prog /\ prog[m] \in Defined
      BY <3>1 DEF IsProgram, Defined
    <3>3. \/ Len(s) = 1
          \/ prog[m].op = "if" /\ s = <<prog[m].arg, FallLabel(prog[m].at)>>
      BY <2>2, <3>1 DEF Shapes
    <3>4. QED
      BY <3>2, <3>3 DEF JumpsToFallthrough
  <2>3. QED
    BY <2>1, <2>2
<1>6. CASE Len(s) = 2 /\ s[1] = s[2]
  <2>1. u = <<s[1]>> /\ s[1] \in Labels
    <3>1. u = <<s[1]>>
      BY <1>2, <1>6, Zenon DEF Unique
    <3>2. s[1] \in ToSet(s)
      BY <1>3, <1>6 DEF ToSet
    <3>3. s[1] \in Labels
      BY <1>4, <3>2
    <3>4. QED
      BY <3>1, <3>3
  <2>2. u \in Seq(Labels) /\ Len(u) = 1
    BY <2>1
  <2>3. ToSet(u) = {s[1]}
    BY <2>1 DEF ToSet
  <2>4. ToSet(s) = {s[1]}
    BY <1>3, <1>6 DEF ToSet
  <2>5. QED
    BY <1>1, <1>2, <1>3, <1>4, <1>5, <1>6, <2>2, <2>3, <2>4
<1>7. CASE ~(Len(s) = 2 /\ s[1] = s[2])
  <2>1. u = s
    BY <1>2, <1>7 DEF Unique
  <2>2. QED
    BY <1>1, <1>2, <1>3, <1>4, <1>5, <1>7, <2>1
<1>8. QED
  BY <1>6, <1>7

\* The predecessors that to_nondet writes: a branch is replaced by the block on
\* its edge, and no two are confused.
LEMMA NondetPrevs ==
  ASSUME NEW s \in Seq(Labels), NEW b \in Labels, Len(b) = 1,
         \A p \in ToSet(s) : Len(p) = 1,
         NEW t, t = [k \in DOMAIN s |-> NondetPrev(s[k], b)]
  PROVE  /\ t \in Seq(Labels)
         /\ ToSet(t) = {NondetPrev(p, b) : p \in ToSet(s)}
         /\ \A a \in Labels : Len(a) = 1 =>
              /\ Occurrences(t, a) = IF Len(NextsOf(a)) > 1 THEN 0 ELSE Occurrences(s, a)
              /\ \A x \in Labels : Len(x) = 1 =>
                   Occurrences(t, Mid(a, x)) = IF Len(NextsOf(a)) > 1 /\ x = b
                                            THEN Occurrences(s, a) ELSE 0
<1>1. t = [k \in DOMAIN s |-> NondetPrev(s[k], b)]
  OBVIOUS
<1>2. DOMAIN s = 1..Len(s) /\ \A k \in DOMAIN s : s[k] \in Labels /\ Len(s[k]) = 1
  BY DEF ToSet
<1>3. ASSUME NEW p \in Labels, Len(p) = 1
      PROVE  /\ NondetPrev(p, b) = IF Len(NextsOf(p)) > 1 THEN Mid(p, b) ELSE p
             /\ Mid(p, b) \in Labels /\ Len(Mid(p, b)) = 2
  BY <1>3, LabelPairs DEF NondetPrev, NextsOf, Mid
<1>4. /\ DOMAIN t = DOMAIN s
      /\ \A k \in DOMAIN s : t[k] = IF Len(NextsOf(s[k])) > 1 THEN Mid(s[k], b) ELSE s[k]
  BY <1>1, <1>2, <1>3
<1>5. t \in Seq(Labels)
  <2>1. \A k \in 1..Len(s) : t[k] \in Labels
    BY <1>2, <1>3, <1>4
  <2>2. Len(s) \in Nat /\ t = [k \in 1..Len(s) |-> NondetPrev(s[k], b)]
    BY <1>1, <1>2
  <2>3. QED
    BY <2>1, <2>2
<1>6. ToSet(t) = {NondetPrev(p, b) : p \in ToSet(s)}
  BY <1>1 DEF ToSet
<1>7. ASSUME NEW a \in Labels, Len(a) = 1
      PROVE  Occurrences(t, a) = IF Len(NextsOf(a)) > 1 THEN 0 ELSE Occurrences(s, a)
  <2>1. \A k \in DOMAIN s : t[k] = a <=> ~(Len(NextsOf(s[k])) > 1) /\ s[k] = a
    <3> SUFFICES ASSUME NEW k \in DOMAIN s
        PROVE  t[k] = a <=> ~(Len(NextsOf(s[k])) > 1) /\ s[k] = a
      OBVIOUS
    <3>1. PICK p : p = s[k]
      OBVIOUS
    <3>2. p \in Labels /\ Len(p) = 1 /\ t[k] = IF Len(NextsOf(p)) > 1 THEN Mid(p, b) ELSE p
      BY <1>2, <1>4, <3>1
    <3>3. Mid(p, b) # a
      <4>1. Len(Mid(p, b)) = 2
        BY <1>3, <3>2
      <4>2. 1 # 2
        OBVIOUS
      <4>3. QED
        BY <1>7, <4>1, <4>2, Zenon
    <3>4. QED
      BY <3>1, <3>2, <3>3
  <2>2. CASE Len(NextsOf(a)) > 1
    <3>1. a \notin ToSet(t)
      BY <1>4, <2>1, <2>2 DEF ToSet
    <3>2. QED
      BY <1>5, <2>2, <3>1, OccurrencesFinite
  <2>3. CASE ~(Len(NextsOf(a)) > 1)
    <3>1. {k \in DOMAIN t : t[k] = a} = {k \in DOMAIN s : s[k] = a}
      BY <1>4, <2>1, <2>3
    <3>2. QED
      BY <2>3, <3>1 DEF Occurrences
  <2>4. QED
    BY <2>2, <2>3
<1>8. ASSUME NEW a \in Labels, NEW x \in Labels, Len(a) = 1, Len(x) = 1
      PROVE  Occurrences(t, Mid(a, x)) = IF Len(NextsOf(a)) > 1 /\ x = b
                                      THEN Occurrences(s, a) ELSE 0
  <2>1. PICK m : m = Mid(a, x)
    OBVIOUS
  <2>2. Len(m) = 2 /\ \A p \in Labels : Len(p) = 1 => (m = Mid(p, b) <=> p = a /\ x = b)
    BY <1>8, <2>1, LabelPairs
  <2>3. \A k \in DOMAIN s : t[k] = m <=> Len(NextsOf(s[k])) > 1 /\ s[k] = a /\ x = b
    <3> SUFFICES ASSUME NEW k \in DOMAIN s
        PROVE  t[k] = m <=> Len(NextsOf(s[k])) > 1 /\ s[k] = a /\ x = b
      OBVIOUS
    <3>1. PICK p : p = s[k]
      OBVIOUS
    <3>2. p \in Labels /\ Len(p) = 1 /\ t[k] = IF Len(NextsOf(p)) > 1 THEN Mid(p, b) ELSE p
      BY <1>2, <1>4, <3>1
    <3>3. m = Mid(p, b) <=> p = a /\ x = b
      BY <2>2, <3>2
    <3>4. CASE Len(NextsOf(p)) > 1
      BY <3>1, <3>2, <3>3, <3>4
    <3>5. CASE ~(Len(NextsOf(p)) > 1)
      <4>1. t[k] = p /\ p # m
        BY <2>2, <3>2, <3>5
      <4>2. QED
        BY <3>1, <3>5, <4>1
    <3>6. QED
      BY <3>4, <3>5
  <2>4. CASE Len(NextsOf(a)) > 1 /\ x = b
    <3>1. {k \in DOMAIN t : t[k] = m} = {k \in DOMAIN s : s[k] = a}
      BY <1>4, <2>3, <2>4
    <3>2. QED
      BY <2>1, <2>4, <3>1 DEF Occurrences
  <2>5. CASE ~(Len(NextsOf(a)) > 1 /\ x = b)
    <3>1. m \notin ToSet(t)
      BY <1>4, <2>3, <2>5 DEF ToSet
    <3>2. QED
      BY <1>5, <2>1, <2>5, <3>1, OccurrencesFinite
  <2>6. QED
    BY <2>4, <2>5
<1>9. QED
  BY <1>1, <1>5, <1>6, <1>7, <1>8

\* The blocks that to_nondet puts on the edges of a block.
LEMMA MidsAre ==
  ASSUME NEW a, NextsOf(a) \in Seq(Labels)
  PROVE  Mids(a) = IF Split(a) THEN {Mid(a, x) : x \in ToSet(NextsOf(a))} ELSE {}
<1>1. PICK n : n = NextsOf(a)
  OBVIOUS
<1>2. n \in Seq(Labels)
  BY <1>1
<1>3. CASE Len(n) = 2
  <2>1. ToSet(n) = {n[1], n[2]}
    BY <1>2, <1>3 DEF ToSet
  <2>2. {Mid(a, x) : x \in ToSet(n)} = {Mid(a, n[1]), Mid(a, n[2])}
    BY <2>1
  <2>3. QED
    BY <1>1, <1>3, <2>2 DEF Mids, Split, Mid
<1>4. CASE Len(n) # 2
  BY <1>1, <1>4 DEF Mids, Split
<1>5. QED
  BY <1>3, <1>4

\* When to_nondet returns.
LEMMA NondetLinks ==
  ASSUME IsProgram(prog), NondetInv, NondetReturns, ~ JumpsToFallthrough
  PROVE  Linked(graph, DOMAIN graph) /\ NoLabel \notin DOMAIN graph
<1>1. PICK S, D, g : S = src.graph /\ D = Handled /\ g = graph
  OBVIOUS
<1>2. phase = "nondet" /\ idx = Len(src.keys)
  BY DEF NondetReturns
<1>3. Made(S, Len(prog)) /\ D = Seen(Len(prog)) /\ DOMAIN g = D \cup UNION {Mids(a) : a \in D}
      /\ IsGraphOf(g)
  <2>1. src.keys \in Seq(Labels) /\ ToSet(src.keys) = Seen(Len(prog))
    BY <1>2 DEF NondetInv
  <2>2. Handled = ToSet(src.keys)
    BY <1>2, <2>1 DEF Handled, ToSet
  <2>3. QED
    BY <1>1, <1>2, <2>1, <2>2 DEF NondetInv
<1>4. Len(prog) \in 0..Len(prog)
  BY DEF IsProgram
<1>5. \A a \in D : a \in DOMAIN S /\ a \in Labels /\ Len(a) = 1
  BY <1>3 DEF Made, IsGraphOf
<1>6. ASSUME NEW a \in D
      PROVE  /\ NextsOf(a) = S[a].nextlist /\ NextsOf(a) \in Seq(Labels)
             /\ \A x \in ToSet(NextsOf(a)) : x \in Labels /\ Len(x) = 1
             /\ NoRepeats(NextsOf(a))
             /\ Split(a) <=> Len(NextsOf(a)) > 1
             /\ Split(a) => ToSet(NextsOf(a)) = {NextsOf(a)[1], NextsOf(a)[2]}
                            /\ NextsOf(a)[1] # NextsOf(a)[2]
  <2>1. PICK s : s = S[a].nextlist
    OBVIOUS
  <2>2. /\ s \in Seq(Labels) /\ Unique(s) = s /\ Len(s) \in {0, 1, 2}
        /\ Len(s) = 2 => s[1] # s[2]
        /\ \A x \in ToSet(s) : x \in Labels /\ Len(x) = 1
    BY <1>3, <1>4, <1>5, <2>1, NextsFacts
  <2>3. NextsOf(a) = s
    BY <1>1, <2>1, <2>2 DEF NextsOf
  <2>4. DOMAIN s = 1..Len(s)
    BY <2>2
  <2>5. NoRepeats(s)
    BY <2>2, <2>4 DEF NoRepeats
  <2>6. Len(s) = 2 => ToSet(s) = {s[1], s[2]}
    BY <2>4 DEF ToSet
  <2>7. Len(s) = 2 <=> Len(s) > 1
    BY <2>2
  <2>8. QED
    BY <2>1, <2>2, <2>3, <2>5, <2>6, <2>7 DEF Split
<1>7. \A a \in D : \A x \in ToSet(NextsOf(a)) : Split(a) => Mid(a, x) \in DOMAIN g
  <2>1. \A a \in D : Split(a) => Mids(a) = {Mid(a, x) : x \in ToSet(NextsOf(a))}
    BY <1>6, MidsAre
  <2>2. QED
    BY <1>3, <2>1
<1>8. ASSUME NEW m \in DOMAIN g, m \notin D
      PROVE  \E c \in D : \E x \in ToSet(NextsOf(c)) : Split(c) /\ m = Mid(c, x)
  <2>1. PICK c \in D : m \in Mids(c)
    BY <1>3, <1>8
  <2>2. Mids(c) = IF Split(c) THEN {Mid(c, x) : x \in ToSet(NextsOf(c))} ELSE {}
    BY <1>6, MidsAre
  <2>3. QED
    BY <2>1, <2>2
<1>9. ASSUME NEW a \in D
      PROVE  /\ g[a].nextlist = IF Split(a) THEN <<Mid(a, NextsOf(a)[1]), Mid(a, NextsOf(a)[2])>>
                                ELSE NextsOf(a)
             /\ g[a].prevlist = [k \in DOMAIN S[a].prevlist |-> NondetPrev(S[a].prevlist[k], a)]
             /\ Split(a) => \A n \in ToSet(NextsOf(a)) :
                  g[Mid(a, n)].nextlist = <<n>> /\ g[Mid(a, n)].prevlist = <<a>>
  BY <1>1, <1>2 DEF NondetInv, Converted, Mid
<1>10. \A a \in DOMAIN S : \A b \in DOMAIN S :
         Occurrences(S[a].nextlist, b) = Occurrences(S[b].prevlist, a)
  BY <1>3 DEF Made, Agree
<1>11. ASSUME NEW b \in D
       PROVE  /\ S[b].prevlist \in Seq(Labels) /\ ToSet(S[b].prevlist) \subseteq D
              /\ ToSet(g[b].prevlist) = {NondetPrev(p, b) : p \in ToSet(S[b].prevlist)}
              /\ \A a \in D :
                   /\ Occurrences(g[b].prevlist, a)
                        = IF Split(a) THEN 0 ELSE Occurrences(S[b].prevlist, a)
                   /\ \A x \in ToSet(NextsOf(a)) :
                        Occurrences(g[b].prevlist, Mid(a, x))
                          = IF Split(a) /\ x = b THEN Occurrences(S[b].prevlist, a) ELSE 0
  <2>1. PICK s : s = S[b].prevlist
    OBVIOUS
  <2>2. s \in Seq(Labels) /\ ToSet(s) \subseteq D
    BY <1>3, <1>5, <2>1 DEF Made, IsGraphOf, IsBlock
  <2>3. b \in Labels /\ Len(b) = 1 /\ \A p \in ToSet(s) : Len(p) = 1
    BY <1>5, <2>2
  <2>4. PICK t : t = [k \in DOMAIN s |-> NondetPrev(s[k], b)]
    OBVIOUS
  <2>5. g[b].prevlist = t
    BY <1>9, <2>1, <2>4
  <2>6. /\ ToSet(t) = {NondetPrev(p, b) : p \in ToSet(s)}
        /\ \A a \in Labels : Len(a) = 1 =>
             /\ Occurrences(t, a) = IF Len(NextsOf(a)) > 1 THEN 0 ELSE Occurrences(s, a)
             /\ \A x \in Labels : Len(x) = 1 =>
                  Occurrences(t, Mid(a, x)) = IF Len(NextsOf(a)) > 1 /\ x = b
                                           THEN Occurrences(s, a) ELSE 0
    BY <2>2, <2>3, <2>4, NondetPrevs
  <2>7. ASSUME NEW a \in D
        PROVE  /\ Occurrences(t, a) = IF Split(a) THEN 0 ELSE Occurrences(s, a)
               /\ \A x \in ToSet(NextsOf(a)) :
                    Occurrences(t, Mid(a, x)) = IF Split(a) /\ x = b THEN Occurrences(s, a) ELSE 0
    BY <1>5, <1>6, <2>6
  <2>8. QED
    BY <2>1, <2>2, <2>5, <2>6, <2>7
<1>12. \A a, x, b, y \in Labels : Len(a) = 1 /\ Len(x) = 1 /\ Len(b) = 1 /\ Len(y) = 1 =>
         Len(Mid(a, x)) = 2 /\ Mid(a, x) # b /\ (Mid(a, x) = Mid(b, y) <=> a = b /\ x = y)
  <2> SUFFICES ASSUME NEW a \in Labels, NEW x \in Labels, NEW b \in Labels, NEW y \in Labels,
                      Len(a) = 1, Len(x) = 1, Len(b) = 1, Len(y) = 1
      PROVE  Len(Mid(a, x)) = 2 /\ Mid(a, x) # b /\ (Mid(a, x) = Mid(b, y) <=> a = b /\ x = y)
    OBVIOUS
  <2>1. Len(Mid(a, x)) = 2 /\ (Mid(a, x) = Mid(b, y) => a = b /\ x = y)
    BY LabelPairs
  <2>2. QED
    BY <2>1
<1>13. ASSUME NEW a \in D, NEW b \in D
       PROVE  Occurrences(g[a].nextlist, b) = Occurrences(g[b].prevlist, a)
  <2>1. Occurrences(g[b].prevlist, a) = IF Split(a) THEN 0 ELSE Occurrences(S[b].prevlist, a)
    BY <1>11
  <2>2. CASE Split(a)
    <3>1. PICK x, y : x = NextsOf(a)[1] /\ y = NextsOf(a)[2]
      OBVIOUS
    <3>2. x \in Labels /\ Len(x) = 1 /\ y \in Labels /\ Len(y) = 1
      BY <1>6, <2>2, <3>1
    <3>3. b # Mid(a, x) /\ b # Mid(a, y)
      BY <1>5, <1>12, <3>2
    <3>4. g[a].nextlist = <<Mid(a, x), Mid(a, y)>>
      BY <1>9, <2>2, <3>1
    <3>5. Occurrences(<<Mid(a, x), Mid(a, y)>>, b) = 0
      BY <3>3, OccurrencesPair
    <3>6. QED
      BY <2>1, <2>2, <3>4, <3>5
  <2>3. CASE ~ Split(a)
    <3>1. g[a].nextlist = S[a].nextlist
      BY <1>6, <1>9, <2>3
    <3>2. QED
      BY <1>5, <1>10, <2>1, <2>3, <3>1
  <2>4. QED
    BY <2>2, <2>3
<1>14. ASSUME NEW a \in D, NEW c \in D, NEW z \in ToSet(NextsOf(c)), Split(c)
       PROVE  Occurrences(g[a].nextlist, Mid(c, z)) = Occurrences(g[Mid(c, z)].prevlist, a)
  <2>1. g[Mid(c, z)].prevlist = <<c>> /\ z \in Labels /\ Len(z) = 1
    BY <1>6, <1>9, <1>14
  <2>2. Occurrences(<<c>>, a) = IF a = c THEN 1 ELSE 0
    BY OccurrencesSingle
  <2>3. CASE Split(a)
    <3>1. PICK x, y : x = NextsOf(a)[1] /\ y = NextsOf(a)[2]
      OBVIOUS
    <3>2. /\ x \in Labels /\ Len(x) = 1 /\ y \in Labels /\ Len(y) = 1
          /\ x # y /\ ToSet(NextsOf(a)) = {x, y}
      BY <1>6, <2>3, <3>1
    <3>3. (Mid(c, z) = Mid(a, x) <=> a = c /\ z = x) /\ (Mid(c, z) = Mid(a, y) <=> a = c /\ z = y)
      BY <1>5, <1>12, <2>1, <3>2
    <3>4. g[a].nextlist = <<Mid(a, x), Mid(a, y)>>
      BY <1>9, <2>3, <3>1
    <3>5. Occurrences(<<Mid(a, x), Mid(a, y)>>, Mid(c, z))
            = (IF Mid(c, z) = Mid(a, x) THEN 1 ELSE 0) + (IF Mid(c, z) = Mid(a, y) THEN 1 ELSE 0)
      BY OccurrencesPair
    <3>6. a = c => z = x \/ z = y
      BY <3>2
    <3>7. QED
      BY <2>1, <2>2, <3>2, <3>3, <3>4, <3>5, <3>6
  <2>4. CASE ~ Split(a)
    <3>1. g[a].nextlist = NextsOf(a)
      BY <1>9, <2>4
    <3>2. Len(Mid(c, z)) = 2
      BY <1>5, <1>12, <2>1
    <3>3. Mid(c, z) \notin ToSet(NextsOf(a))
      BY <1>6, <3>2
    <3>4. Occurrences(NextsOf(a), Mid(c, z)) = 0
      BY <1>6, <3>3, OccurrencesFinite
    <3>5. a # c
      BY <1>14, <2>4
    <3>6. QED
      BY <2>1, <2>2, <3>1, <3>4, <3>5
  <2>5. QED
    BY <2>3, <2>4
<1>15. ASSUME NEW b \in D, NEW c \in D, NEW z \in ToSet(NextsOf(c)), Split(c)
       PROVE  Occurrences(g[Mid(c, z)].nextlist, b) = Occurrences(g[b].prevlist, Mid(c, z))
  <2>1. g[Mid(c, z)].nextlist = <<z>>
    BY <1>9, <1>15
  <2>2. Occurrences(<<z>>, b) = IF b = z THEN 1 ELSE 0
    BY OccurrencesSingle
  <2>3. Occurrences(g[b].prevlist, Mid(c, z)) = IF z = b THEN Occurrences(S[b].prevlist, c) ELSE 0
    BY <1>11, <1>15
  <2>4. ASSUME z = b PROVE Occurrences(S[b].prevlist, c) = 1
    <3>1. Occurrences(NextsOf(c), b) = 1
      BY <1>6, <2>4, OccurrencesOne
    <3>2. QED
      BY <1>5, <1>6, <1>10, <3>1
  <2>5. QED
    BY <2>1, <2>2, <2>3, <2>4
<1>16. ASSUME NEW a \in D, NEW x \in ToSet(NextsOf(a)), Split(a),
              NEW c \in D, NEW z \in ToSet(NextsOf(c)), Split(c)
       PROVE  Occurrences(g[Mid(a, x)].nextlist, Mid(c, z)) = Occurrences(g[Mid(c, z)].prevlist, Mid(a, x))
  <2>1. g[Mid(a, x)].nextlist = <<x>> /\ g[Mid(c, z)].prevlist = <<c>>
    BY <1>9, <1>16
  <2>2. Mid(c, z) # x /\ Mid(a, x) # c
    BY <1>5, <1>6, <1>12
  <2>3. Occurrences(<<x>>, Mid(c, z)) = 0 /\ Occurrences(<<c>>, Mid(a, x)) = 0
    BY <2>2, OccurrencesSingle
  <2>4. QED
    BY <2>1, <2>3
<1>17. Agree(g, DOMAIN g)
  <2> SUFFICES ASSUME NEW a \in DOMAIN g, NEW b \in DOMAIN g
      PROVE  Occurrences(g[a].nextlist, b) = Occurrences(g[b].prevlist, a)
    BY DEF Agree
  <2>1. CASE a \in D /\ b \in D
    BY <1>13, <2>1
  <2>2. CASE a \in D /\ b \notin D
    BY <1>8, <1>14, <2>2
  <2>3. CASE a \notin D /\ b \in D
    BY <1>8, <1>15, <2>3
  <2>4. CASE a \notin D /\ b \notin D
    <3>1. PICK c \in D : \E x \in ToSet(NextsOf(c)) : Split(c) /\ a = Mid(c, x)
      BY <1>8, <2>4
    <3>2. PICK e \in D : \E x \in ToSet(NextsOf(e)) : Split(e) /\ b = Mid(e, x)
      BY <1>8, <2>4
    <3>3. QED
      BY <1>16, <3>1, <3>2
  <2>5. QED
    BY <2>1, <2>2, <2>3, <2>4
<1>18. ASSUME NEW a \in DOMAIN g
       PROVE  ToSet(g[a].prevlist) \subseteq DOMAIN g /\ NoRepeats(g[a].nextlist) /\ a # NoLabel
  <2>1. CASE a \in D
    <3>1. ASSUME NEW p \in ToSet(S[a].prevlist) PROVE NondetPrev(p, a) \in DOMAIN g
      <4>1. p \in D /\ S[a].prevlist \in Seq(Labels)
        BY <1>11, <2>1
      <4>2. Occurrences(S[a].prevlist, p) # 0
        BY <4>1, OccurrencesFinite
      <4>3. Occurrences(S[p].nextlist, a) # 0
        BY <1>5, <1>10, <2>1, <4>1, <4>2
      <4>4. a \in ToSet(NextsOf(p))
        <5>1. NextsOf(p) = S[p].nextlist /\ NextsOf(p) \in Seq(Labels)
          BY <1>6, <4>1
        <5>2. QED
          BY <4>3, <5>1, OccurrencesFinite
      <4>5. NondetPrev(p, a) = IF Split(p) THEN Mid(p, a) ELSE p
        BY <1>6, <4>1 DEF NondetPrev, NextsOf, Mid
      <4>6. QED
        BY <1>3, <1>7, <4>1, <4>4, <4>5
    <3>2. ToSet(g[a].prevlist) \subseteq DOMAIN g
      <4>1. ToSet(g[a].prevlist) = {NondetPrev(p, a) : p \in ToSet(S[a].prevlist)}
        BY <1>11, <2>1
      <4>2. QED
        BY <3>1, <4>1
    <3>3. NoRepeats(g[a].nextlist)
      <4>1. CASE Split(a)
        <5>1. PICK x, y : x = NextsOf(a)[1] /\ y = NextsOf(a)[2]
          OBVIOUS
        <5>2. x \in Labels /\ Len(x) = 1 /\ y \in Labels /\ Len(y) = 1 /\ x # y
          BY <1>6, <2>1, <4>1, <5>1
        <5>3. Mid(a, x) # Mid(a, y)
          BY <1>5, <1>12, <2>1, <5>2
        <5>4. g[a].nextlist = <<Mid(a, x), Mid(a, y)>>
          BY <1>9, <2>1, <4>1, <5>1
        <5>5. QED
          BY <5>3, <5>4 DEF NoRepeats
      <4>2. CASE ~ Split(a)
        BY <1>6, <1>9, <2>1, <4>2
      <4>3. QED
        BY <4>1, <4>2
    <3>4. Len(NoLabel) = 0 /\ Len(a) = 1
      BY <1>5, <2>1 DEF NoLabel
    <3>5. QED
      BY <3>2, <3>3, <3>4
  <2>2. CASE a \notin D
    <3>1. PICK c \in D : \E x \in ToSet(NextsOf(c)) : Split(c) /\ a = Mid(c, x)
      BY <1>8, <2>2
    <3>2. PICK x \in ToSet(NextsOf(c)) : Split(c) /\ a = Mid(c, x)
      BY <3>1
    <3>3. g[a].nextlist = <<x>> /\ g[a].prevlist = <<c>> /\ c \in DOMAIN g
      BY <1>3, <1>9, <3>2
    <3>4. Len(a) = 2 /\ Len(NoLabel) = 0
      BY <1>5, <1>6, <1>12, <3>2 DEF NoLabel
    <3>5. NoRepeats(<<x>>) /\ ToSet(<<c>>) = {c}
      BY DEF NoRepeats, ToSet
    <3>6. QED
      BY <3>3, <3>4, <3>5
  <2>3. QED
    BY <2>1, <2>2
<1>19. ASSUME NEW a \in DOMAIN g PROVE ToSet(g[a].nextlist) \cap DOMAIN g \subseteq DOMAIN g
  OBVIOUS
<1>20. Linked(g, DOMAIN g)
  BY <1>3, <1>17, <1>18, <1>19 DEF Linked
<1>21. QED
  BY <1>1, <1>18, <1>20

LEMMA NondetEnds ==
  ASSUME IsProgram(prog), NondetInv, NondetReturns
  PROVE  SimplifyInv'
<1> SUFFICES ASSUME ~ JumpsToFallthrough PROVE SimplifyInv'
  BY ProgKept DEF NondetReturns, SimplifyInv
<1>1. keys \in Seq(Labels) /\ ToSet(keys) = DOMAIN graph
  BY DEF NondetInv, NondetReturns
<1>2. Linked(graph, DOMAIN graph) /\ NoLabel \notin DOMAIN graph
  BY NondetLinks
<1>3. work' = ToSet(keys) /\ label' = NoLabel /\ graph' = graph /\ keys' = keys
  BY DEF NondetReturns
<1>4. work' = DOMAIN graph'
  BY <1>1, <1>3
<1>5. QED
  BY <1>1, <1>2, <1>3, <1>4 DEF SimplifyInv

LEMMA ElementsConcat ==
  ASSUME NEW S, NEW s \in Seq(S), NEW r \in Seq(S)
  PROVE  s \o r \in Seq(S) /\ ToSet(s \o r) = ToSet(s) \cup ToSet(r)
<1>1. PICK t : t = s \o r
  OBVIOUS
<1>2. /\ t \in Seq(S) /\ Len(t) = Len(s) + Len(r)
      /\ \A k \in 1..(Len(s) + Len(r)) : t[k] = IF k <= Len(s) THEN s[k] ELSE r[k - Len(s)]
  BY <1>1, ConcatProperties
<1>3. /\ DOMAIN t = 1..(Len(s) + Len(r)) /\ DOMAIN s = 1..Len(s)
      /\ DOMAIN r = 1..Len(r) /\ Len(s) \in Nat /\ Len(r) \in Nat
  BY <1>2
<1>4. ASSUME NEW x \in ToSet(s) PROVE x \in ToSet(t)
  <2>1. PICK k \in DOMAIN s : s[k] = x
    BY DEF ToSet
  <2>2. k \in DOMAIN t /\ t[k] = x
    BY <1>2, <1>3, <2>1
  <2>3. QED
    BY <2>2 DEF ToSet
<1>5. ASSUME NEW x \in ToSet(r) PROVE x \in ToSet(t)
  <2>1. PICK k \in DOMAIN r : r[k] = x
    BY DEF ToSet
  <2>2. k + Len(s) \in DOMAIN t /\ t[k + Len(s)] = x
    BY <1>2, <1>3, <2>1
  <2>3. QED
    BY <2>2 DEF ToSet
<1>6. ASSUME NEW x \in ToSet(t) PROVE x \in ToSet(s) \/ x \in ToSet(r)
  <2>1. PICK k \in DOMAIN t : t[k] = x
    BY DEF ToSet
  <2>2. CASE k <= Len(s)
    <3>1. k \in DOMAIN s /\ s[k] = x
      BY <1>2, <1>3, <2>1, <2>2
    <3>2. QED
      BY <3>1 DEF ToSet
  <2>3. CASE ~(k <= Len(s))
    <3>1. k - Len(s) \in DOMAIN r /\ r[k - Len(s)] = x
      BY <1>2, <1>3, <2>1, <2>3
    <3>2. QED
      BY <3>1 DEF ToSet
  <2>4. QED
    BY <2>2, <2>3
<1>7. QED
  BY <1>1, <1>2, <1>4, <1>5, <1>6

LEMMA ElementsAppend ==
  ASSUME NEW S, NEW s \in Seq(S), NEW x \in S
  PROVE  Append(s, x) \in Seq(S) /\ ToSet(Append(s, x)) = ToSet(s) \cup {x}
<1>1. PICK u : u = Append(s, x)
  OBVIOUS
<1>2. /\ u \in Seq(S) /\ DOMAIN u = 1..Len(s) + 1 /\ DOMAIN s = 1..Len(s) /\ Len(s) \in Nat
      /\ \A i \in 1..Len(s) : u[i] = s[i]
      /\ u[Len(s) + 1] = x
  BY <1>1
<1>3. ToSet(u) = ToSet(s) \cup {x}
  BY <1>2 DEF ToSet
<1>4. QED
  BY <1>1, <1>2, <1>3

LEMMA LengthsDiffer ==
  ASSUME NEW a, NEW b, Len(a) = 1, Len(b) = 2
  PROVE  a # b
<1>1. 1 # 2
  OBVIOUS
<1>2. QED
  BY <1>1, Zenon

\* The block that to_nondet makes of an instruction.
NondetBlock(this, nexts) ==
  [insts    |-> NondetInsts(src.graph[this].insts),
   prevlist |-> [k \in DOMAIN src.graph[this].prevlist |->
                  NondetPrev(src.graph[this].prevlist[k], this)],
   nextlist |-> IF Len(nexts) = 2 THEN <<Mid(this, nexts[1]), Mid(this, nexts[2])>> ELSE nexts]

\* The labels and blocks that one iteration of to_nondet adds.
NondetAdded(this, nexts, new) ==
  /\ this \in Seen(Len(prog)) /\ this \in Labels /\ Len(this) = 1 /\ IsBlock(new)
  /\ nexts \in Seq(Labels) /\ \A x \in ToSet(nexts) : x \in Labels /\ Len(x) = 1
  /\ keys' \in Seq(Labels) /\ ToSet(keys') = ToSet(keys) \cup {this} \cup Mids(this)
  /\ DOMAIN graph' = DOMAIN graph \cup {this} \cup Mids(this)
  /\ graph'[this] = new
  /\ Len(nexts) = 2 => \A x \in ToSet(nexts) :
       /\ graph'[Mid(this, x)].nextlist = <<x>> /\ graph'[Mid(this, x)].prevlist = <<this>>
       /\ IsBlock(graph'[Mid(this, x)])
  /\ Len(nexts) = 2 => /\ graph'[Mid(this, nexts[1])].insts = <<Assume(this, FALSE)>>
                       /\ graph'[Mid(this, nexts[2])].insts = <<Assume(this, TRUE)>>
  /\ \A l \in DOMAIN graph \ ({this} \cup Mids(this)) : graph'[l] = graph[l]

LEMMA NondetAdds ==
  ASSUME IsProgram(prog), NondetInv, NondetLabel,
         NEW this, this = src.keys[idx + 1], NEW nexts, nexts = NextsOf(this),
         NEW new, new = NondetBlock(this, nexts)
  PROVE  NondetAdded(this, nexts, new)
<1>1. phase = "nondet" /\ idx < Len(src.keys)
  BY Zenon DEF NondetLabel
<1>2. /\ Made(src.graph, Len(prog)) /\ src.keys \in Seq(Labels)
      /\ ToSet(src.keys) = Seen(Len(prog)) /\ idx \in 0..Len(src.keys)
      /\ keys \in Seq(Labels)
  BY <1>1 DEF NondetInv
<1>3. Len(prog) \in 0..Len(prog)
  BY DEF IsProgram
<1>4. this \in Seen(Len(prog)) /\ this \in Labels /\ Len(this) = 1 /\ this \in DOMAIN src.graph
  <2>1. idx + 1 \in 1..Len(src.keys) /\ DOMAIN src.keys = 1..Len(src.keys)
    BY <1>1, <1>2
  <2>2. this \in ToSet(src.keys)
    BY <2>1 DEF ToSet
  <2>3. QED
    BY <1>2, <2>2 DEF Made, IsGraphOf
<1>5. /\ nexts \in Seq(Labels) /\ \A x \in ToSet(nexts) : x \in Labels /\ Len(x) = 1
      /\ Len(nexts) \in {0, 1, 2} /\ (Len(nexts) = 2 => nexts[1] # nexts[2])
  <2>1. PICK s : s = src.graph[this].nextlist
    OBVIOUS
  <2>2. /\ Unique(s) \in Seq(Labels) /\ Len(Unique(s)) \in {0, 1, 2}
        /\ ToSet(Unique(s)) = ToSet(s)
        /\ Len(Unique(s)) = 2 => Unique(s)[1] # Unique(s)[2]
        /\ \A x \in ToSet(s) : x \in Labels /\ Len(x) = 1
    <3>1. PICK n, g : n = Len(prog) /\ g = src.graph
      OBVIOUS
    <3>2. Made(g, n) /\ n \in 0..Len(prog) /\ this \in DOMAIN g /\ s = g[this].nextlist
      BY <1>2, <1>3, <1>4, <2>1, <3>1
    <3>3. QED
      BY <3>2, NextsFacts
  <2>3. nexts = Unique(s)
    BY <2>1 DEF NextsOf
  <2>4. QED
    BY <2>2, <2>3
<1>6. PICK x, y : x = nexts[1] /\ y = nexts[2]
  OBVIOUS
<1>7. ASSUME Len(nexts) = 2
      PROVE  /\ ToSet(nexts) = {x, y} /\ x # y
             /\ x \in Labels /\ y \in Labels /\ Len(x) = 1 /\ Len(y) = 1
             /\ Mid(this, x) \in Labels /\ Mid(this, y) \in Labels
             /\ Len(Mid(this, x)) = 2 /\ Len(Mid(this, y)) = 2 /\ Mid(this, x) # Mid(this, y)
             /\ Mids(this) = {Mid(this, x), Mid(this, y)}
  <2>1. ToSet(nexts) = {x, y}
    BY <1>5, <1>6, <1>7 DEF ToSet
  <2>2. x \in Labels /\ y \in Labels /\ Len(x) = 1 /\ Len(y) = 1
    BY <1>5, <2>1
  <2>3. Mids(this) = {Mid(this, x), Mid(this, y)}
    BY <1>6, <1>7 DEF Mids, Split, Mid
  <2>4. QED
    BY <1>4, <1>5, <1>6, <1>7, <2>1, <2>2, <2>3, LabelPairs
<1>8. Len(nexts) # 2 => Mids(this) = {}
  BY DEF Mids, Split
<1>9. PICK more : more = NewLabels(this, nexts)
  OBVIOUS
<1>10. more \in Seq(Labels) /\ ToSet(more) = {this} \cup Mids(this)
  <2>1. CASE Len(nexts) = 2
    <3>1. more = <<this, Mid(this, x), Mid(this, y)>>
      BY <1>6, <1>9, <2>1 DEF NewLabels, Mid
    <3>2. more \in Seq(Labels)
      BY <1>4, <1>7, <2>1, <3>1
    <3>3. ToSet(more) = {this, Mid(this, x), Mid(this, y)}
      BY <3>1 DEF ToSet
    <3>4. QED
      BY <1>7, <2>1, <3>2, <3>3
  <2>2. CASE Len(nexts) # 2
    <3>1. more = <<this>>
      BY <1>9, <2>2 DEF NewLabels
    <3>2. more \in Seq(Labels) /\ ToSet(more) = {this}
      BY <1>4, <3>1 DEF ToSet
    <3>3. QED
      BY <1>8, <2>2, <3>2
  <2>3. QED
    BY <2>1, <2>2
<1>11. keys' = keys \o more
  BY <1>9, Zenon DEF NondetLabel, NextsOf
<1>12. keys' \in Seq(Labels) /\ ToSet(keys') = ToSet(keys) \cup ToSet(more)
  <2>1. PICK s : s = keys
    OBVIOUS
  <2>2. s \o more \in Seq(Labels) /\ ToSet(s \o more) = ToSet(s) \cup ToSet(more)
    BY <1>2, <1>10, <2>1, ElementsConcat
  <2>3. QED
    BY <1>11, <2>1, <2>2
<1> DEFINE value(l) ==
      CASE l = this -> new
        [] Len(nexts) = 2 /\ l = Mid(this, x) -> MidBlock(this, x, FALSE)
        [] Len(nexts) = 2 /\ l = Mid(this, y) -> MidBlock(this, y, TRUE)
        [] OTHER -> graph[l]
<1>13. graph' = [l \in DOMAIN graph \cup ToSet(more) |-> value(l)]
  <2> DEFINE F(a, n, u, v, b) ==
        [l \in DOMAIN graph \cup ToSet(NewLabels(a, n)) |->
          CASE l = a -> b
            [] Len(n) = 2 /\ l = Mid(a, u) -> MidBlock(a, u, FALSE)
            [] Len(n) = 2 /\ l = Mid(a, v) -> MidBlock(a, v, TRUE)
            [] OTHER -> graph[l]]
       T == src.keys[idx + 1]
  <2>1. graph' = F(T, NextsOf(T), NextsOf(T)[1], NextsOf(T)[2], NondetBlock(T, NextsOf(T)))
    BY Zenon DEF NondetLabel, NextsOf, NondetBlock, Mid
  <2> HIDE DEF F
  <2>2. graph' = F(this, nexts, x, y, new)
    BY <1>6, <2>1
  <2>3. QED
    BY <1>9, <2>2 DEF F
<1>14. Len(nexts) = 2 => this # Mid(this, x) /\ this # Mid(this, y)
  BY <1>4, <1>7, LengthsDiffer
<1>15. value(this) = new
  BY <1>14
<1>16. ASSUME Len(nexts) = 2
       PROVE  /\ value(Mid(this, x)) = MidBlock(this, x, FALSE)
              /\ value(Mid(this, y)) = MidBlock(this, y, TRUE)
  BY <1>7, <1>14, <1>16
<1>17. \A l : l \notin {this} \cup Mids(this) => value(l) = graph[l]
  BY <1>7
<1> HIDE DEF value
<1>18. DOMAIN graph' = DOMAIN graph \cup {this} \cup Mids(this)
  BY <1>10, <1>13
<1>19. graph'[this] = new
  BY <1>13, <1>15, <1>18
<1>20. ASSUME NEW z \in Labels, NEW neg
       PROVE  LET b == MidBlock(this, z, neg) IN
              IsBlock(b) /\ b.nextlist = <<z>> /\ b.prevlist = <<this>>
  BY <1>4 DEF MidBlock, IsBlock
<1>21. ASSUME Len(nexts) = 2, NEW z \in ToSet(nexts)
       PROVE  /\ graph'[Mid(this, z)].nextlist = <<z>>
              /\ graph'[Mid(this, z)].prevlist = <<this>>
              /\ IsBlock(graph'[Mid(this, z)])
  <2>1. Mid(this, z) \in DOMAIN graph' /\ (z = x \/ z = y) /\ z \in Labels
    BY <1>7, <1>18, <1>21
  <2>2. graph'[Mid(this, z)] = value(Mid(this, z))
    BY <1>13, <2>1
  <2>3. \E neg : graph'[Mid(this, z)] = MidBlock(this, z, neg)
    BY <1>16, <1>21, <2>1, <2>2
  <2>4. QED
    BY <1>20, <2>1, <2>3
<1>22. \A l \in DOMAIN graph \ ({this} \cup Mids(this)) : graph'[l] = graph[l]
  BY <1>13, <1>17
<1>23. IsBlock(new)
  <2>1. PICK s : s = src.graph[this].prevlist
    OBVIOUS
  <2>2. s \in Seq(Labels) /\ \A p \in ToSet(s) : Len(p) = 1
    <3>1. s \in Seq(Labels) /\ ToSet(s) \subseteq DOMAIN src.graph
      BY <1>2, <1>4, <2>1 DEF Made, IsGraphOf, IsBlock
    <3>2. QED
      BY <1>2, <3>1 DEF Made
  <2>3. PICK t : t = [k \in DOMAIN s |-> NondetPrev(s[k], this)]
    OBVIOUS
  <2>4. t \in Seq(Labels)
    BY <1>4, <2>2, <2>3, NondetPrevs
  <2>5. new.prevlist = t
    BY <2>1, <2>3 DEF NondetBlock
  <2>6. new.nextlist \in Seq(Labels)
    <3>1. CASE Len(nexts) = 2
      <4>1. new.nextlist = <<Mid(this, x), Mid(this, y)>>
        BY <1>6, <3>1 DEF NondetBlock
      <4>2. QED
        BY <1>7, <3>1, <4>1
    <3>2. CASE Len(nexts) # 2
      <4>1. new.nextlist = nexts
        BY <3>2 DEF NondetBlock
      <4>2. QED
        BY <1>5, <4>1
    <3>3. QED
      BY <3>1, <3>2
  <2>7. new = [insts |-> new.insts, nextlist |-> new.nextlist, prevlist |-> new.prevlist]
    BY DEF NondetBlock
  <2>8. QED
    BY <2>4, <2>5, <2>6, <2>7 DEF IsBlock
<1>24. ASSUME Len(nexts) = 2
       PROVE  /\ graph'[Mid(this, nexts[1])].insts = <<Assume(this, FALSE)>>
              /\ graph'[Mid(this, nexts[2])].insts = <<Assume(this, TRUE)>>
  <2>1. Mid(this, x) \in DOMAIN graph' /\ Mid(this, y) \in DOMAIN graph'
    BY <1>7, <1>18, <1>24
  <2>2. /\ graph'[Mid(this, x)] = MidBlock(this, x, FALSE)
        /\ graph'[Mid(this, y)] = MidBlock(this, y, TRUE)
    BY <1>13, <1>16, <1>24, <2>1
  <2>3. ASSUME NEW z, NEW neg PROVE MidBlock(this, z, neg).insts = <<Assume(this, neg)>>
    BY DEF MidBlock
  <2>4. /\ MidBlock(this, x, FALSE).insts = <<Assume(this, FALSE)>>
        /\ MidBlock(this, y, TRUE).insts = <<Assume(this, TRUE)>>
    BY <2>3, Zenon
  <2>5. /\ graph'[Mid(this, x)].insts = <<Assume(this, FALSE)>>
        /\ graph'[Mid(this, y)].insts = <<Assume(this, TRUE)>>
    BY <2>2, <2>4, Zenon
  <2>6. QED
    BY <1>6, <2>5
<1>25. QED
  BY <1>4, <1>5, <1>10, <1>12, <1>18, <1>19, <1>21, <1>22, <1>23, <1>24, ZenonT(40) DEF NondetAdded

LEMMA MadeKept ==
  ASSUME prog' = prog, NEW g, NEW n
  PROVE  Made(g, n)' <=> Made(g, n)
BY ProgKept DEF Made

LEMMA ConvertedKept ==
  ASSUME src' = src, NEW a, NEW g
  PROVE  Converted(a, g)' <=> Converted(a, g)
BY DEF Converted, NextsOf, Split, NondetPrev

\* An iteration leaves the blocks of the labels that are handled as they are.
LEMMA NondetLeaves ==
  ASSUME IsProgram(prog), NondetInv, NondetLabel, NEW a \in Handled, a # src.keys[idx + 1]
  PROVE  /\ graph'[a] = graph[a]
         /\ Split(a) => \A x \in ToSet(NextsOf(a)) : graph'[Mid(a, x)] = graph[Mid(a, x)]
<1>1. phase = "nondet" /\ idx < Len(src.keys) /\ idx' = idx + 1 /\ src' = src
  BY Zenon DEF NondetLabel
<1>2. /\ Made(src.graph, Len(prog)) /\ src.keys \in Seq(Labels)
      /\ ToSet(src.keys) = Seen(Len(prog)) /\ idx \in 0..Len(src.keys)
      /\ ToSet(keys) = DOMAIN graph
      /\ DOMAIN graph = Handled \cup UNION {Mids(c) : c \in Handled}
      /\ IsGraphOf(graph)
  BY <1>1 DEF NondetInv
<1>3. PICK this : this = src.keys[idx + 1]
  OBVIOUS
<1>4. PICK nexts : nexts = NextsOf(this)
  OBVIOUS
<1>5. PICK new : new = NondetBlock(this, nexts)
  OBVIOUS
<1>6. NondetAdded(this, nexts, new)
  BY <1>3, <1>4, <1>5, NondetAdds
<1>7. /\ this \in Seen(Len(prog)) /\ this \in Labels /\ Len(this) = 1 /\ IsBlock(new)
      /\ nexts \in Seq(Labels) /\ \A x \in ToSet(nexts) : x \in Labels /\ Len(x) = 1
      /\ keys' \in Seq(Labels) /\ ToSet(keys') = ToSet(keys) \cup {this} \cup Mids(this)
      /\ DOMAIN graph' = DOMAIN graph \cup {this} \cup Mids(this)
      /\ graph'[this] = new
      /\ Len(nexts) = 2 => \A x \in ToSet(nexts) :
           /\ graph'[Mid(this, x)].nextlist = <<x>> /\ graph'[Mid(this, x)].prevlist = <<this>>
           /\ IsBlock(graph'[Mid(this, x)])
      /\ \A l \in DOMAIN graph \ ({this} \cup Mids(this)) : graph'[l] = graph[l]
  BY <1>6 DEF NondetAdded
<1>8. PICK D, E : D = Handled /\ E = Handled'
  OBVIOUS
<1>9. E = D \cup {this}
  <2>1. 1..(idx + 1) = (1..idx) \cup {idx + 1}
    BY <1>2
  <2>2. QED
    BY <1>1, <1>3, <1>8, <2>1 DEF Handled
<1>10. D \subseteq Seen(Len(prog))
  <2>1. \A k \in 1..idx : k \in DOMAIN src.keys
    BY <1>1, <1>2
  <2>2. QED
    BY <1>2, <1>8, <2>1 DEF Handled, ToSet
<1>11. \A c \in E : c \in Labels /\ Len(c) = 1 /\ c \in DOMAIN src.graph
  BY <1>2, <1>7, <1>9, <1>10 DEF Made, IsGraphOf
<1>12. Len(prog) \in 0..Len(prog)
  BY DEF IsProgram
<1>13. ASSUME NEW c \in E
       PROVE  /\ NextsOf(c) \in Seq(Labels)
              /\ \A x \in ToSet(NextsOf(c)) : x \in Labels /\ Len(x) = 1
              /\ Mids(c) = IF Split(c) THEN {Mid(c, x) : x \in ToSet(NextsOf(c))} ELSE {}
  <2>1. PICK s : s = src.graph[c].nextlist
    OBVIOUS
  <2>2. /\ Unique(s) \in Seq(Labels) /\ ToSet(Unique(s)) = ToSet(s)
        /\ \A x \in ToSet(s) : x \in Labels /\ Len(x) = 1
    BY <1>2, <1>11, <1>12, <2>1, NextsFacts
  <2>3. NextsOf(c) = Unique(s)
    BY <2>1 DEF NextsOf
  <2>4. QED
    BY <2>2, <2>3, MidsAre
<1>14. a \in D /\ a # this
  BY <1>3, <1>8
<1>15. a \in E /\ this \in E
  BY <1>9, <1>14
<1>16. a \notin Mids(this)
  <2> SUFFICES ASSUME a \in Mids(this) PROVE FALSE
    OBVIOUS
  <2>1. PICK x \in ToSet(NextsOf(this)) : a = Mid(this, x)
    BY <1>13, <1>15
  <2>2. x \in Labels /\ Len(x) = 1
    BY <1>13, <1>15
  <2>3. Len(a) = 2
    BY <1>7, <2>1, <2>2, LabelPairs
  <2>4. QED
    BY <1>11, <1>15, <2>3, LengthsDiffer
<1>17. graph'[a] = graph[a]
  BY <1>2, <1>7, <1>8, <1>14, <1>16
<1>18. ASSUME Split(a), NEW x \in ToSet(NextsOf(a))
      PROVE  graph'[Mid(a, x)] = graph[Mid(a, x)]
  <2>1. x \in Labels /\ Len(x) = 1 /\ a \in Labels /\ Len(a) = 1
    BY <1>11, <1>13, <1>15, <1>18
  <2>2. Mid(a, x) \in Mids(a)
    BY <1>13, <1>15, <1>18
  <2>3. Mid(a, x) \in DOMAIN graph
    BY <1>2, <1>8, <2>2
  <2>4. Mid(a, x) # this
    <3>1. Len(Mid(a, x)) = 2
      BY <2>1, LabelPairs
    <3>2. QED
      BY <1>7, <3>1, LengthsDiffer
  <2>5. Mid(a, x) \notin Mids(this)
    <3> SUFFICES ASSUME Mid(a, x) \in Mids(this) PROVE FALSE
      OBVIOUS
    <3>1. PICK y \in ToSet(NextsOf(this)) : Mid(a, x) = Mid(this, y)
      BY <1>13, <1>15
    <3>2. y \in Labels /\ Len(y) = 1
      BY <1>13, <1>15
    <3>3. a = this
      BY <1>7, <2>1, <3>1, <3>2, LabelPairs
    <3>4. QED
      BY <1>14, <3>3
  <2>6. QED
    BY <1>7, <2>3, <2>4, <2>5
<1>19. QED
  BY <1>17, <1>18

LEMMA NondetKeepsInv ==
  ASSUME IsProgram(prog), NondetInv, NondetLabel
  PROVE  NondetInv'
<1>1. /\ phase = "nondet" /\ idx < Len(src.keys) /\ idx' = idx + 1
      /\ UNCHANGED <<prog, phase, src>>
  BY Zenon DEF NondetLabel
<1>2. /\ Made(src.graph, Len(prog)) /\ src.keys \in Seq(Labels)
      /\ ToSet(src.keys) = Seen(Len(prog)) /\ idx \in 0..Len(src.keys)
      /\ ToSet(keys) = DOMAIN graph
      /\ DOMAIN graph = Handled \cup UNION {Mids(a) : a \in Handled}
      /\ IsGraphOf(graph)
  BY <1>1 DEF NondetInv
<1>3. PICK this : this = src.keys[idx + 1]
  OBVIOUS
<1>4. PICK nexts : nexts = NextsOf(this)
  OBVIOUS
<1>5. PICK new : new = NondetBlock(this, nexts)
  OBVIOUS
<1>6. NondetAdded(this, nexts, new)
  BY <1>3, <1>4, <1>5, NondetAdds
<1>7. /\ this \in Seen(Len(prog)) /\ this \in Labels /\ Len(this) = 1 /\ IsBlock(new)
      /\ nexts \in Seq(Labels) /\ \A x \in ToSet(nexts) : x \in Labels /\ Len(x) = 1
      /\ keys' \in Seq(Labels) /\ ToSet(keys') = ToSet(keys) \cup {this} \cup Mids(this)
      /\ DOMAIN graph' = DOMAIN graph \cup {this} \cup Mids(this)
      /\ graph'[this] = new
      /\ Len(nexts) = 2 => \A x \in ToSet(nexts) :
           /\ graph'[Mid(this, x)].nextlist = <<x>> /\ graph'[Mid(this, x)].prevlist = <<this>>
           /\ IsBlock(graph'[Mid(this, x)])
      /\ \A l \in DOMAIN graph \ ({this} \cup Mids(this)) : graph'[l] = graph[l]
  BY <1>6 DEF NondetAdded
<1>8. /\ \A a : NextsOf(a)' = NextsOf(a) /\ (Split(a)' <=> Split(a)) /\ Mids(a)' = Mids(a)
      /\ \A p, a : NondetPrev(p, a)' = NondetPrev(p, a)
  BY <1>1 DEF NextsOf, Split, Mids, NondetPrev
<1>9. PICK D, E : D = Handled /\ E = Handled'
  OBVIOUS
<1>10. E = D \cup {this}
  <2>1. 1..(idx + 1) = (1..idx) \cup {idx + 1}
    BY <1>2
  <2>2. QED
    BY <1>1, <1>3, <1>9, <2>1 DEF Handled
<1>11. D \subseteq Seen(Len(prog))
  <2>1. \A k \in 1..idx : k \in DOMAIN src.keys
    BY <1>1, <1>2
  <2>2. QED
    BY <1>2, <1>9, <2>1 DEF Handled, ToSet
<1>12. \A a \in E : a \in Labels /\ Len(a) = 1 /\ a \in DOMAIN src.graph
  BY <1>2, <1>7, <1>10, <1>11 DEF Made, IsGraphOf
<1>13. Len(prog) \in 0..Len(prog)
  BY DEF IsProgram
<1>14. ASSUME NEW a \in E
       PROVE  /\ NextsOf(a) \in Seq(Labels)
              /\ \A x \in ToSet(NextsOf(a)) : x \in Labels /\ Len(x) = 1
              /\ Mids(a) = IF Split(a) THEN {Mid(a, x) : x \in ToSet(NextsOf(a))} ELSE {}
  <2>1. PICK s : s = src.graph[a].nextlist
    OBVIOUS
  <2>2. /\ Unique(s) \in Seq(Labels) /\ ToSet(Unique(s)) = ToSet(s)
        /\ \A x \in ToSet(s) : x \in Labels /\ Len(x) = 1
    BY <1>2, <1>12, <1>13, <2>1, NextsFacts
  <2>3. NextsOf(a) = Unique(s)
    BY <2>1 DEF NextsOf
  <2>4. QED
    BY <2>2, <2>3, MidsAre
<1>15. DOMAIN graph' = E \cup UNION {Mids(a) : a \in E}
  BY <1>2, <1>7, <1>9, <1>10
<1>16. ASSUME NEW a \in D, a # this
       PROVE  /\ graph'[a] = graph[a]
              /\ Split(a) => \A x \in ToSet(NextsOf(a)) : graph'[Mid(a, x)] = graph[Mid(a, x)]
  BY <1>3, <1>9, <1>16, NondetLeaves
<1>17. IsGraphOf(graph')
  <2> SUFFICES ASSUME NEW l \in DOMAIN graph' PROVE l \in Labels /\ IsBlock(graph'[l])
    BY DEF IsGraphOf
  <2>1. CASE l = this
    BY <1>7, <2>1
  <2>2. CASE l \in Mids(this)
    <3>1. this \in E
      BY <1>10
    <3>2. Split(this)
      BY <1>14, <2>2, <3>1
    <3>3. PICK x \in ToSet(NextsOf(this)) : l = Mid(this, x)
      BY <1>14, <2>2, <3>1, <3>2
    <3>4. IsBlock(graph'[l])
      BY <1>4, <1>7, <3>2, <3>3 DEF Split
    <3>5. l \in Labels
      BY <1>7, <1>14, <3>1, <3>3, LabelPairs
    <3>6. QED
      BY <3>4, <3>5
  <2>3. CASE l \notin {this} \cup Mids(this)
    <3>1. l \in DOMAIN graph /\ graph'[l] = graph[l]
      BY <1>7, <2>3
    <3>2. QED
      BY <1>2, <3>1 DEF IsGraphOf
  <2>4. QED
    BY <2>1, <2>2, <2>3
<1>18. PICK g, h : g = graph /\ h = graph'
  OBVIOUS
<1>19. ASSUME NEW a \in E PROVE Converted(a, h)
  <2>1. CASE a = this
    <3>1. h[a] = new
      BY <1>7, <1>18, <2>1
    <3>2. new.nextlist = IF Len(nexts) = 2 THEN <<this \o nexts[1], this \o nexts[2]>> ELSE nexts
      BY <1>5 DEF NondetBlock, Mid
    <3>3. new.prevlist = [k \in DOMAIN src.graph[this].prevlist |->
                           NondetPrev(src.graph[this].prevlist[k], this)]
      BY <1>5 DEF NondetBlock
    <3>4. Len(nexts) = 2 => \A n \in ToSet(nexts) :
            h[this \o n].nextlist = <<n>> /\ h[this \o n].prevlist = <<this>>
      BY <1>7, <1>18 DEF Mid
    <3>5. h[a].nextlist = IF Split(a) THEN <<a \o NextsOf(a)[1], a \o NextsOf(a)[2]>>
                          ELSE NextsOf(a)
      BY <1>4, <2>1, <3>1, <3>2 DEF Split
    <3>6. Split(a) => \A n \in ToSet(NextsOf(a)) :
            h[a \o n].nextlist = <<n>> /\ h[a \o n].prevlist = <<a>>
      BY <1>4, <2>1, <3>4 DEF Split
    <3>7. QED
      BY <2>1, <3>1, <3>3, <3>5, <3>6 DEF Converted
  <2>2. CASE a # this
    <3>1. a \in D
      BY <1>10, <2>2
    <3>2. Converted(a, g)
      BY <1>1, <1>9, <1>18, <3>1 DEF NondetInv
    <3>3. QED
      BY <1>16, <1>18, <2>2, <3>1, <3>2 DEF Converted, Mid
  <2>3. QED
    BY <2>1, <2>2
<1>20. Made(src.graph, Len(prog))'
  <2>1. PICK f, n : f = src.graph /\ n = Len(prog)
    OBVIOUS
  <2>2. Made(f, n)'
    BY <1>1, <1>2, <2>1, MadeKept
  <2>3. f = src'.graph /\ n = Len(prog')
    BY <1>1, <2>1
  <2>4. QED
    BY <2>2, <2>3
<1>21. (ToSet(src.keys) = Seen(Len(prog)))'
  BY <1>1, <1>2 DEF Seen
<1>22. /\ src'.keys \in Seq(Labels) /\ idx' \in 0..Len(src'.keys) /\ keys' \in Seq(Labels)
       /\ ToSet(keys') = DOMAIN graph'
  BY <1>1, <1>2, <1>7
<1>23. (DOMAIN graph = Handled \cup UNION {Mids(a) : a \in Handled})'
  BY <1>8, <1>9, <1>15
<1>24. (\A a \in Handled : Converted(a, graph))'
  <2>1. \A a \in E : Converted(a, h)'
    BY <1>1, <1>19, ConvertedKept
  <2>2. QED
    BY <1>9, <1>18, <2>1
<1>25. QED
  BY <1>17, <1>20, <1>21, <1>22, <1>23, <1>24 DEF NondetInv

-----------------------------------------------------------------------------
(***************************************************************************)
(* make.                                                                   *)
(***************************************************************************)

\* A graph of instructions in which each edge is listed on both sides.
Even(g) ==
  /\ IsGraphOf(g) /\ Agree(g, DOMAIN g)
  /\ \A a \in DOMAIN g : /\ Len(a) = 1
                         /\ ToSet(g[a].nextlist) \subseteq DOMAIN g
                         /\ ToSet(g[a].prevlist) \subseteq DOMAIN g

Nexts(g, a) == IF a \in DOMAIN g THEN g[a].nextlist ELSE <<>>
Prevs(g, a) == IF a \in DOMAIN g THEN g[a].prevlist ELSE <<>>

\* A graph that is even can be linked: what is no block has no edge.
LEMMA EvenEdges ==
  ASSUME NEW g, Even(g), NEW a, NEW b
  PROVE  /\ Nexts(g, a) \in Seq(Labels) /\ Prevs(g, a) \in Seq(Labels)
         /\ ToSet(Nexts(g, a)) \subseteq DOMAIN g /\ ToSet(Prevs(g, a)) \subseteq DOMAIN g
         /\ Occurrences(Nexts(g, a), b) = Occurrences(Prevs(g, b), a)
<1>1. ASSUME NEW x
      PROVE  /\ Nexts(g, x) \in Seq(Labels) /\ Prevs(g, x) \in Seq(Labels)
             /\ ToSet(Nexts(g, x)) \subseteq DOMAIN g /\ ToSet(Prevs(g, x)) \subseteq DOMAIN g
  <2>1. <<>> \in Seq(Labels) /\ ToSet(<<>>) = {}
    BY EmptySeq DEF ToSet
  <2>2. QED
    BY <2>1 DEF Even, IsGraphOf, IsBlock, Nexts, Prevs
<1>2. Occurrences(<<>>, a) = 0 /\ Occurrences(<<>>, b) = 0
  BY OccurrencesNone
<1>3. CASE a \in DOMAIN g /\ b \in DOMAIN g
  <2>1. Nexts(g, a) = g[a].nextlist /\ Prevs(g, b) = g[b].prevlist
    BY <1>3 DEF Nexts, Prevs
  <2>2. Occurrences(g[a].nextlist, b) = Occurrences(g[b].prevlist, a)
    BY <1>3 DEF Even, Agree
  <2>3. QED
    BY <1>1, <2>1, <2>2
<1>4. CASE a \notin DOMAIN g
  <2>1. Nexts(g, a) = <<>>
    BY <1>4 DEF Nexts
  <2>2. a \notin ToSet(Prevs(g, b))
    BY <1>1, <1>4
  <2>3. Occurrences(Prevs(g, b), a) = 0
    BY <1>1, <2>2, OccurrencesFinite
  <2>4. QED
    BY <1>1, <1>2, <2>1, <2>3
<1>5. CASE b \notin DOMAIN g
  <2>1. Prevs(g, b) = <<>>
    BY <1>5 DEF Prevs
  <2>2. b \notin ToSet(Nexts(g, a))
    BY <1>1, <1>5
  <2>3. Occurrences(Nexts(g, a), b) = 0
    BY <1>1, <2>2, OccurrencesFinite
  <2>4. QED
    BY <1>1, <1>2, <2>1, <2>3
<1>6. QED
  BY <1>3, <1>4, <1>5

LEMMA TouchBlocks ==
  ASSUME NEW g, IsGraphOf(g), NEW l \in Labels
  PROVE  LET h == Touch(g, l) IN
         /\ DOMAIN h = DOMAIN g \cup {l} /\ IsGraphOf(h)
         /\ \A a \in DOMAIN h : h[a].nextlist = Nexts(g, a) /\ h[a].prevlist = Prevs(g, a)
<1>1. PICK h : h = Touch(g, l)
  OBVIOUS
<1>2. h = [x \in DOMAIN g \cup {l} |-> IF x \in DOMAIN g THEN g[x] ELSE NoBlock]
  BY <1>1 DEF Touch, TouchAll
<1>3. IsGraphOf(h)
  BY <1>2, BlankLinked DEF IsGraphOf
<1>4. \A a \in DOMAIN h : h[a].nextlist = Nexts(g, a) /\ h[a].prevlist = Prevs(g, a)
  BY <1>2, BlankLinked DEF Nexts, Prevs
<1>5. QED
  BY <1>1, <1>2, <1>3, <1>4

\* h is g with a block for l and no edge more.
Started(g, l, h) ==
  /\ Even(h) /\ DOMAIN h = DOMAIN g \cup {l}
  /\ \A a : Nexts(h, a) = Nexts(g, a) /\ Prevs(h, a) = Prevs(g, a)

\* The block that make starts for an instruction changes no edge.
LEMMA BlockEven ==
  ASSUME NEW g, Even(g), NEW l \in Labels, Len(l) = 1, NEW i,
         NEW h, h = [Touch(g, l) EXCEPT ![l].insts = i]
  PROVE  Started(g, l, h)
<1>1. PICK t : t = Touch(g, l)
  OBVIOUS
<1>2. h = [t EXCEPT ![l].insts = i]
  BY <1>1
<1>3. /\ DOMAIN t = DOMAIN g \cup {l} /\ IsGraphOf(t)
      /\ \A a \in DOMAIN t : t[a].nextlist = Nexts(g, a) /\ t[a].prevlist = Prevs(g, a)
  BY <1>1, TouchBlocks DEF Even
<1>4. /\ IsBlock(h[l]) /\ h[l].nextlist = t[l].nextlist /\ h[l].prevlist = t[l].prevlist
  <2>1. PICK b : b = t[l]
    OBVIOUS
  <2>2. IsBlock(b)
    BY <1>3, <2>1 DEF IsGraphOf
  <2>3. h[l] = [insts |-> i, nextlist |-> b.nextlist, prevlist |-> b.prevlist]
    <3>1. h[l] = [b EXCEPT !.insts = i]
      BY <1>2, <1>3, <2>1
    <3>2. QED
      BY <2>2, <3>1 DEF IsBlock
  <2>4. QED
    BY <2>1, <2>2, <2>3 DEF IsBlock
<1>5. DOMAIN h = DOMAIN t /\ \A a \in DOMAIN t \ {l} : h[a] = t[a]
  BY <1>2
<1>6. IsGraphOf(h)
  BY <1>3, <1>4, <1>5 DEF IsGraphOf
<1>7. \A a \in DOMAIN h : h[a].nextlist = Nexts(g, a) /\ h[a].prevlist = Prevs(g, a)
  BY <1>3, <1>4, <1>5
<1>8. \A a : Nexts(h, a) = Nexts(g, a) /\ Prevs(h, a) = Prevs(g, a)
  <2> SUFFICES ASSUME NEW a PROVE Nexts(h, a) = Nexts(g, a) /\ Prevs(h, a) = Prevs(g, a)
    OBVIOUS
  <2>1. CASE a \in DOMAIN h
    BY <1>7, <2>1 DEF Nexts, Prevs
  <2>2. CASE a \notin DOMAIN h
    <3>1. a \notin DOMAIN g
      BY <1>3, <1>5, <2>2
    <3>2. QED
      BY <2>2, <3>1 DEF Nexts, Prevs
  <2>3. QED
    BY <2>1, <2>2
<1>9. Agree(h, DOMAIN h)
  BY <1>7, EvenEdges DEF Agree
<1>10. \A a \in DOMAIN h : /\ Len(a) = 1
                           /\ ToSet(h[a].nextlist) \subseteq DOMAIN h
                           /\ ToSet(h[a].prevlist) \subseteq DOMAIN h
  <2> SUFFICES ASSUME NEW a \in DOMAIN h
      PROVE  /\ Len(a) = 1 /\ ToSet(h[a].nextlist) \subseteq DOMAIN h
             /\ ToSet(h[a].prevlist) \subseteq DOMAIN h
    OBVIOUS
  <2>1. ToSet(Nexts(g, a)) \subseteq DOMAIN g /\ ToSet(Prevs(g, a)) \subseteq DOMAIN g
    BY EvenEdges
  <2>2. Len(a) = 1
    BY <1>3, <1>5 DEF Even
  <2>3. QED
    BY <1>3, <1>5, <1>7, <2>1, <2>2
<1>11. Even(h)
  BY <1>6, <1>9, <1>10 DEF Even
<1>12. QED
  BY <1>3, <1>5, <1>8, <1>11 DEF Started

\* h is g with an edge more.
LinkedIn(g, from, to, h) ==
  /\ Even(h) /\ DOMAIN h = DOMAIN g \cup {from, to}
  /\ \A a : /\ Nexts(h, a) = IF a = from THEN Append(Nexts(g, a), to) ELSE Nexts(g, a)
            /\ Prevs(h, a) = IF a = to THEN Append(Prevs(g, a), from) ELSE Prevs(g, a)

\* An edge more, on both sides.
LEMMA LinkEven ==
  ASSUME NEW g, Even(g), NEW from \in Labels, NEW to \in Labels, Len(from) = 1, Len(to) = 1,
         NEW h, h = Link(g, from, to)
  PROVE  LinkedIn(g, from, to, h)
<1>1. PICK t : t = Touch(g, from)
  OBVIOUS
<1>2. PICK out : out = [t EXCEPT ![from].nextlist = Append(@, to)]
  OBVIOUS
<1>3. PICK u : u = Touch(out, to)
  OBVIOUS
<1>4. h = [u EXCEPT ![to].prevlist = Append(@, from)]
  <2>1. PICK p : p = [u EXCEPT ![to].prevlist = Append(@, from)]
    OBVIOUS
  <2>2. p = Link(g, from, to)
    BY <1>1, <1>2, <1>3, <2>1 DEF Link
  <2>3. QED
    BY <2>1, <2>2
<1>6. /\ DOMAIN t = DOMAIN g \cup {from} /\ IsGraphOf(t)
      /\ \A a \in DOMAIN t : t[a].nextlist = Nexts(g, a) /\ t[a].prevlist = Prevs(g, a)
  BY <1>1, TouchBlocks DEF Even
<1>7. /\ IsBlock(out[from]) /\ out[from].nextlist = Append(t[from].nextlist, to)
      /\ out[from].prevlist = t[from].prevlist
  <2>1. PICK b : b = t[from]
    OBVIOUS
  <2>2. IsBlock(b)
    BY <1>6, <2>1 DEF IsGraphOf
  <2>3. out[from] = [insts |-> b.insts, nextlist |-> Append(b.nextlist, to), prevlist |-> b.prevlist]
    <3>1. out[from] = [b EXCEPT !.nextlist = Append(@, to)]
      BY <1>2, <1>6, <2>1
    <3>2. QED
      BY <2>2, <3>1 DEF IsBlock
  <2>4. Append(b.nextlist, to) \in Seq(Labels)
    BY <2>2, AppendProperties DEF IsBlock
  <2>5. QED
    BY <2>1, <2>2, <2>3, <2>4 DEF IsBlock
<1>8. DOMAIN out = DOMAIN t /\ \A a \in DOMAIN t \ {from} : out[a] = t[a]
  BY <1>2
<1>9. IsGraphOf(out)
  BY <1>6, <1>7, <1>8 DEF IsGraphOf
<1>10. /\ DOMAIN u = DOMAIN out \cup {to} /\ IsGraphOf(u)
       /\ \A a \in DOMAIN u : u[a].nextlist = Nexts(out, a) /\ u[a].prevlist = Prevs(out, a)
  BY <1>3, <1>9, TouchBlocks
<1>11. /\ IsBlock(h[to]) /\ h[to].prevlist = Append(u[to].prevlist, from)
       /\ h[to].nextlist = u[to].nextlist
  <2>1. PICK b : b = u[to]
    OBVIOUS
  <2>2. IsBlock(b)
    BY <1>10, <2>1 DEF IsGraphOf
  <2>3. h[to] = [insts |-> b.insts, nextlist |-> b.nextlist, prevlist |-> Append(b.prevlist, from)]
    <3>1. h[to] = [b EXCEPT !.prevlist = Append(@, from)]
      BY <1>4, <1>10, <2>1
    <3>2. QED
      BY <2>2, <3>1 DEF IsBlock
  <2>4. Append(b.prevlist, from) \in Seq(Labels)
    BY <2>2, AppendProperties DEF IsBlock
  <2>5. QED
    BY <2>1, <2>2, <2>3, <2>4 DEF IsBlock
<1>12. DOMAIN h = DOMAIN u /\ \A a \in DOMAIN u \ {to} : h[a] = u[a]
  BY <1>4
<1>13. IsGraphOf(h)
  BY <1>10, <1>11, <1>12 DEF IsGraphOf
<1>14. DOMAIN h = DOMAIN g \cup {from, to}
  BY <1>6, <1>8, <1>10, <1>12
<1>15. ASSUME NEW a
       PROVE  /\ Nexts(out, a) = IF a = from THEN Append(Nexts(g, a), to) ELSE Nexts(g, a)
              /\ Prevs(out, a) = Prevs(g, a)
  <2>1. CASE a \in DOMAIN out
    BY <1>6, <1>7, <1>8, <2>1 DEF Nexts, Prevs
  <2>2. CASE a \notin DOMAIN out
    <3>1. a \notin DOMAIN g /\ a # from
      BY <1>6, <1>8, <2>2
    <3>2. QED
      BY <2>2, <3>1 DEF Nexts, Prevs
  <2>3. QED
    BY <2>1, <2>2
<1>16. ASSUME NEW a
       PROVE  /\ Nexts(h, a) = Nexts(out, a)
              /\ Prevs(h, a) = IF a = to THEN Append(Prevs(out, a), from) ELSE Prevs(out, a)
  <2>1. CASE a \in DOMAIN h
    BY <1>10, <1>11, <1>12, <2>1 DEF Nexts, Prevs
  <2>2. CASE a \notin DOMAIN h
    <3>1. a \notin DOMAIN out /\ a # to
      BY <1>10, <1>12, <2>2
    <3>2. QED
      BY <2>2, <3>1 DEF Nexts, Prevs
  <2>3. QED
    BY <2>1, <2>2
<1>17. \A a : /\ Nexts(h, a) = IF a = from THEN Append(Nexts(g, a), to) ELSE Nexts(g, a)
              /\ Prevs(h, a) = IF a = to THEN Append(Prevs(g, a), from) ELSE Prevs(g, a)
  BY <1>15, <1>16
<1>18. ASSUME NEW a, NEW b
       PROVE  /\ Occurrences(Nexts(h, a), b) = Occurrences(Prevs(h, b), a)
              /\ ToSet(Nexts(h, a)) \subseteq DOMAIN h /\ ToSet(Prevs(h, a)) \subseteq DOMAIN h
  <2>1. PICK n, p, q : n = Nexts(g, a) /\ p = Prevs(g, b) /\ q = Prevs(g, a)
    OBVIOUS
  <2>2. /\ n \in Seq(Labels) /\ p \in Seq(Labels) /\ q \in Seq(Labels)
        /\ ToSet(n) \subseteq DOMAIN g /\ ToSet(q) \subseteq DOMAIN g
        /\ Occurrences(n, b) = Occurrences(p, a)
    BY <2>1, EvenEdges
  <2>3. Occurrences(n, b) \in Nat /\ Occurrences(p, a) \in Nat
    BY <2>2, OccurrencesFinite
  <2>4. /\ Occurrences(Append(n, to), b) = Occurrences(n, b) + (IF b = to THEN 1 ELSE 0)
        /\ ToSet(Append(n, to)) = ToSet(n) \cup {to}
    BY <2>2, OccurrencesAppend, ElementsAppend
  <2>5. Occurrences(Append(p, from), a) = Occurrences(p, a) + (IF a = from THEN 1 ELSE 0)
    BY <2>2, OccurrencesAppend
  <2>6. ToSet(Append(q, from)) = ToSet(q) \cup {from}
    BY <2>2, ElementsAppend
  <2>7. /\ Nexts(h, a) = IF a = from THEN Append(n, to) ELSE n
        /\ Prevs(h, b) = IF b = to THEN Append(p, from) ELSE p
        /\ Prevs(h, a) = IF a = to THEN Append(q, from) ELSE q
    BY <1>17, <2>1
  <2>8. Occurrences(Nexts(h, a), b)
          = Occurrences(n, b) + (IF a = from /\ b = to THEN 1 ELSE 0)
    <3>1. CASE a = from
      BY <2>4, <2>7, <3>1
    <3>2. CASE a # from
      BY <2>3, <2>7, <3>2
    <3>3. QED
      BY <3>1, <3>2
  <2>9. Occurrences(Prevs(h, b), a)
          = Occurrences(p, a) + (IF a = from /\ b = to THEN 1 ELSE 0)
    <3>1. CASE b = to
      BY <2>5, <2>7, <3>1
    <3>2. CASE b # to
      BY <2>3, <2>7, <3>2
    <3>3. QED
      BY <3>1, <3>2
  <2>10. ToSet(Nexts(h, a)) \subseteq ToSet(n) \cup {to}
    BY <2>4, <2>7
  <2>11. ToSet(Prevs(h, a)) \subseteq ToSet(q) \cup {from}
    BY <2>6, <2>7
  <2>12. QED
    BY <1>14, <2>2, <2>8, <2>9, <2>10, <2>11
<1>19. \A a \in DOMAIN h : h[a].nextlist = Nexts(h, a) /\ h[a].prevlist = Prevs(h, a)
  BY DEF Nexts, Prevs
<1>20. \A a \in DOMAIN h : Len(a) = 1
  BY <1>14 DEF Even
<1>21. Even(h)
  BY <1>13, <1>18, <1>19, <1>20 DEF Even, Agree
<1>22. QED
  BY <1>14, <1>17, <1>21 DEF LinkedIn

LEMMA ProgramFacts ==
  ASSUME IsProgram(prog), NEW k \in DOMAIN prog
  PROVE  /\ DOMAIN prog = 1..Len(prog) /\ Len(prog) \in Nat
         /\ prog[k].at \in Labels /\ Len(prog[k].at) = 1 /\ prog[k].at[1] \in Int
         /\ prog[k].op \in Ops /\ prog[k].at # NoLabel
         /\ IsJump(prog[k]) => prog[k].arg \in Labels /\ Len(prog[k].arg) = 1
         /\ \A m \in DOMAIN prog : k < m => prog[k].at[1] < prog[m].at[1]
<1>1. /\ prog \in Seq([op : Ops, at : Seq(Nat), arg : Seq(Nat)])
      /\ Len(prog[k].at) = 1 /\ (prog[k].op \in {"goto", "if"} => Len(prog[k].arg) = 1)
      /\ \A m \in DOMAIN prog : k < m => prog[k].at[1] < prog[m].at[1]
  BY DEF IsProgram
<1>2. DOMAIN prog = 1..Len(prog) /\ Len(prog) \in Nat
  BY <1>1
<1>3. prog[k] \in [op : Ops, at : Seq(Nat), arg : Seq(Nat)]
  <2>1. PICK R : R = [op : Ops, at : Seq(Nat), arg : Seq(Nat)]
    OBVIOUS
  <2>2. prog \in Seq(R) /\ k \in 1..Len(prog)
    BY <1>1, <1>2, <2>1
  <2>3. prog[k] \in R
    BY <2>2, ElementOfSeq
  <2>4. QED
    BY <2>1, <2>3
<1>4. prog[k].at \in Labels /\ prog[k].arg \in Labels /\ prog[k].op \in Ops
  BY <1>3 DEF Labels
<1>5. prog[k].at[1] \in Int
  <2>1. PICK l : l = prog[k].at
    OBVIOUS
  <2>2. PICK D : D = Nat
    OBVIOUS
  <2>3. l \in Seq(D)
    BY <1>4, <2>1, <2>2 DEF Labels
  <2>4. Len(l) = 1
    BY <1>1, <2>1
  <2>5. 1 \in 1..Len(l)
    BY <2>4
  <2>6. l[1] \in D
    BY <2>3, <2>5, ElementOfSeq
  <2>7. QED
    BY <2>1, <2>2, <2>6
<1>6. prog[k].at # NoLabel
  <2>1. Len(NoLabel) = 0
    BY DEF NoLabel
  <2>2. 0 # 1
    OBVIOUS
  <2>3. QED
    BY <1>1, <2>1, <2>2, Zenon
<1>7. QED
  BY <1>1, <1>2, <1>4, <1>5, <1>6 DEF IsJump

\* The instruction that runs after another is the next one that is defined.
LEMMA FallIsNext ==
  ASSUME IsProgram(prog), NEW m \in DOMAIN prog, NEW k \in DOMAIN prog, m < k,
         prog[m].op # "undef", prog[k].op # "undef",
         \A j \in (m + 1)..(k - 1) : prog[j].op = "undef"
  PROVE  FallLabel(prog[m].at) = prog[k].at
<1>1. PICK l, n : l = prog[m].at /\ n = prog[k].at
  OBVIOUS
<1>2. PICK later : later = {ins.at : ins \in {d \in Defined : Before(l, d.at)}}
  OBVIOUS
<1>3. ASSUME NEW x \in DOMAIN prog, NEW y \in DOMAIN prog
      PROVE  Before(prog[x].at, prog[y].at) <=> x < y
  <2>1. /\ prog[x].at \in Labels /\ Len(prog[x].at) = 1 /\ prog[x].at[1] \in Int
        /\ prog[y].at \in Labels /\ Len(prog[y].at) = 1 /\ prog[y].at[1] \in Int
        /\ x < y => prog[x].at[1] < prog[y].at[1]
        /\ y < x => prog[y].at[1] < prog[x].at[1]
        /\ x \in Int /\ y \in Int
    BY ProgramFacts
  <2>2. Before(prog[x].at, prog[y].at) <=> prog[x].at[1] < prog[y].at[1]
    BY <2>1 DEF Before
  <2>3. x = y => prog[x].at[1] = prog[y].at[1]
    OBVIOUS
  <2>4. QED
    BY <2>1, <2>2, <2>3
<1>4. n \in later
  BY <1>1, <1>2, <1>3 DEF Defined
<1>5. ASSUME NEW z \in later
      PROVE  \E j \in DOMAIN prog : z = prog[j].at /\ prog[j].op # "undef" /\ j >= k
  <2>1. PICK j \in DOMAIN prog : z = prog[j].at /\ prog[j].op # "undef" /\ m < j
    BY <1>1, <1>2, <1>3 DEF Defined
  <2>2. j \in Int /\ m \in Int /\ k \in Int
    BY ProgramFacts
  <2>3. ~(j < k)
    BY <2>1, <2>2
  <2>4. QED
    BY <2>1, <2>2, <2>3
<1>6. ASSUME NEW z \in later \ {n} PROVE Before(n, z) /\ ~ Before(z, n)
  <2>1. PICK j \in DOMAIN prog : z = prog[j].at /\ prog[j].op # "undef" /\ j >= k
    BY <1>5
  <2>2. j \in Int /\ k \in Int
    BY ProgramFacts
  <2>3. j > k
    BY <1>1, <1>6, <2>1, <2>2
  <2>4. QED
    BY <1>1, <1>3, <2>1, <2>2, <2>3
<1>7. (CHOOSE x \in later : \A y \in later \ {x} : Before(x, y)) = n
  BY <1>4, <1>6
<1>8. FallLabel(l) = IF later = {} THEN NoLabel
                     ELSE CHOOSE x \in later : \A y \in later \ {x} : Before(x, y)
  BY <1>2 DEF FallLabel
<1>9. QED
  BY <1>1, <1>4, <1>7, <1>8

LEMMA SeenMore ==
  ASSUME NEW n \in Nat
  PROVE  Seen(n + 1) = IF prog[n + 1].op = "undef" THEN Seen(n)
                       ELSE Seen(n) \cup {prog[n + 1].at}
<1>1. 1..n + 1 = (1..n) \cup {n + 1} /\ n + 1 \notin 1..n
  OBVIOUS
<1>2. CASE prog[n + 1].op = "undef"
  <2>1. {k \in 1..n + 1 : prog[k].op # "undef"} = {k \in 1..n : prog[k].op # "undef"}
    BY <1>1, <1>2
  <2>2. QED
    BY <1>2, <2>1 DEF Seen
<1>3. CASE prog[n + 1].op # "undef"
  <2>1. {k \in 1..n + 1 : prog[k].op # "undef"}
          = {k \in 1..n : prog[k].op # "undef"} \cup {n + 1}
    BY <1>1, <1>3
  <2>2. QED
    BY <1>3, <2>1 DEF Seen
<1>4. QED
  BY <1>2, <1>3

LEMMA SkipKeepsInv ==
  ASSUME IsProgram(prog), MakeInv, SkipUndefined
  PROVE  MakeInv'
<1>1. /\ phase = "make" /\ idx < Len(prog) /\ prog[idx + 1].op = "undef" /\ idx' = idx + 1
      /\ UNCHANGED <<prog, phase, falling, graph, keys>>
  BY DEF SkipUndefined
<1>2. /\ idx \in 0..Len(prog) /\ keys \in Seq(Labels) /\ ToSet(keys) = Seen(idx)
      /\ Made(graph, idx)
      /\ falling # NoLabel => \E m \in 1..idx :
           /\ prog[m].op # "undef" /\ HasFall(prog[m]) /\ prog[m].at = falling
           /\ \A k \in (m + 1)..idx : prog[k].op = "undef"
           /\ graph[falling].nextlist = IF IsJump(prog[m]) THEN <<prog[m].arg>> ELSE <<>>
  BY <1>1 DEF MakeInv
<1>3. PICK n, g : n = idx /\ g = graph
  OBVIOUS
<1>4. n \in Nat /\ n + 1 \in 0..Len(prog) /\ 1..n \subseteq 1..n + 1
  BY <1>1, <1>2, <1>3 DEF IsProgram
<1>5. Seen(n + 1) = Seen(n)
  BY <1>1, <1>3, <1>4, SeenMore
<1>6. Made(g, n + 1)
  BY <1>2, <1>3, <1>4, <1>5 DEF Made
<1>7. Made(g, n + 1)' /\ Seen(n + 1)' = Seen(n + 1)
  BY <1>1, <1>6, MadeKept, ProgKept
<1>8. idx' = n + 1 /\ graph' = g
  BY <1>1, <1>3
<1>9. falling # NoLabel => \E m \in 1..n + 1 :
        /\ prog[m].op # "undef" /\ HasFall(prog[m]) /\ prog[m].at = falling
        /\ \A k \in (m + 1)..n + 1 : prog[k].op = "undef"
        /\ g[falling].nextlist = IF IsJump(prog[m]) THEN <<prog[m].arg>> ELSE <<>>
  <2> SUFFICES ASSUME falling # NoLabel
      PROVE  \E m \in 1..n + 1 :
        /\ prog[m].op # "undef" /\ HasFall(prog[m]) /\ prog[m].at = falling
        /\ \A k \in (m + 1)..n + 1 : prog[k].op = "undef"
        /\ g[falling].nextlist = IF IsJump(prog[m]) THEN <<prog[m].arg>> ELSE <<>>
    OBVIOUS
  <2>1. PICK m \in 1..n :
          /\ prog[m].op # "undef" /\ HasFall(prog[m]) /\ prog[m].at = falling
          /\ \A k \in (m + 1)..n : prog[k].op = "undef"
          /\ g[falling].nextlist = IF IsJump(prog[m]) THEN <<prog[m].arg>> ELSE <<>>
    BY <1>2, <1>3
  <2>2. \A k \in (m + 1)..n + 1 : k = n + 1 \/ k \in (m + 1)..n
    BY <1>4
  <2>3. \A k \in (m + 1)..n + 1 : prog[k].op = "undef"
    BY <1>1, <1>3, <2>1, <2>2
  <2>4. m \in 1..n + 1
    BY <1>4
  <2>5. QED
    BY <2>1, <2>3, <2>4
<1>10. (ToSet(keys) = Seen(idx))'
  BY <1>1, <1>2, <1>3, <1>5, <1>7, <1>8
<1>11. Made(graph, idx)'
  BY <1>7, <1>8
<1>12. QED
  BY <1>1, <1>2, <1>4, <1>8, <1>9, <1>10, <1>11 DEF MakeInv

\* The label whose instruction make may still fall from is that of the last
\* defined instruction, to which make has given the jump, if it is one.
FallsFrom(m, n, from, g) ==
  /\ prog[m].op # "undef" /\ HasFall(prog[m]) /\ prog[m].at = from
  /\ \A k \in (m + 1)..n : prog[k].op = "undef"
  /\ g[from].nextlist = IF IsJump(prog[m]) THEN <<prog[m].arg>> ELSE <<>>

\* What h has more than the graph g of n instructions, after ins.
Added(g, n, from, ins, h) ==
  /\ Even(h) /\ DOMAIN g \cup {ins.at} \subseteq DOMAIN h /\ from # ins.at
  /\ Nexts(h, ins.at) = IF IsJump(ins) THEN <<ins.arg>> ELSE <<>>
  /\ from # NoLabel => Nexts(h, from) = Append(Nexts(g, from), ins.at)
  /\ \A a : a \notin {ins.at, from} => Nexts(h, a) = Nexts(g, a)
  /\ \A a : ToSet(Prevs(h, a)) \subseteq Seen(n + 1)

\* The edges after an instruction is added.
LEMMA AddedEdges ==
  ASSUME IsProgram(prog), NEW g, NEW n \in Nat, n + 1 \in DOMAIN prog, Made(g, n),
         NEW from, from # NoLabel => \E m \in 1..n : FallsFrom(m, n, from, g),
         NEW ins, ins = prog[n + 1], ins.op # "undef",
         NEW b, b = [Touch(g, ins.at) EXCEPT ![ins.at].insts = <<ins>>],
         NEW f, f = IF from = NoLabel THEN b ELSE Link(b, from, ins.at),
         NEW h, h = IF IsJump(ins) THEN Link(f, ins.at, ins.arg) ELSE f
  PROVE  Added(g, n, from, ins, h)
<1>1. Even(g)
  BY DEF Made, Even
<1>2. PICK l : l = ins.at
  OBVIOUS
<1>3. /\ DOMAIN prog = 1..Len(prog) /\ l \in Labels /\ Len(l) = 1 /\ l # NoLabel
      /\ IsJump(ins) => ins.arg \in Labels /\ Len(ins.arg) = 1
  BY <1>2, ProgramFacts
<1>4. Seen(n + 1) = Seen(n) \cup {l}
  BY <1>2, SeenMore
<1>5. \A m \in 1..n : prog[m].at # l
  <2> SUFFICES ASSUME NEW m \in 1..n PROVE prog[m].at # l
    OBVIOUS
  <2>1. m \in DOMAIN prog /\ m < n + 1
    BY <1>3
  <2>2. /\ prog[m].at[1] < prog[n + 1].at[1]
        /\ prog[m].at[1] \in Int /\ prog[n + 1].at[1] \in Int
    BY <2>1, ProgramFacts
  <2>3. QED
    BY <1>2, <2>2
<1>6. Nexts(g, l) = <<>>
  BY <1>5 DEF Made, Nexts
<1>7. from # l /\ (from # NoLabel => from \in Seen(n) /\ from \in Labels /\ Len(from) = 1)
  <2>1. CASE from = NoLabel
    BY <1>3, <2>1
  <2>2. CASE from # NoLabel
    <3>1. PICK m \in 1..n : prog[m].op # "undef" /\ prog[m].at = from
      BY <2>2 DEF FallsFrom
    <3>2. m \in DOMAIN prog
      BY <1>3
    <3>3. from \in Labels /\ Len(from) = 1
      BY <3>1, <3>2, ProgramFacts
    <3>4. from \in Seen(n)
      BY <3>1 DEF Seen
    <3>5. QED
      BY <1>5, <3>1, <3>3, <3>4
  <2>3. QED
    BY <2>1, <2>2
<1>8. /\ Even(b) /\ DOMAIN b = DOMAIN g \cup {l}
      /\ \A a : Nexts(b, a) = Nexts(g, a) /\ Prevs(b, a) = Prevs(g, a)
  <2>1. PICK i : i = <<ins>>
    OBVIOUS
  <2>2. b = [Touch(g, l) EXCEPT ![l].insts = i]
    BY <1>2, <2>1
  <2>3. QED
    <3>1. Started(g, l, b)
      BY <1>1, <1>3, <2>2, BlockEven
    <3>2. QED
      BY <3>1 DEF Started
<1>9. /\ Even(f) /\ DOMAIN b \subseteq DOMAIN f
      /\ \A a : /\ Nexts(f, a) = IF from # NoLabel /\ a = from THEN Append(Nexts(b, a), l)
                                 ELSE Nexts(b, a)
                /\ Prevs(f, a) = IF from # NoLabel /\ a = l THEN Append(Prevs(b, a), from)
                                 ELSE Prevs(b, a)
  <2>1. CASE from = NoLabel
    BY <1>8, <2>1
  <2>2. CASE from # NoLabel
    <3>1. f = Link(b, from, l)
      BY <1>2, <2>2
    <3>2. /\ Even(f) /\ DOMAIN f = DOMAIN b \cup {from, l}
          /\ \A a : /\ Nexts(f, a) = IF a = from THEN Append(Nexts(b, a), l) ELSE Nexts(b, a)
                    /\ Prevs(f, a) = IF a = l THEN Append(Prevs(b, a), from) ELSE Prevs(b, a)
      <4>1. LinkedIn(b, from, l, f)
        BY <1>3, <1>7, <1>8, <2>2, <3>1, LinkEven
      <4>2. QED
        BY <4>1 DEF LinkedIn
    <3>3. QED
      BY <2>2, <3>2
  <2>3. QED
    BY <2>1, <2>2
<1>10. /\ Even(h) /\ DOMAIN f \subseteq DOMAIN h
       /\ \A a : /\ Nexts(h, a) = IF IsJump(ins) /\ a = l THEN Append(Nexts(f, a), ins.arg)
                                  ELSE Nexts(f, a)
                 /\ Prevs(h, a) = IF IsJump(ins) /\ a = ins.arg THEN Append(Prevs(f, a), l)
                                  ELSE Prevs(f, a)
  <2>1. CASE ~ IsJump(ins)
    BY <1>9, <2>1
  <2>2. CASE IsJump(ins)
    <3>1. PICK t : t = ins.arg
      OBVIOUS
    <3>2. h = Link(f, l, t) /\ t \in Labels /\ Len(t) = 1
      BY <1>2, <1>3, <2>2, <3>1
    <3>3. /\ Even(h) /\ DOMAIN h = DOMAIN f \cup {l, t}
          /\ \A a : /\ Nexts(h, a) = IF a = l THEN Append(Nexts(f, a), t) ELSE Nexts(f, a)
                    /\ Prevs(h, a) = IF a = t THEN Append(Prevs(f, a), l) ELSE Prevs(f, a)
      <4>1. LinkedIn(f, l, t, h)
        BY <1>3, <1>9, <3>2, LinkEven
      <4>2. QED
        BY <4>1 DEF LinkedIn
    <3>4. QED
      BY <2>2, <3>1, <3>3
  <2>3. QED
    BY <2>1, <2>2
<1>11. Nexts(h, l) = IF IsJump(ins) THEN <<ins.arg>> ELSE <<>>
  <2>1. Nexts(f, l) = <<>>
    BY <1>6, <1>7, <1>8, <1>9
  <2>2. Append(<<>>, ins.arg) = <<ins.arg>>
    OBVIOUS
  <2>3. QED
    BY <1>10, <2>1, <2>2
<1>12. from # NoLabel => Nexts(h, from) = Append(Nexts(g, from), l)
  <2> SUFFICES ASSUME from # NoLabel PROVE Nexts(h, from) = Append(Nexts(g, from), l)
    OBVIOUS
  <2>1. Nexts(h, from) = Nexts(f, from)
    BY <1>7, <1>10
  <2>2. Nexts(f, from) = Append(Nexts(b, from), l)
    BY <1>9
  <2>3. Nexts(b, from) = Nexts(g, from)
    BY <1>8
  <2>4. QED
    BY <2>1, <2>2, <2>3
<1>13. \A a : a \notin {l, from} => Nexts(h, a) = Nexts(g, a)
  BY <1>8, <1>9, <1>10
<1>14. ASSUME NEW a PROVE ToSet(Prevs(h, a)) \subseteq Seen(n + 1)
  <2>1. PICK p, q, r : p = Prevs(b, a) /\ q = Prevs(f, a) /\ r = Prevs(h, a)
    OBVIOUS
  <2>2. p \in Seq(Labels) /\ q \in Seq(Labels) /\ ToSet(p) \subseteq Seen(n)
    <3>1. ToSet(Prevs(g, a)) \subseteq Seen(n)
      <4>1. ToSet(<<>>) = {}
        BY DEF ToSet
      <4>2. QED
        BY <4>1 DEF Made, Prevs
    <3>2. QED
      BY <1>8, <1>9, <2>1, <3>1, EvenEdges
  <2>3. ToSet(q) \subseteq Seen(n)
    <3>1. q = IF from # NoLabel /\ a = l THEN Append(p, from) ELSE p
      BY <1>9, <2>1
    <3>2. from # NoLabel => ToSet(Append(p, from)) = ToSet(p) \cup {from}
      BY <1>7, <2>2, ElementsAppend
    <3>3. QED
      BY <1>7, <2>2, <3>1, <3>2
  <2>4. ToSet(Append(q, l)) = ToSet(q) \cup {l}
    BY <1>3, <2>2, ElementsAppend
  <2>5. r = q \/ r = Append(q, l)
    BY <1>10, <2>1
  <2>6. QED
    BY <1>4, <2>1, <2>3, <2>4, <2>5
<1>15. QED
  <2>1. Even(h) /\ DOMAIN g \cup {l} \subseteq DOMAIN h
    BY <1>8, <1>9, <1>10
  <2>2. QED
    BY <1>2, <1>7, <1>11, <1>12, <1>13, <1>14, <2>1 DEF Added

LEMMA InstructionKeepsInv ==
  ASSUME IsProgram(prog), MakeInv, MakeInstruction
  PROVE  MakeInv'
<1>1. PICK n, g, from, ins : n = idx /\ g = graph /\ from = falling /\ ins = prog[idx + 1]
  OBVIOUS
<1>2. PICK b : b = [Touch(g, ins.at) EXCEPT ![ins.at].insts = <<ins>>]
  OBVIOUS
<1>3. PICK f : f = IF from = NoLabel THEN b ELSE Link(b, from, ins.at)
  OBVIOUS
<1>4. PICK h : h = IF IsJump(ins) THEN Link(f, ins.at, ins.arg) ELSE f
  OBVIOUS
<1>5. /\ phase = "make" /\ n < Len(prog) /\ ins.op # "undef" /\ idx' = n + 1
      /\ keys' = Append(keys, ins.at)
      /\ falling' = IF HasFall(ins) THEN ins.at ELSE NoLabel
      /\ UNCHANGED <<prog, phase>>
  BY <1>1 DEF MakeInstruction
<1>6. graph' = h
  <2>1. graph' = AddInstruction(ins)
    BY <1>1 DEF MakeInstruction
  <2>2. AddInstruction(ins) = h
    BY <1>1, <1>2, <1>3, <1>4 DEF AddInstruction
  <2>3. QED
    BY <2>1, <2>2
<1>7. /\ n \in 0..Len(prog) /\ keys \in Seq(Labels) /\ ToSet(keys) = Seen(n) /\ Made(g, n)
      /\ from # NoLabel => \E m \in 1..n : FallsFrom(m, n, from, g)
  BY <1>1, <1>5 DEF MakeInv, FallsFrom
<1>8. /\ n \in Nat /\ n + 1 \in DOMAIN prog /\ n + 1 \in 0..Len(prog)
      /\ DOMAIN prog = 1..Len(prog) /\ ins = prog[n + 1]
  BY <1>1, <1>5, <1>7 DEF IsProgram
<1>9. /\ Even(h) /\ DOMAIN g \cup {ins.at} \subseteq DOMAIN h /\ from # ins.at
      /\ Nexts(h, ins.at) = IF IsJump(ins) THEN <<ins.arg>> ELSE <<>>
      /\ from # NoLabel => Nexts(h, from) = Append(Nexts(g, from), ins.at)
      /\ \A a : a \notin {ins.at, from} => Nexts(h, a) = Nexts(g, a)
      /\ \A a : ToSet(Prevs(h, a)) \subseteq Seen(n + 1)
  <2>1. Added(g, n, from, ins, h)
    BY <1>2, <1>3, <1>4, <1>5, <1>7, <1>8, AddedEdges
  <2>2. QED
    BY <2>1 DEF Added
<1>10. Seen(n + 1) = Seen(n) \cup {ins.at}
  BY <1>5, <1>8, SeenMore
<1>11. ASSUME NEW a \in DOMAIN h
       PROVE  \/ h[a].nextlist = <<>>
              \/ \E m \in 1..n + 1 : prog[m].op # "undef" /\ prog[m].at = a
                                     /\ h[a].nextlist \in Shapes(prog[m])
  <2>1. h[a].nextlist = Nexts(h, a)
    BY DEF Nexts
  <2>2. CASE a = ins.at
    <3>1. h[a].nextlist \in Shapes(ins)
      BY <1>9, <2>1, <2>2 DEF Shapes
    <3>2. QED
      BY <1>5, <1>8, <2>2, <3>1
  <2>3. CASE a # ins.at /\ a = from /\ from # NoLabel
    <3>1. PICK m \in 1..n : FallsFrom(m, n, from, g)
      BY <1>7, <2>3
    <3>2. /\ prog[m].op # "undef" /\ HasFall(prog[m]) /\ prog[m].at = from
          /\ \A k \in (m + 1)..n : prog[k].op = "undef"
          /\ g[from].nextlist = IF IsJump(prog[m]) THEN <<prog[m].arg>> ELSE <<>>
      BY <3>1 DEF FallsFrom
    <3>3. m \in DOMAIN prog /\ m < n + 1 /\ (n + 1) - 1 = n /\ m \in 1..n + 1
      BY <1>8
    <3>4. FallLabel(prog[m].at) = ins.at
      BY <1>5, <1>8, <3>2, <3>3, FallIsNext
    <3>5. from \in DOMAIN g
      BY <1>7, <3>2 DEF Made, Seen
    <3>6. h[a].nextlist = Append(g[from].nextlist, ins.at)
      BY <1>9, <2>1, <2>3, <3>5 DEF Nexts
    <3>7. h[a].nextlist \in Shapes(prog[m])
      <4>1. CASE IsJump(prog[m])
        <5>1. prog[m].op = "if"
          BY <3>2, <4>1 DEF HasFall, IsJump
        <5>2. PICK x, y : x = prog[m].arg /\ y = ins.at
          OBVIOUS
        <5>3. Append(<<x>>, y) = <<x, y>>
          BY AppendTwo
        <5>4. h[a].nextlist = <<prog[m].arg, FallLabel(prog[m].at)>>
          BY <3>2, <3>4, <3>6, <4>1, <5>2, <5>3
        <5>5. QED
          BY <5>1, <5>4 DEF Shapes
      <4>2. CASE ~ IsJump(prog[m])
        <5>1. Append(<<>>, ins.at) = <<ins.at>>
          OBVIOUS
        <5>2. h[a].nextlist = <<FallLabel(prog[m].at)>>
          BY <3>2, <3>4, <3>6, <4>2, <5>1
        <5>3. QED
          BY <4>2, <5>2 DEF Shapes
      <4>3. QED
        BY <4>1, <4>2
    <3>8. QED
      BY <2>3, <3>2, <3>3, <3>7
  <2>4. CASE a # ins.at /\ ~(a = from /\ from # NoLabel)
    <3>1. Nexts(h, a) = Nexts(g, a)
      <4>1. CASE a = from
        <5>1. a \notin DOMAIN h
          <6>1. Len(NoLabel) = 0
            BY DEF NoLabel
          <6>2. 0 # 1
            OBVIOUS
          <6>3. a = NoLabel
            BY <2>4, <4>1
          <6>4. ASSUME a \in DOMAIN h PROVE FALSE
            <7>1. Len(a) = 1
              BY <1>9 DEF Even
            <7>2. QED
              BY <6>1, <6>2, <6>3, <7>1, Zenon
          <6>5. QED
            BY <6>4
        <5>2. QED
          BY <5>1
      <4>2. CASE a # from
        BY <1>9, <2>4, <4>2
      <4>3. QED
        BY <4>1, <4>2
    <3>2. CASE a \in DOMAIN g
      <4>1. h[a].nextlist = g[a].nextlist
        BY <2>1, <3>1, <3>2 DEF Nexts
      <4>2. 1..n \subseteq 1..n + 1
        BY <1>8
      <4>3. QED
        BY <1>7, <3>2, <4>1, <4>2 DEF Made
    <3>3. CASE a \notin DOMAIN g
      BY <2>1, <3>1, <3>3 DEF Nexts
    <3>4. QED
      BY <3>2, <3>3
  <2>5. QED
    BY <2>2, <2>3, <2>4
<1>12. Made(h, n + 1)
  <2>1. Seen(n + 1) \subseteq DOMAIN h
    BY <1>7, <1>9, <1>10 DEF Made
  <2>2. \A a \in DOMAIN h : ToSet(h[a].prevlist) \subseteq Seen(n + 1)
    BY <1>9 DEF Prevs
  <2>3. QED
    BY <1>9, <1>11, <2>1, <2>2 DEF Made, Even
<1>13. Made(h, n + 1)' /\ Seen(n + 1)' = Seen(n + 1)
  BY <1>5, <1>12, MadeKept, ProgKept
<1>14. keys' \in Seq(Labels) /\ ToSet(keys') = Seen(n + 1)
  <2>1. ins.at \in Labels
    BY <1>8, ProgramFacts
  <2>2. PICK s : s = keys
    OBVIOUS
  <2>3. Append(s, ins.at) \in Seq(Labels) /\ ToSet(Append(s, ins.at)) = ToSet(s) \cup {ins.at}
    BY <1>7, <2>1, <2>2, ElementsAppend
  <2>4. QED
    BY <1>5, <1>7, <1>10, <2>2, <2>3
<1>15. falling' # NoLabel => \E m \in 1..n + 1 :
         /\ prog[m].op # "undef" /\ HasFall(prog[m]) /\ prog[m].at = falling'
         /\ \A k \in (m + 1)..n + 1 : prog[k].op = "undef"
         /\ h[falling'].nextlist = IF IsJump(prog[m]) THEN <<prog[m].arg>> ELSE <<>>
  <2> SUFFICES ASSUME falling' # NoLabel
      PROVE  \E m \in 1..n + 1 :
         /\ prog[m].op # "undef" /\ HasFall(prog[m]) /\ prog[m].at = falling'
         /\ \A k \in (m + 1)..n + 1 : prog[k].op = "undef"
         /\ h[falling'].nextlist = IF IsJump(prog[m]) THEN <<prog[m].arg>> ELSE <<>>
    OBVIOUS
  <2>1. HasFall(ins) /\ falling' = ins.at
    BY <1>5
  <2>2. h[ins.at].nextlist = IF IsJump(ins) THEN <<ins.arg>> ELSE <<>>
    BY <1>9 DEF Nexts
  <2>3. n + 1 \in 1..n + 1 /\ (n + 1) + 1 > n + 1
    BY <1>8
  <2>4. \A k \in ((n + 1) + 1)..n + 1 : FALSE
    BY <1>8
  <2>5. QED
    BY <1>5, <1>8, <2>1, <2>2, <2>3, <2>4
<1>16. (ToSet(keys) = Seen(idx))' /\ Made(graph, idx)'
  BY <1>5, <1>6, <1>13, <1>14
<1>17. QED
  BY <1>5, <1>6, <1>8, <1>14, <1>15, <1>16 DEF MakeInv

\* What make returns is what to_nondet starts from.
LEMMA MakeEnds ==
  ASSUME IsProgram(prog), MakeInv, MakeReturns
  PROVE  NondetInv'
<1>1. /\ phase = "make" /\ idx = Len(prog) /\ prog' = prog /\ phase' = "nondet" /\ idx' = 0
      /\ src' = [graph |-> graph, keys |-> keys] /\ graph' = [l \in {} |-> NoBlock]
      /\ keys' = <<>>
  BY DEF MakeReturns
<1>2. PICK n, g, k : n = Len(prog) /\ g = graph /\ k = keys
  OBVIOUS
<1>3. k \in Seq(Labels) /\ ToSet(k) = Seen(n) /\ Made(g, n)
  BY <1>1, <1>2 DEF MakeInv
<1>4. src'.graph = g /\ src'.keys = k /\ Len(prog') = n
  BY <1>1, <1>2
<1>5. (Made(g, n))' /\ Seen(n)' = Seen(n)
  BY <1>1, <1>3, MadeKept, ProgKept
<1>6. Made(src.graph, Len(prog))'
  BY <1>4, <1>5
<1>7. (ToSet(src.keys) = Seen(Len(prog)))'
  BY <1>3, <1>4, <1>5
<1>8. 0 \in 0..Len(k)
  BY <1>3
<1>9. Handled' = {}
  BY <1>1 DEF Handled
<1>10. DOMAIN graph' = {} /\ keys' \in Seq(Labels) /\ ToSet(keys') = {}
  BY <1>1, EmptySeq DEF ToSet
<1>11. IsGraphOf(graph)'
  BY <1>10 DEF IsGraphOf
<1>12. (DOMAIN graph = Handled \cup UNION {Mids(a) : a \in Handled})'
  BY <1>9, <1>10
<1>13. QED
  BY <1>1, <1>3, <1>4, <1>6, <1>7, <1>8, <1>9, <1>10, <1>11, <1>12 DEF NondetInv

LEMMA MakeAgrees ==
  ASSUME MakeInv, phase = "make"
  PROVE  EdgesAgree
BY DEF MakeInv, Made, Agree, EdgesAgree

-----------------------------------------------------------------------------
(***************************************************************************)
(* What follows what along the edges of a graph.                           *)
(***************************************************************************)
\* A finite graph: each node has a list of items, and successors.
IsFlow(G) ==
  /\ IsFiniteSet(DOMAIN G.items)
  /\ \A n \in DOMAIN G.items : G.items[n] \in Seq(Acts) /\ G.succ[n] \subseteq DOMAIN G.items

\* The successors of the nodes of D that have no items are in D.
Passes(G, D) == \A n \in D \cap DOMAIN G.items : G.items[n] = <<>> => G.succ[n] \subseteq D

\* Through is the least such set: the bound of the iteration lets it find
\* every node there is.
LEMMA ThroughIsLeast ==
  ASSUME NEW G, IsFlow(G), NEW S, S \subseteq DOMAIN G.items
  PROVE  /\ Through(G, S) \subseteq DOMAIN G.items /\ S \subseteq Through(G, S)
         /\ Passes(G, Through(G, S))
         /\ \A D : S \subseteq D /\ Passes(G, D) => Through(G, S) \subseteq D
<1> DEFINE U       == DOMAIN G.items
           bound   == Cardinality(U)
           next(R) == UNION {G.succ[n] : n \in {m \in R : G.items[m] = <<>>}}
           body(g) == [k \in 0..bound |-> IF k = 0 THEN S ELSE g[k - 1] \cup next(g[k - 1])]
           Eq(g)   == g = body(g)
           grown   == CHOOSE g : Eq(g)
           add     == [R \in SUBSET U |-> R \cup next(R)]
<1>1. bound \in Nat /\ IsFiniteSet(U)
  BY FS_CardinalityType DEF IsFlow
<1>2. S \subseteq U
  OBVIOUS
<1>3. ASSUME NEW R \in SUBSET U PROVE next(R) \subseteq U
  <2> SUFFICES ASSUME NEW n \in R PROVE G.succ[n] \subseteq U
    OBVIOUS
  <2>1. QED
    BY DEF IsFlow
<1>4. \A R \in SUBSET U : R \subseteq add[R] /\ add[R] \subseteq U /\ add[R] = R \cup next(R)
  <2> HIDE DEF next
  <2>1. QED
    BY <1>3
<1>5. ASSUME NEW f, Iterates(f, S, add, bound) PROVE Eq(f)
  <2>1. \A k \in 0..bound : f[k] \subseteq U
    <3>1. \A R \in SUBSET U : add[R] \subseteq U
      <4> HIDE DEF add, U
      <4>1. QED
        BY <1>4
    <3> HIDE DEF bound, add, U
    <3>2. QED
      BY <1>1, <1>2, <1>5, <3>1, IterationStays
  <2>2. ASSUME NEW k \in 0..bound, k # 0 PROVE f[k] = f[k - 1] \cup next(f[k - 1])
    <3>1. f[k - 1] \subseteq U
      BY <1>1, <2>1, <2>2
    <3>2. f[k] = add[f[k - 1]]
      <4> HIDE DEF add, bound
      <4>1. QED
        BY <1>5, <2>2 DEF Iterates
    <3> HIDE DEF next, U, bound, add
    <3>3. QED
      BY <1>4, <3>1, <3>2
  <2>3. f[0] = S /\ f = [k \in 0..bound |-> f[k]]
    BY <1>1, <1>5 DEF Iterates
  <2> HIDE DEF next, bound
  <2>4. QED
    BY <2>2, <2>3
<1>6. Eq(grown)
  <2>1. PICK f : Iterates(f, S, add, bound)
    <3> HIDE DEF bound, add
    <3>1. QED
      BY <1>1, IterationExists
  <2>2. Eq(f)
    BY <1>5, <2>1
  <2> HIDE DEF Eq
  <2>3. QED
    BY <2>2
<1> HIDE DEF grown
<1>7. Through(G, S) = grown[bound]
  BY DEF Through, grown
<1>8. /\ grown = [k \in 0..bound |-> grown[k]]
      /\ \A k \in 0..bound :
           grown[k] = IF k = 0 THEN S ELSE grown[k - 1] \cup next(grown[k - 1])
  <2>1. /\ body(grown) = [k \in 0..bound |-> body(grown)[k]]
        /\ \A k \in 0..bound :
             body(grown)[k] = IF k = 0 THEN S ELSE grown[k - 1] \cup next(grown[k - 1])
    <3> HIDE DEF next, bound
    <3>1. QED
      OBVIOUS
  <2>2. grown = body(grown)
    BY <1>6
  <2> HIDE DEF body
  <2>3. QED
    BY <2>1, <2>2
<1>9. 0 \in 0..bound /\ grown[0] = S
  <2>1. 0 \in 0..bound
    BY <1>1
  <2> HIDE DEF next, bound
  <2>2. QED
    BY <2>1, <1>8, Zenon
<1>10. ASSUME NEW k \in 0..bound - 1
       PROVE  /\ k \in 0..bound /\ k + 1 \in 0..bound
              /\ grown[k + 1] = grown[k] \cup next(grown[k])
  <2> HIDE DEF next, bound
  <2>1. k \in 0..bound /\ k + 1 \in 0..bound /\ k + 1 # 0 /\ (k + 1) - 1 = k
    BY <1>1
  <2>2. grown[k + 1] = grown[(k + 1) - 1] \cup next(grown[(k + 1) - 1])
    BY <1>8, <2>1
  <2>3. QED
    BY <2>1, <2>2
<1>11. \A k \in 0..bound : grown[k] \subseteq U
  <2> DEFINE I == {k \in 0..bound : grown[k] \subseteq U}
  <2>1. 0 \in I
    BY <1>2, <1>9
  <2>2. ASSUME NEW k \in 0..bound - 1, k \in I PROVE k + 1 \in I
    <3> HIDE DEF next, bound, U
    <3>1. QED
      BY <1>3, <1>10, <2>2
  <2>3. 0..bound \subseteq I
    <3> HIDE DEF I, bound
    <3>1. QED
      BY <1>1, <2>1, <2>2, IntervalInduction
  <2>4. QED
    BY <2>3
<1>12. Iterates(grown, S, add, bound)
  <2>1. ASSUME NEW k \in 0..bound, k # 0 PROVE grown[k] = add[grown[k - 1]]
    <3>1. k - 1 \in 0..bound
      BY <1>1, <2>1
    <3> HIDE DEF next, bound, U, add
    <3>2. grown[k] = grown[k - 1] \cup next(grown[k - 1])
      BY <1>8, <2>1
    <3>3. grown[k - 1] \in SUBSET U
      BY <1>11, <3>1
    <3>4. QED
      BY <1>4, <3>2, <3>3
  <2>2. \A k \in 0..bound : grown[k] = IF k = 0 THEN S ELSE add[grown[k - 1]]
    <3> HIDE DEF bound, add
    <3>1. QED
      BY <1>9, <2>1, Zenon
  <2> HIDE DEF bound, add
  <2>3. [k \in 0..bound |-> grown[k]] = [k \in 0..bound |-> IF k = 0 THEN S ELSE add[grown[k - 1]]]
    BY <2>2, Zenon
  <2>4. QED
    BY <1>8, <2>3 DEF Iterates
<1>13. /\ Through(G, S) \subseteq U /\ S \subseteq Through(G, S)
       /\ add[Through(G, S)] = Through(G, S)
  <2>1. Cardinality(U) <= bound
    BY <1>1
  <2> HIDE DEF U, add, bound
  <2>2. QED
    BY <1>1, <1>2, <1>4, <1>7, <1>12, <2>1, IterationCloses
<1>14. Passes(G, Through(G, S))
  <2>1. next(Through(G, S)) \subseteq Through(G, S)
    <3> HIDE DEF next, U, add
    <3>1. QED
      BY <1>4, <1>13
  <2>2. QED
    BY <2>1 DEF Passes
<1>15. ASSUME NEW D, S \subseteq D, Passes(G, D) PROVE Through(G, S) \subseteq D
  <2> DEFINE I == {k \in 0..bound : grown[k] \subseteq D}
  <2>1. 0 \in I
    BY <1>9, <1>15
  <2>2. ASSUME NEW k \in 0..bound - 1, k \in I PROVE k + 1 \in I
    <3>1. ASSUME NEW n \in grown[k], G.items[n] = <<>> PROVE G.succ[n] \subseteq D
      <4>1. n \in U /\ n \in D
        BY <1>10, <1>11, <2>2
      <4>2. QED
        BY <1>15, <3>1, <4>1 DEF Passes
    <3>2. next(grown[k]) \subseteq D
      BY <3>1
    <3> HIDE DEF next, bound
    <3>3. QED
      BY <1>10, <2>2, <3>2
  <2>3. 0..bound \subseteq I
    <3> HIDE DEF I, bound
    <3>1. QED
      BY <1>1, <2>1, <2>2, IntervalInduction
  <2>4. QED
    BY <1>1, <1>7, <2>3
<1>16. QED
  BY <1>13, <1>14, <1>15

\* To show that no other items come first, find a set that holds the start and
\* passes on.
LEMMA FirstWithin ==
  ASSUME NEW G, IsFlow(G), NEW S, S \subseteq DOMAIN G.items,
         NEW D, S \subseteq D, Passes(G, D),
         NEW F, \A n \in D \cap DOMAIN G.items : G.items[n] # <<>> => Head(G.items[n]) \in F
  PROVE  FirstItems(G, S) \subseteq F
<1>1. Through(G, S) \subseteq D \cap DOMAIN G.items
  BY ThroughIsLeast
<1>2. QED
  BY <1>1 DEF FirstItems

LEMMA FirstFrom ==
  ASSUME NEW G, NEW S, NEW n \in Through(G, S), G.items[n] # <<>>
  PROVE  Head(G.items[n]) \in FirstItems(G, S)
BY DEF FirstItems

\* The pairs that a node adds to Flow.
Adds(G, n, x, y) ==
  \/ \E k \in 1..(Len(G.items[n]) - 1) : x = G.items[n][k] /\ y = G.items[n][k + 1]
  \/ G.items[n] # <<>> /\ x = Last(G.items[n]) /\ y \in FirstItems(G, G.succ[n])

LEMMA FlowIs ==
  ASSUME NEW G
  PROVE  /\ \A f \in Flow(G) : \E n \in DOMAIN G.items : \E x, y : Adds(G, n, x, y) /\ f = <<x, y>>
         /\ \A n \in DOMAIN G.items : \A x, y : Adds(G, n, x, y) => <<x, y>> \in Flow(G)
<1> DEFINE inside(n) == {<<G.items[n][k], G.items[n][k + 1]>> : k \in 1..(Len(G.items[n]) - 1)}
           behind(n) == IF G.items[n] = <<>> THEN {}
                        ELSE {<<Last(G.items[n]), y>> : y \in FirstItems(G, G.succ[n])}
<1>1. Flow(G) = UNION {inside(n) \cup behind(n) : n \in DOMAIN G.items}
  BY DEF Flow
<1>2. ASSUME NEW n \in DOMAIN G.items, NEW f \in inside(n) \cup behind(n)
      PROVE  \E x, y : Adds(G, n, x, y) /\ f = <<x, y>>
  <2>1. CASE f \in inside(n)
    BY <2>1 DEF Adds
  <2>2. CASE f \in behind(n)
    BY <2>2 DEF Adds
  <2>3. QED
    BY <1>2, <2>1, <2>2
<1>3. ASSUME NEW n \in DOMAIN G.items, NEW x, NEW y, Adds(G, n, x, y)
      PROVE  <<x, y>> \in inside(n) \cup behind(n)
  BY <1>3 DEF Adds
<1> HIDE DEF inside, behind
<1>4. QED
  BY <1>1, <1>2, <1>3

LEMMA FlowWithin ==
  ASSUME NEW G, NEW F,
         \A n \in DOMAIN G.items : \A x, y : Adds(G, n, x, y) => <<x, y>> \in F
  PROVE  Flow(G) \subseteq F
BY FlowIs

\* A node that has the items and the first items behind it adds the same.
LEMMA AddsSame ==
  ASSUME NEW G, NEW H, NEW n, NEW m, NEW x, NEW y, Adds(G, n, x, y),
         H.items[m] = G.items[n],
         FirstItems(G, G.succ[n]) \subseteq FirstItems(H, H.succ[m])
  PROVE  Adds(H, m, x, y)
BY DEF Adds

-----------------------------------------------------------------------------
(***************************************************************************)
(* Changes of a graph that leave its flow as it is.                        *)
(***************************************************************************)
\* The nodes of P that the nodes in S of H stand for: h says where a node of P
\* is in H, and a node in C connects to the successors it has in H.
StandsFor(P, H, h, C, S) ==
  {m \in DOMAIN P.items : h[m] \in S \/ \E c \in C \cap S : h[m] \in H.succ[c]}

\* In H the nodes of P are found, with their items, and empty nodes that connect
\* them.
Connects(P, H, h, C) ==
  /\ C \subseteq DOMAIN H.items
  /\ DOMAIN H.items = C \cup {h[m] : m \in DOMAIN P.items}
  /\ \A m \in DOMAIN P.items :
       /\ h[m] \notin C /\ H.items[h[m]] = P.items[m]
       /\ P.succ[m] = StandsFor(P, H, h, C, H.succ[h[m]])
  /\ \A c \in C : H.items[c] = <<>> /\ H.succ[c] \subseteq {h[m] : m \in DOMAIN P.items}

LEMMA ConnectsFirst ==
  ASSUME NEW P, NEW H, IsFlow(P), IsFlow(H), NEW h, NEW C, Connects(P, H, h, C),
         NEW S, S \subseteq DOMAIN H.items
  PROVE  FirstItems(H, S) = FirstItems(P, StandsFor(P, H, h, C, S))
<1> DEFINE N    == DOMAIN P.items
           F(A) == StandsFor(P, H, h, C, A)
<1>1. F(S) \subseteq N
  BY DEF StandsFor
<1>2. FirstItems(H, S) \subseteq FirstItems(P, F(S))
  <2> DEFINE T == Through(P, F(S))
             D == {e \in DOMAIN H.items : F({e}) \subseteq T}
  <2>1. T \subseteq N /\ F(S) \subseteq T /\ Passes(P, T)
    <3> HIDE DEF F
    <3>1. QED
      BY <1>1, ThroughIsLeast
  <2> HIDE DEF T
  <2>2. ASSUME NEW A, NEW e \in A PROVE F({e}) \subseteq F(A)
    BY DEF StandsFor
  <2>3. S \subseteq D
    <3>1. ASSUME NEW e \in S PROVE e \in D
      BY <2>1, <2>2
    <3>2. QED
      BY <3>1
  <2>4. ASSUME NEW m \in N, h[m] \in D PROVE m \in T
    <3>1. m \in F({h[m]})
      BY DEF StandsFor
    <3>2. QED
      BY <2>4, <3>1
  <2>5. ASSUME NEW e \in D, H.items[e] = <<>>, NEW d \in H.succ[e] PROVE d \in D
    <3>0. d \in DOMAIN H.items
      BY <2>5 DEF IsFlow
    <3>1. CASE e \in C
      <4>1. PICK m \in N : d = h[m]
        BY <2>5, <3>1 DEF Connects
      <4>2. d \notin C
        BY <4>1 DEF Connects
      <4>3. ASSUME NEW x \in F({d}) PROVE x \in F({e})
        BY <2>5, <3>1, <4>2 DEF StandsFor
      <4>4. F({d}) \subseteq T
        BY <4>3
      <4>5. QED
        BY <3>0, <4>4
    <3>2. CASE e \notin C
      <4>1. PICK m \in N : e = h[m]
        BY <3>2 DEF Connects
      <4>2. m \in T /\ P.items[m] = <<>> /\ P.succ[m] = F(H.succ[e])
        BY <2>4, <2>5, <4>1 DEF Connects
      <4>3. P.succ[m] \subseteq T
        BY <2>1, <4>2 DEF Passes
      <4>4. F({d}) \subseteq F(H.succ[e])
        BY <2>2, <2>5
      <4>5. F({d}) \subseteq T
        <5> HIDE DEF F
        <5>1. QED
          BY <4>2, <4>3, <4>4
      <4>6. QED
        BY <3>0, <4>5
    <3>3. QED
      BY <3>1, <3>2
  <2>6. ASSUME NEW e \in D, H.items[e] # <<>>
        PROVE  Head(H.items[e]) \in FirstItems(P, F(S))
    <3>1. PICK m \in N : e = h[m]
      BY <2>6 DEF Connects
    <3>2. m \in T /\ P.items[m] = H.items[e]
      BY <2>4, <3>1 DEF Connects
    <3> HIDE DEF F
    <3>3. QED
      BY <2>6, <3>2, FirstFrom DEF T
  <2>7. Passes(H, D)
    <3> HIDE DEF D
    <3>1. QED
      BY <2>5 DEF Passes
  <2> HIDE DEF D, F
  <2>8. QED
    BY <2>3, <2>6, <2>7, FirstWithin
<1>3. FirstItems(P, F(S)) \subseteq FirstItems(H, S)
  <2> DEFINE T == Through(H, S)
             D == {m \in N : h[m] \in T}
  <2>1. T \subseteq DOMAIN H.items /\ S \subseteq T /\ Passes(H, T)
    BY ThroughIsLeast
  <2> HIDE DEF T
  <2>2. ASSUME NEW A, A \subseteq T, NEW m \in F(A) PROVE m \in D
    <3>1. CASE h[m] \in A
      BY <2>2, <3>1 DEF StandsFor
    <3>2. CASE \E c \in C \cap A : h[m] \in H.succ[c]
      <4>1. PICK c \in C \cap A : h[m] \in H.succ[c]
        BY <3>2
      <4>2. c \in T /\ H.items[c] = <<>> /\ c \in DOMAIN H.items
        BY <2>1, <2>2 DEF Connects
      <4>3. H.succ[c] \subseteq T
        BY <2>1, <4>2 DEF Passes
      <4>4. QED
        BY <2>2, <4>1, <4>3 DEF StandsFor
    <3>3. QED
      BY <2>2, <3>1, <3>2 DEF StandsFor
  <2>3. F(S) \subseteq D
    BY <2>1, <2>2
  <2>4. ASSUME NEW m \in D, P.items[m] = <<>> PROVE P.succ[m] \subseteq D
    <3>1. H.items[h[m]] = <<>> /\ P.succ[m] = F(H.succ[h[m]])
      BY <2>4 DEF Connects
    <3>2. H.succ[h[m]] \subseteq T
      BY <2>1, <3>1 DEF Passes
    <3> HIDE DEF F, D
    <3>3. QED
      BY <2>2, <3>1, <3>2
  <2>5. ASSUME NEW m \in D, P.items[m] # <<>>
        PROVE  Head(P.items[m]) \in FirstItems(H, S)
    <3>1. H.items[h[m]] = P.items[m] /\ h[m] \in T
      BY DEF Connects
    <3>2. QED
      BY <2>5, <3>1, FirstFrom DEF T
  <2>6. Passes(P, D)
    <3> HIDE DEF D
    <3>1. QED
      BY <2>4 DEF Passes
  <2> HIDE DEF D, F
  <2>7. QED
    BY <1>1, <2>3, <2>5, <2>6, FirstWithin
<1>4. QED
  BY <1>2, <1>3

LEMMA ConnectsFlow ==
  ASSUME NEW P, NEW H, IsFlow(P), IsFlow(H), NEW h, NEW C, Connects(P, H, h, C)
  PROVE  Flow(H) = Flow(P)
<1>1. ASSUME NEW m \in DOMAIN P.items
      PROVE  /\ h[m] \in DOMAIN H.items /\ H.items[h[m]] = P.items[m]
             /\ FirstItems(H, H.succ[h[m]]) = FirstItems(P, P.succ[m])
  <2>1. /\ h[m] \in DOMAIN H.items /\ H.items[h[m]] = P.items[m]
        /\ P.succ[m] = StandsFor(P, H, h, C, H.succ[h[m]])
    BY DEF Connects
  <2>2. H.succ[h[m]] \subseteq DOMAIN H.items
    BY <2>1 DEF IsFlow
  <2>3. QED
    BY <2>1, <2>2, ConnectsFirst
<1>2. ASSUME NEW e \in DOMAIN H.items, NEW x, NEW y, Adds(H, e, x, y)
      PROVE  <<x, y>> \in Flow(P)
  <2>1. e \notin C
    <3>1. SUFFICES ASSUME H.items[e] = <<>> PROVE FALSE
      BY DEF Connects
    <3>2. QED
      BY <1>2, <3>1 DEF Adds
  <2>2. PICK m \in DOMAIN P.items : e = h[m]
    BY <2>1 DEF Connects
  <2>3. Adds(P, m, x, y)
    BY <1>1, <1>2, <2>2, AddsSame
  <2>4. QED
    BY <2>3, FlowIs
<1>3. ASSUME NEW m \in DOMAIN P.items, NEW x, NEW y, Adds(P, m, x, y)
      PROVE  <<x, y>> \in Flow(H)
  <2>1. Adds(H, h[m], x, y)
    BY <1>1, <1>3, AddsSame
  <2>2. QED
    BY <1>1, <2>1, FlowIs
<1>4. QED
  BY <1>2, <1>3, FlowWithin

\* H is G with the nodes of E, which are empty and lead nowhere.
GrownBy(G, H, E) ==
  /\ DOMAIN H.items = DOMAIN G.items \cup E /\ DOMAIN G.items \cap E = {}
  /\ \A n \in E : H.items[n] = <<>> /\ H.succ[n] = {}
  /\ \A n \in DOMAIN G.items :
       /\ H.items[n] = G.items[n]
       /\ G.succ[n] \subseteq H.succ[n] /\ H.succ[n] \subseteq G.succ[n] \cup E

LEMMA GrownFirst ==
  ASSUME NEW G, NEW H, IsFlow(G), IsFlow(H), NEW E, GrownBy(G, H, E),
         NEW S, S \subseteq DOMAIN G.items, NEW R, S \subseteq R, R \subseteq S \cup E
  PROVE  FirstItems(H, R) = FirstItems(G, S)
<1>1. FirstItems(H, R) \subseteq FirstItems(G, S)
  <2> DEFINE T == Through(G, S)
             D == T \cup E
  <2>1. T \subseteq DOMAIN G.items /\ S \subseteq T /\ Passes(G, T)
    BY ThroughIsLeast
  <2> HIDE DEF T
  <2>2. Passes(H, D)
    BY <2>1 DEF Passes, GrownBy
  <2>3. ASSUME NEW n \in D, H.items[n] # <<>>
        PROVE  Head(H.items[n]) \in FirstItems(G, S)
    <3>1. n \in T /\ H.items[n] = G.items[n]
      BY <2>1, <2>3 DEF GrownBy
    <3>2. QED
      BY <2>3, <3>1, FirstFrom DEF T
  <2>4. R \subseteq D /\ R \subseteq DOMAIN H.items
    BY <2>1 DEF GrownBy
  <2> HIDE DEF D
  <2>5. QED
    BY <2>2, <2>3, <2>4, FirstWithin
<1>2. FirstItems(G, S) \subseteq FirstItems(H, R)
  <2> DEFINE T == Through(H, R)
  <2>1. T \subseteq DOMAIN H.items /\ R \subseteq T /\ Passes(H, T)
    <3>1. R \subseteq DOMAIN H.items
      BY DEF GrownBy
    <3>2. QED
      BY <3>1, ThroughIsLeast
  <2> HIDE DEF T
  <2>2. Passes(G, T)
    BY <2>1 DEF Passes, GrownBy
  <2>3. ASSUME NEW n \in T \cap DOMAIN G.items, G.items[n] # <<>>
        PROVE  Head(G.items[n]) \in FirstItems(H, R)
    <3>1. H.items[n] = G.items[n]
      BY DEF GrownBy
    <3>2. QED
      BY <2>3, <3>1, FirstFrom DEF T
  <2>4. S \subseteq T
    BY <2>1
  <2>5. QED
    BY <2>2, <2>3, <2>4, FirstWithin
<1>3. QED
  BY <1>1, <1>2

LEMMA GrownFlow ==
  ASSUME NEW G, NEW H, IsFlow(G), IsFlow(H), NEW E, GrownBy(G, H, E)
  PROVE  Flow(H) = Flow(G)
<1>1. ASSUME NEW n \in DOMAIN G.items
      PROVE  /\ n \in DOMAIN H.items /\ H.items[n] = G.items[n]
             /\ FirstItems(H, H.succ[n]) = FirstItems(G, G.succ[n])
  <2>1. G.succ[n] \subseteq DOMAIN G.items
    BY DEF IsFlow
  <2>2. G.succ[n] \subseteq H.succ[n] /\ H.succ[n] \subseteq G.succ[n] \cup E
    BY DEF GrownBy
  <2>3. FirstItems(H, H.succ[n]) = FirstItems(G, G.succ[n])
    BY <2>1, <2>2, GrownFirst
  <2>4. QED
    BY <2>3 DEF GrownBy
<1>2. ASSUME NEW n \in DOMAIN H.items, NEW x, NEW y, Adds(H, n, x, y)
      PROVE  <<x, y>> \in Flow(G)
  <2>1. n \notin E
    <3>1. n \in E => H.items[n] = <<>>
      BY DEF GrownBy
    <3>2. QED
      BY <1>2, <3>1 DEF Adds
  <2>2. n \in DOMAIN G.items
    BY <2>1 DEF GrownBy
  <2>3. Adds(G, n, x, y)
    BY <1>1, <1>2, <2>2, AddsSame
  <2>4. QED
    BY <2>2, <2>3, FlowIs
<1>3. ASSUME NEW n \in DOMAIN G.items, NEW x, NEW y, Adds(G, n, x, y)
      PROVE  <<x, y>> \in Flow(H)
  <2>1. Adds(H, n, x, y)
    BY <1>1, <1>3, AddsSame
  <2>2. QED
    BY <1>1, <2>1, FlowIs
<1>4. QED
  BY <1>2, <1>3, FlowWithin

\* H is G with the only successor n of l, of which l is the only predecessor,
\* made a part of l.
Absorbs(G, H, l, n) ==
  /\ l \in DOMAIN G.items /\ n \in DOMAIN G.items /\ l # n
  /\ G.succ[l] = {n} /\ \A a \in DOMAIN G.items : n \in G.succ[a] => a = l
  /\ DOMAIN H.items = DOMAIN G.items \ {n}
  /\ H.items[l] = G.items[l] \o G.items[n] /\ H.succ[l] = G.succ[n]
  /\ \A a \in DOMAIN G.items \ {l, n} : H.items[a] = G.items[a] /\ H.succ[a] = G.succ[a]

LEMMA Joined ==
  ASSUME NEW s \in Seq(Acts), NEW t \in Seq(Acts)
  PROVE  /\ s \o t \in Seq(Acts) /\ Len(s \o t) = Len(s) + Len(t)
         /\ Len(s) \in Nat /\ Len(t) \in Nat
         /\ \A k \in 1..Len(s) : (s \o t)[k] = s[k]
         /\ \A k \in 1..Len(t) : (s \o t)[Len(s) + k] = t[k]
         /\ s = <<>> => s \o t = t
         /\ t = <<>> => s \o t = s
         /\ s \o t = <<>> <=> s = <<>> /\ t = <<>>
         /\ s # <<>> => Head(s \o t) = Head(s) /\ 1 <= Len(s) /\ Last(s) = s[Len(s)]
         /\ t # <<>> => Last(s \o t) = Last(t) /\ 1 <= Len(t) /\ Head(t) = t[1]
<1>1. PICK u : u = s \o t
  OBVIOUS
<1>2. /\ u \in Seq(Acts) /\ Len(u) = Len(s) + Len(t) /\ Len(s) \in Nat /\ Len(t) \in Nat
      /\ \A k \in 1..Len(s) : u[k] = s[k]
      /\ \A k \in 1..Len(t) : u[Len(s) + k] = t[k]
  BY <1>1
<1>3. (s = <<>> => u = t) /\ (t = <<>> => u = s)
  BY <1>1
<1>4. s # <<>> => 1 <= Len(s)
  OBVIOUS
<1>5. t # <<>> => 1 <= Len(t)
  OBVIOUS
<1>6. u = <<>> <=> s = <<>> /\ t = <<>>
  BY <1>2, <1>3, <1>4, <1>5
<1>7. s # <<>> => Head(u) = Head(s)
  BY <1>2, <1>4, <1>6
<1>8. t # <<>> => Last(u) = Last(t)
  BY <1>2, <1>5 DEF Last
<1>9. (s # <<>> => Last(s) = s[Len(s)]) /\ (t # <<>> => Head(t) = t[1])
  BY DEF Last
<1>10. QED
  BY <1>1, <1>2, <1>3, <1>4, <1>5, <1>6, <1>7, <1>8, <1>9

LEMMA AbsorbsFirst ==
  ASSUME NEW G, NEW H, IsFlow(G), IsFlow(H), NEW l, NEW n, Absorbs(G, H, l, n),
         NEW S, S \subseteq DOMAIN H.items
  PROVE  FirstItems(H, S) = FirstItems(G, S)
<1>1. /\ l \in DOMAIN G.items /\ n \in DOMAIN G.items /\ l # n
      /\ G.succ[l] = {n} /\ \A a \in DOMAIN G.items : n \in G.succ[a] => a = l
      /\ DOMAIN H.items = DOMAIN G.items \ {n} /\ H.succ[l] = G.succ[n]
      /\ \A a \in DOMAIN G.items \ {l, n} : H.items[a] = G.items[a] /\ H.succ[a] = G.succ[a]
  BY DEF Absorbs
<1>2. PICK s, t : s = G.items[l] /\ t = G.items[n]
  OBVIOUS
<1>3. s \in Seq(Acts) /\ t \in Seq(Acts)
  BY <1>1, <1>2 DEF IsFlow
<1>4. /\ H.items[l] = <<>> <=> s = <<>> /\ t = <<>>
      /\ s # <<>> => Head(H.items[l]) = Head(s)
      /\ s = <<>> => H.items[l] = t
  <2>1. H.items[l] = s \o t
    BY <1>2 DEF Absorbs
  <2>2. QED
    BY <1>3, <2>1, Joined
<1>5. FirstItems(H, S) \subseteq FirstItems(G, S)
  <2> DEFINE T == Through(G, S)
             D == T \ {n}
  <2>1. T \subseteq DOMAIN G.items /\ S \subseteq T /\ Passes(G, T)
    BY <1>1, ThroughIsLeast
  <2> HIDE DEF T
  <2>2. s = <<>> /\ l \in T => n \in T
    BY <1>1, <1>2, <2>1 DEF Passes
  <2>3. ASSUME NEW a \in D, H.items[a] = <<>> PROVE H.succ[a] \subseteq D
    <3>1. CASE a = l
      <4>1. s = <<>> /\ t = <<>> /\ n \in T
        BY <1>4, <2>2, <2>3, <3>1
      <4>2. G.succ[n] \subseteq T /\ n \notin G.succ[n]
        BY <1>1, <1>2, <2>1, <4>1 DEF Passes
      <4>3. QED
        BY <1>1, <3>1, <4>2
    <3>2. CASE a # l
      <4>1. a \in DOMAIN G.items /\ H.items[a] = G.items[a] /\ H.succ[a] = G.succ[a]
        BY <1>1, <2>1, <3>2
      <4>2. G.succ[a] \subseteq T /\ n \notin G.succ[a]
        BY <1>1, <2>1, <2>3, <3>2, <4>1 DEF Passes
      <4>3. QED
        BY <4>1, <4>2
    <3>3. QED
      BY <3>1, <3>2
  <2>4. ASSUME NEW a \in D, H.items[a] # <<>>
        PROVE  Head(H.items[a]) \in FirstItems(G, S)
    <3>1. CASE a = l /\ s # <<>>
      <4>1. Head(s) \in FirstItems(G, S)
        BY <1>2, <2>4, <3>1, FirstFrom DEF T
      <4>2. QED
        BY <1>4, <3>1, <4>1
    <3>2. CASE a = l /\ s = <<>>
      <4>1. n \in T /\ t # <<>> /\ H.items[l] = t
        BY <1>4, <2>2, <2>4, <3>2
      <4>2. Head(t) \in FirstItems(G, S)
        BY <1>2, <4>1, FirstFrom DEF T
      <4>3. QED
        BY <3>2, <4>1, <4>2
    <3>3. CASE a # l
      <4>1. H.items[a] = G.items[a]
        BY <1>1, <2>1, <3>3
      <4>2. QED
        BY <2>4, <4>1, FirstFrom DEF T
    <3>4. QED
      BY <3>1, <3>2, <3>3
  <2>5. Passes(H, D)
    <3> HIDE DEF D
    <3>1. QED
      BY <2>3 DEF Passes
  <2>6. S \subseteq D
    BY <1>1, <2>1
  <2> HIDE DEF D
  <2>7. QED
    BY <2>4, <2>5, <2>6, FirstWithin
<1>6. FirstItems(G, S) \subseteq FirstItems(H, S)
  <2> DEFINE T == Through(H, S)
             D == T \cup (IF l \in T /\ s = <<>> THEN {n} ELSE {})
  <2>1. T \subseteq DOMAIN H.items /\ S \subseteq T /\ Passes(H, T)
    BY ThroughIsLeast
  <2> HIDE DEF T
  <2>2. n \in D => l \in T /\ s = <<>>
    BY <1>1, <2>1
  <2>3. ASSUME NEW a \in D, G.items[a] = <<>> PROVE G.succ[a] \subseteq D
    <3>1. CASE a = l
      BY <1>1, <1>2, <2>1, <2>3, <3>1
    <3>2. CASE a = n
      <4>1. l \in T /\ H.items[l] = <<>>
        BY <1>2, <1>4, <2>2, <2>3, <3>2
      <4>2. H.succ[l] \subseteq T
        BY <1>1, <2>1, <4>1 DEF Passes
      <4>3. QED
        BY <1>1, <3>2, <4>2
    <3>3. CASE a \notin {l, n}
      <4>1. a \in T /\ a \in DOMAIN H.items
        BY <2>1, <3>3
      <4>2. H.items[a] = G.items[a] /\ H.succ[a] = G.succ[a]
        BY <1>1, <3>3, <4>1
      <4>3. H.succ[a] \subseteq T
        BY <2>1, <2>3, <4>1, <4>2 DEF Passes
      <4>4. QED
        BY <4>2, <4>3
    <3>4. QED
      BY <3>1, <3>2, <3>3
  <2>4. ASSUME NEW a \in D, G.items[a] # <<>>
        PROVE  Head(G.items[a]) \in FirstItems(H, S)
    <3>1. CASE a = l
      <4>1. l \in T /\ s # <<>> /\ H.items[l] # <<>> /\ Head(H.items[l]) = Head(s)
        BY <1>1, <1>2, <1>4, <2>4, <3>1
      <4>2. QED
        BY <1>2, <3>1, <4>1, FirstFrom DEF T
    <3>2. CASE a = n
      <4>1. l \in T /\ t # <<>> /\ H.items[l] = t
        BY <1>2, <1>4, <2>2, <2>4, <3>2
      <4>2. QED
        BY <1>2, <3>2, <4>1, FirstFrom DEF T
    <3>3. CASE a \notin {l, n}
      <4>1. a \in T /\ H.items[a] = G.items[a]
        BY <1>1, <2>1, <3>3
      <4>2. QED
        BY <2>4, <4>1, FirstFrom DEF T
    <3>4. QED
      BY <3>1, <3>2, <3>3
  <2>5. Passes(G, D)
    <3> HIDE DEF D
    <3>1. QED
      BY <2>3 DEF Passes
  <2>6. S \subseteq D /\ S \subseteq DOMAIN G.items
    BY <1>1, <2>1
  <2> HIDE DEF D
  <2>7. QED
    BY <2>4, <2>5, <2>6, FirstWithin
<1>7. QED
  BY <1>5, <1>6

LEMMA FirstOfOne ==
  ASSUME NEW G, IsFlow(G), NEW n \in DOMAIN G.items
  PROVE  FirstItems(G, {n}) = IF G.items[n] = <<>> THEN FirstItems(G, G.succ[n])
                              ELSE {Head(G.items[n])}
<1> DEFINE T == Through(G, {n})
           U == Through(G, G.succ[n])
<1>1. n \in T /\ Passes(G, T) /\ T \subseteq DOMAIN G.items
  <2>1. {n} \subseteq T /\ Passes(G, T) /\ T \subseteq DOMAIN G.items
    BY ThroughIsLeast
  <2>2. QED
    BY <2>1
<1>2. G.succ[n] \subseteq DOMAIN G.items
  BY DEF IsFlow
<1>3. G.succ[n] \subseteq U /\ Passes(G, U) /\ U \subseteq DOMAIN G.items
  BY <1>2, ThroughIsLeast
<1> HIDE DEF T, U
<1>4. CASE G.items[n] = <<>>
  <2>1. FirstItems(G, {n}) \subseteq FirstItems(G, G.succ[n])
    <3>1. Passes(G, U \cup {n})
      BY <1>3 DEF Passes
    <3>2. ASSUME NEW a \in U \cup {n}, G.items[a] # <<>>
          PROVE  Head(G.items[a]) \in FirstItems(G, G.succ[n])
      BY <1>4, <3>2, FirstFrom DEF U
    <3>3. PICK D : D = U \cup {n}
      OBVIOUS
    <3>4. {n} \subseteq D /\ {n} \subseteq DOMAIN G.items
      BY <3>3
    <3>5. QED
      BY <3>1, <3>2, <3>3, <3>4, FirstWithin
  <2>2. FirstItems(G, G.succ[n]) \subseteq FirstItems(G, {n})
    <3>1. G.succ[n] \subseteq T
      BY <1>1, <1>4 DEF Passes
    <3>2. \A a \in T \cap DOMAIN G.items :
            G.items[a] # <<>> => Head(G.items[a]) \in FirstItems(G, {n})
      BY FirstFrom DEF T
    <3>3. QED
      BY <1>1, <1>2, <3>1, <3>2, FirstWithin
  <2>3. QED
    BY <1>4, <2>1, <2>2
<1>5. CASE G.items[n] # <<>>
  <2>1. Passes(G, {n})
    BY <1>5 DEF Passes
  <2>2. PICK D, F : D = {n} /\ F = {Head(G.items[n])}
    OBVIOUS
  <2>3. D \subseteq DOMAIN G.items /\ Passes(G, D)
        /\ \A a \in D \cap DOMAIN G.items : G.items[a] # <<>> => Head(G.items[a]) \in F
    BY <2>1, <2>2
  <2>4. FirstItems(G, D) \subseteq F
    BY <2>3, FirstWithin
  <2>5. Head(G.items[n]) \in FirstItems(G, {n})
    BY <1>1, <1>5, FirstFrom DEF T
  <2>6. QED
    BY <1>5, <2>2, <2>4, <2>5
<1>6. QED
  BY <1>4, <1>5

LEMMA AbsorbsFlow ==
  ASSUME NEW G, NEW H, IsFlow(G), IsFlow(H), NEW l, NEW n, Absorbs(G, H, l, n)
  PROVE  Flow(H) = Flow(G)
<1>1. /\ l \in DOMAIN G.items /\ n \in DOMAIN G.items /\ l # n
      /\ G.succ[l] = {n} /\ \A a \in DOMAIN G.items : n \in G.succ[a] => a = l
      /\ DOMAIN H.items = DOMAIN G.items \ {n} /\ H.succ[l] = G.succ[n]
      /\ \A a \in DOMAIN G.items \ {l, n} : H.items[a] = G.items[a] /\ H.succ[a] = G.succ[a]
  BY DEF Absorbs
<1>2. PICK s, t : s = G.items[l] /\ t = G.items[n]
  OBVIOUS
<1>3. s \in Seq(Acts) /\ t \in Seq(Acts)
  BY <1>1, <1>2 DEF IsFlow
<1>4. PICK u : u = s \o t /\ H.items[l] = u
  BY <1>2 DEF Absorbs
<1>5. /\ u \in Seq(Acts) /\ Len(u) = Len(s) + Len(t) /\ Len(s) \in Nat /\ Len(t) \in Nat
      /\ \A k \in 1..Len(s) : u[k] = s[k]
      /\ \A k \in 1..Len(t) : u[Len(s) + k] = t[k]
      /\ t = <<>> => u = s
      /\ u = <<>> <=> s = <<>> /\ t = <<>>
      /\ s # <<>> => 1 <= Len(s) /\ Last(s) = s[Len(s)]
      /\ t # <<>> => Last(u) = Last(t) /\ 1 <= Len(t) /\ Head(t) = t[1]
  BY <1>3, <1>4, Joined
<1>6. /\ \A a \in DOMAIN H.items : FirstItems(H, H.succ[a]) = FirstItems(G, H.succ[a])
      /\ FirstItems(H, H.succ[l]) = FirstItems(G, G.succ[n])
      /\ \A a \in DOMAIN G.items \ {l, n} : FirstItems(H, H.succ[a]) = FirstItems(G, G.succ[a])
  <2>1. \A a \in DOMAIN H.items : H.succ[a] \subseteq DOMAIN H.items
    BY DEF IsFlow
  <2>2. \A a \in DOMAIN H.items : FirstItems(H, H.succ[a]) = FirstItems(G, H.succ[a])
    BY <2>1, AbsorbsFirst
  <2>3. QED
    BY <1>1, <2>2
<1>7. FirstItems(G, G.succ[l]) = IF t = <<>> THEN FirstItems(G, G.succ[n]) ELSE {Head(t)}
  <2>1. FirstItems(G, {n}) = IF G.items[n] = <<>> THEN FirstItems(G, G.succ[n])
                             ELSE {Head(G.items[n])}
    BY <1>1, FirstOfOne
  <2>2. QED
    BY <1>1, <1>2, <2>1, Zenon
<1>8. ASSUME NEW a \in DOMAIN H.items, NEW x, NEW y, Adds(H, a, x, y)
      PROVE  <<x, y>> \in Flow(G)
  <2>1. CASE a # l
    <3>1. Adds(G, a, x, y)
      BY <1>1, <1>6, <1>8, <2>1, AddsSame
    <3>2. QED
      BY <1>1, <3>1, FlowIs
  <2>2. CASE a = l
    <3>1. Adds(G, l, x, y) \/ Adds(G, n, x, y)
      <4>1. CASE \E k \in 1..(Len(u) - 1) : x = u[k] /\ y = u[k + 1]
        <5>1. PICK k \in 1..(Len(u) - 1) : x = u[k] /\ y = u[k + 1]
          BY <4>1
        <5>2. CASE k < Len(s)
          <6>1. k \in 1..(Len(s) - 1) /\ x = s[k] /\ y = s[k + 1]
            BY <1>5, <5>1, <5>2
          <6>2. QED
            BY <1>2, <6>1 DEF Adds
        <5>3. CASE k = Len(s)
          <6>1. t # <<>> /\ s # <<>>
            BY <1>3, <1>5, <5>1, <5>3
          <6>2. 1 \in 1..Len(t) /\ k \in 1..Len(s)
            BY <1>5, <5>1, <5>3, <6>1
          <6>3. x = Last(s) /\ y = Head(t)
            BY <1>5, <5>1, <5>3, <6>1, <6>2
          <6>4. QED
            BY <1>2, <1>7, <6>1, <6>3 DEF Adds
        <5>4. CASE k > Len(s)
          <6>1. PICK j \in 1..(Len(t) - 1) : k = Len(s) + j
            <7>1. k - Len(s) \in 1..(Len(t) - 1) /\ k = Len(s) + (k - Len(s))
              BY <1>5, <5>1, <5>4
            <7>2. QED
              BY <7>1
          <6>2. j \in 1..Len(t) /\ j + 1 \in 1..Len(t) /\ k + 1 = Len(s) + (j + 1)
            BY <1>5, <6>1
          <6>3. x = t[j] /\ y = t[j + 1]
            BY <1>5, <5>1, <6>1, <6>2
          <6>4. QED
            BY <1>2, <6>1, <6>3 DEF Adds
        <5>5. QED
          BY <1>5, <5>2, <5>3, <5>4
      <4>2. CASE u # <<>> /\ x = Last(u) /\ y \in FirstItems(H, H.succ[l])
        <5>1. CASE t # <<>>
          BY <1>2, <1>5, <1>6, <4>2, <5>1 DEF Adds
        <5>2. CASE t = <<>>
          BY <1>2, <1>5, <1>6, <1>7, <4>2, <5>2 DEF Adds
        <5>3. QED
          BY <5>1, <5>2
      <4>3. QED
        BY <1>4, <1>8, <2>2, <4>1, <4>2 DEF Adds
    <3>2. QED
      BY <1>1, <3>1, FlowIs
  <2>3. QED
    BY <2>1, <2>2
<1>9. ASSUME NEW a \in DOMAIN G.items, NEW x, NEW y, Adds(G, a, x, y)
      PROVE  <<x, y>> \in Flow(H)
  <2>1. CASE a \notin {l, n}
    <3>1. Adds(H, a, x, y)
      BY <1>1, <1>6, <1>9, <2>1, AddsSame
    <3>2. QED
      BY <1>1, <2>1, <3>1, FlowIs
  <2>2. CASE a = l
    <3>1. Adds(H, l, x, y)
      <4>1. CASE \E k \in 1..(Len(s) - 1) : x = s[k] /\ y = s[k + 1]
        <5>1. PICK k \in 1..(Len(s) - 1) : x = s[k] /\ y = s[k + 1]
          BY <4>1
        <5>2. k \in 1..(Len(u) - 1) /\ x = u[k] /\ y = u[k + 1]
          BY <1>5, <5>1
        <5>3. QED
          BY <1>4, <5>2 DEF Adds
      <4>2. CASE s # <<>> /\ x = Last(s) /\ y \in FirstItems(G, G.succ[l])
        <5>1. CASE t # <<>>
          <6>1. y = t[1] /\ x = s[Len(s)] /\ 1 \in 1..Len(t) /\ Len(s) \in 1..Len(s)
            BY <1>5, <1>7, <4>2, <5>1
          <6>2. x = u[Len(s)] /\ y = u[Len(s) + 1] /\ Len(s) \in 1..(Len(u) - 1)
            BY <1>5, <6>1
          <6>3. QED
            BY <1>4, <6>2 DEF Adds
        <5>2. CASE t = <<>>
          BY <1>4, <1>5, <1>6, <1>7, <4>2, <5>2 DEF Adds
        <5>3. QED
          BY <5>1, <5>2
      <4>3. QED
        BY <1>2, <1>9, <2>2, <4>1, <4>2 DEF Adds
    <3>2. QED
      BY <1>1, <3>1, FlowIs
  <2>3. CASE a = n
    <3>1. Adds(H, l, x, y)
      <4>1. CASE \E k \in 1..(Len(t) - 1) : x = t[k] /\ y = t[k + 1]
        <5>1. PICK k \in 1..(Len(t) - 1) : x = t[k] /\ y = t[k + 1]
          BY <4>1
        <5>2. k \in 1..Len(t) /\ k + 1 \in 1..Len(t)
          BY <1>5
        <5>3. PICK j \in 1..(Len(u) - 1) : j = Len(s) + k
          BY <1>5
        <5>4. x = u[j] /\ y = u[j + 1]
          <6>1. j + 1 = Len(s) + (k + 1)
            BY <1>5, <5>3
          <6>2. QED
            BY <1>5, <5>1, <5>2, <5>3, <6>1
        <5>5. QED
          BY <1>4, <5>4 DEF Adds
      <4>2. CASE t # <<>> /\ x = Last(t) /\ y \in FirstItems(G, G.succ[n])
        BY <1>4, <1>5, <1>6, <4>2 DEF Adds
      <4>3. QED
        BY <1>2, <1>9, <2>3, <4>1, <4>2 DEF Adds
    <3>2. QED
      BY <1>1, <3>1, FlowIs
  <2>4. QED
    BY <2>1, <2>2, <2>3
<1>10. QED
  BY <1>8, <1>9, FlowWithin

-----------------------------------------------------------------------------
(***************************************************************************)
(* simplify: what the merges do to the flow.                               *)
(***************************************************************************)
Sound(g) == IsGraphOf(g) /\ Bodied(g) /\ Named(g)

LEMMA GraphIsFlow ==
  ASSUME NEW g, Bodied(g), NEW S
  PROVE  /\ IsFlow(GraphOf(g, S)) /\ DOMAIN GraphOf(g, S).items = DOMAIN g
         /\ \A l \in DOMAIN g : /\ GraphOf(g, S).items[l] = g[l].insts
                                /\ GraphOf(g, S).succ[l] = ToSet(g[l].nextlist) \cap DOMAIN g
<1>1. PICK G : G = GraphOf(g, S)
  OBVIOUS
<1>2. /\ G.items = [l \in DOMAIN g |-> g[l].insts]
      /\ G.succ = [l \in DOMAIN g |-> ToSet(g[l].nextlist) \cap DOMAIN g]
  BY <1>1 DEF GraphOf
<1>3. IsFlow(G)
  BY <1>2 DEF IsFlow, Bodied
<1>4. QED
  BY <1>1, <1>2, <1>3

LEMMA BlankFacts ==
  /\ NoBlock.insts = <<>> /\ NoBlock.nextlist = <<>> /\ NoBlock.prevlist = <<>>
  /\ NoBlock.insts \in Seq(Acts) /\ ToSet(<<>>) = {} /\ Len(NoBlock.prevlist) = 0
<1>1. <<>> \in Seq(Acts)
  BY EmptySeq
<1>2. QED
  BY <1>1 DEF NoBlock, ToSet

LEMMA ListFinite ==
  ASSUME NEW s \in Seq(Labels)
  PROVE  IsFiniteSet(ToSet(s)) /\ ToSet(s) \subseteq Labels
<1>1. PICK T : T = ToSet(s)
  OBVIOUS
<1>2. T = {s[k] : k \in 1..Len(s)} /\ Len(s) \in Nat
  <2>1. DOMAIN s = 1..Len(s) /\ Len(s) \in Nat
    OBVIOUS
  <2>2. QED
    BY <1>1, <2>1 DEF ToSet
<1>3. IsFiniteSet(1..Len(s))
  BY <1>2, FS_Interval
<1>4. PICK m : m = [k \in 1..Len(s) |-> s[k]]
  OBVIOUS
<1>5. m \in Surjection(1..Len(s), T)
  BY <1>2, <1>4 DEF Surjection
<1>6. IsFiniteSet(T)
  BY <1>3, <1>5, FS_Surjection
<1>7. T \subseteq Labels
  BY <1>2
<1>8. QED
  BY <1>1, <1>6, <1>7

\* h is g with empty blocks for the labels of T that have none.
Touched(g, T, h) ==
  /\ Sound(h) /\ DOMAIN h = DOMAIN g \cup T
  /\ \A x \in DOMAIN g : h[x] = g[x]
  /\ \A x \in DOMAIN h \ DOMAIN g : h[x] = NoBlock
  /\ \A S : GrownBy(GraphOf(g, S), GraphOf(h, S), DOMAIN h \ DOMAIN g)

\* To look for blocks that are not there adds empty ones.
LEMMA TouchGrows ==
  ASSUME NEW g, Sound(g), NEW T, IsFiniteSet(T), T \subseteq Labels,
         NEW h, h = TouchAll(g, T)
  PROVE  Touched(g, T, h)
<1>1. /\ DOMAIN h = DOMAIN g \cup T
      /\ \A x \in DOMAIN g : h[x] = g[x]
      /\ \A x \in DOMAIN h \ DOMAIN g : h[x] = NoBlock
  BY DEF TouchAll
<1>2. IsGraphOf(h)
  BY <1>1, BlankLinked DEF Sound, IsGraphOf
<1>3. Bodied(h)
  <2>1. IsFiniteSet(DOMAIN h)
    BY <1>1, FS_Union DEF Sound, Bodied
  <2>2. QED
    BY <1>1, <2>1, BlankFacts DEF Sound, Bodied
<1>4. Named(h)
  <2> SUFFICES ASSUME NEW a \in DOMAIN h, NEW b \in DOMAIN h, b \in ToSet(h[a].nextlist)
      PROVE  a \in ToSet(h[b].prevlist) \/ h[b] = NoBlock
    BY DEF Named
  <2>1. a \in DOMAIN g
    BY <1>1, BlankFacts
  <2>2. CASE b \in DOMAIN g
    BY <1>1, <2>1, <2>2 DEF Sound, Named
  <2>3. CASE b \notin DOMAIN g
    BY <1>1, <2>3
  <2>4. QED
    BY <2>2, <2>3
<1>5. ASSUME NEW S PROVE GrownBy(GraphOf(g, S), GraphOf(h, S), DOMAIN h \ DOMAIN g)
  <2>1. PICK G, H, E : G = GraphOf(g, S) /\ H = GraphOf(h, S) /\ E = DOMAIN h \ DOMAIN g
    OBVIOUS
  <2>2. /\ DOMAIN G.items = DOMAIN g
        /\ \A l \in DOMAIN g : /\ G.items[l] = g[l].insts
                               /\ G.succ[l] = ToSet(g[l].nextlist) \cap DOMAIN g
    BY <2>1, GraphIsFlow DEF Sound
  <2>3. /\ DOMAIN H.items = DOMAIN h
        /\ \A l \in DOMAIN h : /\ H.items[l] = h[l].insts
                               /\ H.succ[l] = ToSet(h[l].nextlist) \cap DOMAIN h
    BY <1>3, <2>1, GraphIsFlow
  <2>4. \A l \in E : H.items[l] = <<>> /\ H.succ[l] = {}
    BY <1>1, <2>1, <2>3, BlankFacts
  <2>5. GrownBy(G, H, E)
    BY <1>1, <2>1, <2>2, <2>3, <2>4 DEF GrownBy
  <2>6. QED
    BY <2>1, <2>5
<1>6. Sound(h)
  BY <1>2, <1>3, <1>4 DEF Sound
<1>7. QED
  BY <1>1, <1>5, <1>6 DEF Touched

\* The block that is absorbed is the only successor of the one that absorbs it,
\* and no other block names it.
LEMMA OnlyNamed ==
  ASSUME NEW g, Sound(g), NEW l \in DOMAIN g, CanAbsorb(g, l),
         NEW n, n = g[l].nextlist[1], n \in DOMAIN g
  PROVE  /\ n # l /\ ToSet(g[l].nextlist) = {n} /\ Len(g[n].prevlist) = 1
         /\ \A a \in DOMAIN g : n \in ToSet(g[a].nextlist) => a = l
<1>1. n # l /\ Len(g[l].nextlist) = 1 /\ Len(g[n].prevlist) = 1
  BY DEF CanAbsorb
<1>2. g[l].nextlist \in Seq(Labels) /\ g[n].prevlist \in Seq(Labels)
  BY DEF Sound, IsGraphOf, IsBlock
<1>3. ToSet(g[l].nextlist) = {n}
  BY <1>1, <1>2 DEF ToSet
<1>4. ToSet(g[n].prevlist) = {g[n].prevlist[1]}
  BY <1>1, <1>2 DEF ToSet
<1>5. g[n] # NoBlock
  <2>1. 0 # 1
    OBVIOUS
  <2>2. QED
    BY <1>1, <2>1, BlankFacts, Zenon
<1>6. \A a \in DOMAIN g : n \in ToSet(g[a].nextlist) => a = g[n].prevlist[1]
  BY <1>4, <1>5 DEF Sound, Named
<1>7. l = g[n].prevlist[1]
  BY <1>3, <1>6
<1>8. QED
  BY <1>1, <1>3, <1>6, <1>7, Zenon

\* The block that the merge of n into l makes of x.
MergedBlock(f, succs, l, n, x) ==
  [insts    |-> IF x = l THEN f[l].insts \o f[n].insts ELSE f[x].insts,
   nextlist |-> IF x = l THEN f[n].nextlist ELSE f[x].nextlist,
   prevlist |-> IF x \in succs THEN ReplaceAll(f[x].prevlist, n, l) ELSE f[x].prevlist]

\* The blocks after a merge, in terms of f: g with the blocks that the merge
\* makes by looking at them.
LEMMA MergedBlocks ==
  ASSUME NEW g, Sound(g), NEW l \in DOMAIN g, CanAbsorb(g, l),
         NEW n, n = g[l].nextlist[1], n \in DOMAIN g,
         NEW succs, succs = ToSet(g[n].nextlist),
         NEW f, f = TouchAll(g, succs), NEW h, h = Absorbed(g, l)
  PROVE  /\ DOMAIN h = DOMAIN f \ {n} /\ n \notin succs
         /\ \A x \in DOMAIN h : h[x] = MergedBlock(f, succs, l, n, x)
<1>1. /\ n # l /\ ToSet(g[l].nextlist) = {n}
      /\ \A a \in DOMAIN g : n \in ToSet(g[a].nextlist) => a = l
  BY OnlyNamed
<1>2. n \notin succs
  BY <1>1
<1>3. PICK merged : merged = [g EXCEPT ![l].nextlist = g[n].nextlist,
                                       ![l].insts    = @ \o g[n].insts]
  OBVIOUS
<1>4. PICK touched : touched = TouchAll(Restrict(merged, DOMAIN g \ {n}), succs)
  OBVIOUS
<1>5. h = [x \in DOMAIN touched |->
             IF x \in succs THEN Reconnected(touched[x], n, l) ELSE touched[x]]
  BY <1>3, <1>4 DEF Absorbed
<1>6. DOMAIN merged = DOMAIN g /\ \A x \in DOMAIN g \ {l} : merged[x] = g[x]
  BY <1>3
<1>7. /\ DOMAIN touched = (DOMAIN g \ {n}) \cup succs
      /\ \A x \in DOMAIN touched : touched[x] = IF x \in DOMAIN g THEN merged[x] ELSE NoBlock
  BY <1>2, <1>4, <1>6 DEF TouchAll, Restrict
<1>8. /\ DOMAIN f = DOMAIN g \cup succs
      /\ \A x \in DOMAIN f : f[x] = IF x \in DOMAIN g THEN g[x] ELSE NoBlock
  BY DEF TouchAll
<1>9. ASSUME NEW x \in DOMAIN f
      PROVE  f[x] = [insts |-> f[x].insts, nextlist |-> f[x].nextlist, prevlist |-> f[x].prevlist]
  <2>1. IsBlock(f[x])
    BY <1>8, BlankLinked DEF Sound, IsGraphOf
  <2>2. QED
    BY <2>1 DEF IsBlock
<1>10. ASSUME NEW x \in DOMAIN touched
       PROVE  touched[x] = [insts    |-> IF x = l THEN f[l].insts \o f[n].insts ELSE f[x].insts,
                            nextlist |-> IF x = l THEN f[n].nextlist ELSE f[x].nextlist,
                            prevlist |-> f[x].prevlist]
  <2>1. CASE x = l
    <3>1. PICK b, c : b = f[l] /\ c = f[n]
      OBVIOUS
    <3>2. b = g[l] /\ c = g[n]
      BY <1>8, <3>1
    <3>3. merged[l] = [[b EXCEPT !.nextlist = c.nextlist] EXCEPT !.insts = @ \o c.insts]
      BY <1>3, <3>2
    <3>4. b = [insts |-> b.insts, nextlist |-> b.nextlist, prevlist |-> b.prevlist]
      BY <1>8, <1>9, <3>1
    <3>5. merged[l] = [insts |-> b.insts \o c.insts, nextlist |-> c.nextlist,
                       prevlist |-> b.prevlist]
      BY <3>3, <3>4
    <3>6. touched[x] = merged[l]
      BY <1>7, <2>1
    <3>7. QED
      BY <2>1, <3>1, <3>5, <3>6, Zenon
  <2>2. CASE x # l
    <3>1. touched[x] = f[x] /\ x \in DOMAIN f
      BY <1>6, <1>7, <1>8, <2>2
    <3>2. QED
      BY <1>9, <2>2, <3>1
  <2>3. QED
    BY <2>1, <2>2, ZenonT(40)
<1>11. ASSUME NEW x \in DOMAIN touched
       PROVE  Reconnected(touched[x], n, l)
                = [insts    |-> IF x = l THEN f[l].insts \o f[n].insts ELSE f[x].insts,
                   nextlist |-> IF x = l THEN f[n].nextlist ELSE f[x].nextlist,
                   prevlist |-> ReplaceAll(f[x].prevlist, n, l)]
  <2>1. PICK i, j, p : /\ i = IF x = l THEN f[l].insts \o f[n].insts ELSE f[x].insts
                       /\ j = IF x = l THEN f[n].nextlist ELSE f[x].nextlist
                       /\ p = f[x].prevlist
    OBVIOUS
  <2>2. PICK b, r : b = touched[x] /\ r = ReplaceAll(p, n, l)
    OBVIOUS
  <2>3. b = [insts |-> i, nextlist |-> j, prevlist |-> p]
    BY <1>10, <2>1, <2>2, ZenonT(40)
  <2>4. Reconnected(b, n, l) = [b EXCEPT !.prevlist = r]
    BY <2>2, <2>3 DEF Reconnected
  <2>5. [b EXCEPT !.prevlist = r] = [insts |-> i, nextlist |-> j, prevlist |-> r]
    BY <2>3
  <2>6. QED
    BY <2>1, <2>2, <2>4, <2>5, ZenonT(40)
<1>12. DOMAIN h = DOMAIN f \ {n}
  BY <1>2, <1>5, <1>7, <1>8
<1>13. ASSUME NEW x \in DOMAIN h
       PROVE  h[x] = MergedBlock(f, succs, l, n, x)
  <2>1. x \in DOMAIN touched
        /\ h[x] = IF x \in succs THEN Reconnected(touched[x], n, l) ELSE touched[x]
    BY <1>5
  <2>2. CASE x \in succs
    BY <1>11, <2>1, <2>2, ZenonT(40) DEF MergedBlock
  <2>3. CASE x \notin succs
    BY <1>10, <2>1, <2>3, ZenonT(40) DEF MergedBlock
  <2>4. QED
    BY <2>2, <2>3
<1>14. QED
  BY <1>2, <1>12, <1>13

\* f is g with the blocks that the merge of n makes by looking at them.
LooksAhead(g, n, f) == f = TouchAll(g, ToSet(g[n].nextlist))

\* h is f, that g has looked ahead to, with n absorbed by l.
Merges(g, f, h, l, n) ==
  /\ Sound(h) /\ Sound(f) /\ DOMAIN h = DOMAIN f \ {n}
  /\ \A S : GrownBy(GraphOf(g, S), GraphOf(f, S), DOMAIN f \ DOMAIN g)
  /\ \A S : Absorbs(GraphOf(f, S), GraphOf(h, S), l, n)
  /\ \A x \in DOMAIN h : f[x].prevlist = <<>> => h[x].prevlist = <<>>

\* The merge leaves a sound graph with the same flow.
LEMMA MergeAbsorbs ==
  ASSUME NEW g, Sound(g), NEW l \in DOMAIN g, CanAbsorb(g, l),
         NEW n, n = g[l].nextlist[1], n \in DOMAIN g,
         NEW f, LooksAhead(g, n, f), NEW h, h = Absorbed(g, l)
  PROVE  Merges(g, f, h, l, n)
<1>1. PICK succs : succs = ToSet(g[n].nextlist)
  OBVIOUS
<1>2. g[n].nextlist \in Seq(Labels) /\ l \in Labels
  BY DEF Sound, IsGraphOf, IsBlock
<1>3. IsFiniteSet(succs) /\ succs \subseteq Labels
  <2>1. PICK s : s = g[n].nextlist
    OBVIOUS
  <2>2. s \in Seq(Labels) /\ succs = ToSet(s)
    BY <1>1, <1>2, <2>1
  <2>3. QED
    BY <2>2, ListFinite
<1>4. /\ Sound(f) /\ DOMAIN f = DOMAIN g \cup succs
      /\ \A x \in DOMAIN g : f[x] = g[x]
      /\ \A x \in DOMAIN f \ DOMAIN g : f[x] = NoBlock
      /\ \A S : GrownBy(GraphOf(g, S), GraphOf(f, S), DOMAIN f \ DOMAIN g)
  <2>1. f = TouchAll(g, succs)
    BY <1>1 DEF LooksAhead
  <2>2. Touched(g, succs, f)
    BY <1>3, <2>1, TouchGrows
  <2>3. QED
    BY <2>2 DEF Touched
<1>5. /\ DOMAIN h = DOMAIN f \ {n} /\ n \notin succs
      /\ \A x \in DOMAIN h : h[x] = MergedBlock(f, succs, l, n, x)
  <2>1. f = TouchAll(g, succs)
    BY <1>1 DEF LooksAhead
  <2>2. QED
    BY <1>1, <2>1, MergedBlocks
<1>6. \A x \in DOMAIN h :
        /\ h[x].insts = IF x = l THEN f[l].insts \o f[n].insts ELSE f[x].insts
        /\ h[x].nextlist = IF x = l THEN f[n].nextlist ELSE f[x].nextlist
        /\ h[x].prevlist = IF x \in succs THEN ReplaceAll(f[x].prevlist, n, l)
                           ELSE f[x].prevlist
        /\ h[x] = [insts |-> h[x].insts, nextlist |-> h[x].nextlist, prevlist |-> h[x].prevlist]
  <2> SUFFICES ASSUME NEW x \in DOMAIN h
      PROVE  /\ h[x].insts = IF x = l THEN f[l].insts \o f[n].insts ELSE f[x].insts
             /\ h[x].nextlist = IF x = l THEN f[n].nextlist ELSE f[x].nextlist
             /\ h[x].prevlist = IF x \in succs THEN ReplaceAll(f[x].prevlist, n, l)
                                ELSE f[x].prevlist
             /\ h[x] = [insts |-> h[x].insts, nextlist |-> h[x].nextlist,
                        prevlist |-> h[x].prevlist]
    OBVIOUS
  <2>1. PICK i, j, p : /\ i = IF x = l THEN f[l].insts \o f[n].insts ELSE f[x].insts
                       /\ j = IF x = l THEN f[n].nextlist ELSE f[x].nextlist
                       /\ p = IF x \in succs THEN ReplaceAll(f[x].prevlist, n, l) ELSE f[x].prevlist
    OBVIOUS
  <2>2. h[x] = [insts |-> i, nextlist |-> j, prevlist |-> p]
    BY <1>5, <2>1 DEF MergedBlock
  <2>3. h[x].insts = i /\ h[x].nextlist = j /\ h[x].prevlist = p
    BY <2>2
  <2>4. QED
    BY <2>1, <2>2, <2>3
<1>7. l \in DOMAIN f /\ n \in DOMAIN f /\ f[l] = g[l] /\ f[n] = g[n] /\ CanAbsorb(f, l)
  BY <1>4 DEF CanAbsorb
<1>8. /\ n # l /\ ToSet(f[l].nextlist) = {n}
      /\ \A a \in DOMAIN f : n \in ToSet(f[a].nextlist) => a = l
  <2>1. n = f[l].nextlist[1]
    BY <1>7
  <2>2. QED
    BY <1>4, <1>7, <2>1, OnlyNamed
<1>9. /\ \A x \in DOMAIN f : x \in Labels /\ f[x].nextlist \in Seq(Labels)
                             /\ f[x].prevlist \in Seq(Labels) /\ f[x].insts \in Seq(Acts)
      /\ IsFiniteSet(DOMAIN f)
  BY <1>4 DEF Sound, IsGraphOf, IsBlock, Bodied
<1>10. ASSUME NEW x \in DOMAIN h
       PROVE  /\ h[x].prevlist \in Seq(Labels)
              /\ \A a : a # n /\ a \in ToSet(f[x].prevlist) => a \in ToSet(h[x].prevlist)
              /\ x \in succs /\ n \in ToSet(f[x].prevlist) => l \in ToSet(h[x].prevlist)
              /\ f[x].prevlist = <<>> => h[x].prevlist = <<>>
  <2>1. PICK s : s = f[x].prevlist
    OBVIOUS
  <2>2. s \in Seq(Labels) /\ x \in DOMAIN f
    BY <1>5, <1>9, <2>1
  <2>3. PICK r : r = ReplaceAll(s, n, l)
    OBVIOUS
  <2>4. r \in Seq(Labels)
    BY <1>2, <1>8, <2>2, <2>3, OccurrencesReplaced
  <2>5. /\ DOMAIN r = DOMAIN s /\ \A k \in DOMAIN s : r[k] = IF s[k] = n THEN l ELSE s[k]
        /\ s = <<>> => r = <<>>
    BY <2>2, <2>3 DEF ReplaceAll
  <2>6. /\ \A a : a # n /\ a \in ToSet(s) => a \in ToSet(r)
        /\ n \in ToSet(s) => l \in ToSet(r)
    BY <2>5 DEF ToSet
  <2>7. h[x].prevlist = IF x \in succs THEN r ELSE s
    BY <1>6, <2>1, <2>3
  <2>8. QED
    BY <2>1, <2>2, <2>4, <2>5, <2>6, <2>7
<1>11. IsGraphOf(h)
  <2>1. ASSUME NEW x \in DOMAIN h PROVE h[x].nextlist \in Seq(Labels) /\ x \in Labels
    <3>1. x \in DOMAIN f
      BY <1>5
    <3>2. QED
      BY <1>6, <1>7, <1>9, <3>1
  <2>2. QED
    BY <1>6, <1>10, <2>1 DEF IsGraphOf, IsBlock
<1>12. f[l].insts \o f[n].insts \in Seq(Acts)
  BY <1>7, <1>9
<1>13. Bodied(h)
  <2>1. IsFiniteSet(DOMAIN h)
    BY <1>5, <1>9, FS_Subset
  <2>2. ASSUME NEW x \in DOMAIN h PROVE h[x].insts \in Seq(Acts)
    <3>1. x \in DOMAIN f
      BY <1>5
    <3>2. QED
      BY <1>6, <1>9, <1>12, <3>1
  <2>3. QED
    BY <2>1, <2>2 DEF Bodied
<1>14. Named(h)
  <2> SUFFICES ASSUME NEW a \in DOMAIN h, NEW b \in DOMAIN h, b \in ToSet(h[a].nextlist)
      PROVE  a \in ToSet(h[b].prevlist) \/ h[b] = NoBlock
    BY DEF Named
  <2>1. a \in DOMAIN f /\ b \in DOMAIN f /\ a # n /\ b # n
    BY <1>5
  <2>2. ASSUME f[b] = NoBlock PROVE h[b] = NoBlock
    <3>1. f[b].insts = <<>> /\ f[b].nextlist = <<>> /\ f[b].prevlist = <<>>
      BY <2>2, BlankFacts
    <3>2. b # l
      BY <1>8, <3>1, BlankFacts
    <3>3. h[b].insts = <<>> /\ h[b].nextlist = <<>> /\ h[b].prevlist = <<>>
      BY <1>6, <1>10, <3>1, <3>2
    <3>4. h[b] = [insts |-> <<>>, nextlist |-> <<>>, prevlist |-> <<>>]
      BY <1>6, <3>3
    <3>5. QED
      BY <3>4 DEF NoBlock
  <2>3. CASE a = l
    <3>1. b \in ToSet(f[n].nextlist) /\ b \in succs
      BY <1>1, <1>6, <1>7, <2>3
    <3>2. n \in ToSet(f[b].prevlist) \/ f[b] = NoBlock
      BY <1>4, <1>7, <2>1, <3>1 DEF Sound, Named
    <3>3. QED
      BY <1>10, <2>2, <2>3, <3>1, <3>2
  <2>4. CASE a # l
    <3>1. b \in ToSet(f[a].nextlist)
      BY <1>6, <2>4
    <3>2. a \in ToSet(f[b].prevlist) \/ f[b] = NoBlock
      BY <1>4, <2>1, <3>1 DEF Sound, Named
    <3>3. QED
      BY <1>10, <2>1, <2>2, <3>2
  <2>5. QED
    BY <2>3, <2>4
<1>15. ASSUME NEW S PROVE Absorbs(GraphOf(f, S), GraphOf(h, S), l, n)
  <2>1. PICK F, H : F = GraphOf(f, S) /\ H = GraphOf(h, S)
    OBVIOUS
  <2>2. /\ DOMAIN F.items = DOMAIN f
        /\ \A x \in DOMAIN f : /\ F.items[x] = f[x].insts
                               /\ F.succ[x] = ToSet(f[x].nextlist) \cap DOMAIN f
    BY <1>4, <2>1, GraphIsFlow DEF Sound
  <2>3. /\ DOMAIN H.items = DOMAIN h
        /\ \A x \in DOMAIN h : /\ H.items[x] = h[x].insts
                               /\ H.succ[x] = ToSet(h[x].nextlist) \cap DOMAIN h
    BY <1>13, <2>1, GraphIsFlow
  <2>4. F.succ[l] = {n} /\ \A a \in DOMAIN f : n \in F.succ[a] => a = l
    BY <1>7, <1>8, <2>2
  <2>5. l \in DOMAIN h /\ H.items[l] = F.items[l] \o F.items[n] /\ H.succ[l] = F.succ[n]
    <3>1. l \in DOMAIN h
      BY <1>5, <1>7, <1>8
    <3>2. h[l].insts = f[l].insts \o f[n].insts /\ h[l].nextlist = f[n].nextlist
      BY <1>6, <3>1
    <3>3. n \notin ToSet(f[n].nextlist)
      BY <1>1, <1>5, <1>7
    <3>4. PICK T, D : T = ToSet(f[n].nextlist) /\ D = DOMAIN f
      OBVIOUS
    <3>5. T \cap DOMAIN h = T \cap D
      BY <1>5, <3>3, <3>4
    <3>6. H.succ[l] = T \cap DOMAIN h
      BY <2>3, <3>1, <3>2, <3>4
    <3>7. F.succ[n] = T \cap D
      BY <1>7, <2>2, <3>4
    <3>8. H.items[l] = h[l].insts /\ F.items[l] = f[l].insts /\ F.items[n] = f[n].insts
      BY <1>7, <2>2, <2>3, <3>1
    <3>9. QED
      BY <3>1, <3>2, <3>5, <3>6, <3>7, <3>8
  <2>6. ASSUME NEW a \in DOMAIN f \ {l, n}
        PROVE  H.items[a] = F.items[a] /\ H.succ[a] = F.succ[a]
    <3>1. a \in DOMAIN h /\ h[a].insts = f[a].insts /\ h[a].nextlist = f[a].nextlist
      BY <1>5, <1>6
    <3>2. n \notin ToSet(f[a].nextlist)
      BY <1>8
    <3>3. PICK T, D : T = ToSet(f[a].nextlist) /\ D = DOMAIN f
      OBVIOUS
    <3>4. T \cap DOMAIN h = T \cap D
      BY <1>5, <3>2, <3>3
    <3>5. H.succ[a] = T \cap DOMAIN h
      BY <2>3, <3>1, <3>3
    <3>6. F.succ[a] = T \cap D
      BY <2>2, <3>3
    <3>7. H.items[a] = h[a].insts /\ F.items[a] = f[a].insts
      BY <2>2, <2>3, <3>1
    <3>8. QED
      BY <3>1, <3>4, <3>5, <3>6, <3>7
  <2>7. Absorbs(F, H, l, n)
    BY <1>5, <1>7, <1>8, <2>2, <2>3, <2>4, <2>5, <2>6 DEF Absorbs
  <2>8. QED
    BY <2>1, <2>7
<1>16. Sound(h)
  BY <1>11, <1>13, <1>14 DEF Sound
<1>17. QED
  BY <1>4, <1>5, <1>10, <1>15, <1>16 DEF Merges

\* The places of the items of G.
Spot(G, n, k) == n \in DOMAIN G.items /\ k \in DOMAIN G.items[n]

\* The items of X are in G, each once, and no others.
Holds(G, X) ==
  /\ \A n, k : Spot(G, n, k) => G.items[n][k] \in X
  /\ \A x \in X : \E n, k : Spot(G, n, k) /\ G.items[n][k] = x
  /\ \A n, k, m, j : /\ Spot(G, n, k) /\ Spot(G, m, j)
                     /\ G.items[n][k] = G.items[m][j]
                     => n = m /\ k = j

LEMMA GrownHolds ==
  ASSUME NEW G, NEW H, NEW E, GrownBy(G, H, E), NEW X, Holds(G, X)
  PROVE  Holds(H, X)
<1>1. ASSUME NEW n, NEW k PROVE Spot(H, n, k) <=> Spot(G, n, k)
  <2>1. CASE n \in E
    <3>1. H.items[n] = <<>> /\ n \notin DOMAIN G.items
      BY <2>1 DEF GrownBy
    <3>2. QED
      BY <3>1 DEF Spot
  <2>2. CASE n \notin E
    BY <2>2 DEF GrownBy, Spot
  <2>3. QED
    BY <2>1, <2>2
<1>2. ASSUME NEW n, NEW k, Spot(G, n, k) PROVE H.items[n][k] = G.items[n][k]
  BY <1>2 DEF GrownBy, Spot
<1>3. QED
  BY <1>1, <1>2 DEF Holds

LEMMA AbsorbsHolds ==
  ASSUME NEW G, NEW H, IsFlow(G), NEW l, NEW n, Absorbs(G, H, l, n), NEW X, Holds(G, X)
  PROVE  Holds(H, X)
<1>1. /\ l \in DOMAIN G.items /\ n \in DOMAIN G.items /\ l # n
      /\ DOMAIN H.items = DOMAIN G.items \ {n}
      /\ \A a \in DOMAIN G.items \ {l, n} : H.items[a] = G.items[a]
  BY DEF Absorbs
<1>2. PICK s, t, u : s = G.items[l] /\ t = G.items[n] /\ u = H.items[l]
  OBVIOUS
<1>3. s \in Seq(Acts) /\ t \in Seq(Acts) /\ u = s \o t
  BY <1>1, <1>2 DEF IsFlow, Absorbs
<1>4. /\ DOMAIN u = 1..(Len(s) + Len(t)) /\ DOMAIN s = 1..Len(s) /\ DOMAIN t = 1..Len(t)
      /\ Len(s) \in Nat /\ Len(t) \in Nat
      /\ \A k \in 1..Len(s) : u[k] = s[k]
      /\ \A k \in 1..Len(t) : u[Len(s) + k] = t[k]
  <2>1. u \in Seq(Acts) /\ Len(u) = Len(s) + Len(t)
    BY <1>3, Joined
  <2>2. QED
    BY <1>3, <2>1, Joined
<1> DEFINE from(a, k) == IF a = l /\ k > Len(s) THEN <<n, k - Len(s)>> ELSE <<a, k>>
<1>5. ASSUME NEW a, NEW k, Spot(H, a, k)
      PROVE  /\ Spot(G, from(a, k)[1], from(a, k)[2])
             /\ G.items[from(a, k)[1]][from(a, k)[2]] = H.items[a][k]
             /\ a = l => k \in Int
             /\ a # n
  <2>1. CASE a = l
    <3>1. k \in 1..(Len(s) + Len(t))
      BY <1>2, <1>4, <1>5, <2>1 DEF Spot
    <3>2. CASE k > Len(s)
      <4>1. PICK j : j = k - Len(s)
        OBVIOUS
      <4>2. j \in 1..Len(t) /\ k = Len(s) + j
        BY <1>4, <3>1, <3>2, <4>1
      <4>3. t[j] = u[k]
        BY <1>4, <4>2
      <4>4. from(a, k) = <<n, j>>
        BY <2>1, <3>2, <4>1
      <4>5. Spot(G, n, j) /\ G.items[n][j] = H.items[a][k]
        BY <1>1, <1>2, <1>4, <2>1, <4>2, <4>3 DEF Spot
      <4>6. from(a, k)[1] = n /\ from(a, k)[2] = j
        BY <4>4
      <4> HIDE DEF from
      <4>7. QED
        BY <1>1, <2>1, <3>1, <4>5, <4>6
    <3>3. CASE ~ (k > Len(s))
      <4>1. k \in 1..Len(s)
        BY <1>4, <3>1, <3>3
      <4>2. from(a, k) = <<l, k>>
        BY <2>1, <3>3
      <4>3. Spot(G, l, k) /\ G.items[l][k] = H.items[a][k]
        BY <1>1, <1>2, <1>4, <2>1, <4>1 DEF Spot
      <4>4. from(a, k)[1] = l /\ from(a, k)[2] = k
        BY <4>2
      <4> HIDE DEF from
      <4>5. QED
        BY <1>1, <2>1, <3>1, <4>3, <4>4
    <3>4. QED
      BY <3>2, <3>3
  <2>2. CASE a # l
    <3>1. from(a, k)[1] = a /\ from(a, k)[2] = k
      BY <2>2
    <3>2. a # n /\ Spot(G, a, k) /\ G.items[a][k] = H.items[a][k]
      BY <1>1, <1>5, <2>2 DEF Spot
    <3> HIDE DEF from
    <3>3. QED
      BY <2>2, <3>1, <3>2
  <2>3. QED
    BY <2>1, <2>2
<1>6. ASSUME NEW a, NEW k, Spot(G, a, k)
      PROVE  \E b, j : Spot(H, b, j) /\ H.items[b][j] = G.items[a][k]
  <2>1. CASE a = n
    <3>1. k \in 1..Len(t)
      BY <1>2, <1>4, <1>6, <2>1 DEF Spot
    <3>2. PICK j : j = Len(s) + k
      OBVIOUS
    <3>3. j \in 1..(Len(s) + Len(t)) /\ u[j] = t[k]
      BY <1>4, <3>1, <3>2
    <3>4. Spot(H, l, j) /\ H.items[l][j] = G.items[a][k]
      BY <1>1, <1>2, <1>4, <2>1, <3>3 DEF Spot
    <3>5. QED
      BY <3>4
  <2>2. CASE a = l
    <3>1. k \in 1..Len(s)
      BY <1>2, <1>4, <1>6, <2>2 DEF Spot
    <3>2. k \in 1..(Len(s) + Len(t)) /\ u[k] = s[k]
      BY <1>4, <3>1
    <3>3. Spot(H, l, k) /\ H.items[l][k] = G.items[a][k]
      BY <1>1, <1>2, <1>4, <2>2, <3>2 DEF Spot
    <3>4. QED
      BY <3>3
  <2>3. CASE a \notin {l, n}
    <3>1. Spot(H, a, k) /\ H.items[a][k] = G.items[a][k]
      BY <1>1, <1>6, <2>3 DEF Spot
    <3>2. QED
      BY <3>1
  <2>4. QED
    BY <2>1, <2>2, <2>3
<1>7. ASSUME NEW a, NEW k, NEW b, NEW j, Spot(H, a, k), Spot(H, b, j),
             from(a, k)[1] = from(b, j)[1], from(a, k)[2] = from(b, j)[2]
      PROVE  a = b /\ k = j
  <2>1. (a = l => k \in Int) /\ (b = l => j \in Int) /\ a # n /\ b # n
    <3> HIDE DEF from
    <3>1. QED
      BY <1>5, <1>7
  <2>2. CASE a = l /\ k > Len(s)
    <3>1. from(a, k)[1] = n /\ from(a, k)[2] = k - Len(s)
      BY <2>2
    <3>2. b = l /\ j > Len(s)
      BY <1>7, <2>1, <3>1
    <3>3. from(b, j)[2] = j - Len(s)
      BY <3>2
    <3>4. k - Len(s) = j - Len(s)
      <4> HIDE DEF from
      <4>1. QED
        BY <1>7, <3>1, <3>3
    <3>5. QED
      BY <1>4, <2>1, <2>2, <3>2, <3>4
  <2>3. CASE ~ (a = l /\ k > Len(s))
    <3>1. from(a, k)[1] = a /\ from(a, k)[2] = k
      BY <2>3
    <3>2. ~ (b = l /\ j > Len(s))
      BY <1>7, <2>1, <3>1
    <3>3. from(b, j)[1] = b /\ from(b, j)[2] = j
      BY <3>2
    <3> HIDE DEF from
    <3>4. QED
      BY <1>7, <3>1, <3>3
  <2>4. QED
    BY <2>2, <2>3
<1> HIDE DEF from
<1>8. ASSUME NEW a, NEW k, NEW b, NEW j, Spot(H, a, k), Spot(H, b, j),
             H.items[a][k] = H.items[b][j]
      PROVE  a = b /\ k = j
  <2>1. /\ Spot(G, from(a, k)[1], from(a, k)[2]) /\ Spot(G, from(b, j)[1], from(b, j)[2])
        /\ G.items[from(a, k)[1]][from(a, k)[2]] = G.items[from(b, j)[1]][from(b, j)[2]]
    BY <1>5, <1>8
  <2>2. from(a, k)[1] = from(b, j)[1] /\ from(a, k)[2] = from(b, j)[2]
    BY <2>1 DEF Holds
  <2>3. QED
    BY <1>7, <1>8, <2>2
<1>9. ASSUME NEW a, NEW k, Spot(H, a, k) PROVE H.items[a][k] \in X
  BY <1>5, <1>9 DEF Holds
<1>10. ASSUME NEW x \in X PROVE \E a, k : Spot(H, a, k) /\ H.items[a][k] = x
  <2>1. PICK a, k : Spot(G, a, k) /\ G.items[a][k] = x
    BY DEF Holds
  <2>2. QED
    BY <1>6, <2>1
<1>11. QED
  BY <1>8, <1>9, <1>10 DEF Holds

\* What simplify keeps of the blocks g when it makes h of them.
Same(g, h) ==
  /\ \A S : Flow(GraphOf(h, S)) = Flow(GraphOf(g, S))
  /\ \A S, X : Holds(GraphOf(g, S), X) => Holds(GraphOf(h, S), X)
  /\ \A S : \A A \in SUBSET (DOMAIN g \cap DOMAIN h) :
       FirstItems(GraphOf(h, S), A) = FirstItems(GraphOf(g, S), A)
  /\ \A x \in DOMAIN g \cap DOMAIN h : g[x].prevlist = <<>> => h[x].prevlist = <<>>

LEMMA GrownSame ==
  ASSUME NEW g, NEW h, Sound(g), Sound(h), \A x \in DOMAIN g : x \in DOMAIN h /\ h[x] = g[x],
         NEW E, \A S : GrownBy(GraphOf(g, S), GraphOf(h, S), E)
  PROVE  Same(g, h)
<1>1. ASSUME NEW S
      PROVE  /\ Flow(GraphOf(h, S)) = Flow(GraphOf(g, S))
             /\ \A X : Holds(GraphOf(g, S), X) => Holds(GraphOf(h, S), X)
             /\ \A A \in SUBSET (DOMAIN g \cap DOMAIN h) :
                  FirstItems(GraphOf(h, S), A) = FirstItems(GraphOf(g, S), A)
  <2>1. PICK G, H : G = GraphOf(g, S) /\ H = GraphOf(h, S)
    OBVIOUS
  <2>2. IsFlow(G) /\ IsFlow(H) /\ GrownBy(G, H, E) /\ DOMAIN G.items = DOMAIN g
    BY <2>1, GraphIsFlow DEF Sound
  <2>3. Flow(H) = Flow(G)
    BY <2>2, GrownFlow
  <2>4. \A X : Holds(G, X) => Holds(H, X)
    BY <2>2, GrownHolds
  <2>5. ASSUME NEW A \in SUBSET (DOMAIN g \cap DOMAIN h) PROVE FirstItems(H, A) = FirstItems(G, A)
    <3>1. A \subseteq DOMAIN G.items /\ A \subseteq A /\ A \subseteq A \cup E
      BY <2>2
    <3>2. QED
      BY <2>2, <3>1, GrownFirst
  <2>6. QED
    BY <2>1, <2>3, <2>4, <2>5
<1>2. QED
  BY <1>1 DEF Same

\* StopAbsorbing.
LEMMA TouchSame ==
  ASSUME NEW g, Sound(g), NEW l \in DOMAIN g, NEW h, h = TouchNext(g, l)
  PROVE  /\ Sound(h) /\ DOMAIN g \subseteq DOMAIN h /\ Same(g, h)
         /\ \A x \in DOMAIN g : h[x] = g[x]
         /\ \A x \in DOMAIN h \ DOMAIN g : h[x] = NoBlock
         /\ Len(g[l].nextlist) = 1 => g[l].nextlist[1] \in DOMAIN h
<1>1. PICK n : n = g[l].nextlist[1]
  OBVIOUS
<1>2. CASE Len(g[l].nextlist) = 1
  <2>1. PICK T : T = {n}
    OBVIOUS
  <2>2. h = TouchAll(g, T)
    BY <1>1, <1>2, <2>1 DEF TouchNext, Touch
  <2>3. IsFiniteSet(T) /\ T \subseteq Labels
    <3>1. g[l].nextlist \in Seq(Labels)
      BY DEF Sound, IsGraphOf, IsBlock
    <3>2. n \in Labels
      BY <1>1, <1>2, <3>1
    <3>3. QED
      BY <2>1, <3>2, FS_Singleton
  <2>4. /\ Sound(h) /\ DOMAIN h = DOMAIN g \cup T
        /\ \A x \in DOMAIN g : h[x] = g[x]
        /\ \A x \in DOMAIN h \ DOMAIN g : h[x] = NoBlock
        /\ \A S : GrownBy(GraphOf(g, S), GraphOf(h, S), DOMAIN h \ DOMAIN g)
    <3>1. Touched(g, T, h)
      BY <2>2, <2>3, TouchGrows
    <3>2. QED
      BY <3>1 DEF Touched
  <2>5. PICK E : E = DOMAIN h \ DOMAIN g
    OBVIOUS
  <2>6. Same(g, h)
    BY <2>4, <2>5, GrownSame
  <2>7. QED
    BY <1>1, <2>1, <2>4, <2>6
<1>3. CASE Len(g[l].nextlist) # 1
  <2>1. h = g
    BY <1>3 DEF TouchNext
  <2>2. Same(g, h)
    BY <2>1 DEF Same
  <2>3. QED
    BY <1>3, <2>1, <2>2
<1>4. QED
  BY <1>2, <1>3

\* Absorb.
LEMMA AbsorbSame ==
  ASSUME NEW g, Sound(g), NEW l \in DOMAIN g, NEW f, f = TouchNext(g, l), CanAbsorb(f, l),
         NEW n, n = g[l].nextlist[1], NEW h, h = Absorbed(f, l)
  PROVE  /\ Sound(h) /\ Same(g, h) /\ DOMAIN g \ {n} \subseteq DOMAIN h
         /\ n # l /\ n \in DOMAIN g /\ Len(g[n].prevlist) = 1
<1>1. /\ Sound(f) /\ DOMAIN g \subseteq DOMAIN f /\ Same(g, f)
      /\ \A x \in DOMAIN g : f[x] = g[x]
      /\ \A x \in DOMAIN f \ DOMAIN g : f[x] = NoBlock
      /\ Len(g[l].nextlist) = 1 => g[l].nextlist[1] \in DOMAIN f
  BY TouchSame
<1>2. l \in DOMAIN f /\ n = f[l].nextlist[1] /\ n \in DOMAIN f
  BY <1>1 DEF CanAbsorb
<1>3. n # l /\ Len(f[n].prevlist) = 1
  BY <1>2 DEF CanAbsorb
<1>4. n \in DOMAIN g /\ Len(g[n].prevlist) = 1
  <2>1. f[n] # NoBlock
    <3>1. 0 # 1
      OBVIOUS
    <3>2. QED
      BY <1>3, <3>1, BlankFacts, Zenon
  <2>2. QED
    BY <1>1, <1>2, <1>3, <2>1
<1>5. PICK e : LooksAhead(f, n, e)
  BY DEF LooksAhead
<1>6. /\ Sound(h) /\ Sound(e) /\ DOMAIN h = DOMAIN e \ {n}
      /\ \A S : GrownBy(GraphOf(f, S), GraphOf(e, S), DOMAIN e \ DOMAIN f)
      /\ \A S : Absorbs(GraphOf(e, S), GraphOf(h, S), l, n)
      /\ \A x \in DOMAIN h : e[x].prevlist = <<>> => h[x].prevlist = <<>>
  <2>1. Merges(f, e, h, l, n)
    BY <1>1, <1>2, <1>5, MergeAbsorbs
  <2>2. QED
    BY <2>1 DEF Merges
<1>7. \A x \in DOMAIN f : x \in DOMAIN e /\ e[x] = f[x]
  BY <1>5 DEF LooksAhead, TouchAll
<1>8. Same(f, e)
  <2>1. PICK E : E = DOMAIN e \ DOMAIN f
    OBVIOUS
  <2>2. QED
    BY <1>1, <1>6, <1>7, <2>1, GrownSame
<1>9. Same(e, h)
  <2>1. ASSUME NEW S
        PROVE  /\ Flow(GraphOf(h, S)) = Flow(GraphOf(e, S))
               /\ \A X : Holds(GraphOf(e, S), X) => Holds(GraphOf(h, S), X)
               /\ \A A \in SUBSET (DOMAIN e \cap DOMAIN h) :
                    FirstItems(GraphOf(h, S), A) = FirstItems(GraphOf(e, S), A)
    <3>1. PICK G, H : G = GraphOf(e, S) /\ H = GraphOf(h, S)
      OBVIOUS
    <3>2. IsFlow(G) /\ IsFlow(H) /\ Absorbs(G, H, l, n) /\ DOMAIN H.items = DOMAIN h
      BY <1>6, <3>1, GraphIsFlow DEF Sound
    <3>3. Flow(H) = Flow(G)
      BY <3>2, AbsorbsFlow
    <3>4. \A X : Holds(G, X) => Holds(H, X)
      BY <3>2, AbsorbsHolds
    <3>5. \A A \in SUBSET (DOMAIN e \cap DOMAIN h) : FirstItems(H, A) = FirstItems(G, A)
      BY <3>2, AbsorbsFirst
    <3>6. QED
      BY <3>1, <3>3, <3>4, <3>5
  <2>2. QED
    BY <1>6, <2>1 DEF Same
<1>10. Same(g, h)
  <2>1. \A S : Flow(GraphOf(h, S)) = Flow(GraphOf(g, S))
    BY <1>1, <1>8, <1>9 DEF Same
  <2>2. \A S, X : Holds(GraphOf(g, S), X) => Holds(GraphOf(h, S), X)
    BY <1>1, <1>8, <1>9 DEF Same
  <2>3. ASSUME NEW S, NEW A \in SUBSET (DOMAIN g \cap DOMAIN h)
        PROVE  FirstItems(GraphOf(h, S), A) = FirstItems(GraphOf(g, S), A)
    <3>1. /\ A \in SUBSET (DOMAIN g \cap DOMAIN f) /\ A \in SUBSET (DOMAIN f \cap DOMAIN e)
          /\ A \in SUBSET (DOMAIN e \cap DOMAIN h)
      BY <1>1, <1>7
    <3>2. QED
      BY <1>1, <1>8, <1>9, <3>1 DEF Same
  <2>4. ASSUME NEW x \in DOMAIN g \cap DOMAIN h, g[x].prevlist = <<>>
        PROVE  h[x].prevlist = <<>>
    BY <1>1, <1>6, <1>7, <2>4
  <2>5. QED
    BY <2>1, <2>2, <2>3, <2>4 DEF Same
<1>11. QED
  BY <1>1, <1>3, <1>4, <1>6, <1>7, <1>10

-----------------------------------------------------------------------------
(***************************************************************************)
(* simplify keeps the flow of the graph it is given.                       *)
(***************************************************************************)

\* The items of the program.
ProgramItems == UNION {ToSet(ProgramGraph.items[m]) : m \in DOMAIN ProgramGraph.items}

\* What simplify keeps: its blocks flow like the program, and hold its items.
Right(g) ==
  \A S : /\ Flow(GraphOf(g, S)) = Flow(ProgramGraph)
         /\ Holds(GraphOf(g, S), ProgramItems)

\* The block of the first instruction starts like the program.
RightFrom(g, l) ==
  /\ l = prog[1].at /\ l \in DOMAIN g /\ g[l].prevlist = <<>>
  /\ \A S : FirstItems(GraphOf(g, S), {l}) = FirstItems(ProgramGraph, ProgramGraph.start)

FlowInv ==
  /\ SimplifyExact
  /\ phase \in {"simplify", "done"} =>
       /\ Right(graph)
       /\ ~ JumpsToEntry => keys # <<>> /\ RightFrom(graph, keys[1])

LEMMA SameRight ==
  ASSUME NEW g, NEW h, Same(g, h), Right(g)
  PROVE  Right(h)
BY DEF Same, Right

LEMMA SameRightFrom ==
  ASSUME NEW g, NEW h, Same(g, h), NEW l \in DOMAIN h, RightFrom(g, l)
  PROVE  RightFrom(h, l)
<1>1. l = prog[1].at /\ l \in DOMAIN g /\ g[l].prevlist = <<>>
  BY DEF RightFrom
<1>2. {l} \in SUBSET (DOMAIN g \cap DOMAIN h)
  BY <1>1
<1>3. \A S : FirstItems(GraphOf(h, S), {l}) = FirstItems(GraphOf(g, S), {l})
  BY <1>2 DEF Same
<1>4. h[l].prevlist = <<>>
  BY <1>1 DEF Same
<1>5. QED
  BY <1>1, <1>3, <1>4 DEF RightFrom

LEMMA ProgramKept ==
  ASSUME prog' = prog
  PROVE  /\ ProgramGraph' = ProgramGraph /\ ProgramItems' = ProgramItems
         /\ JumpsToEntry' <=> JumpsToEntry
         /\ \A g : Right(g)' <=> Right(g)
         /\ \A g, l : RightFrom(g, l)' <=> RightFrom(g, l)
         /\ \A k : FirstKey(k)' <=> FirstKey(k)
<1>1. Defined' = Defined
  BY DEF Defined
<1>2. \A l : FallLabel(l)' = FallLabel(l)
  BY <1>1 DEF FallLabel
<1>3. \A ins : Moves(ins)' = Moves(ins)
  BY <1>2 DEF Moves, Decides
<1>4. ProgramGraph' = ProgramGraph
  BY <1>1, <1>3 DEF ProgramGraph
<1>5. ProgramItems' = ProgramItems
  BY <1>4 DEF ProgramItems
<1>6. JumpsToEntry' <=> JumpsToEntry
  BY <1>1 DEF JumpsToEntry
<1>7. QED
  BY <1>4, <1>5, <1>6 DEF Right, RightFrom, FirstKey

LEMMA PopFlows ==
  ASSUME FlowInv, Pop
  PROVE  FlowInv'
<1>1. /\ phase = "simplify" /\ UNCHANGED <<prog, phase, graph, keys>>
      /\ work' \subseteq work /\ label' \in work
  BY DEF Pop
<1>2. PICK g, k : g = graph /\ k = keys
  OBVIOUS
<1>3. /\ Right(g)' <=> Right(g)
      /\ RightFrom(g, k[1])' <=> RightFrom(g, k[1])
      /\ FirstKey(k)' <=> FirstKey(k)
      /\ JumpsToEntry' <=> JumpsToEntry
  BY <1>1, ProgramKept
<1>4. SimplifyExact'
  BY <1>1, <1>2, <1>3 DEF FlowInv, SimplifyExact
<1>5. QED
  BY <1>1, <1>2, <1>3, <1>4 DEF FlowInv

\* A step that keeps what is the same, the block of the first label among it.
LEMMA SameFlows ==
  ASSUME FlowInv, phase = "simplify", UNCHANGED <<prog, phase, keys>>,
         Sound(graph'), Same(graph, graph'),
         ~ JumpsToEntry => keys[1] \in DOMAIN graph',
         work' \subseteq DOMAIN graph', label' # NoLabel => label' \in DOMAIN graph'
  PROVE  FlowInv'
<1>1. PICK g, k, h : g = graph /\ k = keys /\ h = graph'
  OBVIOUS
<1>2. /\ Right(h)' <=> Right(h)
      /\ RightFrom(h, k[1])' <=> RightFrom(h, k[1])
      /\ FirstKey(k)' <=> FirstKey(k)
      /\ JumpsToEntry' <=> JumpsToEntry
  BY ProgramKept
<1>3. Right(h)
  BY <1>1, SameRight DEF FlowInv
<1>4. ~ JumpsToEntry => k # <<>> /\ RightFrom(h, k[1])
  BY <1>1, SameRightFrom DEF FlowInv
<1>5. ~ JumpsToEntry => h[k[1]].prevlist = <<>>
  BY <1>4 DEF RightFrom
<1>6. SimplifyExact'
  BY <1>1, <1>2, <1>5 DEF FlowInv, SimplifyExact, Sound
<1>7. (Right(graph))' /\ (~ JumpsToEntry => keys # <<>> /\ RightFrom(graph, keys[1]))'
  BY <1>1, <1>2, <1>3, <1>4
<1>8. QED
  BY <1>6, <1>7 DEF FlowInv

LEMMA StopFlows ==
  ASSUME FlowInv, StopAbsorbing
  PROVE  FlowInv'
<1>1. /\ phase = "simplify" /\ label # NoLabel /\ UNCHANGED <<prog, phase, keys, work>>
      /\ graph' = TouchNext(graph, label) /\ label' = NoLabel
  BY DEF StopAbsorbing
<1>2. /\ Sound(graph) /\ label \in DOMAIN graph /\ work \subseteq DOMAIN graph
      /\ ~ JumpsToEntry => keys[1] \in DOMAIN graph
  BY <1>1 DEF FlowInv, SimplifyExact, Sound
<1>3. Sound(graph') /\ DOMAIN graph \subseteq DOMAIN graph' /\ Same(graph, graph')
  BY <1>1, <1>2, TouchSame
<1>4. QED
  BY <1>1, <1>2, <1>3, SameFlows

LEMMA AbsorbFlows ==
  ASSUME FlowInv, Absorb
  PROVE  FlowInv'
<1>1. /\ phase = "simplify" /\ label # NoLabel /\ UNCHANGED <<prog, phase, keys, label>>
      /\ graph' = Absorbed(TouchNext(graph, label), label)
      /\ work' = work \ {graph[label].nextlist[1]}
      /\ CanAbsorb(TouchNext(graph, label), label)
  BY DEF Absorb
<1>2. /\ Sound(graph) /\ label \in DOMAIN graph /\ work \subseteq DOMAIN graph
      /\ ~ JumpsToEntry => keys[1] \in DOMAIN graph /\ graph[keys[1]].prevlist = <<>>
  BY <1>1 DEF FlowInv, SimplifyExact, Sound
<1>3. PICK f, n : f = TouchNext(graph, label) /\ n = graph[label].nextlist[1]
  OBVIOUS
<1>4. /\ Sound(graph') /\ Same(graph, graph') /\ DOMAIN graph \ {n} \subseteq DOMAIN graph'
      /\ n # label /\ Len(graph[n].prevlist) = 1
  BY <1>1, <1>2, <1>3, AbsorbSame
<1>5. ~ JumpsToEntry => keys[1] \in DOMAIN graph'
  <2>1. SUFFICES ASSUME ~ JumpsToEntry, keys[1] = n PROVE FALSE
    BY <1>2, <1>4
  <2>2. Len(<<>>) = 1
    BY <1>2, <1>4, <2>1
  <2>3. QED
    BY <2>2
<1>6. QED
  BY <1>1, <1>2, <1>3, <1>4, <1>5, SameFlows

LEMMA ReturnFlows ==
  ASSUME FlowInv, SimplifyReturns
  PROVE  FlowInv'
<1>1. /\ phase = "simplify" /\ UNCHANGED <<prog, graph>> /\ phase' = "done"
      /\ keys' = Remaining(keys, DOMAIN graph)
  BY DEF SimplifyReturns
<1>2. PICK g, k, r : g = graph /\ k = keys /\ r = Remaining(keys, DOMAIN graph)
  OBVIOUS
<1>3. /\ Right(g)' <=> Right(g)
      /\ RightFrom(g, k[1])' <=> RightFrom(g, k[1])
      /\ JumpsToEntry' <=> JumpsToEntry
  BY <1>1, ProgramKept
<1>4. ~ JumpsToEntry => r # <<>> /\ r[1] = k[1]
  <2>1. SUFFICES ASSUME ~ JumpsToEntry PROVE r # <<>> /\ r[1] = k[1]
    OBVIOUS
  <2>2. k \in Seq(Labels) /\ k # <<>> /\ k[1] \in DOMAIN g
    BY <1>1, <1>2, <2>1 DEF FlowInv, SimplifyExact, FirstKey
  <2>3. QED
    BY <1>2, <2>2, RemainingKept
<1>5. SimplifyExact'
  BY <1>1 DEF SimplifyExact
<1>6. QED
  BY <1>1, <1>2, <1>3, <1>4, <1>5 DEF FlowInv

\* The properties say of the graph what FlowInv says.
LEMMA FlowShows ==
  ASSUME FlowInv
  PROVE  FlowPreserved /\ ItemsOnce /\ EntryFirst
<1> SUFFICES ASSUME phase \in {"simplify", "done"} PROVE FlowPreserved /\ ItemsOnce /\ EntryFirst
  BY DEF FlowPreserved, ItemsOnce, EntryFirst
<1>1. Right(graph) /\ (~ JumpsToEntry => keys # <<>> /\ RightFrom(graph, keys[1]))
  BY DEF FlowInv
<1>2. PICK S : S = IF keys = <<>> THEN {} ELSE {keys[1]}
  OBVIOUS
<1>3. BlockGraph = GraphOf(graph, S)
  BY <1>2 DEF BlockGraph
<1>4. FlowPreserved
  BY <1>1, <1>3 DEF Right, FlowPreserved
<1>5. EntryFirst
  <2>1. SUFFICES ASSUME ~ JumpsToEntry PROVE StartsAtEntry
    BY DEF EntryFirst
  <2>2. keys # <<>> /\ RightFrom(graph, keys[1])
    BY <1>1, <2>1
  <2>3. BlockGraph.start = {keys[1]}
    <3>1. BlockGraph.start = S \cap DOMAIN graph
      BY <1>3 DEF GraphOf
    <3>2. QED
      BY <1>2, <2>2, <3>1 DEF RightFrom
  <2>4. QED
    BY <1>3, <2>2, <2>3 DEF RightFrom, StartsAtEntry
<1>6. Holds(GraphOf(graph, {}), ProgramItems)
  BY <1>1 DEF Right
<1>7. ItemsOnce
  <2> DEFINE places == UNION {{<<l, k>> : k \in DOMAIN graph[l].insts} : l \in DOMAIN graph}
             at(p)  == graph[p[1]].insts[p[2]]
             H      == GraphOf(graph, {})
  <2>1. \A l, k : Spot(H, l, k) <=> l \in DOMAIN graph /\ k \in DOMAIN graph[l].insts
    BY DEF Spot, GraphOf
  <2>2. \A l, k : Spot(H, l, k) => H.items[l][k] = graph[l].insts[k]
    BY DEF Spot, GraphOf
  <2> HIDE DEF H
  <2>3. ASSUME NEW p \in places
        PROVE  p = <<p[1], p[2]>> /\ Spot(H, p[1], p[2]) /\ at(p) = H.items[p[1]][p[2]]
    <3>1. PICK l \in DOMAIN graph : \E k \in DOMAIN graph[l].insts : p = <<l, k>>
      OBVIOUS
    <3>2. PICK k \in DOMAIN graph[l].insts : p = <<l, k>>
      BY <3>1
    <3>3. QED
      BY <2>1, <2>2, <3>2
  <2>4. ASSUME NEW l, NEW k, Spot(H, l, k)
        PROVE  <<l, k>> \in places /\ at(<<l, k>>) = H.items[l][k]
    BY <2>1, <2>2, <2>4
  <2> HIDE DEF places, at
  <2>5. Holds(H, ProgramItems)
    BY <1>6 DEF H
  <2>6. \A p \in places : at(p) \in ProgramItems
    BY <2>3, <2>5 DEF Holds
  <2>7. ASSUME NEW x \in ProgramItems PROVE \E p \in places : at(p) = x
    <3>1. PICK l, k : Spot(H, l, k) /\ H.items[l][k] = x
      BY <2>5 DEF Holds
    <3>2. QED
      BY <2>4, <3>1
  <2>8. {at(p) : p \in places} = ProgramItems
    BY <2>6, <2>7
  <2>9. \A p, q \in places : at(p) = at(q) => p = q
    BY <2>3, <2>5 DEF Holds
  <2>10. QED
    BY <2>8, <2>9 DEF ItemsOnce, ProgramItems, places, at
<1>8. QED
  BY <1>4, <1>5, <1>7

-----------------------------------------------------------------------------
(***************************************************************************)
(* The blocks that to_nondet makes are the moves of the program, and a     *)
(* block without items for each branch.                                    *)
(***************************************************************************)
LEMMA DefinedFacts ==
  ASSUME IsProgram(prog), NEW ins \in Defined
  PROVE  /\ ins \in [op : Ops, at : Seq(Nat), arg : Seq(Nat)] /\ ins \in Acts
         /\ ins.op # "undef" /\ ins.at \in Labels /\ Len(ins.at) = 1 /\ ins.at # NoLabel
         /\ ins.at \in Seen(Len(prog))
         /\ IsJump(ins) => ins.arg \in Labels /\ Len(ins.arg) = 1
         /\ \A d \in Defined : d.at = ins.at => d = ins
         /\ \E m \in 1..Len(prog) : m \in DOMAIN prog /\ prog[m] = ins
<1>1. PICK m \in DOMAIN prog : ins = prog[m] /\ prog[m].op # "undef"
  BY DEF Defined
<1>2. /\ m \in 1..Len(prog) /\ ins.at \in Labels /\ Len(ins.at) = 1 /\ ins.at # NoLabel
      /\ IsJump(ins) => ins.arg \in Labels /\ Len(ins.arg) = 1
  BY <1>1, ProgramFacts
<1>3. ins \in [op : Ops, at : Seq(Nat), arg : Seq(Nat)]
  <2>1. PICK R : R = [op : Ops, at : Seq(Nat), arg : Seq(Nat)]
    OBVIOUS
  <2>2. prog \in Seq(R)
    BY <2>1 DEF IsProgram
  <2>3. prog[m] \in R
    BY <1>2, <2>2, ElementOfSeq
  <2>4. QED
    BY <1>1, <2>1, <2>3
<1>4. ins \in Acts
  <2>1. ins = [op |-> ins.op, at |-> ins.at, arg |-> ins.arg]
    BY <1>3
  <2>2. ins.op \in Ops /\ ins.at \in Labels /\ ins.arg \in Labels
    <3>1. ins.op \in Ops /\ ins.at \in Seq(Nat) /\ ins.arg \in Seq(Nat)
      BY <1>3
    <3>2. QED
      BY <3>1 DEF Labels
  <2>3. QED
    BY <2>1, <2>2 DEF Acts
<1>5. ins.at \in Seen(Len(prog))
  BY <1>1, <1>2 DEF Seen
<1>6. ASSUME NEW d \in Defined, d.at = ins.at PROVE d = ins
  <2>1. PICK k \in DOMAIN prog : d = prog[k]
    BY DEF Defined
  <2>2. /\ k \in Int /\ m \in Int /\ prog[k].at[1] \in Int
        /\ k < m => prog[k].at[1] < prog[m].at[1]
        /\ m < k => prog[m].at[1] < prog[k].at[1]
    BY <1>1, <2>1, ProgramFacts
  <2>3. prog[k].at[1] = prog[m].at[1]
    BY <1>1, <1>6, <2>1
  <2>4. k = m
    BY <2>2, <2>3
  <2>5. QED
    BY <1>1, <2>1, <2>4
<1>7. QED
  BY <1>1, <1>2, <1>3, <1>4, <1>5, <1>6

Move(items, from, to) == [items |-> items, from |-> from, to |-> to]

LEMMA MoveIs ==
  ASSUME NEW i, NEW f, NEW t
  PROVE  Move(i, f, t).items = i /\ Move(i, f, t).from = f /\ Move(i, f, t).to = t
BY DEF Move

MovesBy(ins, a, fall) ==
  /\ ins.op = "exit" => Moves(ins) = {Move(<<ins>>, a, NoLabel)}
  /\ ins.op = "goto" => Moves(ins) = {Move(<<>>, a, ins.arg)}
  /\ ins.op = "if" /\ ins.arg # fall =>
       Moves(ins) = {Move(<<Assume(a, FALSE)>>, a, ins.arg), Move(<<Assume(a, TRUE)>>, a, fall)}
  /\ ins.op = "if" /\ ins.arg = fall => Moves(ins) = {Move(<<>>, a, ins.arg)}
  /\ ins.op \notin {"exit", "goto", "if"} => Moves(ins) = {Move(ExpandLockAdd(ins), a, fall)}

LEMMA MovesAre ==
  ASSUME NEW ins, NEW a, a = ins.at, NEW fall, fall = FallLabel(ins.at)
  PROVE  MovesBy(ins, a, fall)
<1>1. Decides(ins) <=> ins.op = "if" /\ ins.arg # fall
  BY DEF Decides
<1>2. CASE ins.op = "exit"
  <2>2. ins.op # "goto" /\ ins.op # "if" /\ ~ Decides(ins)
    BY <1>1, <1>2
  <2>1. Moves(ins) = {Move(<<ins>>, a, NoLabel)}
    BY <1>2, <2>2, Zenon DEF Moves, Move
  <2>3. QED
    BY <1>2, <2>1, <2>2 DEF MovesBy
<1>3. CASE ins.op = "goto"
  <2>1. ins.op # "exit" /\ ins.op # "if" /\ ~ Decides(ins)
    BY <1>1, <1>3
  <2>2. Moves(ins) = {Move(<<>>, a, ins.arg)}
    BY <1>3, <2>1, Zenon DEF Moves, Move
  <2>3. QED
    BY <1>3, <2>1, <2>2 DEF MovesBy
<1>4. CASE ins.op = "if" /\ ins.arg # fall
  <2>1. ins.op # "exit" /\ ins.op # "goto" /\ Decides(ins)
    BY <1>1, <1>4
  <2>2. Moves(ins) = {Move(<<Assume(a, FALSE)>>, a, ins.arg), Move(<<Assume(a, TRUE)>>, a, fall)}
    <3>1. Moves(ins) =
            {[items |-> <<Assume(ins.at, FALSE)>>, from |-> ins.at, to |-> ins.arg],
             [items |-> <<Assume(ins.at, TRUE)>>, from |-> ins.at, to |-> FallLabel(ins.at)]}
      BY <2>1, Zenon DEF Moves
    <3>2. QED
      BY <3>1 DEF Move
  <2>3. QED
    BY <1>4, <2>1, <2>2 DEF MovesBy
<1>5. CASE ins.op = "if" /\ ins.arg = fall
  <2>1. ins.op # "exit" /\ ins.op # "goto" /\ ~ Decides(ins)
    BY <1>1, <1>5
  <2>2. Moves(ins) = {Move(<<>>, a, ins.arg)}
    BY <1>5, <2>1, Zenon DEF Moves, Move
  <2>3. QED
    BY <1>5, <2>1, <2>2 DEF MovesBy
<1>6. CASE ins.op \notin {"exit", "goto", "if"}
  <2>1. ins.op # "exit" /\ ins.op # "goto" /\ ~ Decides(ins) /\ ins.op # "if"
    BY <1>1, <1>6
  <2>2. Moves(ins) = {Move(ExpandLockAdd(ins), a, fall)}
    BY <2>1, Zenon DEF Moves, Move
  <2>3. QED
    BY <1>6, <2>1, <2>2 DEF MovesBy
<1>7. QED
  BY <1>2, <1>3, <1>4, <1>5, <1>6

Relabels(ins, o) == [ins EXCEPT !.op = o]

LEMMA Relabelled ==
  ASSUME NEW ins \in Acts, NEW o \in Ops \cup {"load", "add", "store", "assume", "assume_not"}, NEW x, x = Relabels(ins, o)
  PROVE  x.op = o /\ x.at = ins.at /\ x \in Acts
<1>1. ins = [op |-> ins.op, at |-> ins.at, arg |-> ins.arg] /\ ins.at \in Labels /\ ins.arg \in Labels
  BY DEF Acts
<1>2. x = [op |-> o, at |-> ins.at, arg |-> ins.arg]
  BY <1>1 DEF Relabels
<1>3. QED
  BY <1>1, <1>2 DEF Acts

\* An expanded lock is three different instructions at one place.
LEMMA Expanded ==
  ASSUME IsProgram(prog), NEW ins \in Defined, NEW s, s = ExpandLockAdd(ins)
  PROVE  /\ s \in Seq(Acts) /\ s # <<>>
         /\ \A k \in DOMAIN s : s[k].at = ins.at
         /\ \A k, j \in DOMAIN s : s[k] = s[j] => k = j
         /\ ins.op # "lock" => s = <<ins>>
<1>1. ins \in [op : Ops, at : Seq(Nat), arg : Seq(Nat)] /\ ins \in Acts
  BY DefinedFacts
<1>2. CASE ins.op = "lock" /\ ExpandLocks
  <2>1. PICK x, y, z : /\ x = Relabels(ins, "load")
                       /\ y = Relabels(ins, "add")
                       /\ z = Relabels(ins, "store")
    OBVIOUS
  <2>2. s = <<x, y, z>>
    BY <1>2, <2>1, Zenon DEF ExpandLockAdd, Relabels
  <2>3. x.op = "load" /\ x.at = ins.at /\ x \in Acts
    <3>1. "load" \in Ops \cup {"load", "add", "store", "assume", "assume_not"}
      OBVIOUS
    <3>2. QED
      BY <1>1, <2>1, <3>1, Relabelled
  <2>4. y.op = "add" /\ y.at = ins.at /\ y \in Acts
    <3>1. "add" \in Ops \cup {"load", "add", "store", "assume", "assume_not"}
      OBVIOUS
    <3>2. QED
      BY <1>1, <2>1, <3>1, Relabelled
  <2>5. z.op = "store" /\ z.at = ins.at /\ z \in Acts
    <3>1. "store" \in Ops \cup {"load", "add", "store", "assume", "assume_not"}
      OBVIOUS
    <3>2. QED
      BY <1>1, <2>1, <3>1, Relabelled
  <2>6. x # y /\ x # z /\ y # z
    BY <2>3, <2>4, <2>5
  <2>7. s \in Seq(Acts) /\ Len(s) = 3 /\ DOMAIN s = 1..3 /\ s[1] = x /\ s[2] = y /\ s[3] = z
    BY <2>2, <2>3, <2>4, <2>5
  <2>8. \A k \in DOMAIN s : k = 1 \/ k = 2 \/ k = 3
    BY <2>7
  <2>9. \A k \in DOMAIN s : s[k].at = ins.at
    BY <2>3, <2>4, <2>5, <2>7, <2>8
  <2>10. ASSUME NEW k \in DOMAIN s, NEW j \in DOMAIN s, s[k] = s[j] PROVE k = j
    BY <2>6, <2>7, <2>8, <2>10
  <2>11. s # <<>>
    BY <2>7
  <2>12. QED
    BY <1>2, <2>7, <2>9, <2>10, <2>11
<1>3. CASE ~ (ins.op = "lock" /\ ExpandLocks)
  <2>1. s = <<ins>>
    BY <1>3, Zenon DEF ExpandLockAdd
  <2>2. s \in Seq(Acts) /\ DOMAIN s = 1..1 /\ s[1] = ins /\ Len(s) = 1
    BY <1>1, <2>1
  <2>3. QED
    BY <2>1, <2>2
<1>4. QED
  BY <1>2, <1>3

\* What to_nondet lists in the block of an instruction.
LEMMA NondetOne ==
  ASSUME IsProgram(prog), NEW ins \in Defined
  PROVE  NondetInsts(<< ins >>) = IF IsJump(ins) THEN <<>> ELSE ExpandLockAdd(ins)
<1> DEFINE s       == << ins >>
           body(f) == [k \in 0..Len(s) |->
                         IF k = 0 THEN <<>>
                         ELSE IF IsJump(s[k]) THEN f[k - 1]
                         ELSE f[k - 1] \o ExpandLockAdd(s[k])]
           done    == CHOOSE f : f = body(f)
<1>1. PICK e : e = ExpandLockAdd(ins)
  OBVIOUS
<1>2. e \in Seq(Acts)
  BY <1>1, Expanded
<1>3. <<>> \o e = e
  BY <1>2
<1>4. Len(s) = 1 /\ s[1] = ins
  OBVIOUS
<1> HIDE DEF s
<1> DEFINE g == [k \in 0..1 |-> IF k = 0 THEN <<>> ELSE IF IsJump(ins) THEN <<>> ELSE e]
<1>5. g = body(g)
  <2>1. body(g) = [k \in 0..1 |->
                         IF k = 0 THEN <<>>
                         ELSE IF IsJump(s[k]) THEN g[k - 1]
                         ELSE g[k - 1] \o ExpandLockAdd(s[k])]
    BY <1>4
  <2>2. \A k \in 0..1 : k = 0 \/ k = 1
    OBVIOUS
  <2>3. g[0] = <<>> /\ 1 - 1 = 0
    OBVIOUS
  <2>4. ASSUME NEW k \in 0..1
        PROVE  (IF k = 0 THEN <<>> ELSE IF IsJump(ins) THEN <<>> ELSE e)
               = IF k = 0 THEN <<>>
                 ELSE IF IsJump(s[k]) THEN g[k - 1] ELSE g[k - 1] \o ExpandLockAdd(s[k])
    <3>1. CASE k = 0
      BY <3>1
    <3>2. CASE k = 1
      <4>1. g[k - 1] = <<>> /\ s[k] = ins /\ g[k - 1] \o ExpandLockAdd(s[k]) = e
        <5> HIDE DEF g
        <5>1. QED
          BY <1>1, <1>3, <1>4, <2>3, <3>2
      <4> HIDE DEF g
      <4>2. QED
        BY <3>2, <4>1
    <3>3. QED
      BY <2>2, <3>1, <3>2
  <2>5. QED
    <3>1. g = [k \in 0..1 |-> IF k = 0 THEN <<>>
                 ELSE IF IsJump(s[k]) THEN g[k - 1] ELSE g[k - 1] \o ExpandLockAdd(s[k])]
      BY <2>4, Zenon
    <3> HIDE DEF g
    <3>2. QED
      BY <2>1, <3>1
<1>6. done = body(done)
  <2> HIDE DEF body, g
  <2>1. QED
    BY <1>5
<1> HIDE DEF done
<1>7. 0 \in 0..Len(s) /\ 1 \in 0..Len(s)
  BY <1>4
<1>8. done[0] = <<>>
  <2>1. body(done)[0] = <<>>
    BY <1>7
  <2> HIDE DEF body
  <2>2. QED
    BY <1>6, <2>1
<1>9. done[1] = IF IsJump(ins) THEN <<>> ELSE <<>> \o e
  <2>1. body(done)[1] = IF IsJump(s[1]) THEN done[0] ELSE done[0] \o ExpandLockAdd(s[1])
    BY <1>7
  <2> HIDE DEF body
  <2>2. body(done)[1] = IF IsJump(ins) THEN <<>> ELSE <<>> \o e
    BY <1>1, <1>4, <1>8, <2>1
  <2>3. QED
    BY <1>6, <2>2
<1>10. NondetInsts(s) = done[1]
  <2>1. NondetInsts(s) = done[Len(s)]
    BY DEF NondetInsts, done
  <2>2. QED
    BY <1>4, <2>1
<1>11. NondetInsts(<< ins >>) = done[1]
  BY <1>10 DEF s
<1>12. QED
  BY <1>1, <1>3, <1>9, <1>11

\* to_nondet has handled all labels.
Finished ==
  /\ phase = "nondet" /\ idx = Len(src.keys)
  /\ IsProgram(prog) /\ prog # <<>> /\ prog[1].op # "undef"
  /\ NondetInv /\ NondetExact

LEMMA FinishedFacts ==
  ASSUME Finished
  PROVE  /\ IsProgram(prog) /\ Made(src.graph, Len(prog)) /\ Len(prog) \in 0..Len(prog)
         /\ Handled = Seen(Len(prog)) /\ Handled \subseteq DOMAIN src.graph
         /\ Written(src.graph, Len(prog), NoLabel) /\ FirstKey(keys)
         /\ keys \in Seq(Labels) /\ ToSet(keys) = DOMAIN graph
         /\ DOMAIN graph = Handled \cup UNION {Mids(a) : a \in Handled}
         /\ IsGraphOf(graph)
         /\ \A a \in Handled : Converted(a, graph) /\ Copied(a, graph)
<1>1. Len(prog) \in Nat
  BY DEF Finished, IsProgram
<1>2. src.keys \in Seq(Labels) /\ ToSet(src.keys) = Seen(Len(prog)) /\ FirstKey(src.keys)
  BY DEF Finished, NondetInv, NondetExact
<1>3. Handled = Seen(Len(prog))
  <2>1. ToSet(src.keys) = {src.keys[k] : k \in 1..Len(src.keys)}
    BY <1>2 DEF ToSet
  <2>2. QED
    BY <1>2, <2>1 DEF Handled, Finished
<1>4. idx > 0
  BY <1>2 DEF Finished, FirstKey
<1>5. FirstKey(keys)
  BY <1>4 DEF Finished, NondetExact
<1>6. Made(src.graph, Len(prog)) /\ Seen(Len(prog)) \subseteq DOMAIN src.graph
  BY DEF Finished, NondetInv, Made
<1>7. QED
  BY <1>1, <1>3, <1>5, <1>6 DEF Finished, NondetInv, NondetExact

\* The block of an instruction, in the source graph and in the new one.
LEMMA BlockOf ==
  ASSUME Finished, NEW ins \in Defined, NEW a, a = ins.at
  PROVE  /\ a \in Handled /\ a \in DOMAIN src.graph /\ a \in DOMAIN graph
         /\ src.graph[a].nextlist = Successors(ins) /\ NextsOf(a) = Unique(Successors(ins))
         /\ graph[a].insts = IF IsJump(ins) THEN <<>> ELSE ExpandLockAdd(ins)
         /\ Converted(a, graph) /\ Copied(a, graph)
         /\ NextsOf(a) \in Seq(Labels) /\ Len(NextsOf(a)) \in {0, 1, 2}
         /\ ToSet(NextsOf(a)) = ToSet(Successors(ins))
         /\ \A x \in ToSet(Successors(ins)) : x \in Labels /\ Len(x) = 1
<1>1. /\ IsProgram(prog) /\ Made(src.graph, Len(prog)) /\ Len(prog) \in 0..Len(prog)
      /\ Handled = Seen(Len(prog)) /\ Handled \subseteq DOMAIN src.graph
      /\ Written(src.graph, Len(prog), NoLabel)
      /\ DOMAIN graph = Handled \cup UNION {Mids(b) : b \in Handled}
      /\ \A b \in Handled : Converted(b, graph) /\ Copied(b, graph)
  BY FinishedFacts
<1>2. a \in Seen(Len(prog)) /\ a # NoLabel /\ ins.op # "undef"
  BY <1>1, DefinedFacts
<1>3. PICK m \in 1..Len(prog) : m \in DOMAIN prog /\ prog[m] = ins
  BY <1>1, DefinedFacts
<1>4. src.graph[a].insts = <<ins>> /\ src.graph[a].nextlist = Successors(ins)
  BY <1>1, <1>2, <1>3 DEF Written
<1>5. a \in Handled /\ a \in DOMAIN src.graph /\ a \in DOMAIN graph
  BY <1>1, <1>2
<1>6. Converted(a, graph) /\ Copied(a, graph)
  BY <1>1, <1>5
<1>7. graph[a].insts = NondetInsts(<< ins >>)
  BY <1>4, <1>6 DEF Copied
<1>8. graph[a].insts = IF IsJump(ins) THEN <<>> ELSE ExpandLockAdd(ins)
  BY <1>1, <1>7, NondetOne
<1>9. NextsOf(a) = Unique(Successors(ins))
  BY <1>4 DEF NextsOf
<1>10. PICK s : s = Successors(ins)
  OBVIOUS
<1>11. /\ Unique(s) \in Seq(Labels) /\ Len(Unique(s)) \in {0, 1, 2}
       /\ ToSet(Unique(s)) = ToSet(s)
       /\ \A x \in ToSet(s) : x \in Labels /\ Len(x) = 1
  <2>1. PICK n, g : n = Len(prog) /\ g = src.graph
    OBVIOUS
  <2>2. n \in 0..Len(prog) /\ Made(g, n) /\ a \in DOMAIN g /\ g[a].nextlist = s
    BY <1>1, <1>4, <1>5, <1>10, <2>1
  <2>3. QED
    BY <1>1, <2>2, NextsFacts
<1>12. QED
  BY <1>4, <1>5, <1>6, <1>8, <1>9, <1>10, <1>11

\* The block that a move of the program is in.
Home(m) == IF Split(m.from) THEN Mid(m.from, m.to) ELSE m.from

\* In g the moves of ins have blocks, with their items, that lead to where the
\* moves go.
Leads(g, ins) ==
  LET a == ins.at IN
  /\ \A m \in Moves(ins) :
       /\ m.from = a /\ m.to \in Labels /\ (m.to = NoLabel \/ Len(m.to) = 1)
       /\ Split(a) => m.to # NoLabel
       /\ g[Home(m)].insts = m.items /\ ToSet(g[Home(m)].nextlist) = {m.to} \ {NoLabel}
  /\ ~ Split(a) => \E m : Moves(ins) = {m}
  /\ Split(a) => /\ g[a].insts = <<>>
                 /\ ToSet(g[a].nextlist) = {Home(m) : m \in Moves(ins)}
                 /\ Mids(a) = {Home(m) : m \in Moves(ins)}

\* An instruction that has one move.
LEMMA LeadsOne ==
  ASSUME NEW ins, ~ Split(ins.at), NEW g, NEW i, NEW t,
         Moves(ins) = {Move(i, ins.at, t)}, g[ins.at].insts = i,
         t \in Labels, t = NoLabel \/ Len(t) = 1,
         ToSet(g[ins.at].nextlist) = {t} \ {NoLabel}
  PROVE  Leads(g, ins)
<1>1. PICK m : m = Move(i, ins.at, t)
  OBVIOUS
<1>2. m.items = i /\ m.from = ins.at /\ m.to = t /\ Moves(ins) = {m}
  BY <1>1, MoveIs
<1>3. Home(m) = ins.at
  BY <1>2 DEF Home
<1>4. QED
  BY <1>2, <1>3 DEF Leads

LEMMA NoElement == ToSet(<<>>) = {} /\ Len(<<>>) = 0 /\ Unique(<<>>) = <<>>
<1>1. ToSet(<<>>) = {} /\ Len(<<>>) = 0 /\ 0 # 2
  BY DEF ToSet
<1>2. Unique(<<>>) = <<>>
  BY <1>1, Zenon DEF Unique
<1>3. QED
  BY <1>1, <1>2

LEMMA OneOf ==
  ASSUME NEW x, NEW s, s = <<x>>
  PROVE  ToSet(s) = {x} /\ Len(s) = 1 /\ Unique(s) = s
<1>1. ToSet(s) = {x} /\ Len(s) = 1 /\ 1 # 2
  BY DEF ToSet
<1>2. Unique(s) = s
  BY <1>1, Zenon DEF Unique
<1>3. QED
  BY <1>1, <1>2

LEMMA TwoOf ==
  ASSUME NEW x, NEW y, NEW s, s = <<x, y>>
  PROVE  /\ ToSet(s) = {x, y} /\ Len(s) = 2 /\ s[1] = x /\ s[2] = y
         /\ x # y => Unique(s) = s
         /\ x = y => Unique(s) = <<x>>
<1>1. ToSet(s) = {x, y} /\ Len(s) = 2 /\ s[1] = x /\ s[2] = y
  BY DEF ToSet
<1>2. x # y => Unique(s) = s
  BY <1>1, Zenon DEF Unique
<1>3. x = y => Unique(s) = <<x>>
  BY <1>1, Zenon DEF Unique
<1>4. QED
  BY <1>1, <1>2, <1>3

Branches(ins, a, x, y) ==
  Moves(ins) = {Move(<<Assume(a, FALSE)>>, a, x), Move(<<Assume(a, TRUE)>>, a, y)}

\* An instruction that has two moves: a conditional jump that decides.
LEMMA LeadsTwo ==
  ASSUME NEW ins, NEW a, a = ins.at, a \in Labels, Len(a) = 1,
         NEW x \in Labels, NEW y \in Labels, Len(x) = 1, Len(y) = 1,
         x # y, NextsOf(a) = <<x, y>>, NEW g, Converted(a, g), Copied(a, g), g[a].insts = <<>>,
         Branches(ins, a, x, y)
  PROVE  Leads(g, ins)
<1>0. PICK i, j : i = <<Assume(a, FALSE)>> /\ j = <<Assume(a, TRUE)>>
  OBVIOUS
<1>1. PICK m, n : m = Move(i, a, x) /\ n = Move(j, a, y)
  OBVIOUS
<1>2. /\ m.items = i /\ m.from = a /\ m.to = x /\ n.items = j /\ n.from = a /\ n.to = y
      /\ Moves(ins) = {m, n}
  <2>1. /\ m.items = i /\ m.from = a /\ m.to = x /\ n.items = j /\ n.from = a /\ n.to = y
    BY <1>1, MoveIs
  <2>2. Moves(ins) = {m, n}
    BY <1>0, <1>1 DEF Branches
  <2>3. QED
    BY <2>1, <2>2
<1>3. Split(a) /\ NextsOf(a)[1] = x /\ NextsOf(a)[2] = y /\ ToSet(NextsOf(a)) = {x, y}
  <2>1. PICK s : s = <<x, y>>
    OBVIOUS
  <2>2. Len(s) = 2 /\ s[1] = x /\ s[2] = y /\ ToSet(s) = {x, y}
    BY <2>1, TwoOf
  <2>3. QED
    BY <2>1, <2>2 DEF Split
<1>4. Home(m) = Mid(a, x) /\ Home(n) = Mid(a, y)
  BY <1>2, <1>3 DEF Home
<1>5. /\ g[Mid(a, x)].insts = m.items /\ g[Mid(a, y)].insts = n.items
      /\ g[Mid(a, x)].nextlist = <<x>> /\ g[Mid(a, y)].nextlist = <<y>>
  BY <1>0, <1>2, <1>3 DEF Copied, Converted, Mid
<1>6. ToSet(g[Mid(a, x)].nextlist) = {x} /\ ToSet(g[Mid(a, y)].nextlist) = {y}
  BY <1>5, OneOf
<1>7. x # NoLabel /\ y # NoLabel
  <2>1. Len(NoLabel) = 0 /\ 0 # 1
    BY DEF NoLabel
  <2>2. QED
    BY <2>1, Zenon
<1>8. Mids(a) = {Mid(a, x), Mid(a, y)}
  BY <1>3 DEF Mids, Mid
<1>9. ToSet(g[a].nextlist) = {Mid(a, x), Mid(a, y)}
  <2>1. PICK u, v, s : u = Mid(a, x) /\ v = Mid(a, y) /\ s = g[a].nextlist
    OBVIOUS
  <2>2. s = <<u, v>>
    BY <1>3, <2>1 DEF Converted, Mid
  <2>3. ToSet(s) = {u, v}
    BY <2>2, TwoOf
  <2>4. QED
    BY <2>1, <2>3
<1>10. {Home(k) : k \in Moves(ins)} = {Mid(a, x), Mid(a, y)}
  BY <1>2, <1>4
<1>11. ASSUME NEW k \in Moves(ins)
       PROVE  /\ k.from = a /\ k.to \in Labels /\ Len(k.to) = 1 /\ k.to # NoLabel
              /\ g[Home(k)].insts = k.items /\ ToSet(g[Home(k)].nextlist) = {k.to} \ {NoLabel}
  <2>1. CASE k = m
    BY <1>2, <1>4, <1>5, <1>6, <1>7, <2>1
  <2>2. CASE k = n
    BY <1>2, <1>4, <1>5, <1>6, <1>7, <2>2
  <2>3. QED
    BY <1>2, <2>1, <2>2
<1>12. QED
  BY <1>3, <1>8, <1>9, <1>10, <1>11 DEF Leads

LEMMA LeadsAll ==
  ASSUME Finished, NEW ins \in Defined
  PROVE  Leads(graph, ins)
<1>1. PICK a, g, e, fall : a = ins.at /\ g = graph /\ e = ExpandLockAdd(ins)
                           /\ fall = FallLabel(ins.at)
  OBVIOUS
<1>2. /\ NextsOf(a) = Unique(Successors(ins))
      /\ g[a].insts = IF IsJump(ins) THEN <<>> ELSE e
      /\ Converted(a, g) /\ Copied(a, g)
      /\ \A x \in ToSet(Successors(ins)) : x \in Labels /\ Len(x) = 1
  BY <1>1, BlockOf
<1>3. IsProgram(prog) /\ ins \in Defined
  BY FinishedFacts
<1>4. a \in Labels /\ Len(a) = 1 /\ (ins.op # "lock" => e = <<ins>>)
  BY <1>1, <1>3, DefinedFacts, Expanded
<1>5. /\ ins.op = "exit" => Moves(ins) = {Move(<<ins>>, a, NoLabel)}
      /\ ins.op = "goto" => Moves(ins) = {Move(<<>>, a, ins.arg)}
      /\ ins.op = "if" /\ ins.arg # fall =>
           Moves(ins) = {Move(<<Assume(a, FALSE)>>, a, ins.arg),
                         Move(<<Assume(a, TRUE)>>, a, fall)}
      /\ ins.op = "if" /\ ins.arg = fall => Moves(ins) = {Move(<<>>, a, ins.arg)}
      /\ ins.op \notin {"exit", "goto", "if"} => Moves(ins) = {Move(e, a, fall)}
  <2>1. MovesBy(ins, a, fall)
    BY <1>1, MovesAre
  <2>2. QED
    BY <1>1, <2>1 DEF MovesBy
<1>6. NoLabel \in Labels
  BY EmptySeq DEF NoLabel, Labels
<1>7. ASSUME NEW t, NextsOf(a) = <<t>>, t \in Labels, Len(t) = 1
      PROVE  ~ Split(a) /\ ToSet(g[a].nextlist) = {t} \ {NoLabel}
  <2>1. Len(<<t>>) = 1 /\ ToSet(<<t>>) = {t} /\ 1 # 2
    BY OneOf
  <2>2. ~ Split(a)
    BY <1>7, <2>1, Zenon DEF Split
  <2>3. g[a].nextlist = <<t>>
    BY <1>2, <1>7, <2>2 DEF Converted
  <2>4. t # NoLabel
    <3>1. Len(NoLabel) = 0 /\ 0 # 1
      BY DEF NoLabel
    <3>2. QED
      BY <1>7, <3>1, Zenon
  <2>5. QED
    BY <2>1, <2>2, <2>3, <2>4
<1>8. CASE ins.op = "exit"
  <2>1. Successors(ins) = <<>> /\ ~ IsJump(ins)
    BY <1>8 DEF Successors, IsJump
  <2>2. NextsOf(a) = <<>> /\ ToSet(<<>>) = {} /\ Len(<<>>) = 0 /\ 0 # 2
    BY <1>2, <2>1, NoElement
  <2>3. ~ Split(a)
    BY <2>2, Zenon DEF Split
  <2>4. ToSet(g[a].nextlist) = {NoLabel} \ {NoLabel}
    BY <1>2, <2>2, <2>3 DEF Converted
  <2>5. g[a].insts = <<ins>>
    <3>1. ins.op # "lock"
      BY <1>8
    <3>2. QED
      BY <1>2, <1>4, <2>1, <3>1
  <2>6. Moves(ins) = {Move(<<ins>>, a, NoLabel)}
    BY <1>5, <1>8
  <2>7. QED
    BY <1>1, <1>6, <2>3, <2>4, <2>5, <2>6, LeadsOne
<1>9. CASE ins.op = "goto"
  <2>1. Successors(ins) = <<ins.arg>> /\ IsJump(ins)
    BY <1>9 DEF Successors, IsJump
  <2>2. NextsOf(a) = <<ins.arg>> /\ ins.arg \in Labels /\ Len(ins.arg) = 1
    BY <1>2, <2>1, OneOf
  <2>3. ~ Split(a) /\ ToSet(g[a].nextlist) = {ins.arg} \ {NoLabel}
    BY <1>7, <2>2
  <2>4. g[a].insts = <<>> /\ Moves(ins) = {Move(<<>>, a, ins.arg)}
    BY <1>2, <1>5, <1>9, <2>1
  <2>5. QED
    BY <1>1, <2>2, <2>3, <2>4, LeadsOne
<1>10. CASE ins.op = "if"
  <2>1. Successors(ins) = <<ins.arg, fall>> /\ IsJump(ins)
    BY <1>1, <1>10 DEF Successors, IsJump
  <2>2. /\ ins.arg \in Labels /\ Len(ins.arg) = 1 /\ fall \in Labels /\ Len(fall) = 1
        /\ ins.arg = fall => NextsOf(a) = <<ins.arg>>
        /\ ins.arg # fall => NextsOf(a) = <<ins.arg, fall>>
    <3>1. PICK x, s : x = ins.arg /\ s = <<ins.arg, fall>>
      OBVIOUS
    <3>2. s = <<x, fall>>
      BY <3>1
    <3>3. /\ ToSet(s) = {x, fall} /\ (x # fall => Unique(s) = s)
          /\ x = fall => Unique(s) = <<x>>
      BY <3>2, TwoOf
    <3>4. QED
      BY <1>2, <2>1, <3>1, <3>3
  <2>3. g[a].insts = <<>>
    BY <1>2, <2>1
  <2>4. CASE ins.arg = fall
    <3>1. ~ Split(a) /\ ToSet(g[a].nextlist) = {ins.arg} \ {NoLabel}
      BY <1>7, <2>2, <2>4
    <3>2. Moves(ins) = {Move(<<>>, a, ins.arg)}
      BY <1>5, <1>10, <2>4
    <3>3. QED
      BY <1>1, <2>2, <2>3, <3>1, <3>2, LeadsOne
  <2>5. CASE ins.arg # fall
    <3>1. PICK x, y : x = ins.arg /\ y = fall
      OBVIOUS
    <3>2. Branches(ins, a, x, y)
      BY <1>5, <1>10, <2>5, <3>1 DEF Branches
    <3>3. /\ x \in Labels /\ y \in Labels /\ Len(x) = 1 /\ Len(y) = 1 /\ x # y
          /\ NextsOf(a) = <<x, y>>
      BY <2>2, <2>5, <3>1
    <3>4. QED
      BY <1>1, <1>2, <1>4, <2>3, <3>2, <3>3, LeadsTwo
  <2>6. QED
    BY <2>4, <2>5
<1>11. CASE ins.op \notin {"exit", "goto", "if"}
  <2>0. ins.op # "exit" /\ ins.op # "goto" /\ ins.op # "if"
    BY <1>11
  <2>1. Successors(ins) = <<fall>> /\ ~ IsJump(ins)
    BY <1>1, <2>0, Zenon DEF Successors, IsJump
  <2>2. NextsOf(a) = <<fall>> /\ fall \in Labels /\ Len(fall) = 1
    BY <1>2, <2>1, OneOf
  <2>3. ~ Split(a) /\ ToSet(g[a].nextlist) = {fall} \ {NoLabel}
    BY <1>7, <2>2
  <2>4. g[a].insts = e /\ Moves(ins) = {Move(e, a, fall)}
    BY <1>2, <1>5, <1>11, <2>1
  <2>5. QED
    BY <1>1, <2>2, <2>3, <2>4, LeadsOne
<1>12. QED
  BY <1>8, <1>9, <1>10, <1>11

AllMoves == UNION {Moves(ins) : ins \in Defined}

LEMMA AssumeIs ==
  ASSUME NEW a \in Labels
  PROVE  /\ Assume(a, FALSE) \in Acts /\ Assume(a, TRUE) \in Acts
         /\ Assume(a, FALSE).at = a /\ Assume(a, TRUE).at = a
         /\ Assume(a, FALSE) # Assume(a, TRUE)
<1>1. NoLabel \in Labels
  BY EmptySeq DEF NoLabel, Labels
<1>2. Assume(a, FALSE) = [op |-> "assume", at |-> a, arg |-> NoLabel]
  BY Zenon DEF Assume
<1>3. Assume(a, TRUE) = [op |-> "assume_not", at |-> a, arg |-> NoLabel]
  BY Zenon DEF Assume
<1>4. PICK x, y : x = Assume(a, FALSE) /\ y = Assume(a, TRUE)
  OBVIOUS
<1>5. x.op = "assume" /\ x.at = a /\ x.arg = NoLabel
      /\ x = [op |-> x.op, at |-> x.at, arg |-> x.arg]
  <2>1. x = [op |-> "assume", at |-> a, arg |-> NoLabel]
    BY <1>2, <1>4, Zenon
  <2>2. QED
    BY <2>1
<1>6. y.op = "assume_not" /\ y.at = a /\ y.arg = NoLabel
      /\ y = [op |-> y.op, at |-> y.at, arg |-> y.arg]
  <2>1. y = [op |-> "assume_not", at |-> a, arg |-> NoLabel]
    BY <1>3, <1>4, Zenon
  <2>2. QED
    BY <2>1
<1>8. x \in Acts
  BY <1>1, <1>5 DEF Acts
<1>9. y \in Acts
  BY <1>1, <1>6 DEF Acts
<1>10. x # y
  BY <1>5, <1>6
<1>7. QED
  BY <1>4, <1>5, <1>6, <1>8, <1>9, <1>10

\* The items of the moves of an instruction are at it, and all different.
Tells(ins) ==
  /\ \A m \in Moves(ins) :
       /\ m.items \in Seq(Acts) /\ m.from = ins.at
       /\ \A k \in DOMAIN m.items : m.items[k].at = ins.at
  /\ \A m, n \in Moves(ins) : \A k \in DOMAIN m.items : \A j \in DOMAIN n.items :
       m.items[k] = n.items[j] => m = n /\ k = j

LEMMA TellsOne ==
  ASSUME NEW ins, NEW i \in Seq(Acts), NEW t, Moves(ins) = {Move(i, ins.at, t)},
         \A k \in DOMAIN i : i[k].at = ins.at,
         \A k, j \in DOMAIN i : i[k] = i[j] => k = j
  PROVE  Tells(ins)
<1>1. PICK m : m = Move(i, ins.at, t)
  OBVIOUS
<1>2. m.items = i /\ m.from = ins.at /\ Moves(ins) = {m}
  BY <1>1, MoveIs
<1>3. QED
  BY <1>2 DEF Tells

LEMMA TellsTwo ==
  ASSUME NEW ins, NEW a \in Labels, a = ins.at, NEW x, NEW y, Branches(ins, a, x, y)
  PROVE  Tells(ins)
<1>1. PICK u, v : u = Assume(a, FALSE) /\ v = Assume(a, TRUE)
  OBVIOUS
<1>2. u \in Acts /\ v \in Acts /\ u.at = a /\ v.at = a /\ u # v
  BY <1>1, AssumeIs
<1>3. PICK i, j : i = <<u>> /\ j = <<v>>
  OBVIOUS
<1>4. /\ i \in Seq(Acts) /\ DOMAIN i = {1} /\ i[1] = u
      /\ j \in Seq(Acts) /\ DOMAIN j = {1} /\ j[1] = v
  BY <1>2, <1>3
<1>5. PICK m, n : m = Move(i, a, x) /\ n = Move(j, a, y)
  OBVIOUS
<1>6. m.items = i /\ m.from = a /\ n.items = j /\ n.from = a
  BY <1>5, MoveIs
<1>7. Moves(ins) = {m, n}
  BY <1>1, <1>3, <1>5 DEF Branches
<1>8. \A e \in Moves(ins) :
        /\ e.items \in Seq(Acts) /\ e.from = ins.at
        /\ \A k \in DOMAIN e.items : e.items[k].at = ins.at
  BY <1>2, <1>4, <1>6, <1>7
<1>9. ASSUME NEW e \in Moves(ins), NEW f \in Moves(ins),
             NEW k \in DOMAIN e.items, NEW l \in DOMAIN f.items, e.items[k] = f.items[l]
      PROVE  e = f /\ k = l
  BY <1>2, <1>4, <1>6, <1>7, <1>9
<1>10. QED
  BY <1>8, <1>9 DEF Tells

LEMMA TellsAll ==
  ASSUME IsProgram(prog), NEW ins \in Defined
  PROVE  Tells(ins)
<1>1. PICK a, e, fall : a = ins.at /\ e = ExpandLockAdd(ins) /\ fall = FallLabel(ins.at)
  OBVIOUS
<1>2. MovesBy(ins, a, fall)
  BY <1>1, MovesAre
<1>3. a \in Labels /\ ins \in Acts
  BY <1>1, DefinedFacts
<1>4. /\ e \in Seq(Acts) /\ \A k \in DOMAIN e : e[k].at = ins.at
      /\ \A k, j \in DOMAIN e : e[k] = e[j] => k = j
      /\ ins.op # "lock" => e = <<ins>>
  BY <1>1, Expanded
<1>5. /\ <<>> \in Seq(Acts) /\ \A k \in DOMAIN <<>> : <<>>[k].at = ins.at
      /\ \A k, j \in DOMAIN <<>> : <<>>[k] = <<>>[j] => k = j
  BY EmptySeq
<1>6. ASSUME NEW t, Moves(ins) = {Move(<<>>, a, t)} PROVE Tells(ins)
  BY <1>1, <1>5, <1>6, TellsOne
<1>7. ASSUME NEW t, Moves(ins) = {Move(e, a, t)} PROVE Tells(ins)
  BY <1>1, <1>4, <1>7, TellsOne
<1>8. CASE ins.op = "exit"
  <2>1. e = <<ins>>
    BY <1>4, <1>8
  <2>2. Moves(ins) = {Move(e, a, NoLabel)}
    BY <1>2, <1>8, <2>1 DEF MovesBy
  <2>3. QED
    BY <1>7, <2>2
<1>9. CASE ins.op = "goto"
  BY <1>2, <1>6, <1>9 DEF MovesBy
<1>10. CASE ins.op = "if" /\ ins.arg = fall
  BY <1>2, <1>6, <1>10 DEF MovesBy
<1>11. CASE ins.op = "if" /\ ins.arg # fall
  <2>1. PICK x : x = ins.arg
    OBVIOUS
  <2>2. Branches(ins, a, x, fall)
    BY <1>2, <1>11, <2>1 DEF MovesBy, Branches
  <2>3. QED
    BY <1>1, <1>3, <2>2, TellsTwo
<1>12. CASE ins.op \notin {"exit", "goto", "if"}
  <2>1. Moves(ins) = {Move(e, a, fall)}
    BY <1>1, <1>2, <1>12 DEF MovesBy
  <2>2. QED
    BY <1>7, <2>1
<1>13. QED
  BY <1>8, <1>9, <1>10, <1>11, <1>12

LEMMA ProgramIs ==
  ASSUME NEW P, P = ProgramGraph
  PROVE  /\ DOMAIN P.items = AllMoves
         /\ \A m \in AllMoves : /\ P.items[m] = m.items
                                /\ P.succ[m] = {n \in AllMoves : n.from = m.to}
         /\ P.start = {m \in AllMoves : m.from = prog[1].at}
<1>1. PICK M : M = AllMoves
  OBVIOUS
<1>2. /\ P.items = [m \in M |-> m.items]
      /\ P.succ = [m \in M |-> {n \in M : n.from = m.to}]
      /\ P.start = {m \in M : m.from = prog[1].at}
  BY <1>1 DEF ProgramGraph, AllMoves
<1>3. QED
  BY <1>1, <1>2

\* Two moves with an item in common are one.
LEMMA MovesDiffer ==
  ASSUME IsProgram(prog), NEW m \in AllMoves, NEW n \in AllMoves,
         NEW k \in DOMAIN m.items, NEW j \in DOMAIN n.items, m.items[k] = n.items[j]
  PROVE  m = n /\ k = j
<1>1. PICK ins \in Defined : m \in Moves(ins)
  BY DEF AllMoves
<1>2. PICK d \in Defined : n \in Moves(d)
  BY DEF AllMoves
<1>3. Tells(ins) /\ Tells(d)
  BY TellsAll
<1>4. ins.at = d.at
  BY <1>1, <1>2, <1>3 DEF Tells
<1>5. ins = d
  BY <1>4, DefinedFacts
<1>6. QED
  BY <1>1, <1>2, <1>3, <1>5 DEF Tells

LEMMA HandledIs ==
  ASSUME Finished, NEW a \in Handled
  PROVE  \E ins \in Defined : a = ins.at
<1>1. Handled = Seen(Len(prog)) /\ IsProgram(prog)
  BY FinishedFacts
<1>2. PICK m \in 1..Len(prog) : a = prog[m].at /\ prog[m].op # "undef"
  BY <1>1 DEF Seen
<1>3. m \in DOMAIN prog
  BY <1>1 DEF IsProgram
<1>4. QED
  BY <1>2, <1>3 DEF Defined

\* A move and its block.
LEMMA HomeOf ==
  ASSUME Finished, NEW m \in AllMoves
  PROVE  /\ m.from \in Handled /\ m.from \in Labels /\ Len(m.from) = 1
         /\ m.to \in Labels /\ (m.to = NoLabel \/ Len(m.to) = 1)
         /\ Home(m) \in DOMAIN graph
         /\ graph[Home(m)].insts = m.items /\ m.items \in Seq(Acts)
         /\ ToSet(graph[Home(m)].nextlist) = {m.to} \ {NoLabel}
         /\ ~ Split(m.from) => Home(m) = m.from
         /\ Split(m.from) =>
              /\ Home(m) = Mid(m.from, m.to) /\ Len(Home(m)) = 2 /\ Len(m.to) = 1
              /\ Home(m) \in ToSet(graph[m.from].nextlist)
<1>1. PICK ins \in Defined : m \in Moves(ins)
  BY DEF AllMoves
<1>2. PICK a : a = ins.at
  OBVIOUS
<1>3. IsProgram(prog) /\ DOMAIN graph = Handled \cup UNION {Mids(b) : b \in Handled}
  BY FinishedFacts
<1>4. Leads(graph, ins) /\ Tells(ins)
  BY <1>3, LeadsAll, TellsAll
<1>5. a \in Handled /\ a \in Labels /\ Len(a) = 1
  BY <1>2, <1>3, BlockOf, DefinedFacts
<1>6. /\ m.from = a /\ m.to \in Labels /\ (m.to = NoLabel \/ Len(m.to) = 1)
      /\ graph[Home(m)].insts = m.items /\ m.items \in Seq(Acts)
      /\ ToSet(graph[Home(m)].nextlist) = {m.to} \ {NoLabel}
  BY <1>1, <1>2, <1>4 DEF Leads, Tells
<1>7. CASE Split(a)
  <2>1. /\ m.to # NoLabel /\ Home(m) \in Mids(a) /\ Home(m) \in ToSet(graph[a].nextlist)
    BY <1>1, <1>2, <1>4, <1>7 DEF Leads
  <2>2. Home(m) = Mid(a, m.to) /\ Len(m.to) = 1
    BY <1>6, <1>7, <2>1 DEF Home
  <2>3. Len(Mid(a, m.to)) = 2
    BY <1>5, <1>6, <2>2, LabelPairs
  <2>4. QED
    BY <1>3, <1>5, <1>6, <1>7, <2>1, <2>2, <2>3
<1>8. CASE ~ Split(a)
  BY <1>3, <1>5, <1>6, <1>8 DEF Home
<1>9. QED
  BY <1>7, <1>8

\* Every block that is not one that branches is the block of a move.
LEMMA HomeAt ==
  ASSUME Finished, NEW a \in Handled
  PROVE  /\ ~ Split(a) => \E m \in AllMoves : a = Home(m)
         /\ Split(a) => /\ graph[a].insts = <<>>
                        /\ \A l \in ToSet(graph[a].nextlist) :
                             \E m \in AllMoves : m.from = a /\ l = Home(m)
                        /\ \A l \in Mids(a) : \E m \in AllMoves : m.from = a /\ l = Home(m)
<1>1. PICK ins \in Defined : a = ins.at
  BY HandledIs
<1>2. Leads(graph, ins) /\ Moves(ins) \subseteq AllMoves
  BY LeadsAll DEF AllMoves
<1>3. \A m \in Moves(ins) : m.from = a
  BY <1>1, <1>2 DEF Leads
<1>4. QED
  BY <1>1, <1>2, <1>3 DEF Leads, Home

Branching == {a \in Handled : Split(a)}
Homes == [m \in AllMoves |-> Home(m)]

\* The blocks at t stand for the moves from t.
LEMMA StandsAt ==
  ASSUME Finished, NEW t \in Labels, t = NoLabel \/ Len(t) = 1,
         NEW P, P = ProgramGraph, NEW S, NEW H, H = GraphOf(graph, S), Bodied(graph),
         NEW T, T = {t} \cap DOMAIN graph, NEW C, C = Branching, NEW h, h = Homes
  PROVE  StandsFor(P, H, h, C, T) = {n \in AllMoves : n.from = t}
<1>1. DOMAIN P.items = AllMoves
  BY ProgramIs
<1>2. \A a \in DOMAIN graph : H.succ[a] = ToSet(graph[a].nextlist) \cap DOMAIN graph
  BY GraphIsFlow
<1>3. DOMAIN graph = Handled \cup UNION {Mids(b) : b \in Handled}
  BY FinishedFacts
<1>4. \A m \in AllMoves : h[m] = Home(m)
  BY DEF Homes
<1>5. ASSUME NEW n \in AllMoves, n.from = t
      PROVE  h[n] \in T \/ \E c \in C \cap T : h[n] \in H.succ[c]
  <2>1. t \in Handled /\ Home(n) \in DOMAIN graph
        /\ (~ Split(t) => Home(n) = t) /\ (Split(t) => Home(n) \in ToSet(graph[t].nextlist))
    BY <1>5, HomeOf
  <2>2. t \in T
    BY <1>3, <2>1
  <2>3. CASE ~ Split(t)
    BY <1>4, <2>1, <2>2, <2>3
  <2>4. CASE Split(t)
    <3>1. t \in C \cap T /\ h[n] \in H.succ[t]
      BY <1>2, <1>4, <2>1, <2>2, <2>4 DEF Branching
    <3>2. QED
      BY <3>1
  <2>5. QED
    BY <2>3, <2>4
<1>6. ASSUME NEW n \in AllMoves, h[n] \in T \/ \E c \in C \cap T : h[n] \in H.succ[c]
      PROVE  n.from = t
  <2>0. PICK a, to : a = n.from /\ to = n.to
    OBVIOUS
  <2>1. /\ a \in Labels /\ Len(a) = 1 /\ to \in Labels
        /\ ~ Split(a) => Home(n) = a
        /\ Split(a) => Home(n) = Mid(a, to) /\ Len(Home(n)) = 2 /\ Len(to) = 1
    BY <2>0, HomeOf
  <2>2. CASE h[n] \in T
    <3>1. Home(n) = t
      BY <1>4, <2>2
    <3>2. Len(t) # 2
      <4>1. Len(NoLabel) = 0 /\ 0 # 2 /\ 1 # 2
        BY DEF NoLabel
      <4>2. QED
        BY <4>1, Zenon
    <3>3. QED
      BY <2>0, <2>1, <3>1, <3>2
  <2>3. CASE h[n] \notin T
    <3>1. t \in Branching /\ t \in DOMAIN graph /\ h[n] \in H.succ[t]
      BY <1>6, <2>3
    <3>2. t \in Handled /\ Split(t) /\ Home(n) \in ToSet(graph[t].nextlist)
      BY <1>2, <1>4, <3>1 DEF Branching
    <3>3. PICK m \in AllMoves : m.from = t /\ Home(n) = Home(m)
      BY <3>2, HomeAt
    <3>4. PICK y : y = m.to
      OBVIOUS
    <3>5. /\ t \in Labels /\ Len(t) = 1 /\ y \in Labels /\ Len(y) = 1
          /\ Home(n) = Mid(t, y) /\ Len(Home(n)) = 2
      BY <3>2, <3>3, <3>4, HomeOf
    <3>6. Split(a)
      <4>1. SUFFICES ASSUME Home(n) = a PROVE FALSE
        BY <2>1
      <4>2. 1 # 2
        OBVIOUS
      <4>3. QED
        BY <2>1, <3>5, <4>1, <4>2, Zenon
    <3>7. Mid(a, to) = Mid(t, y) /\ Len(to) = 1
      BY <2>1, <3>5, <3>6
    <3>8. a = t
      BY <2>1, <3>5, <3>7, LabelPairs
    <3>9. QED
      BY <2>0, <3>8
  <2>4. QED
    BY <2>2, <2>3
<1>7. QED
  BY <1>1, <1>5, <1>6 DEF StandsFor

LEMMA FinishedBodied ==
  ASSUME Finished
  PROVE  Bodied(graph) /\ IsFiniteSet(AllMoves)
<1>1. /\ IsProgram(prog) /\ keys \in Seq(Labels) /\ ToSet(keys) = DOMAIN graph
      /\ DOMAIN graph = Handled \cup UNION {Mids(b) : b \in Handled}
  BY FinishedFacts
<1>2. IsFiniteSet(DOMAIN graph)
  <2>1. PICK s : s = keys
    OBVIOUS
  <2>2. s \in Seq(Labels) /\ ToSet(s) = DOMAIN graph
    BY <1>1, <2>1
  <2>3. QED
    BY <2>2, ListFinite
<1>3. ASSUME NEW l \in DOMAIN graph PROVE graph[l].insts \in Seq(Acts)
  <2>1. <<>> \in Seq(Acts)
    BY EmptySeq
  <2>2. CASE l \in Handled
    <3>1. CASE Split(l)
      BY <2>1, <2>2, <3>1, HomeAt
    <3>2. CASE ~ Split(l)
      <4>1. PICK m \in AllMoves : l = Home(m)
        BY <2>2, <3>2, HomeAt
      <4>2. QED
        BY <4>1, HomeOf
    <3>3. QED
      BY <3>1, <3>2
  <2>3. CASE l \notin Handled
    <3>1. PICK a \in Handled : l \in Mids(a)
      BY <1>1, <2>3
    <3>2. Split(a)
      BY <3>1 DEF Mids
    <3>3. PICK m \in AllMoves : l = Home(m)
      BY <3>1, <3>2, HomeAt
    <3>4. QED
      BY <3>3, HomeOf
  <2>4. QED
    BY <2>2, <2>3
<1>4. IsFiniteSet(AllMoves)
  <2>1. IsFiniteSet(Defined)
    <3>1. Len(prog) \in Nat /\ DOMAIN prog = 1..Len(prog)
      BY <1>1 DEF IsProgram
    <3>2. PICK D : D = {k \in 1..Len(prog) : prog[k].op # "undef"}
      OBVIOUS
    <3>3. IsFiniteSet(D)
      <4>1. IsFiniteSet(1..Len(prog))
        BY <3>1, FS_Interval
      <4>2. D \subseteq 1..Len(prog)
        BY <3>2
      <4>3. QED
        BY <4>1, <4>2, FS_Subset
    <3>4. PICK f : f = [k \in D |-> prog[k]]
      OBVIOUS
    <3>5. f \in Surjection(D, Defined)
      BY <3>1, <3>2, <3>4 DEF Surjection, Defined
    <3>6. QED
      BY <3>3, <3>5, FS_Surjection
  <2>2. PICK MS : MS = {Moves(ins) : ins \in Defined}
    OBVIOUS
  <2>3. IsFiniteSet(MS)
    <3>1. PICK f : f = [ins \in Defined |-> Moves(ins)]
      OBVIOUS
    <3>2. f \in Surjection(Defined, MS)
      BY <2>2, <3>1 DEF Surjection
    <3>3. QED
      BY <2>1, <3>2, FS_Surjection
  <2>4. ASSUME NEW T \in MS PROVE IsFiniteSet(T)
    <3>1. PICK ins \in Defined : T = Moves(ins)
      BY <2>2
    <3>2. PICK x, y : T = {x, y}
      <4>1. PICK fall : fall = FallLabel(ins.at)
        OBVIOUS
      <4>2. PICK a : a = ins.at
        OBVIOUS
      <4>3. MovesBy(ins, a, fall)
        BY <4>1, <4>2, MovesAre
      <4>4. CASE ins.op = "if" /\ ins.arg # fall
        BY <3>1, <4>3, <4>4 DEF MovesBy
      <4>5. CASE ~ (ins.op = "if" /\ ins.arg # fall)
        <5>1. \E u : T = {u}
          BY <3>1, <4>3, <4>5 DEF MovesBy
        <5>2. PICK u : T = {u}
          BY <5>1
        <5>3. T = {u, u}
          BY <5>2
        <5>4. QED
          BY <5>3
      <4>6. QED
        BY <4>4, <4>5
    <3>3. QED
      <4>1. IsFiniteSet({x}) /\ T = {x} \cup {y}
        BY <3>2, FS_Singleton
      <4>2. QED
        BY <4>1, FS_AddElement
  <2>5. QED
    BY <2>2, <2>3, <2>4, FS_UNION DEF AllMoves
<1>5. QED
  BY <1>2, <1>3, <1>4 DEF Bodied

\* The blocks connect the moves of the program as the program does.
LEMMA FinishedConnects ==
  ASSUME Finished, NEW P, P = ProgramGraph, NEW S, NEW H, H = GraphOf(graph, S)
  PROVE  IsFlow(P) /\ IsFlow(H) /\ Connects(P, H, Homes, Branching)
<1>1. PICK h, C : h = Homes /\ C = Branching
  OBVIOUS
<1>2. /\ DOMAIN P.items = AllMoves
      /\ \A m \in AllMoves : P.items[m] = m.items /\ P.succ[m] = {n \in AllMoves : n.from = m.to}
  BY ProgramIs
<1>3. Bodied(graph) /\ IsFiniteSet(AllMoves)
  BY FinishedBodied
<1>4. /\ IsFlow(H) /\ DOMAIN H.items = DOMAIN graph
      /\ \A l \in DOMAIN graph : /\ H.items[l] = graph[l].insts
                                 /\ H.succ[l] = ToSet(graph[l].nextlist) \cap DOMAIN graph
  BY <1>3, GraphIsFlow
<1>5. DOMAIN graph = Handled \cup UNION {Mids(b) : b \in Handled}
  BY FinishedFacts
<1>6. /\ \A m \in AllMoves : h[m] = Home(m)
      /\ C \subseteq DOMAIN graph /\ \A c \in C : c \in Handled /\ Split(c)
  BY <1>1, <1>5 DEF Homes, Branching
<1>7. IsFlow(P)
  <2>1. \A m \in AllMoves : m.items \in Seq(Acts)
    BY HomeOf
  <2>2. \A m \in AllMoves : P.items[m] \in Seq(Acts) /\ P.succ[m] \subseteq DOMAIN P.items
    BY <1>2, <2>1
  <2>3. QED
    BY <1>2, <1>3, <2>2 DEF IsFlow
<1>8. ASSUME NEW l \in DOMAIN graph PROVE l \in C \cup {h[m] : m \in AllMoves}
  <2>1. CASE l \in Handled
    <3>1. CASE Split(l)
      BY <1>1, <2>1, <3>1 DEF Branching
    <3>2. CASE ~ Split(l)
      BY <1>6, <2>1, <3>2, HomeAt
    <3>3. QED
      BY <3>1, <3>2
  <2>2. CASE l \notin Handled
    <3>1. PICK a \in Handled : l \in Mids(a)
      BY <1>5, <2>2
    <3>2. Split(a)
      BY <3>1 DEF Mids
    <3>3. \E m \in AllMoves : l = Home(m)
      BY <3>1, <3>2, HomeAt
    <3>4. QED
      BY <1>6, <3>3
  <2>3. QED
    BY <2>1, <2>2
<1>9. ASSUME NEW m \in AllMoves
      PROVE  /\ h[m] \in DOMAIN graph /\ h[m] \notin C /\ H.items[h[m]] = P.items[m]
             /\ P.succ[m] = StandsFor(P, H, h, C, H.succ[h[m]])
  <2>1. PICK a, t, l : a = m.from /\ t = m.to /\ l = Home(m)
    OBVIOUS
  <2>2. /\ a \in Handled /\ a \in Labels /\ Len(a) = 1 /\ t \in Labels /\ (t = NoLabel \/ Len(t) = 1)
        /\ l \in DOMAIN graph /\ graph[l].insts = m.items
        /\ ToSet(graph[l].nextlist) = {t} \ {NoLabel}
        /\ ~ Split(a) => l = a
        /\ Split(a) => Len(l) = 2
    BY <2>1, HomeOf
  <2>3. h[m] = l
    BY <1>6, <2>1
  <2>4. l \notin C
    <3>1. CASE Split(a)
      <4>1. SUFFICES ASSUME l \in C PROVE FALSE
        OBVIOUS
      <4>2. l \in Handled
        BY <1>6, <4>1
      <4>3. PICK ins \in Defined : l = ins.at
        BY <4>2, HandledIs
      <4>4. Len(l) = 1 /\ 1 # 2
        BY <4>3, FinishedFacts, DefinedFacts
      <4>5. QED
        BY <2>2, <3>1, <4>4, Zenon
    <3>2. CASE ~ Split(a)
      BY <1>6, <2>2, <3>2
    <3>3. QED
      BY <3>1, <3>2
  <2>5. NoLabel \notin DOMAIN graph
    <3>1. SUFFICES ASSUME NoLabel \in DOMAIN graph PROVE FALSE
      OBVIOUS
    <3>2. Len(NoLabel) = 0 /\ 0 # 1 /\ 0 # 2
      BY DEF NoLabel
    <3>3. CASE NoLabel \in Handled
      <4>1. PICK ins \in Defined : NoLabel = ins.at
        BY <3>3, HandledIs
      <4>2. QED
        BY <4>1, FinishedFacts, DefinedFacts
    <3>4. CASE NoLabel \notin Handled
      <4>1. PICK b \in Handled : NoLabel \in Mids(b)
        BY <1>5, <3>1, <3>4
      <4>2. Split(b)
        BY <4>1 DEF Mids
      <4>3. PICK n \in AllMoves : n.from = b /\ NoLabel = Home(n)
        BY <4>1, <4>2, HomeAt
      <4>4. Len(NoLabel) = 2
        BY <4>2, <4>3, HomeOf
      <4>5. QED
        BY <3>2, <4>4, Zenon
    <3>5. QED
      BY <3>3, <3>4
  <2>6. PICK T : T = {t} \cap DOMAIN graph
    OBVIOUS
  <2>7. H.succ[l] = T
    BY <1>4, <2>2, <2>5, <2>6
  <2>8. StandsFor(P, H, h, C, T) = {n \in AllMoves : n.from = t}
    BY <1>1, <1>3, <2>2, <2>6, StandsAt
  <2>9. QED
    BY <1>2, <1>4, <2>1, <2>2, <2>3, <2>4, <2>7, <2>8
<1>10. ASSUME NEW c \in C
       PROVE  H.items[c] = <<>> /\ H.succ[c] \subseteq {h[m] : m \in AllMoves}
  <2>1. /\ graph[c].insts = <<>>
        /\ \A l \in ToSet(graph[c].nextlist) : \E m \in AllMoves : l = Home(m)
    BY <1>6, HomeAt
  <2>2. QED
    BY <1>4, <1>6, <2>1
<1>11. DOMAIN H.items = C \cup {h[m] : m \in DOMAIN P.items}
  <2>1. PICK X : X = {h[m] : m \in AllMoves}
    OBVIOUS
  <2>2. X \subseteq DOMAIN graph
    BY <1>9, <2>1
  <2>3. DOMAIN graph \subseteq C \cup X
    BY <1>8, <2>1
  <2>4. DOMAIN graph = C \cup X
    BY <1>6, <2>2, <2>3
  <2>5. X = {h[m] : m \in DOMAIN P.items}
    BY <1>2, <2>1
  <2>6. QED
    BY <1>4, <2>4, <2>5
<1>12. Connects(P, H, h, C)
  BY <1>2, <1>4, <1>6, <1>9, <1>10, <1>11 DEF Connects
<1>13. QED
  BY <1>1, <1>4, <1>7, <1>12

\* They hold the items of the moves.
LEMMA FinishedHolds ==
  ASSUME Finished, NEW S
  PROVE  Holds(GraphOf(graph, S), ProgramItems)
<1>1. PICK P, H, h, C : /\ P = ProgramGraph /\ H = GraphOf(graph, S)
                        /\ h = Homes /\ C = Branching
  OBVIOUS
<1>2. Connects(P, H, h, C)
  BY <1>1, FinishedConnects
<1>3. DOMAIN P.items = AllMoves /\ \A m \in AllMoves : P.items[m] = m.items
  BY <1>1, ProgramIs
<1>4. IsProgram(prog)
  BY FinishedFacts
<1>5. ProgramItems = UNION {ToSet(P.items[m]) : m \in AllMoves}
  BY <1>1, <1>3 DEF ProgramItems
<1>6. \A m \in AllMoves : m.items \in Seq(Acts)
  BY HomeOf
<1>7. \A m \in AllMoves : \A x : x \in ToSet(P.items[m]) <=> \E k \in DOMAIN m.items : x = m.items[k]
  BY <1>3 DEF ToSet
<1>8. ASSUME NEW l, NEW k, Spot(H, l, k)
      PROVE  \E m \in AllMoves : l = h[m] /\ k \in DOMAIN m.items /\ H.items[l][k] = m.items[k]
  <2>1. l \in DOMAIN H.items /\ k \in DOMAIN H.items[l]
    BY <1>8 DEF Spot
  <2>2. l \notin C
    <3>1. DOMAIN <<>> = {}
      OBVIOUS
    <3>2. QED
      BY <1>2, <2>1, <3>1 DEF Connects
  <2>3. PICK m \in AllMoves : l = h[m]
    BY <1>2, <1>3, <2>1, <2>2 DEF Connects
  <2>4. H.items[l] = m.items
    BY <1>2, <1>3, <2>3 DEF Connects
  <2>5. QED
    BY <2>1, <2>3, <2>4
<1>9. ASSUME NEW m \in AllMoves, NEW k \in DOMAIN m.items
      PROVE  Spot(H, h[m], k) /\ H.items[h[m]][k] = m.items[k]
  BY <1>2, <1>3 DEF Connects, Spot
<1>10. ASSUME NEW l, NEW k, Spot(H, l, k) PROVE H.items[l][k] \in ProgramItems
  <2>1. PICK m \in AllMoves : k \in DOMAIN m.items /\ H.items[l][k] = m.items[k]
    BY <1>8, <1>10
  <2>2. H.items[l][k] \in ToSet(P.items[m])
    BY <1>7, <2>1
  <2>3. QED
    BY <1>5, <2>2
<1>11. ASSUME NEW x \in ProgramItems PROVE \E l, k : Spot(H, l, k) /\ H.items[l][k] = x
  <2>1. PICK m \in AllMoves : x \in ToSet(P.items[m])
    BY <1>5
  <2>2. PICK k \in DOMAIN m.items : x = m.items[k]
    BY <1>7, <2>1
  <2>3. QED
    BY <1>9, <2>2
<1>12. ASSUME NEW l, NEW k, NEW d, NEW j, Spot(H, l, k), Spot(H, d, j),
              H.items[l][k] = H.items[d][j]
       PROVE  l = d /\ k = j
  <2>1. PICK m \in AllMoves : l = h[m] /\ k \in DOMAIN m.items /\ H.items[l][k] = m.items[k]
    BY <1>8, <1>12
  <2>2. PICK n \in AllMoves : d = h[n] /\ j \in DOMAIN n.items /\ H.items[d][j] = n.items[j]
    BY <1>8, <1>12
  <2>3. m = n /\ k = j
    BY <1>4, <1>12, <2>1, <2>2, MovesDiffer
  <2>4. QED
    BY <2>1, <2>2, <2>3
<1>13. Holds(H, ProgramItems)
  BY <1>10, <1>11, <1>12 DEF Holds
<1>14. QED
  BY <1>1, <1>13

LEMMA FinishedRight ==
  ASSUME Finished
  PROVE  Right(graph)
<1>1. ASSUME NEW S PROVE Flow(GraphOf(graph, S)) = Flow(ProgramGraph)
  <2>1. PICK P, H, h, C : /\ P = ProgramGraph /\ H = GraphOf(graph, S)
                          /\ h = Homes /\ C = Branching
    OBVIOUS
  <2>2. IsFlow(P) /\ IsFlow(H) /\ Connects(P, H, h, C)
    BY <2>1, FinishedConnects
  <2>3. Flow(H) = Flow(P)
    BY <2>2, ConnectsFlow
  <2>4. QED
    BY <2>1, <2>3
<1>2. QED
  BY <1>1, FinishedHolds DEF Right

LEMMA LabelsDiffer ==
  ASSUME Finished, NEW l
  PROVE  /\ l \in Handled => l \in Labels /\ Len(l) = 1
         /\ \A a \in Handled : l \in Mids(a) => Len(l) = 2
<1>1. IsProgram(prog)
  BY FinishedFacts
<1>2. ASSUME l \in Handled PROVE l \in Labels /\ Len(l) = 1
  <2>1. PICK ins \in Defined : l = ins.at
    BY <1>2, HandledIs
  <2>2. QED
    BY <1>1, <2>1, DefinedFacts
<1>3. ASSUME NEW a \in Handled, l \in Mids(a) PROVE Len(l) = 2
  <2>1. Split(a)
    BY <1>3 DEF Mids
  <2>2. PICK m \in AllMoves : m.from = a /\ l = Home(m)
    BY <1>3, <2>1, HomeAt
  <2>3. QED
    BY <2>1, <2>2, HomeOf
<1>4. QED
  BY <1>2, <1>3

\* An edge of the source graph arrives at the block that replaces its target.
LEMMA Arrives ==
  ASSUME Finished, NEW c \in Handled, NEW b \in ToSet(src.graph[c].nextlist), b \in DOMAIN graph
  PROVE  NondetPrev(c, b) \in ToSet(graph[b].prevlist)
<1>1. PICK g : g = src.graph
  OBVIOUS
<1>2. /\ IsProgram(prog) /\ Made(g, Len(prog)) /\ Len(prog) \in 0..Len(prog)
      /\ Handled \subseteq DOMAIN g
      /\ DOMAIN graph = Handled \cup UNION {Mids(a) : a \in Handled}
      /\ \A a \in Handled : Converted(a, graph)
  BY <1>1, FinishedFacts
<1>3. Len(b) = 1 /\ b \in DOMAIN g
  BY <1>1, <1>2 DEF Made
<1>4. b \in Handled
  <2>1. SUFFICES ASSUME b \notin Handled PROVE FALSE
    OBVIOUS
  <2>2. PICK a \in Handled : b \in Mids(a)
    BY <1>2, <2>1
  <2>3. Len(b) = 2 /\ 1 # 2
    BY <2>2, LabelsDiffer
  <2>4. QED
    BY <1>3, <2>3, Zenon
<1>5. PICK s, r : s = g[b].prevlist /\ r = g[c].nextlist
  OBVIOUS
<1>6. s \in Seq(Labels) /\ r \in Seq(Labels) /\ Occurrences(r, b) = Occurrences(s, c)
  BY <1>2, <1>3, <1>5 DEF Made, IsGraphOf, IsBlock, Agree
<1>7. b \in ToSet(r)
  BY <1>1, <1>5
<1>8. Occurrences(r, b) # 0
  BY <1>6, <1>7, OccurrencesFinite
<1>9. c \in ToSet(s)
  BY <1>6, <1>8, OccurrencesFinite
<1>10. PICK k \in DOMAIN s : s[k] = c
  BY <1>9 DEF ToSet
<1>11. graph[b].prevlist = [j \in DOMAIN s |-> NondetPrev(s[j], b)]
  BY <1>1, <1>2, <1>4, <1>5 DEF Converted
<1>12. DOMAIN graph[b].prevlist = DOMAIN s /\ graph[b].prevlist[k] = NondetPrev(c, b)
  BY <1>10, <1>11
<1>13. QED
  BY <1>12 DEF ToSet

LEMMA FinishedNamed ==
  ASSUME Finished
  PROVE  Named(graph)
<1>1. /\ IsProgram(prog) /\ Handled \subseteq DOMAIN src.graph
      /\ DOMAIN graph = Handled \cup UNION {Mids(a) : a \in Handled}
      /\ \A a \in Handled : Converted(a, graph)
  BY FinishedFacts
<1>2. ASSUME NEW a \in Handled
      PROVE  /\ NextsOf(a) \in Seq(Labels) /\ Len(NextsOf(a)) \in {0, 1, 2}
             /\ ToSet(NextsOf(a)) = ToSet(src.graph[a].nextlist)
  <2>1. PICK ins \in Defined : a = ins.at
    BY HandledIs
  <2>2. QED
    BY <2>1, BlockOf
<1>3. ASSUME NEW a \in Handled, Split(a)
      PROVE  /\ NextsOf(a)[1] \in ToSet(NextsOf(a)) /\ NextsOf(a)[2] \in ToSet(NextsOf(a))
             /\ \A l : l \in Mids(a) <=> \E n \in ToSet(NextsOf(a)) : l = Mid(a, n)
             /\ \A l : l \in ToSet(graph[a].nextlist) => \E n \in ToSet(NextsOf(a)) : l = Mid(a, n)
  <2>1. PICK s : s = NextsOf(a)
    OBVIOUS
  <2>2. s \in Seq(Labels) /\ Len(s) = 2
    BY <1>2, <1>3, <2>1 DEF Split
  <2>3. ToSet(s) = {s[1], s[2]}
    BY <2>2 DEF ToSet
  <2>4. Mids(a) = {Mid(a, s[1]), Mid(a, s[2])}
    BY <1>3, <2>1 DEF Mids, Mid
  <2>5. graph[a].nextlist = <<Mid(a, s[1]), Mid(a, s[2])>>
    BY <1>1, <1>3, <2>1 DEF Converted, Mid
  <2>6. PICK u, v, t : u = Mid(a, s[1]) /\ v = Mid(a, s[2]) /\ t = graph[a].nextlist
    OBVIOUS
  <2>7. t = <<u, v>>
    BY <2>5, <2>6
  <2>8. ToSet(t) = {u, v}
    BY <2>7, TwoOf
  <2>9. QED
    BY <2>1, <2>3, <2>4, <2>6, <2>8
<1>4. ASSUME NEW a \in DOMAIN graph, NEW b \in DOMAIN graph, b \in ToSet(graph[a].nextlist)
      PROVE  a \in ToSet(graph[b].prevlist)
  <2>1. CASE a \in Handled /\ Split(a)
    <3>1. PICK n \in ToSet(NextsOf(a)) : b = Mid(a, n)
      BY <1>3, <1>4, <2>1
    <3>2. graph[b].prevlist = <<a>>
      BY <1>1, <2>1, <3>1 DEF Converted, Mid
    <3>3. ToSet(graph[b].prevlist) = {a}
      BY <3>2, OneOf
    <3>4. QED
      BY <3>3
  <2>2. CASE a \in Handled /\ ~ Split(a)
    <3>1. graph[a].nextlist = NextsOf(a)
      BY <1>1, <2>2 DEF Converted
    <3>2. b \in ToSet(src.graph[a].nextlist)
      BY <1>2, <1>4, <2>2, <3>1
    <3>3. NondetPrev(a, b) \in ToSet(graph[b].prevlist)
      BY <1>4, <2>2, <3>2, Arrives
    <3>4. ~ (Len(NextsOf(a)) > 1)
      <4>1. PICK n : n = Len(NextsOf(a))
        OBVIOUS
      <4>2. n \in {0, 1, 2} /\ n # 2
        BY <1>2, <2>2, <4>1 DEF Split
      <4>3. QED
        BY <4>1, <4>2
    <3>5. NondetPrev(a, b) = a
      BY <3>4 DEF NondetPrev, NextsOf
    <3>6. QED
      BY <3>3, <3>5
  <2>3. CASE a \notin Handled
    <3>1. PICK c \in Handled : a \in Mids(c)
      BY <1>1, <2>3
    <3>2. Split(c)
      BY <3>1 DEF Mids
    <3>3. PICK n \in ToSet(NextsOf(c)) : a = Mid(c, n)
      BY <1>3, <3>1, <3>2
    <3>4. graph[a].nextlist = <<n>>
      BY <1>1, <3>2, <3>3 DEF Converted, Mid
    <3>5. ToSet(graph[a].nextlist) = {n}
      BY <3>4, OneOf
    <3>6. b = n /\ b \in ToSet(src.graph[c].nextlist)
      BY <1>2, <1>4, <3>5
    <3>7. NondetPrev(c, b) \in ToSet(graph[b].prevlist)
      BY <1>4, <3>6, Arrives
    <3>8. Len(NextsOf(c)) > 1
      BY <3>2 DEF Split
    <3>9. NondetPrev(c, b) = a
      BY <3>3, <3>6, <3>8 DEF NondetPrev, NextsOf, Mid
    <3>10. QED
      BY <3>7, <3>9
  <2>4. QED
    BY <2>1, <2>2, <2>3
<1>5. QED
  BY <1>4 DEF Named

\* No instruction falls back to the first one.
LEMMA FallsForward ==
  ASSUME IsProgram(prog), prog # <<>>, NEW ins \in Defined
  PROVE  FallLabel(ins.at) # prog[1].at
<1> SUFFICES ASSUME FallLabel(ins.at) = prog[1].at PROVE FALSE
  OBVIOUS
<1>1. PICK m \in DOMAIN prog : ins = prog[m] /\ prog[m].op # "undef"
  BY DEF Defined
<1>2. DOMAIN prog = 1..Len(prog) /\ Len(prog) \in Nat /\ 1 \in DOMAIN prog
  BY <1>1 DEF IsProgram
<1>3. PICK later : later = {d.at : d \in {e \in Defined : Before(ins.at, e.at)}}
  OBVIOUS
<1>4. later # {}
  <2>1. SUFFICES ASSUME later = {} PROVE FALSE
    OBVIOUS
  <2>2. FallLabel(ins.at) = NoLabel
    BY <1>3, <2>1 DEF FallLabel
  <2>3. prog[1].at # NoLabel
    BY <1>2, ProgramFacts
  <2>4. QED
    BY <2>2, <2>3
<1>5. PICK d \in Defined : Before(ins.at, d.at)
  BY <1>3, <1>4
<1>6. PICK j \in DOMAIN prog : d = prog[j] /\ prog[j].op # "undef"
  BY DEF Defined
<1>7. m < j
  <2>1. /\ prog[m].at \in Labels /\ Len(prog[m].at) = 1 /\ prog[m].at[1] \in Int
        /\ prog[j].at \in Labels /\ Len(prog[j].at) = 1 /\ prog[j].at[1] \in Int
        /\ j < m => prog[j].at[1] < prog[m].at[1]
        /\ m \in Int /\ j \in Int
    BY <1>1, <1>2, <1>6, ProgramFacts
  <2>2. prog[m].at[1] < prog[j].at[1]
    BY <1>1, <1>5, <1>6, <2>1 DEF Before
  <2>3. m = j => prog[m].at[1] = prog[j].at[1]
    OBVIOUS
  <2>4. QED
    BY <2>1, <2>2, <2>3
<1>8. PICK Q : Q = {i \in DOMAIN prog : m < i /\ prog[i].op # "undef"}
  OBVIOUS
<1>9. Q \in SUBSET Nat /\ j \in Q
  BY <1>2, <1>6, <1>7, <1>8
<1>10. PICK k \in Q : \A i \in Q : k <= i
  BY <1>9, LeastElement
<1>11. /\ k \in DOMAIN prog /\ m < k /\ prog[k].op # "undef"
       /\ \A i \in (m + 1)..(k - 1) : prog[i].op = "undef"
  BY <1>2, <1>8, <1>10
<1>12. FallLabel(prog[m].at) = prog[k].at
  BY <1>1, <1>11, FallIsNext
<1>13. 1 < k
  BY <1>2, <1>11
<1>14. prog[1].at[1] < prog[k].at[1] /\ prog[1].at[1] \in Int
  BY <1>2, <1>11, <1>13, ProgramFacts
<1>15. prog[1].at = prog[k].at
  BY <1>1, <1>12
<1>16. QED
  BY <1>14, <1>15

\* Nothing arrives at the first instruction, unless a jump does.
LEMMA FinishedEntry ==
  ASSUME Finished, ~ JumpsToEntry, NEW e, e = prog[1].at
  PROVE  keys # <<>> /\ keys[1] = e /\ RightFrom(graph, e)
<1>1. PICK g : g = src.graph
  OBVIOUS
<1>2. /\ IsProgram(prog) /\ Made(g, Len(prog)) /\ FirstKey(keys)
      /\ Handled = Seen(Len(prog)) /\ Handled \subseteq DOMAIN g /\ Handled \subseteq DOMAIN graph
      /\ \A a \in Handled : Converted(a, graph)
  BY <1>1, FinishedFacts
<1>3. keys # <<>> /\ keys[1] = e
  BY <1>2 DEF FirstKey
<1>4. prog # <<>> /\ prog[1].op # "undef"
  BY DEF Finished
<1>5. 1 \in DOMAIN prog
  BY <1>2, <1>4 DEF IsProgram
<1>6. prog[1] \in Defined
  BY <1>4, <1>5 DEF Defined
<1>7. e \in Handled /\ e \in DOMAIN g /\ e \in DOMAIN graph /\ e \in Labels /\ Len(e) = 1
  BY <1>2, <1>6, BlockOf, DefinedFacts
<1>8. PICK s : s = g[e].prevlist
  OBVIOUS
<1>9. s \in Seq(Labels) /\ ToSet(s) \subseteq Handled
  BY <1>2, <1>7, <1>8 DEF Made, IsGraphOf, IsBlock
<1>10. ASSUME NEW p \in ToSet(s) PROVE FALSE
  <2>1. PICK ins \in Defined : p = ins.at
    BY <1>9, HandledIs
  <2>2. p \in DOMAIN g /\ g[p].nextlist = Successors(ins)
    BY <1>1, <2>1, BlockOf
  <2>3. PICK r : r = g[p].nextlist
    OBVIOUS
  <2>4. r \in Seq(Labels) /\ Occurrences(r, e) = Occurrences(s, p)
    BY <1>2, <1>7, <1>8, <2>2, <2>3 DEF Made, IsGraphOf, IsBlock, Agree
  <2>5. Occurrences(s, p) # 0
    BY <1>9, OccurrencesFinite
  <2>6. e \in ToSet(r)
    BY <2>4, <2>5, OccurrencesFinite
  <2>7. FallLabel(ins.at) # e
    BY <1>2, <1>4, FallsForward
  <2>8. IsJump(ins) => ins.arg # e
    BY DEF JumpsToEntry
  <2>9. PICK f, t : f = FallLabel(ins.at) /\ t = ins.arg
    OBVIOUS
  <2>10. r = Successors(ins)
    BY <2>2, <2>3
  <2>11. CASE ins.op = "exit"
    <3>1. r = <<>>
      BY <2>10, <2>11, Zenon DEF Successors
    <3>2. QED
      BY <2>6, <3>1, NoElement
  <2>12. CASE ins.op = "goto"
    <3>1. r = <<t>>
      BY <2>9, <2>10, <2>12 DEF Successors
    <3>2. ToSet(r) = {t}
      BY <3>1, OneOf
    <3>3. QED
      BY <2>6, <2>8, <2>9, <2>12, <3>2 DEF IsJump
  <2>13. CASE ins.op = "if"
    <3>1. r = <<t, f>>
      BY <2>9, <2>10, <2>13 DEF Successors
    <3>2. ToSet(r) = {t, f}
      BY <3>1, TwoOf
    <3>3. QED
      BY <2>6, <2>7, <2>8, <2>9, <2>13, <3>2 DEF IsJump
  <2>14. CASE ins.op # "exit" /\ ins.op # "goto" /\ ins.op # "if"
    <3>1. r = <<f>>
      BY <2>9, <2>10, <2>14, Zenon DEF Successors
    <3>2. ToSet(r) = {f}
      BY <3>1, OneOf
    <3>3. QED
      BY <2>6, <2>7, <2>9, <3>2
  <2>15. QED
    BY <2>11, <2>12, <2>13, <2>14
<1>11. DOMAIN s = {}
  BY <1>10 DEF ToSet
<1>12. graph[e].prevlist = <<>>
  <2>1. PICK t : t = graph[e].prevlist
    OBVIOUS
  <2>2. t = [k \in DOMAIN s |-> NondetPrev(s[k], e)]
    BY <1>1, <1>2, <1>7, <1>8, <2>1 DEF Converted
  <2>3. t \in Seq(Labels)
    BY <1>7, <2>1, FinishedFacts DEF IsGraphOf, IsBlock
  <2>4. DOMAIN t = {}
    BY <1>11, <2>2
  <2>5. t = <<>>
    BY <2>3, <2>4
  <2>6. QED
    BY <2>1, <2>5
<1>13. ASSUME NEW S
       PROVE  FirstItems(GraphOf(graph, S), {e}) = FirstItems(ProgramGraph, ProgramGraph.start)
  <2>1. PICK P, H, h, C, T : /\ P = ProgramGraph /\ H = GraphOf(graph, S)
                             /\ h = Homes /\ C = Branching /\ T = {e} \cap DOMAIN graph
    OBVIOUS
  <2>2. IsFlow(P) /\ IsFlow(H) /\ Connects(P, H, h, C)
    BY <2>1, FinishedConnects
  <2>3. Bodied(graph)
    BY FinishedBodied
  <2>4. StandsFor(P, H, h, C, T) = {n \in AllMoves : n.from = e}
    BY <1>7, <2>1, <2>3, StandsAt
  <2>5. P.start = {n \in AllMoves : n.from = e}
    BY <2>1, ProgramIs
  <2>6. DOMAIN H.items = DOMAIN graph
    BY <2>1, <2>3, GraphIsFlow
  <2>7. T = {e} /\ T \subseteq DOMAIN H.items
    BY <1>7, <2>1, <2>6
  <2>8. FirstItems(H, T) = FirstItems(P, StandsFor(P, H, h, C, T))
    BY <2>2, <2>7, ConnectsFirst
  <2>9. FirstItems(H, {e}) = FirstItems(P, P.start)
    BY <2>4, <2>5, <2>7, <2>8
  <2>10. QED
    BY <2>1, <2>9
<1>14. RightFrom(graph, e)
  BY <1>7, <1>12, <1>13 DEF RightFrom
<1>15. QED
  BY <1>3, <1>14

LEMMA NondetEndFlows ==
  ASSUME Finished, NondetReturns
  PROVE  FlowInv'
<1>1. /\ UNCHANGED <<prog, graph, keys>> /\ phase' = "simplify"
      /\ work' = ToSet(keys) /\ label' = NoLabel
  BY DEF NondetReturns
<1>2. PICK g, k, e : g = graph /\ k = keys /\ e = prog[1].at
  OBVIOUS
<1>3. /\ Right(g)' <=> Right(g)
      /\ RightFrom(g, e)' <=> RightFrom(g, e)
      /\ FirstKey(k)' <=> FirstKey(k)
      /\ JumpsToEntry' <=> JumpsToEntry
  BY <1>1, ProgramKept
<1>4. Right(g) /\ (~ JumpsToEntry => k # <<>> /\ k[1] = e /\ RightFrom(g, e))
  BY <1>2, FinishedRight, FinishedEntry
<1>5. /\ IsGraphOf(g) /\ Bodied(g) /\ Named(g) /\ k \in Seq(Labels)
      /\ ToSet(k) = DOMAIN g /\ FirstKey(k)
  BY <1>2, FinishedFacts, FinishedBodied, FinishedNamed
<1>6. ~ JumpsToEntry => e \in DOMAIN g /\ g[e].prevlist = <<>>
  BY <1>4 DEF RightFrom
<1>7. SimplifyExact'
  BY <1>1, <1>2, <1>3, <1>4, <1>5, <1>6 DEF SimplifyExact
<1>8. QED
  BY <1>1, <1>2, <1>3, <1>4, <1>7 DEF FlowInv

-----------------------------------------------------------------------------
(***************************************************************************)
(* make writes each instruction once, with its successors, and to_nondet   *)
(* copies it.                                                              *)
(***************************************************************************)

LEMMA WrittenKept ==
  ASSUME prog' = prog, NEW g, NEW n, NEW from
  PROVE  Written(g, n, from)' <=> Written(g, n, from)
<1>1. \A ins : FallLabel(ins.at)' = FallLabel(ins.at)
  BY DEF FallLabel, Defined
<1>2. \A ins : Successors(ins)' = Successors(ins)
  BY <1>1 DEF Successors
<1>3. QED
  BY <1>2 DEF Written

LEMMA CopiedKept ==
  ASSUME src' = src, NEW a, NEW g
  PROVE  Copied(a, g)' <=> Copied(a, g)
BY DEF Copied, NextsOf, Split

\* A label that comes after a first one, or is the first one.
LEMMA FirstKept ==
  ASSUME NEW s \in Seq(Labels), NEW t \in Seq(Labels), FirstKey(s) \/ (s = <<>> /\ FirstKey(t))
  PROVE  FirstKey(s \o t)
<1>1. PICK S : S = Labels
  OBVIOUS
<1>2. PICK u : u = s \o t
  OBVIOUS
<1>3. s \in Seq(S) /\ t \in Seq(S)
  BY <1>1
<1>4. /\ u \in Seq(S) /\ Len(u) = Len(s) + Len(t) /\ Len(s) \in Nat /\ Len(t) \in Nat
      /\ \A i \in 1..Len(s) + Len(t) : u[i] = IF i <= Len(s) THEN s[i] ELSE t[i - Len(s)]
  BY <1>2, <1>3, ConcatProperties
<1>5. CASE s = <<>>
  <2>1. u = t
    BY <1>2, <1>3, <1>5
  <2>2. FirstKey(t)
    BY <1>5 DEF FirstKey
  <2>3. QED
    BY <1>2, <2>1, <2>2
<1>6. CASE s # <<>>
  <2>1. Len(s) > 0 /\ s[1] = prog[1].at
    BY <1>3, <1>6 DEF FirstKey
  <2>2. u[1] = s[1] /\ Len(u) > 0
    BY <1>4, <2>1
  <2>3. u # <<>>
    BY <2>2
  <2>4. QED
    BY <1>2, <2>1, <2>2, <2>3 DEF FirstKey
<1>7. QED
  BY <1>5, <1>6

LEMMA NondetKeepsExact ==
  ASSUME IsProgram(prog), NondetInv, NondetExact, NondetLabel
  PROVE  NondetExact'
<1>1. /\ phase = "nondet" /\ idx < Len(src.keys) /\ idx' = idx + 1
      /\ prog' = prog /\ src' = src /\ phase' = "nondet"
  BY Zenon DEF NondetLabel
<1>2. /\ src.keys \in Seq(Labels) /\ idx \in 0..Len(src.keys)
      /\ keys \in Seq(Labels) /\ ToSet(keys) = DOMAIN graph
      /\ DOMAIN graph = Handled \cup UNION {Mids(a) : a \in Handled}
  BY <1>1 DEF NondetInv
<1>3. /\ Written(src.graph, Len(prog), NoLabel) /\ FirstKey(src.keys)
      /\ idx > 0 => FirstKey(keys)
      /\ \A a \in Handled : Copied(a, graph)
  BY <1>1 DEF NondetExact
<1>4. PICK this : this = src.keys[idx + 1]
  OBVIOUS
<1>5. PICK nexts : nexts = NextsOf(this)
  OBVIOUS
<1>6. PICK new : new = NondetBlock(this, nexts)
  OBVIOUS
<1>7. /\ this \in Labels /\ graph'[this] = new
      /\ Len(nexts) = 2 => /\ graph'[Mid(this, nexts[1])].insts = <<Assume(this, FALSE)>>
                           /\ graph'[Mid(this, nexts[2])].insts = <<Assume(this, TRUE)>>
      /\ nexts \in Seq(Labels) /\ \A x \in ToSet(nexts) : x \in Labels /\ Len(x) = 1
      /\ Len(this) = 1
  <2>1. NondetAdded(this, nexts, new)
    BY <1>4, <1>5, <1>6, NondetAdds
  <2>2. QED
    BY <2>1, Zenon DEF NondetAdded
<1>8. Copied(this, graph')
  <2>1. new.insts = NondetInsts(src.graph[this].insts)
    BY <1>6 DEF NondetBlock
  <2>2. Split(this) => /\ graph'[this \o NextsOf(this)[1]].insts = <<Assume(this, FALSE)>>
                       /\ graph'[this \o NextsOf(this)[2]].insts = <<Assume(this, TRUE)>>
    BY <1>5, <1>7, Zenon DEF Split, Mid
  <2>3. QED
    BY <1>7, <2>1, <2>2, Zenon DEF Copied
<1>9. ASSUME NEW a \in Handled, a # this
      PROVE  Copied(a, graph')
  <2>1. Copied(a, graph)
    BY <1>3, <1>9
  <2>2. /\ graph'[a] = graph[a]
        /\ Split(a) => \A x \in ToSet(NextsOf(a)) : graph'[Mid(a, x)] = graph[Mid(a, x)]
    BY <1>4, <1>9, NondetLeaves
  <2>3. ASSUME Split(a)
        PROVE  NextsOf(a)[1] \in ToSet(NextsOf(a)) /\ NextsOf(a)[2] \in ToSet(NextsOf(a))
    <3>1. PICK s : s = NextsOf(a)
      OBVIOUS
    <3>2. s \in Seq(Labels) /\ Len(s) = 2
      <4>1. PICK g, n : g = src.graph /\ n = Len(prog)
        OBVIOUS
      <4>2. PICK k \in 1..idx : a = src.keys[k]
        BY DEF Handled
      <4>3. k \in DOMAIN src.keys
        BY <1>1, <1>2, <4>2
      <4>4. a \in Seen(n)
        BY <1>1, <4>1, <4>2, <4>3 DEF NondetInv, ToSet
      <4>5. Made(g, n) /\ a \in DOMAIN g /\ n \in 0..Len(prog)
        BY <1>1, <4>1, <4>4 DEF NondetInv, Made, IsProgram
      <4>6. Unique(g[a].nextlist) \in Seq(Labels)
        BY <4>5, NextsFacts
      <4>7. QED
        BY <2>3, <3>1, <4>1, <4>6 DEF NextsOf, Split
    <3>3. DOMAIN s = 1..2
      BY <3>2
    <3>4. QED
      BY <3>1, <3>3 DEF ToSet
  <2>4. QED
    BY <2>1, <2>2, <2>3, Zenon DEF Copied, Mid
<1>10. Handled' = Handled \cup {this}
  <2>1. 1..(idx + 1) = (1..idx) \cup {idx + 1}
    BY <1>2
  <2>2. QED
    BY <1>1, <1>4, <2>1 DEF Handled
<1>11. (\A a \in Handled : Copied(a, graph))'
  <2>1. PICK h : h = graph'
    OBVIOUS
  <2>2. \A a \in Handled' : Copied(a, h)
    BY <1>8, <1>9, <1>10, <2>1
  <2>3. \A a \in Handled' : Copied(a, h)'
    BY <1>1, <2>2, CopiedKept
  <2>4. QED
    BY <2>1, <2>3
<1>12. FirstKey(keys)'
  <2>1. PICK s, more : s = keys /\ more = NewLabels(this, nexts)
    OBVIOUS
  <2>2. keys' = s \o more
    BY <1>4, <1>5, <2>1, Zenon DEF NondetLabel, NextsOf
  <2>3. more \in Seq(Labels) /\ more # <<>> /\ more[1] = this
    <3>1. CASE Len(nexts) = 2
      <4>1. PICK u, v : u = Mid(this, nexts[1]) /\ v = Mid(this, nexts[2])
        OBVIOUS
      <4>2. nexts[1] \in ToSet(nexts) /\ nexts[2] \in ToSet(nexts)
        BY <1>7, <3>1 DEF ToSet
      <4>3. u \in Labels /\ v \in Labels
        BY <1>7, <4>1, <4>2, LabelPairs
      <4>4. more = <<this, u, v>>
        BY <2>1, <3>1, <4>1 DEF NewLabels, Mid
      <4>5. QED
        BY <1>7, <4>3, <4>4
    <3>2. CASE Len(nexts) # 2
      <4>1. more = <<this>>
        BY <2>1, <3>2 DEF NewLabels
      <4>2. QED
        BY <1>7, <4>1
    <3>3. QED
      BY <3>1, <3>2
  <2>4. idx > 0 => FirstKey(s)
    BY <1>3, <2>1
  <2>5. idx = 0 => s = <<>> /\ FirstKey(more)
    <3> SUFFICES ASSUME idx = 0 PROVE s = <<>> /\ FirstKey(more)
      OBVIOUS
    <3>1. Handled = {}
      BY DEF Handled
    <3>2. ToSet(s) = {}
      BY <1>2, <2>1, <3>1
    <3>3. s = <<>>
      BY <1>2, <2>1, <3>2 DEF ToSet
    <3>4. this = prog[1].at
      BY <1>3, <1>4 DEF FirstKey
    <3>5. QED
      BY <2>3, <3>3, <3>4 DEF FirstKey
  <2>6. FirstKey(s \o more)
    BY <1>2, <2>1, <2>3, <2>4, <2>5, FirstKept
  <2>7. QED
    BY <1>1, <2>2, <2>6 DEF FirstKey
<1>13. Written(src.graph, Len(prog), NoLabel)'
  <2>1. PICK g, n : g = src.graph /\ n = Len(prog)
    OBVIOUS
  <2>2. Written(g, n, NoLabel)'
    BY <1>1, <1>3, <2>1, WrittenKept DEF NoLabel
  <2>3. g = src'.graph /\ n = Len(prog')
    BY <1>1, <2>1
  <2>4. QED
    BY <2>2, <2>3 DEF NoLabel
<1>14. FirstKey(src.keys)'
  BY <1>1, <1>3 DEF FirstKey
<1>15. QED
  BY <1>11, <1>12, <1>13, <1>14 DEF NondetExact

Lists(g, a) == IF a \in DOMAIN g THEN g[a].insts ELSE <<>>

\* h lists i for l, and for the other labels what g does.
Listing(g, l, i, h) == \A a : Lists(h, a) = IF a = l THEN i ELSE Lists(g, a)

\* Only an instruction's own step gives its block something to list.
LEMMA TouchLists ==
  ASSUME NEW g, NEW l, NEW h, h = Touch(g, l)
  PROVE  \A a : Lists(h, a) = Lists(g, a)
<1>1. h = [x \in DOMAIN g \cup {l} |-> IF x \in DOMAIN g THEN g[x] ELSE NoBlock]
  BY DEF Touch, TouchAll
<1>2. NoBlock.insts = <<>>
  BY DEF NoBlock
<1>3. QED
  BY <1>1, <1>2 DEF Lists

LEMMA BlockLists ==
  ASSUME NEW g, IsGraphOf(g), NEW l \in Labels, NEW i,
         NEW h, h = [Touch(g, l) EXCEPT ![l].insts = i]
  PROVE  Listing(g, l, i, h)
<1>1. PICK t : t = Touch(g, l)
  OBVIOUS
<1>2. h = [t EXCEPT ![l].insts = i]
  BY <1>1
<1>3. IsGraphOf(t) /\ l \in DOMAIN t
  BY <1>1, TouchBlocks
<1>4. h[l].insts = i
  <2>1. PICK b : b = t[l]
    OBVIOUS
  <2>2. b = [insts |-> b.insts, nextlist |-> b.nextlist, prevlist |-> b.prevlist]
    BY <1>3, <2>1 DEF IsGraphOf, IsBlock
  <2>3. h[l] = [b EXCEPT !.insts = i]
    BY <1>2, <1>3, <2>1
  <2>4. QED
    BY <2>2, <2>3
<1>5. DOMAIN h = DOMAIN t /\ \A a \in DOMAIN t \ {l} : h[a] = t[a]
  BY <1>2
<1>6. \A a : Lists(t, a) = Lists(g, a)
  BY <1>1, TouchLists
<1>7. QED
  BY <1>3, <1>4, <1>5, <1>6 DEF Lists, Listing

LEMMA LinkLists ==
  ASSUME NEW g, IsGraphOf(g), NEW from \in Labels, NEW to \in Labels,
         NEW h, h = Link(g, from, to)
  PROVE  \A a : Lists(h, a) = Lists(g, a)
<1>1. PICK t : t = Touch(g, from)
  OBVIOUS
<1>2. PICK out : out = [t EXCEPT ![from].nextlist = Append(@, to)]
  OBVIOUS
<1>3. PICK u : u = Touch(out, to)
  OBVIOUS
<1>4. h = [u EXCEPT ![to].prevlist = Append(@, from)]
  <2>1. PICK p : p = [u EXCEPT ![to].prevlist = Append(@, from)]
    OBVIOUS
  <2>2. p = Link(g, from, to)
    BY <1>1, <1>2, <1>3, <2>1 DEF Link
  <2>3. QED
    BY <2>1, <2>2
<1>5. IsGraphOf(t) /\ from \in DOMAIN t
  <2>1. DOMAIN t = DOMAIN g \cup {from} /\ IsGraphOf(t)
    BY <1>1, TouchBlocks
  <2>2. QED
    BY <2>1
<1>6. /\ out[from].insts = t[from].insts
      /\ out[from] = [insts |-> out[from].insts, nextlist |-> out[from].nextlist,
                      prevlist |-> out[from].prevlist]
  <2>1. PICK b : b = t[from]
    OBVIOUS
  <2>2. b = [insts |-> b.insts, nextlist |-> b.nextlist, prevlist |-> b.prevlist]
    BY <1>5, <2>1 DEF IsGraphOf, IsBlock
  <2>3. out[from] = [b EXCEPT !.nextlist = Append(@, to)]
    BY <1>2, <1>5, <2>1
  <2>4. out[from] = [insts |-> b.insts, nextlist |-> Append(b.nextlist, to), prevlist |-> b.prevlist]
    BY <2>2, <2>3
  <2>5. QED
    BY <2>1, <2>4
<1>7. DOMAIN out = DOMAIN t /\ \A a \in DOMAIN t \ {from} : out[a] = t[a]
  BY <1>2
<1>8. \A a : Lists(out, a) = Lists(g, a)
  <2>1. \A a : Lists(t, a) = Lists(g, a)
    BY <1>1, TouchLists
  <2>2. QED
    BY <1>6, <1>7, <2>1 DEF Lists
<1>9. \A a : Lists(u, a) = Lists(out, a)
  BY <1>3, TouchLists
<1>10. /\ to \in DOMAIN u
       /\ u[to] = [insts |-> u[to].insts, nextlist |-> u[to].nextlist,
                   prevlist |-> u[to].prevlist]
  <2>1. u = [x \in DOMAIN out \cup {to} |-> IF x \in DOMAIN out THEN out[x] ELSE NoBlock]
    BY <1>3 DEF Touch, TouchAll
  <2>2. \A a \in DOMAIN t : t[a] = [insts |-> t[a].insts, nextlist |-> t[a].nextlist,
                                    prevlist |-> t[a].prevlist]
    BY <1>5 DEF IsGraphOf, IsBlock
  <2>3. PICK b : b = u[to]
    OBVIOUS
  <2>4. to \in DOMAIN u /\ (b = NoBlock \/ b = out[from] \/ (to \in DOMAIN t /\ b = t[to]))
    BY <1>7, <2>1, <2>3
  <2>5. b = [insts |-> b.insts, nextlist |-> b.nextlist, prevlist |-> b.prevlist]
    BY <1>6, <2>2, <2>4 DEF NoBlock
  <2>6. QED
    BY <2>3, <2>4, <2>5
<1>11. h[to].insts = u[to].insts
  <2>1. PICK b : b = u[to]
    OBVIOUS
  <2>2. h[to] = [b EXCEPT !.prevlist = Append(@, from)]
    BY <1>4, <1>10, <2>1
  <2>3. QED
    BY <1>10, <2>1, <2>2
<1>12. DOMAIN h = DOMAIN u /\ \A a \in DOMAIN u \ {to} : h[a] = u[a]
  BY <1>4
<1>13. \A a : Lists(h, a) = Lists(u, a)
  BY <1>11, <1>12 DEF Lists
<1>14. QED
  BY <1>8, <1>9, <1>13

\* After ins is added its block lists it, and the other blocks list what they did.
LEMMA AddedLists ==
  ASSUME IsProgram(prog), NEW g, NEW n \in Nat, n + 1 \in DOMAIN prog, Made(g, n),
         NEW from, from # NoLabel => \E m \in 1..n : FallsFrom(m, n, from, g),
         NEW ins, ins = prog[n + 1],
         NEW b, b = [Touch(g, ins.at) EXCEPT ![ins.at].insts = <<ins>>],
         NEW f, f = IF from = NoLabel THEN b ELSE Link(b, from, ins.at),
         NEW h, h = IF IsJump(ins) THEN Link(f, ins.at, ins.arg) ELSE f
  PROVE  Listing(g, ins.at, <<ins>>, h)
<1>1. Even(g)
  BY DEF Made, Even
<1>2. PICK l : l = ins.at
  OBVIOUS
<1>3. /\ DOMAIN prog = 1..Len(prog) /\ l \in Labels /\ Len(l) = 1
      /\ IsJump(ins) => ins.arg \in Labels /\ Len(ins.arg) = 1
  BY <1>2, ProgramFacts
<1>4. from # NoLabel => from \in Labels /\ Len(from) = 1
  <2> SUFFICES ASSUME from # NoLabel PROVE from \in Labels /\ Len(from) = 1
    OBVIOUS
  <2>1. PICK m \in 1..n : prog[m].at = from
    BY DEF FallsFrom
  <2>2. m \in DOMAIN prog
    BY <1>3
  <2>3. QED
    BY <2>1, <2>2, ProgramFacts
<1>5. PICK i : i = <<ins>>
  OBVIOUS
<1>6. b = [Touch(g, l) EXCEPT ![l].insts = i]
  BY <1>2, <1>5
<1>7. Even(b)
  <2>1. Started(g, l, b)
    BY <1>1, <1>3, <1>6, BlockEven
  <2>2. QED
    BY <2>1 DEF Started
<1>8. Listing(g, l, i, b)
  <2>1. IsGraphOf(g)
    BY <1>1 DEF Even
  <2>2. QED
    BY <1>3, <1>6, <2>1, BlockLists
<1>9. Even(f) /\ \A a : Lists(f, a) = Lists(b, a)
  <2>1. CASE from = NoLabel
    BY <1>7, <2>1
  <2>2. CASE from # NoLabel
    <3>1. f = Link(b, from, l)
      BY <1>2, <2>2
    <3>2. LinkedIn(b, from, l, f)
      BY <1>3, <1>4, <1>7, <2>2, <3>1, LinkEven
    <3>3. IsGraphOf(b)
      BY <1>7 DEF Even
    <3>4. \A a : Lists(f, a) = Lists(b, a)
      BY <1>3, <1>4, <2>2, <3>1, <3>3, LinkLists
    <3>5. QED
      BY <3>2, <3>4 DEF LinkedIn
  <2>3. QED
    BY <2>1, <2>2
<1>10. \A a : Lists(h, a) = Lists(f, a)
  <2>1. CASE ~ IsJump(ins)
    BY <2>1
  <2>2. CASE IsJump(ins)
    <3>1. PICK t : t = ins.arg
      OBVIOUS
    <3>2. h = Link(f, l, t) /\ t \in Labels
      BY <1>2, <1>3, <2>2, <3>1
    <3>3. IsGraphOf(f)
      BY <1>9 DEF Even
    <3>4. QED
      BY <1>3, <3>2, <3>3, LinkLists
  <2>3. QED
    BY <2>1, <2>2
<1>11. QED
  BY <1>2, <1>5, <1>8, <1>9, <1>10 DEF Listing

LEMMA InstructionKeepsExact ==
  ASSUME IsProgram(prog), MakeInv, MakeExact, MakeInstruction
  PROVE  MakeExact'
<1>1. PICK n, g, from, ins : n = idx /\ g = graph /\ from = falling /\ ins = prog[idx + 1]
  OBVIOUS
<1>2. PICK b : b = [Touch(g, ins.at) EXCEPT ![ins.at].insts = <<ins>>]
  OBVIOUS
<1>3. PICK f : f = IF from = NoLabel THEN b ELSE Link(b, from, ins.at)
  OBVIOUS
<1>4. PICK h : h = IF IsJump(ins) THEN Link(f, ins.at, ins.arg) ELSE f
  OBVIOUS
<1>5. /\ phase = "make" /\ n < Len(prog) /\ ins.op # "undef" /\ idx' = n + 1
      /\ keys' = Append(keys, ins.at)
      /\ falling' = IF HasFall(ins) THEN ins.at ELSE NoLabel
      /\ prog' = prog
  BY <1>1 DEF MakeInstruction
<1>6. graph' = h
  <2>1. graph' = AddInstruction(ins)
    BY <1>1 DEF MakeInstruction
  <2>2. AddInstruction(ins) = h
    BY <1>1, <1>2, <1>3, <1>4 DEF AddInstruction
  <2>3. QED
    BY <2>1, <2>2
<1>7. /\ n \in 0..Len(prog) /\ keys \in Seq(Labels) /\ ToSet(keys) = Seen(n) /\ Made(g, n)
      /\ from # NoLabel => \E m \in 1..n : FallsFrom(m, n, from, g)
  BY <1>1, <1>5 DEF MakeInv, FallsFrom
<1>8. Written(g, n, from) /\ (n > 0 => FirstKey(keys))
  BY <1>1, <1>5 DEF MakeExact
<1>9. /\ n \in Nat /\ n + 1 \in DOMAIN prog /\ DOMAIN prog = 1..Len(prog) /\ ins = prog[n + 1]
  BY <1>1, <1>5, <1>7 DEF IsProgram
<1>10. /\ DOMAIN g \cup {ins.at} \subseteq DOMAIN h /\ from # ins.at
       /\ Nexts(h, ins.at) = IF IsJump(ins) THEN <<ins.arg>> ELSE <<>>
       /\ from # NoLabel => Nexts(h, from) = Append(Nexts(g, from), ins.at)
       /\ \A a : a \notin {ins.at, from} => Nexts(h, a) = Nexts(g, a)
  <2>1. Added(g, n, from, ins, h)
    BY <1>2, <1>3, <1>4, <1>5, <1>7, <1>9, AddedEdges
  <2>2. QED
    BY <2>1 DEF Added
<1>11. \A a : Lists(h, a) = IF a = ins.at THEN <<ins>> ELSE Lists(g, a)
  <2>1. Listing(g, ins.at, <<ins>>, h)
    BY <1>2, <1>3, <1>4, <1>7, <1>9, AddedLists
  <2>2. QED
    BY <2>1 DEF Listing
<1>12. \A m, k \in 1..n + 1 : prog[m].at = prog[k].at => m = k
  <2> SUFFICES ASSUME NEW m \in 1..n + 1, NEW k \in 1..n + 1, prog[m].at = prog[k].at
               PROVE  m = k
    OBVIOUS
  <2>1. m \in DOMAIN prog /\ k \in DOMAIN prog /\ m \in Int /\ k \in Int
    BY <1>9
  <2>2. /\ m < k => prog[m].at[1] < prog[k].at[1]
        /\ k < m => prog[k].at[1] < prog[m].at[1]
        /\ prog[m].at[1] \in Int
    BY <2>1, ProgramFacts
  <2>3. QED
    BY <2>1, <2>2
<1>13. ASSUME NEW m \in 1..n + 1, prog[m].op # "undef"
       PROVE  /\ h[prog[m].at].insts = <<prog[m]>>
              /\ prog[m].at # falling' => h[prog[m].at].nextlist = Successors(prog[m])
  <2>1. CASE m = n + 1
    <3>1. prog[m] = ins /\ ins.at \in DOMAIN h
      BY <1>9, <1>10, <2>1
    <3>2. h[ins.at].insts = <<ins>>
      BY <1>11, <3>1 DEF Lists
    <3>3. h[ins.at].nextlist = IF IsJump(ins) THEN <<ins.arg>> ELSE <<>>
      BY <1>10, <3>1 DEF Nexts
    <3>4. ASSUME ins.at # falling' PROVE h[ins.at].nextlist = Successors(ins)
      <4>1. ins.op = "exit" \/ ins.op = "goto"
        BY <1>5, <3>4 DEF HasFall
      <4>2. QED
        BY <3>3, <4>1 DEF IsJump, Successors
    <3>5. QED
      BY <3>1, <3>2, <3>4
  <2>2. CASE m # n + 1
    <3>1. m \in 1..n /\ n + 1 \in 1..n + 1
      BY <1>9, <2>2
    <3>2. prog[m].at # ins.at /\ prog[m].at # NoLabel
      BY <1>9, <1>12, <2>2, <3>1, ProgramFacts
    <3>3. prog[m].at \in DOMAIN g /\ prog[m].at \in DOMAIN h
      BY <1>7, <1>10, <1>13, <3>1 DEF Made, Seen
    <3>4. h[prog[m].at].insts = <<prog[m]>>
      <4>1. g[prog[m].at].insts = <<prog[m]>>
        BY <1>8, <1>13, <3>1 DEF Written
      <4>2. Lists(h, prog[m].at) = Lists(g, prog[m].at)
        BY <1>11, <3>2
      <4>3. QED
        BY <3>3, <4>1, <4>2 DEF Lists
    <3>5. h[prog[m].at].nextlist = Nexts(h, prog[m].at)
          /\ g[prog[m].at].nextlist = Nexts(g, prog[m].at)
      BY <3>3 DEF Nexts
    <3>6. h[prog[m].at].nextlist = Successors(prog[m])
      <4>1. CASE prog[m].at # from
        <5>1. g[prog[m].at].nextlist = Successors(prog[m])
          BY <1>8, <1>13, <3>1, <4>1 DEF Written
        <5>2. QED
          BY <1>10, <3>2, <3>5, <4>1, <5>1
      <4>2. CASE prog[m].at = from
        <5>1. PICK k \in 1..n : FallsFrom(k, n, from, g)
          BY <1>7, <3>2, <4>2
        <5>2. k \in 1..n + 1
          BY <1>9
        <5>3. k = m
          BY <1>12, <4>2, <5>1, <5>2 DEF FallsFrom
        <5>4. /\ HasFall(prog[m])
              /\ \A j \in (m + 1)..n : prog[j].op = "undef"
              /\ g[from].nextlist = IF IsJump(prog[m]) THEN <<prog[m].arg>> ELSE <<>>
          BY <5>1, <5>3 DEF FallsFrom
        <5>5. m \in DOMAIN prog /\ m < n + 1 /\ (n + 1) - 1 = n
          BY <1>9, <3>1
        <5>6. FallLabel(prog[m].at) = ins.at
          BY <1>5, <1>9, <1>13, <5>4, <5>5, FallIsNext
        <5>7. h[prog[m].at].nextlist = Append(g[from].nextlist, ins.at)
          BY <1>10, <3>2, <3>5, <4>2
        <5>8. CASE IsJump(prog[m])
          <6>1. prog[m].op = "if"
            BY <5>4, <5>8 DEF HasFall, IsJump
          <6>2. PICK x, y : x = prog[m].arg /\ y = ins.at
            OBVIOUS
          <6>3. Append(<<x>>, y) = <<x, y>>
            BY AppendTwo
          <6>4. h[prog[m].at].nextlist = <<prog[m].arg, FallLabel(prog[m].at)>>
            BY <5>4, <5>6, <5>7, <5>8, <6>2, <6>3
          <6>5. QED
            BY <6>1, <6>4 DEF Successors
        <5>9. CASE ~ IsJump(prog[m])
          <6>1. Append(<<>>, ins.at) = <<ins.at>>
            OBVIOUS
          <6>2. h[prog[m].at].nextlist = <<FallLabel(prog[m].at)>>
            BY <5>4, <5>6, <5>7, <5>9, <6>1
          <6>3. prog[m].op \notin {"exit", "goto", "if"}
            BY <5>4, <5>9 DEF HasFall, IsJump
          <6>4. QED
            BY <6>2, <6>3 DEF Successors
        <5>10. QED
          BY <5>8, <5>9
      <4>3. QED
        BY <4>1, <4>2
    <3>7. QED
      BY <3>4, <3>6
  <2>3. QED
    BY <2>1, <2>2
<1>14. Written(graph, idx, falling)'
  <2>1. PICK e : e = falling'
    OBVIOUS
  <2>2. Written(h, n + 1, e)
    BY <1>13, <2>1 DEF Written
  <2>3. Written(h, n + 1, e)'
    BY <1>5, <2>2, WrittenKept
  <2>4. QED
    BY <1>5, <1>6, <2>1, <2>3
<1>15. FirstKey(keys)'
  <2>1. PICK s, x : s = keys /\ x = ins.at
    OBVIOUS
  <2>2. x \in Labels
    BY <1>9, <2>1, ProgramFacts
  <2>3. PICK t : t = <<x>>
    OBVIOUS
  <2>4. Append(s, x) = s \o t /\ t \in Seq(Labels)
    <3>1. PICK S : S = Labels
      OBVIOUS
    <3>2. s \in Seq(S) /\ x \in S
      BY <1>7, <2>1, <2>2, <3>1
    <3>3. QED
      BY <2>3, <3>1, <3>2, AppendIsConcat
  <2>5. n = 0 => s = <<>> /\ FirstKey(t)
    <3> SUFFICES ASSUME n = 0 PROVE s = <<>> /\ FirstKey(t)
      OBVIOUS
    <3>1. ToSet(s) = {}
      BY <1>7, <2>1 DEF Seen
    <3>2. s = <<>>
      BY <1>7, <2>1, <3>1 DEF ToSet
    <3>3. x = prog[1].at
      BY <1>9, <2>1
    <3>4. QED
      BY <2>3, <3>2, <3>3 DEF FirstKey
  <2>6. FirstKey(s) \/ (s = <<>> /\ FirstKey(t))
    BY <1>8, <1>9, <2>1, <2>5
  <2>7. FirstKey(s \o t)
    BY <1>7, <2>1, <2>4, <2>6, FirstKept
  <2>8. QED
    BY <1>5, <2>1, <2>4, <2>7 DEF FirstKey
<1>16. QED
  BY <1>14, <1>15 DEF MakeExact

LEMMA SkipKeepsExact ==
  ASSUME IsProgram(prog), prog[1].op # "undef", MakeInv, MakeExact, SkipUndefined
  PROVE  MakeExact'
<1>1. /\ phase = "make" /\ prog[idx + 1].op = "undef" /\ idx' = idx + 1 /\ idx < Len(prog)
      /\ prog' = prog /\ graph' = graph /\ keys' = keys /\ falling' = falling
  BY DEF SkipUndefined
<1>2. PICK n, g, from : n = idx /\ g = graph /\ from = falling
  OBVIOUS
<1>3. n \in Nat /\ Written(g, n, from) /\ (n > 0 => FirstKey(keys))
  BY <1>1, <1>2 DEF MakeInv, MakeExact, IsProgram
<1>4. n > 0
  BY <1>1, <1>2, <1>3
<1>5. Written(g, n + 1, from)
  <2>1. \A m \in 1..n + 1 : m = n + 1 \/ m \in 1..n
    BY <1>3
  <2>2. QED
    BY <1>1, <1>2, <1>3, <2>1 DEF Written
<1>6. Written(g, n + 1, from)'
  BY <1>1, <1>5, WrittenKept
<1>7. Written(graph, idx, falling)'
  BY <1>1, <1>2, <1>6
<1>8. FirstKey(keys)'
  BY <1>1, <1>3, <1>4 DEF FirstKey
<1>9. QED
  BY <1>7, <1>8 DEF MakeExact

LEMMA MakeEndsExact ==
  ASSUME IsProgram(prog), prog # <<>>, MakeInv, MakeExact, MakeReturns
  PROVE  NondetExact'
<1>1. /\ phase = "make" /\ idx = Len(prog) /\ prog' = prog /\ idx' = 0 /\ falling = NoLabel
      /\ src' = [graph |-> graph, keys |-> keys]
  BY DEF MakeReturns
<1>2. PICK n, g : n = Len(prog) /\ g = graph
  OBVIOUS
<1>3. n > 0
  BY <1>2 DEF IsProgram
<1>4. Written(g, n, NoLabel) /\ FirstKey(keys)
  BY <1>1, <1>2, <1>3 DEF MakeExact
<1>5. Written(g, n, NoLabel)'
  BY <1>1, <1>4, WrittenKept DEF NoLabel
<1>6. src'.graph = g /\ src'.keys = keys /\ Len(prog') = n
  BY <1>1, <1>2
<1>7. Written(src.graph, Len(prog), NoLabel)'
  BY <1>5, <1>6 DEF NoLabel
<1>8. FirstKey(src.keys)'
  BY <1>1, <1>4, <1>6 DEF FirstKey
<1>9. Handled' = {}
  BY <1>1 DEF Handled
<1>10. QED
  BY <1>1, <1>7, <1>8, <1>9 DEF NondetExact

-----------------------------------------------------------------------------
(***************************************************************************)
(* What the analysis is given.  The jumps of a tame program go forward, so *)
(* every edge of the graph leads to a label with a greater Place, before   *)
(* simplify and through its merges; that and whole edges are all it takes. *)
(***************************************************************************)
LEMMA PlaceOf ==
  ASSUME NEW l \in Labels, l # NoLabel
  PROVE  Place(l) \in Nat /\ Len(l) \in Nat \ {0} /\ l[1] \in Nat
<1>1. l \in Seq(Nat)
  BY DEF Labels
<1>2. Len(l) \in Nat \ {0} /\ l[1] \in Nat
  BY <1>1 DEF NoLabel
<1>3. QED
  BY <1>2 DEF Place

\* Nothing is made by looking at the successor of a block: it is there.
LEMMA ForwardTouched ==
  ASSUME NEW g, NEW K, Linked(g, K), Forward(g, K), NEW l \in DOMAIN g,
         NEW h, h = TouchNext(g, l)
  PROVE  DOMAIN h = DOMAIN g /\ (\A x \in DOMAIN g : h[x] = g[x]) /\ Forward(h, K)
<1>1. DOMAIN h = DOMAIN g /\ \A x \in DOMAIN g : h[x] = g[x]
  <2>1. CASE Len(g[l].nextlist) = 1
    <3>1. PICK n : n = g[l].nextlist[1]
      OBVIOUS
    <3>2. g[l].nextlist \in Seq(Labels)
      BY DEF Linked, IsGraphOf, IsBlock
    <3>3. n \in ToSet(g[l].nextlist)
      BY <2>1, <3>1, <3>2 DEF ToSet
    <3>4. n \in DOMAIN g
      BY <3>3 DEF Forward
    <3>5. h = [x \in DOMAIN g \cup {n} |-> IF x \in DOMAIN g THEN g[x] ELSE NoBlock]
      BY <2>1, <3>1 DEF TouchNext, Touch, TouchAll
    <3>6. QED
      BY <3>4, <3>5
  <2>2. CASE Len(g[l].nextlist) # 1
    BY <2>2 DEF TouchNext
  <2>3. QED
    BY <2>1, <2>2
<1>2. QED
  BY <1>1 DEF Forward

\* A merge: the edges of n lie ahead of l too.
LEMMA ForwardAbsorbed ==
  ASSUME NEW g, NEW K, Linked(g, K), Forward(g, K), NoLabel \notin K,
         NEW l \in DOMAIN g, CanAbsorb(g, l), NEW h, h = Absorbed(g, l)
  PROVE  Forward(h, K)
<1>1. PICK n : n = g[l].nextlist[1]
  OBVIOUS
<1>2. PICK succs : succs = ToSet(g[n].nextlist)
  OBVIOUS
<1>3. /\ DOMAIN g \subseteq K
      /\ \A a \in DOMAIN g : \A b \in ToSet(g[a].nextlist) : b \in DOMAIN g /\ Place(a) < Place(b)
      /\ \A a \in DOMAIN g : g[a].prevlist = <<>> => a = prog[1].at
  BY DEF Forward
<1>4. \A a \in DOMAIN g : IsBlock(g[a]) /\ a \in Labels /\ a # NoLabel
  BY <1>3 DEF Linked, IsGraphOf
<1>5. n \in ToSet(g[l].nextlist)
  <2>1. g[l].nextlist \in Seq(Labels) /\ Len(g[l].nextlist) = 1
    BY <1>4 DEF IsBlock, CanAbsorb
  <2>2. QED
    BY <1>1, <2>1 DEF ToSet
<1>6. n \in DOMAIN g /\ Place(l) < Place(n)
  BY <1>3, <1>5
<1>7. /\ n # l /\ ToSet(g[l].nextlist) = {n} /\ n \notin succs
      /\ \A a \in DOMAIN g : n \in ToSet(g[a].nextlist) => a = l
  BY <1>1, <1>2, <1>3, <1>6, OnlyEdge
<1>8. Merged(g, K, l, n, h)
  BY <1>1, <1>3, <1>6, AbsorbedBlocks
<1>9. succs \subseteq DOMAIN g
  BY <1>2, <1>3, <1>6
<1>10. /\ DOMAIN h = DOMAIN g \ {n}
       /\ \A x \in DOMAIN h :
            /\ h[x].nextlist = IF x = l THEN g[n].nextlist ELSE g[x].nextlist
            /\ h[x].prevlist = IF x \in succs THEN ReplaceAll(g[x].prevlist, n, l)
                               ELSE g[x].prevlist
  BY <1>2, <1>7, <1>8, <1>9 DEF Merged
<1>11. ASSUME NEW a \in DOMAIN h, NEW b \in ToSet(h[a].nextlist)
       PROVE  b \in DOMAIN h /\ Place(a) < Place(b)
  <2>1. a \in DOMAIN g /\ a # n
    BY <1>10
  <2>2. CASE a = l
    <3>1. b \in succs
      BY <1>2, <1>10, <1>11, <2>2
    <3>2. b \in DOMAIN g /\ Place(n) < Place(b) /\ b # n
      BY <1>2, <1>3, <1>6, <1>7, <3>1
    <3>3. Place(l) \in Nat /\ Place(n) \in Nat /\ Place(b) \in Nat
      BY <1>4, <1>6, <3>2, PlaceOf
    <3>4. QED
      BY <1>6, <1>10, <2>2, <3>2, <3>3
  <2>3. CASE a # l
    <3>1. b \in ToSet(g[a].nextlist)
      BY <1>10, <1>11, <2>3
    <3>2. QED
      BY <1>3, <1>7, <1>10, <2>1, <2>3, <3>1
  <2>4. QED
    BY <2>2, <2>3
<1>12. ASSUME NEW a \in DOMAIN h, h[a].prevlist = <<>> PROVE a = prog[1].at
  <2>1. a \in DOMAIN g /\ g[a].prevlist \in Seq(Labels)
    BY <1>4, <1>10 DEF IsBlock
  <2>2. g[a].prevlist = <<>>
    <3>1. CASE a \in succs
      <4>1. PICK s : s = g[a].prevlist
        OBVIOUS
      <4>2. h[a].prevlist = [i \in DOMAIN s |-> IF s[i] = n THEN l ELSE s[i]]
        BY <1>10, <3>1, <4>1 DEF ReplaceAll
      <4>3. DOMAIN s = {}
        <5>1. DOMAIN h[a].prevlist = DOMAIN s
          BY <4>2
        <5>2. QED
          BY <1>12, <5>1
      <4>4. DOMAIN s = 1..Len(s) /\ Len(s) \in Nat
        BY <2>1, <4>1
      <4>5. Len(s) = 0
        BY <4>3, <4>4
      <4>6. QED
        BY <2>1, <4>1, <4>5
    <3>2. CASE a \notin succs
      BY <1>10, <1>12, <3>2
    <3>3. QED
      BY <3>1, <3>2
  <2>3. QED
    BY <1>3, <2>1, <2>2
<1>13. QED
  BY <1>3, <1>10, <1>11, <1>12 DEF Forward

\* What Tame says of the instructions.
LEMMA TameFacts ==
  ASSUME IsProgram(prog), prog # <<>>, Tame
  PROVE  /\ ~ JumpsToFallthrough /\ ~ JumpsToEntry
         /\ LiveMoves = AllMoves
         /\ \A ins \in Defined : IsJump(ins) =>
              ins.arg[1] > ins.at[1] /\ \E d \in Defined : ins.arg = d.at
<1>1. /\ ~ JumpsToFallthrough /\ LiveMoves = DOMAIN ProgramGraph.items
      /\ \A ins \in Defined : IsJump(ins) =>
           Before(ins.at, ins.arg) /\ ins.arg \in {d.at : d \in Defined}
  BY DEF Tame
<1>2. LiveMoves = AllMoves
  BY <1>1, ProgramIs
<1>3. ASSUME NEW ins \in Defined, IsJump(ins)
      PROVE  ins.arg[1] > ins.at[1] /\ \E d \in Defined : ins.arg = d.at
  <2>1. /\ ins.at \in Labels /\ Len(ins.at) = 1 /\ ins.arg \in Labels /\ Len(ins.arg) = 1
    BY <1>3, DefinedFacts
  <2>2. ins.at[1] < ins.arg[1]
    BY <1>1, <1>3, <2>1 DEF Before
  <2>3. ins.at \in Seq(Nat) /\ ins.arg \in Seq(Nat)
    BY <2>1 DEF Labels
  <2>4. ins.at[1] \in Int /\ ins.arg[1] \in Int
    BY <2>1, <2>3
  <2>5. QED
    BY <1>1, <1>3, <2>2, <2>4
<1>4. ~ JumpsToEntry
  <2>1. SUFFICES ASSUME NEW ins \in Defined, IsJump(ins), ins.arg = prog[1].at PROVE FALSE
    BY DEF JumpsToEntry
  <2>2. PICK m \in DOMAIN prog : ins = prog[m]
    BY DEF Defined
  <2>3. DOMAIN prog = 1..Len(prog) /\ Len(prog) \in Nat /\ 1 \in DOMAIN prog
    BY <2>2 DEF IsProgram
  <2>4. /\ prog[1].at[1] \in Int /\ prog[m].at[1] \in Int
        /\ 1 < m => prog[1].at[1] < prog[m].at[1]
    BY <2>3, ProgramFacts
  <2>5. prog[1].at[1] > prog[m].at[1]
    BY <1>3, <2>1, <2>2
  <2>6. ~ (1 < m) /\ m # 1
    BY <2>4, <2>5
  <2>7. QED
    BY <2>2, <2>3, <2>6
<1>5. QED
  BY <1>1, <1>2, <1>3, <1>4

\* What runs after an instruction that does not jump is an instruction, and
\* lies ahead.
LEMMA FallsAhead ==
  ASSUME IsProgram(prog), NEW ins \in Defined, FallLabel(ins.at) # NoLabel
  PROVE  FallLabel(ins.at)[1] > ins.at[1] /\ \E d \in Defined : FallLabel(ins.at) = d.at
<1>1. PICK m \in DOMAIN prog : ins = prog[m] /\ prog[m].op # "undef"
  BY DEF Defined
<1>2. DOMAIN prog = 1..Len(prog) /\ Len(prog) \in Nat
  BY DEF IsProgram
<1>3. PICK later : later = {d.at : d \in {e \in Defined : Before(ins.at, e.at)}}
  OBVIOUS
<1>4. later # {}
  BY <1>3 DEF FallLabel
<1>5. PICK d \in Defined : Before(ins.at, d.at)
  BY <1>3, <1>4
<1>6. PICK j \in DOMAIN prog : d = prog[j] /\ prog[j].op # "undef"
  BY DEF Defined
<1>7. m < j
  <2>1. /\ prog[m].at \in Labels /\ Len(prog[m].at) = 1 /\ prog[m].at[1] \in Int
        /\ prog[j].at \in Labels /\ Len(prog[j].at) = 1 /\ prog[j].at[1] \in Int
        /\ j < m => prog[j].at[1] < prog[m].at[1]
        /\ m \in Int /\ j \in Int
    BY <1>1, <1>2, <1>6, ProgramFacts
  <2>2. prog[m].at[1] < prog[j].at[1]
    BY <1>1, <1>5, <1>6, <2>1 DEF Before
  <2>3. m = j => prog[m].at[1] = prog[j].at[1]
    OBVIOUS
  <2>4. QED
    BY <2>1, <2>2, <2>3
<1>8. PICK Q : Q = {i \in DOMAIN prog : m < i /\ prog[i].op # "undef"}
  OBVIOUS
<1>9. Q \in SUBSET Nat /\ j \in Q
  BY <1>2, <1>6, <1>7, <1>8
<1>10. PICK k \in Q : \A i \in Q : k <= i
  BY <1>9, LeastElement
<1>11. /\ k \in DOMAIN prog /\ m < k /\ prog[k].op # "undef"
       /\ \A i \in (m + 1)..(k - 1) : prog[i].op = "undef"
  BY <1>2, <1>8, <1>10
<1>12. FallLabel(prog[m].at) = prog[k].at
  BY <1>1, <1>11, FallIsNext
<1>13. prog[m].at[1] < prog[k].at[1] /\ prog[k].at[1] \in Int /\ prog[m].at[1] \in Int
  BY <1>11, ProgramFacts
<1>14. prog[k] \in Defined
  BY <1>11 DEF Defined
<1>15. QED
  BY <1>1, <1>12, <1>13, <1>14

\* The moves of an instruction lead ahead, to instructions, and there are some.
LEMMA MovesAhead ==
  ASSUME IsProgram(prog), prog # <<>>, Tame, NEW ins \in Defined
  PROVE  /\ Moves(ins) # {}
         /\ \A m \in Moves(ins) : m.from = ins.at
              /\ (m.to # NoLabel => m.to[1] > m.from[1] /\ \E d \in Defined : m.to = d.at)
<1>1. PICK a, fall : a = ins.at /\ fall = FallLabel(ins.at)
  OBVIOUS
<1>2. MovesBy(ins, a, fall)
  BY <1>1, MovesAre
<1>3. fall # NoLabel => fall[1] > a[1] /\ \E d \in Defined : fall = d.at
  BY <1>1, FallsAhead
<1>4. IsJump(ins) => ins.arg[1] > a[1] /\ \E d \in Defined : ins.arg = d.at
  BY <1>1, TameFacts
<1> DEFINE Ahead(M) == /\ M # {}
                       /\ \A m \in M : m.from = a
                            /\ (m.to # NoLabel => m.to[1] > m.from[1] /\ \E d \in Defined : m.to = d.at)
<1>5. ASSUME NEW i, NEW t, t # NoLabel => t[1] > a[1] /\ \E d \in Defined : t = d.at
      PROVE  Ahead({Move(i, a, t)})
  <2>1. PICK m : m = Move(i, a, t)
    OBVIOUS
  <2>2. m.from = a /\ m.to = t
    BY <2>1, MoveIs
  <2>3. QED
    BY <1>5, <2>1, <2>2
<1>6. ASSUME NEW i, NEW t, t # NoLabel => t[1] > a[1] /\ \E d \in Defined : t = d.at,
             NEW j, NEW u, u # NoLabel => u[1] > a[1] /\ \E d \in Defined : u = d.at
      PROVE  Ahead({Move(i, a, t), Move(j, a, u)})
  <2>1. PICK M, N : M = {Move(i, a, t)} /\ N = {Move(j, a, u)}
    OBVIOUS
  <2>2. Ahead(M) /\ Ahead(N)
    BY <1>5, <1>6, <2>1
  <2>3. {Move(i, a, t), Move(j, a, u)} = M \cup N
    BY <2>1
  <2>4. QED
    BY <2>2, <2>3
<1>7. Ahead(Moves(ins))
  <2> HIDE DEF Ahead
  <2>1. CASE ins.op = "exit"
    <3>1. Moves(ins) = {Move(<<ins>>, a, NoLabel)}
      BY <1>2, <2>1 DEF MovesBy
    <3>2. QED
      BY <1>5, <3>1
  <2>2. CASE ins.op = "goto"
    <3>1. Moves(ins) = {Move(<<>>, a, ins.arg)} /\ IsJump(ins)
      BY <1>2, <2>2 DEF MovesBy, IsJump
    <3>2. QED
      BY <1>4, <1>5, <3>1
  <2>3. CASE ins.op = "if" /\ ins.arg = fall
    <3>1. Moves(ins) = {Move(<<>>, a, ins.arg)} /\ IsJump(ins)
      BY <1>2, <2>3 DEF MovesBy, IsJump
    <3>2. QED
      BY <1>4, <1>5, <3>1
  <2>4. CASE ins.op = "if" /\ ins.arg # fall
    <3>1. PICK i, j : i = <<Assume(a, FALSE)>> /\ j = <<Assume(a, TRUE)>>
      OBVIOUS
    <3>2. PICK x : x = ins.arg
      OBVIOUS
    <3>3. Moves(ins) = {Move(i, a, x), Move(j, a, fall)} /\ IsJump(ins)
      BY <1>2, <2>4, <3>1, <3>2 DEF MovesBy, IsJump
    <3>4. x # NoLabel => x[1] > a[1] /\ \E d \in Defined : x = d.at
      BY <1>4, <3>2, <3>3
    <3>5. QED
      BY <1>3, <1>6, <3>3, <3>4
  <2>5. CASE ins.op \notin {"exit", "goto", "if"}
    <3>1. Moves(ins) = {Move(ExpandLockAdd(ins), a, fall)}
      BY <1>2, <2>5 DEF MovesBy
    <3>2. QED
      BY <1>3, <1>5, <3>1
  <2>6. QED
    BY <2>1, <2>2, <2>3, <2>4, <2>5
<1>8. QED
  BY <1>1, <1>7

\* Only the moves of the first instruction are live without a live move that
\* leads to them.
LEMMA LiveArrives ==
  ASSUME Tame, IsProgram(prog), prog # <<>>, IsFlow(ProgramGraph),
         NEW n \in AllMoves, n.from # prog[1].at
  PROVE  \E m \in AllMoves : m.to = n.from
<1>1. PICK P : P = ProgramGraph
  OBVIOUS
<1>2. /\ DOMAIN P.items = AllMoves
      /\ \A m \in AllMoves : P.succ[m] = {x \in AllMoves : x.from = m.to}
      /\ P.start = {m \in AllMoves : m.from = prog[1].at}
  BY <1>1, ProgramIs
<1>3. LiveMoves = AllMoves
  BY TameFacts
<1>0. PICK S : S = P.start
  OBVIOUS
<1> DEFINE U       == DOMAIN P.items
           bound   == Cardinality(U)
           next(R) == UNION {P.succ[m] : m \in R}
           body(g) == [k \in 0..bound |-> IF k = 0 THEN S ELSE g[k - 1] \cup next(g[k - 1])]
           Eq(g)   == g = body(g)
           grown   == CHOOSE g : Eq(g)
           add     == [R \in SUBSET U |-> R \cup next(R)]
           D       == S \cup next(U)
<1>4. bound \in Nat /\ IsFiniteSet(U) /\ S \subseteq U
  BY <1>0, <1>1, <1>2, FS_CardinalityType DEF IsFlow
<1>5. ASSUME NEW R \in SUBSET U PROVE next(R) \subseteq U /\ next(R) \subseteq next(U)
  BY <1>2
<1>6. \A R \in SUBSET U : add[R] \subseteq U /\ add[R] = R \cup next(R)
  <2> HIDE DEF next
  <2>1. QED
    BY <1>5
<1>7. ASSUME NEW f, Iterates(f, S, add, bound) PROVE Eq(f)
  <2>1. \A k \in 0..bound : f[k] \subseteq U
    <3>1. \A R \in SUBSET U : add[R] \subseteq U
      <4> HIDE DEF add, U
      <4>1. QED
        BY <1>6
    <3>2. bound \in Nat /\ S \subseteq U
      BY <1>4
    <3> HIDE DEF bound, add, U, next
    <3>3. QED
      BY <1>7, <3>1, <3>2, IterationStays
  <2>2. ASSUME NEW k \in 0..bound, k # 0 PROVE f[k] = f[k - 1] \cup next(f[k - 1])
    <3>1. f[k - 1] \subseteq U
      BY <1>4, <2>1, <2>2
    <3>2. f[k] = add[f[k - 1]]
      <4> HIDE DEF add, bound
      <4>1. QED
        BY <1>7, <2>2 DEF Iterates
    <3> HIDE DEF next, U, bound, add
    <3>3. QED
      BY <1>6, <3>1, <3>2
  <2>3. f[0] = S /\ f = [k \in 0..bound |-> f[k]]
    BY <1>4, <1>7 DEF Iterates
  <2> HIDE DEF next, bound
  <2>4. QED
    BY <2>2, <2>3
<1>8. Eq(grown)
  <2>1. PICK f : Iterates(f, S, add, bound)
    <3> HIDE DEF bound, add
    <3>1. QED
      BY <1>4, IterationExists
  <2>2. Eq(f)
    BY <1>7, <2>1
  <2> HIDE DEF Eq
  <2>3. QED
    BY <2>2
<1> HIDE DEF grown
<1>9. LiveMoves = grown[bound]
  BY <1>0, <1>1 DEF LiveMoves, grown
<1>10. \A k \in 0..bound :
         grown[k] = IF k = 0 THEN S ELSE grown[k - 1] \cup next(grown[k - 1])
  <2>1. \A k \in 0..bound :
          body(grown)[k] = IF k = 0 THEN S ELSE grown[k - 1] \cup next(grown[k - 1])
    <3> HIDE DEF next, bound
    <3>1. QED
      OBVIOUS
  <2>2. grown = body(grown)
    BY <1>8
  <2> HIDE DEF body
  <2>3. QED
    BY <2>1, <2>2
<1>11. grown[bound] \subseteq D
  <2> DEFINE I == {k \in 0..bound : grown[k] \subseteq D}
  <2>1. 0 \in I
    <3>1. 0 \in 0..bound
      BY <1>4
    <3>2. grown[0] = S
      <4> HIDE DEF next, bound
      <4>1. QED
        BY <1>10, <3>1, Zenon
    <3> HIDE DEF next, bound
    <3>3. QED
      BY <3>1, <3>2
  <2>2. D \subseteq U
    <3> HIDE DEF next
    <3>1. QED
      BY <1>4, <1>5
  <2>3. ASSUME NEW k \in 0..bound - 1, k \in I PROVE k + 1 \in I
    <3> HIDE DEF next, bound, U
    <3>1. k + 1 \in 0..bound /\ k + 1 # 0 /\ (k + 1) - 1 = k
      BY <1>4
    <3>2. grown[k + 1] = grown[(k + 1) - 1] \cup next(grown[(k + 1) - 1])
      BY <1>10, <3>1
    <3>3. grown[k + 1] = grown[k] \cup next(grown[k])
      BY <3>1, <3>2
    <3>4. next(grown[k]) \subseteq next(U)
      BY <1>5, <2>2, <2>3
    <3>5. QED
      BY <2>3, <3>1, <3>3, <3>4
  <2>4. 0..bound \subseteq I
    <3> HIDE DEF I, bound
    <3>1. QED
      BY <1>4, <2>1, <2>3, IntervalInduction
  <2>5. bound \in 0..bound
    BY <1>4
  <2> HIDE DEF bound, D
  <2>6. QED
    BY <2>4, <2>5
<1>12. n \in D
  <2> HIDE DEF D, bound
  <2>1. QED
    BY <1>3, <1>9, <1>11
<1>13. n \notin S
  BY <1>0, <1>2
<1>14. PICK m \in AllMoves : n \in P.succ[m]
  BY <1>2, <1>12, <1>13
<1>15. QED
  BY <1>2, <1>14

\* Where the blocks of a move lead to.
LEMMA HomeAhead ==
  ASSUME Finished, Tame, NEW m \in AllMoves
  PROVE  /\ Place(m.from) = 2 * m.from[1] + 1 /\ m.from[1] \in Nat
         /\ Split(m.from) => Place(Home(m)) = 2 * m.from[1] + 2
         /\ Place(Home(m)) \in {2 * m.from[1] + 1, 2 * m.from[1] + 2}
         /\ m.to # NoLabel => m.to \in Handled /\ m.to \in DOMAIN graph /\ Place(Home(m)) < Place(m.to)
<1>1. /\ m.from \in Handled /\ m.from \in Labels /\ Len(m.from) = 1
      /\ m.to \in Labels /\ (m.to = NoLabel \/ Len(m.to) = 1)
      /\ ~ Split(m.from) => Home(m) = m.from
      /\ Split(m.from) => Home(m) = Mid(m.from, m.to) /\ Len(Home(m)) = 2 /\ Len(m.to) = 1
  BY HomeOf
<1>2. m.from[1] \in Nat /\ Place(m.from) = 2 * m.from[1] + 1
  <2>1. m.from \in Seq(Nat)
    BY <1>1 DEF Labels
  <2>2. m.from[1] \in Nat
    BY <1>1, <2>1
  <2>3. QED
    BY <1>1, <2>2 DEF Place
<1>3. Split(m.from) => Place(Home(m)) = 2 * m.from[1] + 2
  <2>1. SUFFICES ASSUME Split(m.from) PROVE Place(Home(m)) = 2 * m.from[1] + 2
    OBVIOUS
  <2>2. m.from \in Seq(Nat) /\ m.to \in Seq(Nat)
    BY <1>1 DEF Labels
  <2>3. (m.from \o m.to)[1] = m.from[1]
    <3>1. PICK S, s, t, u : Labels = Seq(S) /\ s = m.from /\ t = m.to /\ u = s \o t
      BY DEF Labels
    <3>2. s \in Seq(S) /\ t \in Seq(S) /\ Len(s) = 1 /\ Len(t) \in Nat
      BY <1>1, <3>1
    <3>3. \A i \in 1..Len(s) + Len(t) : u[i] = IF i <= Len(s) THEN s[i] ELSE t[i - Len(s)]
      BY <3>1, <3>2, ConcatProperties
    <3>4. u[1] = s[1]
      BY <3>2, <3>3
    <3>5. QED
      BY <3>1, <3>4
  <2>4. Home(m)[1] = m.from[1]
    BY <1>1, <2>1, <2>3 DEF Mid
  <2>5. QED
    BY <1>1, <2>1, <2>4 DEF Place
<1>4. Place(Home(m)) \in {2 * m.from[1] + 1, 2 * m.from[1] + 2}
  BY <1>1, <1>2, <1>3
<1>5. ASSUME m.to # NoLabel
      PROVE  m.to \in Handled /\ m.to \in DOMAIN graph /\ Place(Home(m)) < Place(m.to)
  <2>1. IsProgram(prog) /\ prog # <<>> /\ Handled = Seen(Len(prog))
        /\ DOMAIN graph = Handled \cup UNION {Mids(b) : b \in Handled}
    BY FinishedFacts DEF Finished
  <2>2. PICK ins \in Defined : m \in Moves(ins)
    BY DEF AllMoves
  <2>3. m.from = ins.at /\ m.to[1] > m.from[1] /\ \E d \in Defined : m.to = d.at
    BY <1>5, <2>1, <2>2, MovesAhead
  <2>4. m.to \in Handled
    BY <2>1, <2>3, DefinedFacts
  <2>5. m.to \in Seq(Nat) /\ Len(m.to) = 1
    BY <1>1, <1>5 DEF Labels
  <2>6. m.to[1] \in Nat /\ Place(m.to) = 2 * m.to[1] + 1
    BY <2>5 DEF Place
  <2>7. m.to \in DOMAIN graph
    BY <2>1, <2>4
  <2>8. PICK h, x, y : h = Place(Home(m)) /\ x = m.from[1] /\ y = m.to[1]
    OBVIOUS
  <2>9. h < 2 * y + 1
    <3>1. x \in Nat /\ y \in Nat /\ y > x /\ h \in {2 * x + 1, 2 * x + 2}
      BY <1>2, <1>4, <2>3, <2>6, <2>8
    <3>2. QED
      BY <3>1
  <2>10. QED
    BY <2>4, <2>6, <2>7, <2>8, <2>9
<1>6. QED
  BY <1>2, <1>3, <1>4, <1>5

LEMMA FinishedForward ==
  ASSUME Finished, Tame, Linked(graph, DOMAIN graph)
  PROVE  Forward(graph, DOMAIN graph)
<1>1. /\ IsProgram(prog) /\ prog # <<>> /\ Handled = Seen(Len(prog))
      /\ DOMAIN graph = Handled \cup UNION {Mids(b) : b \in Handled}
  BY FinishedFacts DEF Finished
<1>2. ASSUME NEW a \in DOMAIN graph
      PROVE  \/ \E m \in AllMoves : a = Home(m)
             \/ a \in Handled /\ Split(a) /\ \A l \in ToSet(graph[a].nextlist) :
                                               \E m \in AllMoves : m.from = a /\ l = Home(m)
  <2>1. CASE a \in Handled
    BY <2>1, HomeAt
  <2>2. CASE a \notin Handled
    <3>1. PICK c \in Handled : a \in Mids(c)
      BY <1>1, <2>2
    <3>2. Split(c)
      BY <3>1 DEF Mids
    <3>3. QED
      BY <3>1, <3>2, HomeAt
  <2>3. QED
    BY <2>1, <2>2
<1>3. ASSUME NEW a \in DOMAIN graph, NEW b \in ToSet(graph[a].nextlist)
      PROVE  b \in DOMAIN graph /\ Place(a) < Place(b)
  <2>1. CASE \E m \in AllMoves : a = Home(m)
    <3>1. PICK m \in AllMoves : a = Home(m)
      BY <2>1
    <3>2. ToSet(graph[a].nextlist) = {m.to} \ {NoLabel}
      BY <3>1, HomeOf
    <3>3. b = m.to /\ m.to # NoLabel
      BY <1>3, <3>2
    <3>4. QED
      BY <3>1, <3>3, HomeAhead
  <2>2. CASE a \in Handled /\ Split(a) /\ \A l \in ToSet(graph[a].nextlist) :
                                            \E m \in AllMoves : m.from = a /\ l = Home(m)
    <3>1. PICK m \in AllMoves : m.from = a /\ b = Home(m)
      BY <1>3, <2>2
    <3>2. /\ Place(m.from) = 2 * m.from[1] + 1 /\ m.from[1] \in Nat
          /\ Split(m.from) => Place(Home(m)) = 2 * m.from[1] + 2
      BY HomeAhead
    <3>3. Home(m) \in DOMAIN graph
      BY HomeOf
    <3>4. QED
      BY <2>2, <3>1, <3>2, <3>3
  <2>3. QED
    BY <1>2, <2>1, <2>2
<1>4. ASSUME NEW b \in DOMAIN graph, NEW a \in DOMAIN graph, b \in ToSet(graph[a].nextlist)
      PROVE  graph[b].prevlist # <<>>
  <2>1. graph[a].nextlist \in Seq(Labels)
    BY DEF Linked, IsGraphOf, IsBlock
  <2>2. Occurrences(graph[a].nextlist, b) # 0
    BY <1>4, <2>1, OccurrencesFinite
  <2>3. Occurrences(graph[b].prevlist, a) # 0
    BY <2>2 DEF Linked, Agree
  <2>4. QED
    BY <2>3, OccurrencesNone
<1>5. ASSUME NEW a \in DOMAIN graph, graph[a].prevlist = <<>> PROVE a = prog[1].at
  <2>1. SUFFICES ASSUME a # prog[1].at PROVE \E c \in DOMAIN graph : a \in ToSet(graph[c].nextlist)
    BY <1>4, <1>5
  <2>2. CASE a \in Handled
    <3>1. PICK ins \in Defined : a = ins.at
      BY <2>2, HandledIs
    <3>2. PICK n \in Moves(ins) : n.from = a
      BY <1>1, <3>1, MovesAhead
    <3>3. n \in AllMoves
      BY <3>2 DEF AllMoves
    <3>4. IsFlow(ProgramGraph)
      BY FinishedConnects
    <3>5. PICK m \in AllMoves : m.to = a
      BY <1>1, <2>1, <3>2, <3>3, <3>4, LiveArrives
    <3>6. a # NoLabel
      BY <1>1, <3>1, DefinedFacts
    <3>7. /\ Home(m) \in DOMAIN graph
          /\ ToSet(graph[Home(m)].nextlist) = {m.to} \ {NoLabel}
      BY HomeOf
    <3>8. QED
      BY <3>5, <3>6, <3>7
  <2>3. CASE a \notin Handled
    <3>1. PICK c \in Handled : a \in Mids(c)
      BY <1>1, <2>3
    <3>2. Split(c)
      BY <3>1 DEF Mids
    <3>3. PICK m \in AllMoves : m.from = c /\ a = Home(m)
      BY <3>1, <3>2, HomeAt
    <3>4. a \in ToSet(graph[c].nextlist)
      BY <3>2, <3>3, HomeOf
    <3>5. QED
      BY <1>1, <3>4
  <2>4. QED
    BY <2>2, <2>3
<1>6. QED
  BY <1>3, <1>5 DEF Forward

LEMMA TameKept ==
  ASSUME prog' = prog
  PROVE  /\ Tame' <=> Tame
         /\ \A g, K : Forward(g, K)' <=> Forward(g, K)
<1>1. /\ ProgramGraph' = ProgramGraph /\ (JumpsToFallthrough' <=> JumpsToFallthrough)
  BY ProgramKept, ProgKept
<1>2. Defined' = Defined
  BY DEF Defined
<1>3. LiveMoves' = LiveMoves
  BY <1>1 DEF LiveMoves
<1>4. QED
  BY <1>1, <1>2, <1>3 DEF Tame, Forward

LEMMA PopKeepsTame ==
  ASSUME TameInv, Pop
  PROVE  TameInv'
<1>1. phase = "simplify" /\ phase' = "simplify" /\ UNCHANGED <<prog, graph, keys>>
  BY DEF Pop
<1>2. PICK g, K : g = graph /\ K = ToSet(keys)
  OBVIOUS
<1>3. (Tame' <=> Tame) /\ (Forward(g, K)' <=> Forward(g, K))
  BY <1>1, TameKept
<1>4. QED
  BY <1>1, <1>2, <1>3 DEF TameInv

\* A turn of simplify, of which h are the blocks it makes.
LEMMA TurnKeepsTame ==
  ASSUME TameInv, UNCHANGED <<prog, phase, keys>>, phase = "simplify",
         Tame => Forward(graph', ToSet(keys))
  PROVE  TameInv'
<1>1. PICK h, K : h = graph' /\ K = ToSet(keys)
  OBVIOUS
<1>2. (Tame' <=> Tame) /\ (Forward(h, K)' <=> Forward(h, K))
  BY TameKept
<1>3. QED
  BY <1>1, <1>2 DEF TameInv

LEMMA SimplifyLinked ==
  ASSUME IsProgram(prog), prog # <<>>, SimplifyInv, TameInv, phase = "simplify", Tame
  PROVE  /\ ~ JumpsToFallthrough /\ ~ JumpsToEntry
         /\ Linked(graph, ToSet(keys)) /\ Forward(graph, ToSet(keys))
         /\ keys \in Seq(Labels) /\ NoLabel \notin ToSet(keys)
         /\ label # NoLabel => label \in DOMAIN graph
<1>1. ~ JumpsToFallthrough /\ ~ JumpsToEntry
  BY TameFacts
<1>2. QED
  BY <1>1 DEF SimplifyInv, TameInv

LEMMA StopKeepsTame ==
  ASSUME IsProgram(prog), prog # <<>>, SimplifyInv, TameInv, StopAbsorbing
  PROVE  TameInv'
<1>1. /\ phase = "simplify" /\ label # NoLabel /\ UNCHANGED <<prog, phase, keys>>
      /\ graph' = TouchNext(graph, label)
  BY DEF StopAbsorbing
<1>2. Tame => Forward(graph', ToSet(keys))
  <2>1. SUFFICES ASSUME Tame PROVE Forward(graph', ToSet(keys))
    OBVIOUS
  <2>2. PICK g, K, l, h : g = graph /\ K = ToSet(keys) /\ l = label /\ h = graph'
    OBVIOUS
  <2>3. Linked(g, K) /\ Forward(g, K) /\ l \in DOMAIN g /\ h = TouchNext(g, l)
    BY <1>1, <2>1, <2>2, SimplifyLinked
  <2>4. QED
    BY <2>2, <2>3, ForwardTouched
<1>3. QED
  BY <1>1, <1>2, TurnKeepsTame

LEMMA AbsorbKeepsTame ==
  ASSUME IsProgram(prog), prog # <<>>, SimplifyInv, TameInv, Absorb
  PROVE  TameInv'
<1>1. /\ phase = "simplify" /\ label # NoLabel /\ UNCHANGED <<prog, phase, keys>>
      /\ CanAbsorb(TouchNext(graph, label), label)
      /\ graph' = Absorbed(TouchNext(graph, label), label)
  BY DEF Absorb
<1>2. Tame => Forward(graph', ToSet(keys))
  <2>1. SUFFICES ASSUME Tame PROVE Forward(graph', ToSet(keys))
    OBVIOUS
  <2>2. PICK g, K, l, f, h : /\ g = graph /\ K = ToSet(keys) /\ l = label
                             /\ f = TouchNext(graph, label) /\ h = graph'
    OBVIOUS
  <2>3. Linked(g, K) /\ Forward(g, K) /\ l \in DOMAIN g /\ f = TouchNext(g, l) /\ NoLabel \notin K
    BY <1>1, <2>1, <2>2, SimplifyLinked
  <2>4. Forward(f, K) /\ l \in DOMAIN f
    BY <2>3, ForwardTouched
  <2>5. Linked(f, K)
    BY <2>3, TouchLinked
  <2>6. CanAbsorb(f, l) /\ h = Absorbed(f, l)
    BY <1>1, <2>2
  <2>7. QED
    BY <2>2, <2>3, <2>4, <2>5, <2>6, ForwardAbsorbed
<1>3. QED
  BY <1>1, <1>2, TurnKeepsTame

LEMMA ReturnTame ==
  ASSUME IsProgram(prog), prog # <<>>, SimplifyInv, FlowInv, TameInv, SimplifyReturns
  PROVE  TameInv'
<1>1. /\ phase = "simplify" /\ UNCHANGED <<prog, graph>> /\ phase' = "done"
      /\ keys' = Remaining(keys, DOMAIN graph)
  BY DEF SimplifyReturns
<1>2. PICK g, k, r, D : g = graph /\ k = keys /\ r = Remaining(keys, DOMAIN graph) /\ D = DOMAIN graph
  OBVIOUS
<1>3. /\ Tame' <=> Tame
      /\ Forward(g, D)' <=> Forward(g, D)
      /\ FirstKey(r)' <=> FirstKey(r)
  BY <1>1, TameKept, ProgramKept
<1>4. SUFFICES ASSUME Tame PROVE TameInv'
  BY <1>3 DEF TameInv
<1>5. /\ ~ JumpsToEntry /\ Linked(g, ToSet(k)) /\ Forward(g, ToSet(k))
      /\ k \in Seq(Labels) /\ NoLabel \notin ToSet(k)
  BY <1>1, <1>2, <1>4, SimplifyLinked
<1>6. /\ FirstKey(k) /\ k[1] \in DOMAIN g /\ g[k[1]].prevlist = <<>> /\ IsFiniteSet(DOMAIN g)
  BY <1>1, <1>2, <1>5 DEF FlowInv, SimplifyExact, Bodied
<1>7. D \subseteq ToSet(k)
  BY <1>2, <1>5 DEF Forward
<1>8. /\ r \in Seq(Labels) /\ ToSet(r) = D /\ r # <<>> /\ r[1] = k[1]
  <2>1. k # <<>> /\ k[1] \in D
    BY <1>2, <1>6 DEF FirstKey
  <2>2. /\ r \in Seq(Labels) /\ ToSet(r) = ToSet(k) \cap D /\ r # <<>> /\ r[1] = k[1]
    BY <1>2, <1>5, <2>1, RemainingKept
  <2>3. QED
    BY <1>7, <2>2
<1>9. Forward(g, D) /\ FirstKey(r)
  BY <1>2, <1>5, <1>6, <1>8 DEF Forward, FirstKey
<1>10. Linked(g, D)
  BY <1>2, <1>5, <1>7 DEF Linked, Agree
<1>11. (Forward(graph, ToSet(keys)))' /\ FirstKey(keys)'
  BY <1>1, <1>2, <1>3, <1>8, <1>9
<1>12. Linked(graph, ToSet(keys))'
  BY <1>1, <1>2, <1>8, <1>10
<1>13. (/\ keys \in Seq(Labels) /\ ToSet(keys) = DOMAIN graph /\ NoLabel \notin DOMAIN graph
        /\ IsFiniteSet(DOMAIN graph) /\ graph[keys[1]].prevlist = <<>>)'
  BY <1>1, <1>2, <1>5, <1>6, <1>7, <1>8
<1>14. QED
  BY <1>1, <1>11, <1>12, <1>13 DEF TameInv

LEMMA NondetEndTame ==
  ASSUME Finished, NondetReturns
  PROVE  TameInv'
<1>1. /\ phase' = "simplify" /\ UNCHANGED <<prog, graph, keys>>
  BY DEF NondetReturns
<1>2. PICK g, D : g = graph /\ D = DOMAIN graph
  OBVIOUS
<1>3. (Tame' <=> Tame) /\ (Forward(g, D)' <=> Forward(g, D))
  BY <1>1, TameKept
<1>4. Tame => Forward(g, D)
  <2>1. SUFFICES ASSUME Tame PROVE Forward(g, D)
    OBVIOUS
  <2>2. IsProgram(prog) /\ prog # <<>> /\ NondetInv
    BY DEF Finished
  <2>3. ~ JumpsToFallthrough
    BY <2>1, <2>2, TameFacts
  <2>4. Linked(graph, DOMAIN graph)
    BY <2>2, <2>3, NondetLinks
  <2>5. QED
    BY <1>2, <2>1, <2>4, FinishedForward
<1>5. ToSet(keys) = D
  BY <1>2, FinishedFacts
<1>6. QED
  BY <1>1, <1>2, <1>3, <1>4, <1>5 DEF TameInv

LEMMA NoneTwice ==
  ASSUME NEW S, NEW s \in Seq(S), \A x \in ToSet(s) : Occurrences(s, x) = 1
  PROVE  NoRepeats(s)
<1> SUFFICES ASSUME NEW i \in DOMAIN s, NEW j \in DOMAIN s, s[i] = s[j] PROVE i = j
  BY DEF NoRepeats
<1>1. PICK x, T : x = s[i] /\ T = {k \in DOMAIN s : s[k] = x}
  OBVIOUS
<1>2. x \in ToSet(s)
  BY <1>1 DEF ToSet
<1>3. IsFiniteSet(T) /\ Cardinality(T) = 1
  BY <1>1, <1>2, OccurrencesFinite DEF Occurrences
<1>4. PICK k : T = {k}
  BY <1>3, FS_Singleton
<1>5. i \in T /\ j \in T
  BY <1>1
<1>6. QED
  BY <1>4, <1>5

\* The lists of a graph whose edges are whole name each edge once.
LEMMA LinkedLists ==
  ASSUME NEW g, Linked(g, DOMAIN g), Forward(g, DOMAIN g)
  PROVE  \A b \in DOMAIN g :
           /\ NoRepeats(g[b].nextlist) /\ NoRepeats(g[b].prevlist)
           /\ \A a \in DOMAIN g : b \in ToSet(g[a].nextlist) <=> a \in ToSet(g[b].prevlist)
           /\ ToSet(g[b].prevlist) \subseteq DOMAIN g
<1>1. \A a \in DOMAIN g : /\ g[a].nextlist \in Seq(Labels) /\ g[a].prevlist \in Seq(Labels)
                          /\ NoRepeats(g[a].nextlist) /\ ToSet(g[a].prevlist) \subseteq DOMAIN g
  BY DEF Linked, IsGraphOf, IsBlock
<1>2. \A a, b \in DOMAIN g : Occurrences(g[a].nextlist, b) = Occurrences(g[b].prevlist, a)
  BY DEF Linked, Agree
<1>3. ASSUME NEW a \in DOMAIN g, NEW b \in DOMAIN g
      PROVE  b \in ToSet(g[a].nextlist) <=> a \in ToSet(g[b].prevlist)
  <2>1. PICK s, t : s = g[a].nextlist /\ t = g[b].prevlist
    OBVIOUS
  <2>2. s \in Seq(Labels) /\ t \in Seq(Labels) /\ Occurrences(s, b) = Occurrences(t, a)
    BY <1>1, <1>2, <2>1
  <2>3. (Occurrences(s, b) = 0 <=> b \notin ToSet(s)) /\ (Occurrences(t, a) = 0 <=> a \notin ToSet(t))
    BY <2>2, OccurrencesFinite
  <2>4. QED
    BY <2>1, <2>2, <2>3
<1>4. ASSUME NEW b \in DOMAIN g PROVE NoRepeats(g[b].prevlist)
  <2>1. PICK t : t = g[b].prevlist
    OBVIOUS
  <2>2. ASSUME NEW a \in ToSet(t) PROVE Occurrences(t, a) = 1
    <3>1. a \in DOMAIN g /\ b \in ToSet(g[a].nextlist)
      BY <1>1, <1>3, <2>1, <2>2
    <3>2. Occurrences(g[a].nextlist, b) = 1
      BY <1>1, <3>1, OccurrencesOne
    <3>3. QED
      BY <1>2, <2>1, <3>1, <3>2
  <2>3. t \in Seq(Labels)
    BY <1>1, <2>1
  <2>4. QED
    BY <2>1, <2>2, <2>3, NoneTwice
<1>5. QED
  BY <1>1, <1>3, <1>4

\* No cycle: of some blocks, the one with the least place follows none of them.
LEMMA LeastFirst ==
  ASSUME NEW g, IsGraphOf(g), Forward(g, DOMAIN g), NoLabel \notin DOMAIN g,
         NEW S \in SUBSET DOMAIN g, S # {}
  PROVE  \E l \in S : \A a \in S : l \notin ToSet(g[a].nextlist)
<1>1. \A a \in DOMAIN g : Place(a) \in Nat
  BY PlaceOf DEF IsGraphOf
<1>2. PICK T : T = {Place(a) : a \in S}
  OBVIOUS
<1>3. T \in SUBSET Nat
  BY <1>1, <1>2
<1>4. PICK n : n \in T
  BY <1>2
<1>5. PICK m \in T : \A j \in T : m <= j
  BY <1>3, <1>4, LeastElement
<1>6. PICK l \in S : m = Place(l)
  BY <1>2
<1>7. ASSUME NEW a \in S, l \in ToSet(g[a].nextlist) PROVE FALSE
  <2>1. Place(a) < Place(l)
    BY <1>7 DEF Forward
  <2>2. Place(l) <= Place(a) /\ Place(a) \in Nat /\ Place(l) \in Nat
    BY <1>1, <1>2, <1>5, <1>6
  <2>3. QED
    BY <2>1, <2>2
<1>8. QED
  BY <1>7

\* What the analysis is given when simplify returns.
Handed == phase = "done" /\ Tame /\ TameInv

LEMMA HandedGraph ==
  ASSUME Handed
  PROVE  /\ Forward(graph, DOMAIN graph) /\ Linked(graph, DOMAIN graph) /\ IsGraphOf(graph)
         /\ NoLabel \notin DOMAIN graph /\ IsFiniteSet(DOMAIN graph)
         /\ ToSet(keys) = DOMAIN graph
         /\ keys[1] = prog[1].at /\ keys[1] \in DOMAIN graph /\ graph[keys[1]].prevlist = <<>>
<1>1. /\ Forward(graph, ToSet(keys)) /\ Linked(graph, ToSet(keys))
      /\ keys \in Seq(Labels) /\ ToSet(keys) = DOMAIN graph /\ NoLabel \notin DOMAIN graph
      /\ IsFiniteSet(DOMAIN graph) /\ FirstKey(keys) /\ graph[keys[1]].prevlist = <<>>
  BY DEF Handed, TameInv
<1>2. 1 \in DOMAIN keys /\ keys[1] = prog[1].at
  BY <1>1 DEF FirstKey
<1>3. keys[1] \in ToSet(keys)
  BY <1>2 DEF ToSet
<1>4. QED
  BY <1>1, <1>2, <1>3 DEF Linked

LEMMA HandedNames ==
  ASSUME Handed
  PROVE  /\ Analysis!Keys = DOMAIN graph /\ Analysis!EntryLabel = keys[1]
         /\ \A l \in DOMAIN graph : /\ Analysis!Preds(l) = ToSet(graph[l].prevlist)
                                    /\ Analysis!Succs(l) = ToSet(graph[l].nextlist)
<1>1. Analysis!Keys = ToSet(keys)
  BY DEF Analysis!Keys, Analysis!KeysOf, ToSet
<1>2. Analysis!EntryLabel = keys[1]
  BY DEF Analysis!EntryLabel
<1>3. \A l \in DOMAIN graph : /\ Analysis!Preds(l) = ToSet(graph[l].prevlist)
                              /\ Analysis!Succs(l) = ToSet(graph[l].nextlist)
  BY DEF Analysis!Preds, Analysis!Succs, ToSet
<1>4. QED
  BY <1>1, <1>2, <1>3, HandedGraph

LEMMA HandedAnalysable ==
  ASSUME Handed
  PROVE  Analysis!Analysable
<1>1. PICK g, D : g = graph /\ D = DOMAIN graph
  OBVIOUS
<1>2. /\ Forward(g, D) /\ Linked(g, D) /\ IsGraphOf(g) /\ NoLabel \notin D
      /\ keys[1] = prog[1].at /\ keys[1] \in D /\ g[keys[1]].prevlist = <<>>
  BY <1>1, HandedGraph
<1>3. /\ Analysis!Keys = D /\ Analysis!EntryLabel = keys[1]
      /\ \A l \in D : /\ Analysis!Preds(l) = ToSet(g[l].prevlist)
                      /\ Analysis!Succs(l) = ToSet(g[l].nextlist)
  BY <1>1, HandedNames
<1>4. Analysis!EdgesMatch
  <2>1. \A l \in D : NoRepeats(g[l].nextlist) /\ NoRepeats(g[l].prevlist)
    BY <1>1, <1>2, LinkedLists
  <2>2. \A l \in Analysis!Keys :
          Analysis!IsListing(graph[l].nextlist) /\ Analysis!IsListing(graph[l].prevlist)
    BY <1>1, <1>3, <2>1 DEF Analysis!IsListing, NoRepeats
  <2>3. \A a, b \in Analysis!Keys : b \in Analysis!Succs(a) <=> a \in Analysis!Preds(b)
    BY <1>1, <1>2, <1>3, LinkedLists
  <2>4. QED
    BY <1>1, <1>3, <2>2, <2>3 DEF Analysis!EdgesMatch
<1>5. Analysis!EntryIsSource
  BY <1>2, <1>3 DEF Analysis!EntryIsSource, ToSet
<1>6. Analysis!Acyclic
  <2>1. SUFFICES ASSUME NEW S \in SUBSET D, S # {}
                 PROVE  \E l \in S : Analysis!Preds(l) \cap S = {}
    BY <1>3 DEF Analysis!Acyclic
  <2>2. PICK l \in S : \A a \in S : l \notin ToSet(g[a].nextlist)
    BY <1>1, <1>2, <2>1, LeastFirst
  <2>3. ToSet(g[l].prevlist) \cap S = {}
    BY <1>1, <1>2, <2>2, LinkedLists
  <2>4. QED
    BY <1>3, <2>2, <2>3
<1>7. Analysis!NoOtherSource
  <2>1. SUFFICES ASSUME NEW l \in D, ToSet(g[l].prevlist) = {} PROVE l = keys[1]
    BY <1>3 DEF Analysis!NoOtherSource
  <2>2. g[l].prevlist \in Seq(Labels)
    BY <1>1, <1>2 DEF IsGraphOf, IsBlock
  <2>3. g[l].prevlist = <<>>
    <3>1. PICK s : s = g[l].prevlist
      OBVIOUS
    <3>2. s \in Seq(Labels) /\ ToSet(s) = {}
      BY <2>1, <2>2, <3>1
    <3>3. DOMAIN s = {}
      BY <3>2 DEF ToSet
    <3>4. s = <<>>
      BY <3>2, <3>3
    <3>5. QED
      BY <3>1, <3>4
  <2>4. QED
    BY <1>1, <1>2, <2>3 DEF Forward
<1>8. QED
  BY <1>4, <1>5, <1>6, <1>7 DEF Analysis!Analysable, Analysis!Orderly

LEMMA HandedLive ==
  ASSUME Handed
  PROVE  Analysis!Live = DOMAIN graph
<1>1. PICK g, e : g = graph /\ e = keys[1]
  OBVIOUS
<1> DEFINE U       == Analysis!Keys
           bound   == Cardinality(U)
           next(R) == UNION {Analysis!Succs(l) : l \in R}
           body(f) == [k \in 0..bound |->
                         IF k = 0 THEN {Analysis!EntryLabel} ELSE f[k - 1] \cup next(f[k - 1])]
           Eq(f)   == f = body(f)
           grown   == CHOOSE f : Eq(f)
           S       == {Analysis!EntryLabel}
           add     == [R \in SUBSET U |-> R \cup next(R)]
<1>2. /\ Forward(g, DOMAIN g) /\ Linked(g, DOMAIN g) /\ IsGraphOf(g) /\ NoLabel \notin DOMAIN g
      /\ IsFiniteSet(DOMAIN g) /\ e = prog[1].at /\ e \in DOMAIN g
  BY <1>1, HandedGraph
<1>3. /\ U = DOMAIN g /\ S = {e}
      /\ \A l \in DOMAIN g : Analysis!Succs(l) = ToSet(g[l].nextlist)
  BY <1>1, HandedNames
<1>4. bound \in Nat /\ IsFiniteSet(U) /\ S \subseteq U
  BY <1>2, <1>3, FS_CardinalityType
<1>5. ASSUME NEW R \in SUBSET U PROVE next(R) \subseteq U
  <2>1. \A l \in R : Analysis!Succs(l) \subseteq DOMAIN g
    BY <1>2, <1>3, <1>5 DEF Forward
  <2>2. QED
    BY <1>3, <2>1
<1>6. \A R \in SUBSET U : R \subseteq add[R] /\ add[R] \subseteq U /\ add[R] = R \cup next(R)
  <2> HIDE DEF next, U
  <2>1. QED
    BY <1>5
<1>7. ASSUME NEW f, Iterates(f, S, add, bound) PROVE Eq(f)
  <2>1. \A k \in 0..bound : f[k] \subseteq U
    <3>1. \A R \in SUBSET U : add[R] \subseteq U
      <4> HIDE DEF add, U
      <4>1. QED
        BY <1>6
    <3> HIDE DEF bound, add, U, S
    <3>2. QED
      BY <1>4, <1>7, <3>1, IterationStays
  <2>2. ASSUME NEW k \in 0..bound, k # 0 PROVE f[k] = f[k - 1] \cup next(f[k - 1])
    <3>1. f[k - 1] \subseteq U
      BY <1>4, <2>1, <2>2
    <3>2. f[k] = add[f[k - 1]]
      <4> HIDE DEF add, bound, S
      <4>1. QED
        BY <1>7, <2>2 DEF Iterates
    <3> HIDE DEF next, U, bound, add
    <3>3. QED
      BY <1>6, <3>1, <3>2
  <2>3. f[0] = S /\ f = [k \in 0..bound |-> f[k]]
    BY <1>4, <1>7 DEF Iterates
  <2> HIDE DEF next, bound
  <2>4. QED
    BY <2>2, <2>3
<1>8. Eq(grown)
  <2>1. PICK f : Iterates(f, S, add, bound)
    <3> HIDE DEF bound, add, S
    <3>1. QED
      BY <1>4, IterationExists
  <2>2. Eq(f)
    BY <1>7, <2>1
  <2> HIDE DEF Eq
  <2>3. QED
    BY <2>2
<1> HIDE DEF grown
<1>9. Analysis!Live = grown[bound]
  <2>1. bound = Analysis!Cardinality(U)
    BY DEF Cardinality, Analysis!Cardinality
  <2> HIDE DEF bound, U
  <2>2. QED
    BY <2>1 DEF Analysis!Live, grown, bound, U
<1>10. /\ grown = [k \in 0..bound |-> grown[k]]
       /\ \A k \in 0..bound :
            grown[k] = IF k = 0 THEN S ELSE grown[k - 1] \cup next(grown[k - 1])
  <2>1. /\ body(grown) = [k \in 0..bound |-> body(grown)[k]]
        /\ \A k \in 0..bound :
             body(grown)[k] = IF k = 0 THEN S ELSE grown[k - 1] \cup next(grown[k - 1])
    <3> HIDE DEF next, bound
    <3>1. QED
      OBVIOUS
  <2>2. grown = body(grown)
    BY <1>8
  <2> HIDE DEF body
  <2>3. QED
    BY <2>1, <2>2
<1>11. 0 \in 0..bound /\ grown[0] = S
  <2>1. 0 \in 0..bound
    BY <1>4
  <2> HIDE DEF next, bound, S
  <2>2. QED
    BY <2>1, <1>10, Zenon
<1>12. \A k \in 0..bound : grown[k] \subseteq U
  <2> DEFINE I == {k \in 0..bound : grown[k] \subseteq U}
  <2>1. 0 \in I
    BY <1>4, <1>11
  <2>2. ASSUME NEW k \in 0..bound - 1, k \in I PROVE k + 1 \in I
    <3> HIDE DEF next, bound, U, S
    <3>1. k \in 0..bound /\ k + 1 \in 0..bound /\ k + 1 # 0 /\ (k + 1) - 1 = k
      BY <1>4
    <3>2. grown[k + 1] = grown[k] \cup next(grown[k])
      BY <1>10, <3>1
    <3>3. QED
      BY <1>5, <2>2, <3>1, <3>2
  <2>3. 0..bound \subseteq I
    <3> HIDE DEF I, bound
    <3>1. QED
      BY <1>4, <2>1, <2>2, IntervalInduction
  <2>4. QED
    BY <2>3
<1>13. Iterates(grown, S, add, bound)
  <2>1. ASSUME NEW k \in 0..bound, k # 0 PROVE grown[k] = add[grown[k - 1]]
    <3>1. k - 1 \in 0..bound
      BY <1>4, <2>1
    <3> HIDE DEF next, bound, U, add, S
    <3>2. grown[k] = grown[k - 1] \cup next(grown[k - 1])
      BY <1>10, <2>1
    <3>3. grown[k - 1] \in SUBSET U
      BY <1>12, <3>1
    <3>4. QED
      BY <1>6, <3>2, <3>3
  <2>2. \A k \in 0..bound : grown[k] = IF k = 0 THEN S ELSE add[grown[k - 1]]
    <3> HIDE DEF bound, add, S
    <3>1. QED
      BY <1>11, <2>1, Zenon
  <2> HIDE DEF bound, add, S
  <2>3. [k \in 0..bound |-> grown[k]] = [k \in 0..bound |-> IF k = 0 THEN S ELSE add[grown[k - 1]]]
    BY <2>2, Zenon
  <2>4. QED
    BY <1>10, <2>3 DEF Iterates
<1>14. PICK L : L = Analysis!Live
  OBVIOUS
<1>15. L \subseteq U /\ S \subseteq L /\ add[L] = L
  <2>1. Cardinality(U) <= bound
    BY <1>4
  <2> HIDE DEF U, add, bound, S
  <2>2. QED
    BY <1>4, <1>6, <1>9, <1>13, <1>14, <2>1, IterationCloses
<1>16. \A a \in L : ToSet(g[a].nextlist) \subseteq L
  <2>1. next(L) \subseteq L
    <3> HIDE DEF next, U, add
    <3>1. QED
      BY <1>6, <1>15
  <2>2. QED
    BY <1>3, <1>15, <2>1
<1>17. ASSUME DOMAIN g \ L # {} PROVE FALSE
  <2>1. PICK l \in DOMAIN g \ L : \A a \in DOMAIN g \ L : l \notin ToSet(g[a].nextlist)
    BY <1>2, <1>17, LeastFirst
  <2>2. l # e
    BY <1>3, <1>15
  <2>3. g[l].prevlist # <<>> /\ g[l].prevlist \in Seq(Labels)
    BY <1>2, <2>2 DEF Forward, IsGraphOf, IsBlock
  <2>4. PICK a : a \in ToSet(g[l].prevlist)
    <3>1. 1 \in DOMAIN g[l].prevlist
      BY <2>3
    <3>2. QED
      BY <3>1 DEF ToSet
  <2>5. a \in DOMAIN g /\ l \in ToSet(g[a].nextlist)
    BY <1>2, <2>4, LinkedLists
  <2>6. a \in L
    BY <2>1, <2>5
  <2>7. QED
    BY <1>16, <2>1, <2>5, <2>6
<1>18. QED
  BY <1>1, <1>3, <1>14, <1>15, <1>17

LEMMA TameShows == TameInv => HandsOver
<1> SUFFICES ASSUME TameInv, phase = "done", Tame
             PROVE  /\ ToSet(keys) = DOMAIN graph
                    /\ Analysis!Analysable
                    /\ Analysis!Live = DOMAIN graph
  BY DEF HandsOver
<1>1. Handed
  BY DEF Handed
<1>2. QED
  BY <1>1, HandedGraph, HandedAnalysable, HandedLive

-----------------------------------------------------------------------------
(***************************************************************************)
(* The theorems.                                                           *)
(***************************************************************************)

PassesInv == prog \in Progs /\ MakeInv /\ NondetInv /\ SimplifyInv

LEMMA CfgStart == Init => PassesInv /\ EdgesAgree /\ ChainsReplaced
<1> SUFFICES ASSUME Init PROVE PassesInv /\ EdgesAgree /\ ChainsReplaced
  OBVIOUS
<1>1. /\ prog \in Progs /\ phase = "make" /\ idx = 0 /\ falling = NoLabel /\ keys = <<>>
      /\ graph = [l \in {} |-> NoBlock]
  BY DEF Init
<1>2. Len(prog) \in Nat
  BY <1>1, ProgsAssumption DEF IsProgram
<1>3. 0 \in 0..Len(prog) /\ 1..0 = {}
  BY <1>2
<1>4. Seen(0) = {} /\ ToSet(<<>>) = {} /\ <<>> \in Seq(Labels)
  BY <1>3, EmptySeq DEF Seen, ToSet
<1>5. DOMAIN graph = {}
  BY <1>1
<1>6. Made(graph, 0)
  BY <1>4, <1>5 DEF Made, IsGraphOf, Agree
<1>7. MakeInv
  BY <1>1, <1>3, <1>4, <1>6 DEF MakeInv
<1>8. QED
  BY <1>1, <1>7, MakeAgrees DEF PassesInv, NondetInv, SimplifyInv, ChainsReplaced, NoChainLeft

LEMMA CfgStep == PassesInv /\ EdgesAgree /\ ChainsReplaced /\ [Next]_vars
                   => (PassesInv /\ EdgesAgree /\ ChainsReplaced)'
<1> SUFFICES ASSUME PassesInv, EdgesAgree, ChainsReplaced, [Next]_vars
             PROVE  PassesInv' /\ EdgesAgree' /\ ChainsReplaced'
  OBVIOUS
<1>1. IsProgram(prog)
  BY ProgsAssumption DEF PassesInv
<1>2. MakeInv /\ NondetInv /\ SimplifyInv
  BY DEF PassesInv
<1>3. CASE SkipUndefined \/ MakeInstruction
  <2>1. MakeInv'
    BY <1>1, <1>2, <1>3, SkipKeepsInv, InstructionKeepsInv
  <2>2. phase' = "make" /\ prog' = prog
    BY <1>3 DEF SkipUndefined, MakeInstruction
  <2>3. EdgesAgree'
    BY <2>1, <2>2 DEF MakeInv, Made, Agree, EdgesAgree
  <2>4. QED
    BY <2>1, <2>2, <2>3 DEF PassesInv, NondetInv, SimplifyInv, ChainsReplaced, NoChainLeft
<1>4. CASE MakeThrows
  <2>1. phase' = "throw" /\ prog' = prog
    BY <1>4 DEF MakeThrows
  <2>2. QED
    BY <2>1 DEF PassesInv, MakeInv, NondetInv, SimplifyInv, EdgesAgree, ChainsReplaced, NoChainLeft
<1>5. CASE MakeReturns \/ NondetLabel
  <2>1. NondetInv'
    BY <1>1, <1>2, <1>5, MakeEnds, NondetKeepsInv
  <2>2. phase' = "nondet" /\ prog' = prog
    BY <1>5, Zenon DEF MakeReturns, NondetLabel
  <2>3. QED
    BY <2>1, <2>2 DEF PassesInv, MakeInv, SimplifyInv, EdgesAgree, ChainsReplaced, NoChainLeft
<1>6. CASE NondetReturns \/ Pop \/ Absorb \/ StopAbsorbing
  <2>1. SimplifyInv'
    BY <1>1, <1>2, <1>6, NondetEnds, PopKeepsInv, AbsorbKeepsInv, StopKeepsInv
  <2>2. phase' = "simplify" /\ prog' = prog
    BY <1>6 DEF NondetReturns, Pop, Absorb, StopAbsorbing
  <2>3. EdgesAgree'
    BY <2>1, <2>2 DEF SimplifyInv, Linked, Agree, EdgesAgree
  <2>4. QED
    BY <2>1, <2>2, <2>3 DEF PassesInv, MakeInv, NondetInv, ChainsReplaced, NoChainLeft
<1>7. CASE SimplifyReturns
  <2>1. EdgesAgree' /\ ChainsReplaced'
    BY <1>2, <1>7, SimplifyEnds
  <2>2. phase' = "done" /\ prog' = prog
    BY <1>7 DEF SimplifyReturns
  <2>3. QED
    BY <2>1, <2>2 DEF PassesInv, MakeInv, NondetInv, SimplifyInv
<1>8. CASE UNCHANGED vars
  <2>1. /\ prog' = prog /\ phase' = phase /\ idx' = idx /\ falling' = falling /\ src' = src
        /\ graph' = graph /\ keys' = keys /\ work' = work /\ label' = label
    BY <1>8 DEF vars
  <2>2. MakeInv'
    <3>1. PICK n, g : n = idx /\ g = graph
      OBVIOUS
    <3>2. (Made(g, n)' <=> Made(g, n)) /\ Seen(n)' = Seen(n)
      BY <2>1, MadeKept, ProgKept
    <3>3. (Made(graph, idx)' <=> Made(graph, idx)) /\ Seen(idx)' = Seen(idx)
      BY <2>1, <3>1, <3>2
    <3>4. QED
      BY <1>2, <2>1, <3>3 DEF MakeInv
  <2>3. NondetInv'
    <3>1. PICK n, g, h : n = Len(prog) /\ g = src.graph /\ h = graph
      OBVIOUS
    <3>2. (Made(g, n)' <=> Made(g, n)) /\ Seen(n)' = Seen(n)
      BY <2>1, MadeKept, ProgKept
    <3>3. /\ Made(src.graph, Len(prog))' <=> Made(src.graph, Len(prog))
          /\ Seen(Len(prog))' = Seen(Len(prog))
      BY <2>1, <3>1, <3>2
    <3>4. Handled' = Handled /\ \A a : Mids(a)' = Mids(a)
      BY <2>1 DEF Handled, Mids, Split, NextsOf
    <3>5. \A a : Converted(a, h)' <=> Converted(a, h)
      BY <2>1, ConvertedKept
    <3>6. \A a : Converted(a, graph)' <=> Converted(a, graph)
      BY <2>1, <3>1, <3>5
    <3>7. QED
      BY <1>2, <2>1, <3>3, <3>4, <3>6 DEF NondetInv
  <2>4. SimplifyInv' /\ EdgesAgree' /\ ChainsReplaced'
    BY <1>2, <2>1, ProgKept DEF SimplifyInv, EdgesAgree, ChainsReplaced, NoChainLeft
  <2>5. QED
    BY <2>1, <2>2, <2>3, <2>4 DEF PassesInv
<1>9. QED
  BY <1>3, <1>4, <1>5, <1>6, <1>7, <1>8 DEF Next

LEMMA CfgInvariant == Spec => [](PassesInv /\ EdgesAgree /\ ChainsReplaced)
BY CfgStart, CfgStep, PTL DEF Spec

ExactInv == MakeExact /\ NondetExact /\ FlowInv

LEMMA ExactStart == Init => ExactInv
<1> SUFFICES ASSUME Init PROVE ExactInv
  OBVIOUS
<1>1. phase = "make" /\ idx = 0
  BY DEF Init
<1>2. Written(graph, 0, falling)
  BY DEF Written
<1>3. QED
  BY <1>1, <1>2 DEF ExactInv, MakeExact, NondetExact, FlowInv, SimplifyExact

LEMMA ExactStep == PassesInv /\ ExactInv /\ [Next]_vars => ExactInv'
<1> SUFFICES ASSUME PassesInv, ExactInv, [Next]_vars PROVE ExactInv'
  OBVIOUS
<1>1. IsProgram(prog) /\ prog # <<>> /\ prog[1].op # "undef"
  BY ProgsAssumption DEF PassesInv
<1>2. MakeInv /\ NondetInv /\ MakeExact /\ NondetExact /\ FlowInv
  BY DEF PassesInv, ExactInv
<1>3. CASE SkipUndefined \/ MakeInstruction
  <2>1. MakeExact'
    BY <1>1, <1>2, <1>3, SkipKeepsExact, InstructionKeepsExact
  <2>2. phase' = "make"
    BY <1>3 DEF SkipUndefined, MakeInstruction
  <2>3. QED
    BY <2>1, <2>2 DEF ExactInv, NondetExact, FlowInv, SimplifyExact
<1>4. CASE MakeThrows
  <2>1. phase' = "throw"
    BY <1>4 DEF MakeThrows
  <2>2. QED
    BY <2>1 DEF ExactInv, MakeExact, NondetExact, FlowInv, SimplifyExact
<1>5. CASE MakeReturns \/ NondetLabel
  <2>1. NondetExact'
    BY <1>1, <1>2, <1>5, MakeEndsExact, NondetKeepsExact
  <2>2. phase' = "nondet"
    BY <1>5, Zenon DEF MakeReturns, NondetLabel
  <2>3. QED
    BY <2>1, <2>2 DEF ExactInv, MakeExact, FlowInv, SimplifyExact
<1>6. CASE NondetReturns
  <2>1. phase = "nondet" /\ idx = Len(src.keys) /\ phase' = "simplify"
    BY <1>6 DEF NondetReturns
  <2>2. FlowInv'
    BY <1>1, <1>2, <1>6, <2>1, NondetEndFlows DEF Finished
  <2>3. QED
    BY <2>1, <2>2 DEF ExactInv, MakeExact, NondetExact
<1>7. CASE Pop \/ Absorb \/ StopAbsorbing
  <2>1. FlowInv'
    BY <1>2, <1>7, PopFlows, AbsorbFlows, StopFlows
  <2>2. phase' = "simplify"
    BY <1>7 DEF Pop, Absorb, StopAbsorbing
  <2>3. QED
    BY <2>1, <2>2 DEF ExactInv, MakeExact, NondetExact
<1>8. CASE SimplifyReturns
  <2>1. FlowInv'
    BY <1>2, <1>8, ReturnFlows
  <2>2. phase' = "done"
    BY <1>8 DEF SimplifyReturns
  <2>3. QED
    BY <2>1, <2>2 DEF ExactInv, MakeExact, NondetExact
<1>9. CASE UNCHANGED vars
  <2>1. /\ prog' = prog /\ phase' = phase /\ idx' = idx /\ falling' = falling /\ src' = src
        /\ graph' = graph /\ keys' = keys /\ work' = work /\ label' = label
    BY <1>9 DEF vars
  <2>2. PICK g, f, n, i, from, k, j : /\ g = graph /\ f = src.graph /\ n = Len(prog) /\ i = idx
                                      /\ from = falling /\ k = keys /\ j = src.keys
    OBVIOUS
  <2>3. /\ Written(g, i, from)' <=> Written(g, i, from)
        /\ Written(f, n, NoLabel)' <=> Written(f, n, NoLabel)
        /\ \A a : Copied(a, g)' <=> Copied(a, g)
        /\ Right(g)' <=> Right(g)
        /\ RightFrom(g, k[1])' <=> RightFrom(g, k[1])
        /\ FirstKey(k)' <=> FirstKey(k)
        /\ FirstKey(j)' <=> FirstKey(j)
        /\ JumpsToEntry' <=> JumpsToEntry
        /\ Handled' = Handled
    BY <2>1, WrittenKept, CopiedKept, ProgramKept DEF NoLabel, Handled
  <2>4. MakeExact'
    BY <1>2, <2>1, <2>2, <2>3 DEF MakeExact
  <2>5. NondetExact'
    BY <1>2, <2>1, <2>2, <2>3 DEF NondetExact, NoLabel
  <2>6. SimplifyExact'
    BY <1>2, <2>1, <2>2, <2>3 DEF FlowInv, SimplifyExact, NoLabel
  <2>7. FlowInv'
    BY <1>2, <2>1, <2>2, <2>3, <2>6 DEF FlowInv
  <2>8. QED
    BY <2>4, <2>5, <2>7 DEF ExactInv
<1>10. QED
  BY <1>3, <1>4, <1>5, <1>6, <1>7, <1>8, <1>9 DEF Next

LEMMA ExactInvariant == Spec => []ExactInv
<1>1. PassesInv /\ EdgesAgree /\ ChainsReplaced => PassesInv
  OBVIOUS
<1>2. QED
  BY <1>1, ExactStart, ExactStep, CfgInvariant, PTL DEF Spec

LEMMA TameStart == Init => TameInv
<1>1. ASSUME Init PROVE phase = "make"
  BY <1>1 DEF Init
<1>2. QED
  BY <1>1 DEF TameInv

LEMMA TameStep == PassesInv /\ ExactInv /\ TameInv /\ [Next]_vars => TameInv'
<1> SUFFICES ASSUME PassesInv, ExactInv, TameInv, [Next]_vars PROVE TameInv'
  OBVIOUS
<1>1. IsProgram(prog) /\ prog # <<>> /\ prog[1].op # "undef"
  BY ProgsAssumption DEF PassesInv
<1>2. NondetInv /\ SimplifyInv /\ NondetExact /\ FlowInv
  BY DEF PassesInv, ExactInv
<1>3. CASE SkipUndefined \/ MakeInstruction \/ MakeThrows \/ MakeReturns \/ NondetLabel
  <2>1. phase' \notin {"simplify", "done"}
    BY <1>3, Zenon DEF SkipUndefined, MakeInstruction, MakeThrows, MakeReturns, NondetLabel
  <2>2. QED
    BY <2>1 DEF TameInv
<1>4. CASE NondetReturns
  <2>1. phase = "nondet" /\ idx = Len(src.keys)
    BY <1>4 DEF NondetReturns
  <2>2. QED
    BY <1>1, <1>2, <1>4, <2>1, NondetEndTame DEF Finished
<1>5. CASE Pop \/ Absorb \/ StopAbsorbing \/ SimplifyReturns
  BY <1>1, <1>2, <1>5, PopKeepsTame, AbsorbKeepsTame, StopKeepsTame, ReturnTame
<1>6. CASE UNCHANGED vars
  <2>1. prog' = prog /\ phase' = phase /\ graph' = graph /\ keys' = keys
    BY <1>6 DEF vars
  <2>2. PICK g, K, k : g = graph /\ K = ToSet(keys) /\ k = keys
    OBVIOUS
  <2>3. /\ Tame' <=> Tame
        /\ Forward(g, K)' <=> Forward(g, K)
        /\ FirstKey(k)' <=> FirstKey(k)
    BY <2>1, TameKept, ProgramKept
  <2>4. QED
    BY <2>1, <2>2, <2>3 DEF TameInv, NoLabel
<1>7. QED
  BY <1>3, <1>4, <1>5, <1>6 DEF Next

LEMMA TameInvariant == Spec => []TameInv
<1>1. PassesInv /\ EdgesAgree /\ ChainsReplaced => PassesInv
  OBVIOUS
<1>2. QED
  BY <1>1, TameStart, TameStep, CfgInvariant, ExactInvariant, PTL DEF Spec

\* While make links the instructions and through every merge of simplify, each
\* edge is as often in the nextlist of its source as in the prevlist of its
\* target (asm_cfg.hpp, basic_block_t::operator>>): the worklist counts on it.
THEOREM EdgesAlwaysAgree == Spec => []EdgesAgree
BY CfgInvariant, PTL

\* When the worklist of simplify is empty no chain of blocks is left, although
\* a label is looked at once: what a merge changes around a block that is
\* behind the worklist never makes it one that can absorb its successor.
THEOREM ChainsAlwaysReplaced == Spec => []ChainsReplaced
BY CfgInvariant, PTL

\* After to_nondet and after every merge of simplify the instructions and
\* assumptions follow one another along the edges of the graph as they do in
\* the program: no path is lost, none is invented, no branch is swapped.
THEOREM FlowAlwaysPreserved == Spec => []FlowPreserved
<1>1. ExactInv => FlowPreserved
  BY FlowShows DEF ExactInv
<1>2. QED
  BY <1>1, ExactInvariant, PTL

\* The graph lists each instruction except the jumps, and each assumption, in
\* one place, also between the merges of simplify.
THEOREM ItemsAlwaysOnce == Spec => []ItemsOnce
<1>1. ExactInv => ItemsOnce
  BY FlowShows DEF ExactInv
<1>2. QED
  BY <1>1, ExactInvariant, PTL

\* When no jump goes back to the first instruction, the first of the ordered
\* labels is that of the block with which the program starts, whatever simplify
\* has merged.
THEOREM EntryAlwaysFirst == Spec => []EntryFirst
<1>1. ExactInv => EntryFirst
  BY FlowShows DEF ExactInv
<1>2. QED
  BY <1>1, ExactInvariant, PTL

\* Of a program whose jumps go forward, past the next instruction, and whose
\* every instruction runs, simplify leaves a graph that the worklist covers
\* whole: its keys are its blocks, each edge is listed once on both sides,
\* nothing runs in a cycle, and all is reached from the first key.
THEOREM AlwaysHandsOver == Spec => []HandsOver
BY TameInvariant, TameShows, PTL

=============================================================================
