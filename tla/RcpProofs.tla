----------------------------- MODULE RcpProofs -----------------------------
(***************************************************************************)
(* The values of the RCP analyser cover the real ones, and the comparisons *)
(* it accepts hold: for every width of the words, any number of maps and   *)
(* any number of steps.                                                    *)
(***************************************************************************)
EXTENDS RcpPair, Iteration, SequenceTheorems

-----------------------------------------------------------------------------
(* Vectors in order.                                                         *)

Ordered(s) == \A i \in 1 .. Len(s) : \A j \in 1 .. Len(s) : i < j => s[i] < s[j]

LEMMA OrderedIsInOrder ==
  ASSUME NEW a, a.elems \in Seq(Int)
  PROVE  InOrder(a) <=> Ordered(a.elems)
<1> DEFINE s == a.elems
           n == Len(s)
<1>1. n \in Nat /\ \A i \in 1 .. n : s[i] \in Int
  BY ElementOfSeq
<1>2. Ordered(s) => InOrder(a)
  BY <1>1, SMTT(30) DEF Ordered, InOrder
<1>3. ASSUME InOrder(a) PROVE Ordered(s)
  <2>1. SUFFICES ASSUME NEW i \in 1 .. n, NEW j \in 1 .. n, i < j PROVE s[i] < s[j]
    BY DEF Ordered
  <2> DEFINE G == {k \in 0 .. n - i - 1 : s[i] < s[i + 1 + k]}
  <2>2. 0 \in G
    BY <1>1, <1>3, <2>1 DEF InOrder
  <2>3. ASSUME NEW k \in 0 .. n - i - 2, k \in G PROVE k + 1 \in G
    <3>1. i + 1 + k \in 1 .. n - 1 /\ i + 1 + (k + 1) = i + 1 + k + 1
      BY <1>1, <2>1, <2>3
    <3>2. s[i + 1 + k] < s[i + 1 + k + 1]
      BY <1>3, <3>1 DEF InOrder
    <3>3. s[i] < s[i + 1 + k]
      BY <2>3
    <3>4. s[i] \in Int /\ s[i + 1 + k] \in Int /\ s[i + 1 + k + 1] \in Int
      BY <1>1, <2>1, <3>1
    <3>5. s[i] < s[i + 1 + (k + 1)]
      BY <3>1, <3>2, <3>3, <3>4, SMTT(30)
    <3>6. k + 1 \in 0 .. n - i - 1
      BY <1>1, <2>1, <2>3
    <3>7. QED
      BY <3>5, <3>6
  <2>4. 0 .. n - i - 1 \subseteq G
    <3> HIDE DEF G, n, s
    <3>1. n - i - 1 \in Nat /\ (n - i - 1) - 1 = n - i - 2
      BY <1>1, <2>1
    <3>2. QED
      BY <2>2, <2>3, <3>1, IntervalInduction
  <2>5. j - i - 1 \in 0 .. n - i - 1 /\ i + 1 + (j - i - 1) = j
    BY <1>1, <2>1
  <2>6. QED
    BY <2>4, <2>5
<1>4. QED
  BY <1>2, <1>3

\* What a push_back leaves.
LEMMA AppendFacts ==
  ASSUME NEW s \in Seq(Int), NEW e \in Int, NEW r, r = Append(s, e)
  PROVE  /\ r \in Seq(Int)
         /\ Range(r) = Range(s) \cup {e}
         /\ (Ordered(s) /\ \A x \in Range(s) : x < e) => Ordered(r)
<1>1. r \in Seq(Int) /\ Len(r) = Len(s) + 1 /\ Len(s) \in Nat
  BY AppendProperties
<1>2. /\ \A i \in 1 .. Len(s) : r[i] = s[i] /\ s[i] \in Int
      /\ r[Len(s) + 1] = e
  BY AppendProperties, ElementOfSeq
<1>3. DOMAIN r = 1 .. Len(s) + 1 /\ DOMAIN s = 1 .. Len(s)
  BY <1>1
<1>4. Range(r) = Range(s) \cup {e}
  BY <1>1, <1>2, <1>3 DEF Range
<1>5. ASSUME Ordered(s), \A x \in Range(s) : x < e PROVE Ordered(r)
  <2>1. \A i \in 1 .. Len(s) : s[i] < e
    BY <1>3, <1>5 DEF Range
  <2>2. SUFFICES ASSUME NEW i \in 1 .. Len(s) + 1, NEW j \in 1 .. Len(s) + 1, i < j
                 PROVE r[i] < r[j]
    BY <1>1 DEF Ordered
  <2>3. i \in 1 .. Len(s)
    BY <1>1, <2>2
  <2>4. CASE j = Len(s) + 1
    BY <1>2, <2>1, <2>3, <2>4
  <2>5. CASE j \in 1 .. Len(s)
    BY <1>2, <1>5, <2>2, <2>3, <2>5 DEF Ordered
  <2>6. QED
    BY <1>1, <2>4, <2>5
<1>6. QED
  BY <1>1, <1>4, <1>5

\* Where an element of a sequence is.
LEMMA RangeIndex ==
  ASSUME NEW S, NEW s \in Seq(S)
  PROVE  /\ Len(s) \in Nat
         /\ Range(s) \subseteq S
         /\ \A i \in 1 .. Len(s) : s[i] \in Range(s) /\ s[i] \in S
         /\ \A e \in Range(s) : \E i \in 1 .. Len(s) : s[i] = e
         /\ IsFiniteSet(Range(s))
<1>1. DOMAIN s = 1 .. Len(s) /\ Len(s) \in Nat /\ \A i \in 1 .. Len(s) : s[i] \in S
  BY ElementOfSeq
<1>2. Range(s) = {s[i] : i \in 1 .. Len(s)}
  BY <1>1 DEF Range
<1>3. IsFiniteSet({s[i] : i \in 1 .. Len(s)})
  <2>1. [i \in 1 .. Len(s) |-> s[i]] \in Surjection(1 .. Len(s), {s[i] : i \in 1 .. Len(s)})
    BY DEF Surjection
  <2>2. IsFiniteSet(1 .. Len(s))
    BY <1>1, FS_Interval
  <2>3. QED
    BY <2>1, <2>2, FS_Surjection
<1>4. QED
  BY <1>1, <1>2, <1>3

-----------------------------------------------------------------------------
(* The walk of two vectors.                                                  *)

\* After n turns: where the walk is, and what it has put out.
Midway(s, t, left, both, right, n, w) ==
  /\ w \in [i : 1 .. Len(s) + 1, j : 1 .. Len(t) + 1, out : Seq(Int)]
  /\ w.i + w.j >= n + 2 \/ (w.i = Len(s) + 1 /\ w.j = Len(t) + 1)
  /\ \A e \in Range(w.out) : \/ left /\ e \in Range(s)
                             \/ right /\ e \in Range(t)
                             \/ both /\ e \in Range(s) \cap Range(t)
  /\ left => \A k \in 1 .. w.i - 1 : s[k] \in Range(w.out) \/ (~both /\ s[k] \in Range(t))
  /\ (right /\ both) => \A k \in 1 .. w.j - 1 : t[k] \in Range(w.out)

\* And more than that when both vectors are in order.
Sorted(s, t, i, j, out) ==
  /\ Ordered(out)
  /\ \A e \in Range(out) : (i <= Len(s) => e < s[i]) /\ (j <= Len(t) => e < t[j])
  /\ \A k \in 1 .. j - 1 : i <= Len(s) => t[k] < s[i]
  /\ \A k \in 1 .. i - 1 : j <= Len(t) => s[k] < t[j]

\* What is in both has been put out; what is in t has not.
Meets(s, t, i, out) == \A k \in 1 .. i - 1 : s[k] \in Range(t) => s[k] \in Range(out)
Misses(t, j, out)   == \A k \in 1 .. j - 1 : t[k] \notin Range(out)

\* The three kinds of turn, from w to v, and the end.
Ends(s, t, w, v) == w.i = Len(s) + 1 /\ w.j = Len(t) + 1 /\ v = w

TakesLeft(s, t, put, w, v) ==
  /\ w.i <= Len(s) /\ (w.j <= Len(t) => s[w.i] < t[w.j])
  /\ v.i = w.i + 1 /\ v.j = w.j
  /\ v.out = IF put THEN Append(w.out, s[w.i]) ELSE w.out

TakesRight(s, t, put, w, v) ==
  /\ w.j <= Len(t) /\ (w.i <= Len(s) => t[w.j] < s[w.i])
  /\ v.i = w.i /\ v.j = w.j + 1
  /\ v.out = IF put THEN Append(w.out, t[w.j]) ELSE w.out

TakesBoth(s, t, put, w, v) ==
  /\ w.i <= Len(s) /\ w.j <= Len(t) /\ s[w.i] = t[w.j]
  /\ v.i = w.i + 1 /\ v.j = w.j + 1
  /\ v.out = IF put THEN Append(w.out, s[w.i]) ELSE w.out

LEMMA TurnCases ==
  ASSUME NEW s \in Seq(Int), NEW t \in Seq(Int), NEW left, NEW both, NEW right,
         NEW w \in [i : 1 .. Len(s) + 1, j : 1 .. Len(t) + 1, out : Seq(Int)],
         NEW v, v = Turn(s, t, left, both, right, w)
  PROVE  /\ v = [i |-> v.i, j |-> v.j, out |-> v.out]
         /\ Ends(s, t, w, v) \/ TakesLeft(s, t, left, w, v)
             \/ TakesRight(s, t, right, w, v) \/ TakesBoth(s, t, both, w, v)
<1>1. /\ Len(s) \in Nat /\ Len(t) \in Nat /\ w.i \in 1 .. Len(s) + 1 /\ w.j \in 1 .. Len(t) + 1
      /\ w.i <= Len(s) => s[w.i] \in Int
      /\ w.j <= Len(t) => t[w.j] \in Int
      /\ w = [i |-> w.i, j |-> w.j, out |-> w.out]
  BY ElementOfSeq
<1>2. CASE w.i > Len(s) /\ w.j > Len(t)
  <2>1. v = w
    BY <1>2 DEF Turn
  <2>2. QED
    BY <1>1, <1>2, <2>1 DEF Ends
<1>3. CASE w.i <= Len(s) /\ (w.j <= Len(t) => s[w.i] < t[w.j])
  <2>1. v = [i |-> w.i + 1, j |-> w.j,
             out |-> IF left THEN Append(w.out, s[w.i]) ELSE w.out]
    <3>1. /\ ~(w.i > Len(s) /\ w.j > Len(t))
          /\ w.j > Len(t) \/ (w.i <= Len(s) /\ s[w.i] < t[w.j])
      BY <1>1, <1>3
    <3>2. QED
      BY <3>1, Zenon DEF Turn
  <2>2. TakesLeft(s, t, left, w, v)
    BY <1>3, <2>1 DEF TakesLeft
  <2>3. QED
    BY <2>1, <2>2
<1>4. CASE w.j <= Len(t) /\ (w.i <= Len(s) => t[w.j] < s[w.i])
  <2>1. v = [i |-> w.i, j |-> w.j + 1,
             out |-> IF right THEN Append(w.out, t[w.j]) ELSE w.out]
    <3>1. /\ ~(w.i > Len(s) /\ w.j > Len(t))
          /\ ~(w.j > Len(t) \/ (w.i <= Len(s) /\ s[w.i] < t[w.j]))
          /\ w.i > Len(s) \/ t[w.j] < s[w.i]
      BY <1>1, <1>4, SMTT(30)
    <3>2. QED
      BY <3>1, Zenon DEF Turn
  <2>2. TakesRight(s, t, right, w, v)
    BY <1>4, <2>1 DEF TakesRight
  <2>3. QED
    BY <2>1, <2>2
<1>5. CASE w.i <= Len(s) /\ w.j <= Len(t) /\ s[w.i] = t[w.j]
  <2>1. v = [i |-> w.i + 1, j |-> w.j + 1,
             out |-> IF both THEN Append(w.out, s[w.i]) ELSE w.out]
    <3>1. /\ ~(w.i > Len(s) /\ w.j > Len(t))
          /\ ~(w.j > Len(t) \/ (w.i <= Len(s) /\ s[w.i] < t[w.j]))
          /\ ~(w.i > Len(s) \/ t[w.j] < s[w.i])
      BY <1>1, <1>5
    <3>2. QED
      BY <3>1, Zenon DEF Turn
  <2>2. TakesBoth(s, t, both, w, v)
    BY <1>5, <2>1 DEF TakesBoth
  <2>3. QED
    BY <2>1, <2>2
<1>6. QED
  <2>1. \/ w.i > Len(s) /\ w.j > Len(t)
        \/ w.i <= Len(s) /\ (w.j <= Len(t) => s[w.i] < t[w.j])
        \/ w.j <= Len(t) /\ (w.i <= Len(s) => t[w.j] < s[w.i])
        \/ w.i <= Len(s) /\ w.j <= Len(t) /\ s[w.i] = t[w.j]
    BY <1>1
  <2>2. QED
    BY <2>1, <1>2, <1>3, <1>4, <1>5, Zenon

LEMMA TurnKeeps ==
  ASSUME NEW s \in Seq(Int), NEW t \in Seq(Int), NEW left \in BOOLEAN,
         NEW both \in BOOLEAN, NEW right \in BOOLEAN, NEW n \in Nat,
         NEW w, Midway(s, t, left, both, right, n, w),
         NEW v, v = Turn(s, t, left, both, right, w)
  PROVE  Midway(s, t, left, both, right, n + 1, v)
<1>1. /\ w \in [i : 1 .. Len(s) + 1, j : 1 .. Len(t) + 1, out : Seq(Int)]
      /\ Len(s) \in Nat /\ Len(t) \in Nat
      /\ \A k \in 1 .. Len(s) : s[k] \in Range(s) /\ s[k] \in Int
      /\ \A k \in 1 .. Len(t) : t[k] \in Range(t) /\ t[k] \in Int
  BY RangeIndex DEF Midway
<1>2. w.i \in 1 .. Len(s) + 1 /\ w.j \in 1 .. Len(t) + 1 /\ w.out \in Seq(Int)
  BY <1>1
<1>3. /\ v = [i |-> v.i, j |-> v.j, out |-> v.out]
      /\ Ends(s, t, w, v) \/ TakesLeft(s, t, left, w, v)
             \/ TakesRight(s, t, right, w, v) \/ TakesBoth(s, t, both, w, v)
  BY <1>1, TurnCases
<1>4. w.i + w.j >= n + 2 \/ (w.i = Len(s) + 1 /\ w.j = Len(t) + 1)
  BY DEF Midway
<1>5. CASE Ends(s, t, w, v)
  BY <1>5 DEF Midway, Ends
<1>6. CASE TakesLeft(s, t, left, w, v)
  <2>1. PICK e \in Int : e = s[w.i] /\ e \in Range(s)
    BY <1>1, <1>2, <1>6 DEF TakesLeft
  <2>2. PICK r : r = IF left THEN Append(w.out, e) ELSE w.out
    OBVIOUS
  <2>3. r \in Seq(Int) /\ Range(r) = Range(w.out) \cup (IF left THEN {e} ELSE {})
    <3>1. CASE left
      BY <1>2, <2>1, <2>2, <3>1, AppendFacts
    <3>2. CASE ~left
      BY <1>2, <2>2, <3>2
    <3>3. QED
      BY <3>1, <3>2
  <2>4. v.i = w.i + 1 /\ v.j = w.j /\ v.out = r
    BY <1>6, <2>1, <2>2 DEF TakesLeft
  <2>5. v \in [i : 1 .. Len(s) + 1, j : 1 .. Len(t) + 1, out : Seq(Int)]
    BY <1>1, <1>2, <1>6, <1>3, <2>3, <2>4, SMTT(30) DEF TakesLeft
  <2>6. v.i + v.j >= n + 1 + 2 \/ (v.i = Len(s) + 1 /\ v.j = Len(t) + 1)
    BY <1>1, <1>2, <1>6, <1>4, <2>4, SMTT(30) DEF TakesLeft
  <2>7. \A x \in Range(v.out) : \/ left /\ x \in Range(s)
                                \/ right /\ x \in Range(t)
                                \/ both /\ x \in Range(s) \cap Range(t)
    BY <2>1, <2>3, <2>4 DEF Midway
  <2>8. left => \A k \in 1 .. v.i - 1 :
                    s[k] \in Range(v.out) \/ (~both /\ s[k] \in Range(t))
    <3>1. ASSUME left, NEW k \in 1 .. v.i - 1
          PROVE  s[k] \in Range(v.out) \/ (~both /\ s[k] \in Range(t))
      <4>1. k = w.i \/ k \in 1 .. w.i - 1
        BY <1>2, <2>4
      <4>2. QED
        BY <2>1, <2>3, <2>4, <3>1, <4>1 DEF Midway
    <3>2. QED
      BY <3>1
  <2>9. (right /\ both) => \A k \in 1 .. v.j - 1 : t[k] \in Range(v.out)
    BY <2>3, <2>4 DEF Midway
  <2>10. QED
    BY <2>5, <2>6, <2>7, <2>8, <2>9 DEF Midway
<1>7. CASE TakesRight(s, t, right, w, v)
  <2>1. PICK e \in Int : e = t[w.j] /\ e \in Range(t)
    BY <1>1, <1>2, <1>7 DEF TakesRight
  <2>2. PICK r : r = IF right THEN Append(w.out, e) ELSE w.out
    OBVIOUS
  <2>3. r \in Seq(Int) /\ Range(r) = Range(w.out) \cup (IF right THEN {e} ELSE {})
    <3>1. CASE right
      BY <1>2, <2>1, <2>2, <3>1, AppendFacts
    <3>2. CASE ~right
      BY <1>2, <2>2, <3>2
    <3>3. QED
      BY <3>1, <3>2
  <2>4. v.i = w.i /\ v.j = w.j + 1 /\ v.out = r
    BY <1>7, <2>1, <2>2 DEF TakesRight
  <2>5. v \in [i : 1 .. Len(s) + 1, j : 1 .. Len(t) + 1, out : Seq(Int)]
    BY <1>1, <1>2, <1>7, <1>3, <2>3, <2>4, SMTT(30) DEF TakesRight
  <2>6. v.i + v.j >= n + 1 + 2 \/ (v.i = Len(s) + 1 /\ v.j = Len(t) + 1)
    BY <1>1, <1>2, <1>7, <1>4, <2>4, SMTT(30) DEF TakesRight
  <2>7. \A x \in Range(v.out) : \/ left /\ x \in Range(s)
                                \/ right /\ x \in Range(t)
                                \/ both /\ x \in Range(s) \cap Range(t)
    BY <2>1, <2>3, <2>4 DEF Midway
  <2>8. left => \A k \in 1 .. v.i - 1 :
                    s[k] \in Range(v.out) \/ (~both /\ s[k] \in Range(t))
    BY <2>3, <2>4 DEF Midway
  <2>9. (right /\ both) => \A k \in 1 .. v.j - 1 : t[k] \in Range(v.out)
    <3>1. ASSUME right, both, NEW k \in 1 .. v.j - 1 PROVE t[k] \in Range(v.out)
      <4>1. k = w.j \/ k \in 1 .. w.j - 1
        BY <1>2, <2>4
      <4>2. QED
        BY <2>1, <2>3, <2>4, <3>1, <4>1 DEF Midway
    <3>2. QED
      BY <3>1
  <2>10. QED
    BY <2>5, <2>6, <2>7, <2>8, <2>9 DEF Midway
<1>8. CASE TakesBoth(s, t, both, w, v)
  <2>1. PICK e \in Int : e = s[w.i] /\ e = t[w.j] /\ e \in Range(s) /\ e \in Range(t)
    BY <1>1, <1>2, <1>8, SMTT(30) DEF TakesBoth
  <2>2. PICK r : r = IF both THEN Append(w.out, e) ELSE w.out
    OBVIOUS
  <2>3. r \in Seq(Int) /\ Range(r) = Range(w.out) \cup (IF both THEN {e} ELSE {})
    <3>1. CASE both
      BY <1>2, <2>1, <2>2, <3>1, AppendFacts
    <3>2. CASE ~both
      BY <1>2, <2>2, <3>2
    <3>3. QED
      BY <3>1, <3>2
  <2>4. v.i = w.i + 1 /\ v.j = w.j + 1 /\ v.out = r
    BY <1>8, <2>1, <2>2 DEF TakesBoth
  <2>5. v \in [i : 1 .. Len(s) + 1, j : 1 .. Len(t) + 1, out : Seq(Int)]
    <3>1. w.i + 1 \in 1 .. Len(s) + 1 /\ w.j + 1 \in 1 .. Len(t) + 1
      <4>1. w.i <= Len(s) /\ w.j <= Len(t)
        BY <1>8 DEF TakesBoth
      <4>2. QED
        BY <1>1, <1>2, <4>1, SMTT(30)
    <3>2. QED
      BY <1>3, <2>3, <2>4, <3>1
  <2>6. v.i + v.j >= n + 1 + 2 \/ (v.i = Len(s) + 1 /\ v.j = Len(t) + 1)
    <3>1. w.i + w.j >= n + 2
      BY <1>1, <1>2, <1>8, <1>4 DEF TakesBoth
    <3>2. QED
      BY <1>2, <2>4, <3>1
  <2>7. \A x \in Range(v.out) : \/ left /\ x \in Range(s)
                                \/ right /\ x \in Range(t)
                                \/ both /\ x \in Range(s) \cap Range(t)
    BY <2>1, <2>3, <2>4 DEF Midway
  <2>8. left => \A k \in 1 .. v.i - 1 :
                    s[k] \in Range(v.out) \/ (~both /\ s[k] \in Range(t))
    <3>1. ASSUME left, NEW k \in 1 .. v.i - 1
          PROVE  s[k] \in Range(v.out) \/ (~both /\ s[k] \in Range(t))
      <4>1. k = w.i \/ k \in 1 .. w.i - 1
        BY <1>2, <2>4
      <4>2. QED
        BY <2>1, <2>3, <2>4, <3>1, <4>1 DEF Midway
    <3>2. QED
      BY <3>1
  <2>9. (right /\ both) => \A k \in 1 .. v.j - 1 : t[k] \in Range(v.out)
    <3>1. ASSUME right, both, NEW k \in 1 .. v.j - 1 PROVE t[k] \in Range(v.out)
      <4>1. k = w.j \/ k \in 1 .. w.j - 1
        BY <1>2, <2>4
      <4>2. QED
        BY <2>1, <2>3, <2>4, <3>1, <4>1 DEF Midway
    <3>2. QED
      BY <3>1
  <2>10. QED
    BY <2>5, <2>6, <2>7, <2>8, <2>9 DEF Midway
<1>9. QED
  BY <1>5, <1>6, <1>7, <1>8, <1>3, Zenon

\* The element taken is e: the head of one of the vectors, not above the other.
At(s, i, e)    == i \in 1 .. Len(s) /\ s[i] = e
Below(e, s, i) == i <= Len(s) => e < s[i]

LEMMA AroundHead ==
  ASSUME NEW s \in Seq(Int), Ordered(s), NEW i \in Int, NEW e \in Int, At(s, i, e)
  PROVE  /\ i \in 1 .. Len(s) /\ e \in Range(s)
         /\ \A k \in 1 .. i - 1 : s[k] < e
         /\ \A k \in 1 .. i : s[k] <= e
         /\ \A k \in 1 .. Len(s) : i < k => e < s[k]
         /\ Below(e, s, i + 1)
<1>1. /\ Len(s) \in Nat /\ i \in 1 .. Len(s)
      /\ \A k \in 1 .. Len(s) : s[k] \in Range(s) /\ s[k] \in Int
  BY RangeIndex DEF At
<1>2. \A k \in 1 .. Len(s) : i < k => e < s[k]
  BY <1>1 DEF Ordered, At
<1>3. \A k \in 1 .. i - 1 : s[k] < e
  BY <1>1 DEF Ordered, At
<1>4. e \in Range(s) /\ s[i] = e
  BY <1>1 DEF At
<1>5. \A k \in 1 .. i : s[k] <= e
  BY <1>1, <1>3, <1>4
<1>6. Below(e, s, i + 1)
  BY <1>1, <1>2 DEF Below
<1>7. QED
  BY <1>1, <1>2, <1>3, <1>4, <1>5, <1>6

LEMMA BelowHead ==
  ASSUME NEW s \in Seq(Int), Ordered(s), NEW i \in 1 .. Len(s) + 1, NEW e \in Int,
         Below(e, s, i)
  PROVE  \A k \in 1 .. Len(s) : i <= k => e < s[k]
<1>1. Len(s) \in Nat /\ \A k \in 1 .. Len(s) : s[k] \in Int
  BY RangeIndex
<1>2. QED
  BY <1>1 DEF Ordered, Below

\* The walk stays in order when all it has taken is at most e and what comes
\* is above e.
LEMMA SortedAround ==
  ASSUME NEW s \in Seq(Int), NEW t \in Seq(Int), NEW i \in 1 .. Len(s) + 1,
         NEW j \in 1 .. Len(t) + 1, NEW r, Ordered(r), NEW e \in Int,
         \A x \in Range(r) : x \in Int /\ x <= e,
         \A k \in 1 .. i - 1 : s[k] <= e, \A k \in 1 .. j - 1 : t[k] <= e,
         Below(e, s, i), Below(e, t, j)
  PROVE  Sorted(s, t, i, j, r)
<1>1. /\ Len(s) \in Nat /\ \A k \in 1 .. Len(s) : s[k] \in Int
      /\ Len(t) \in Nat /\ \A k \in 1 .. Len(t) : t[k] \in Int
  BY RangeIndex
<1>2. \A x \in Range(r) : (i <= Len(s) => x < s[i]) /\ (j <= Len(t) => x < t[j])
  BY <1>1 DEF Below
<1>3. \A k \in 1 .. j - 1 : i <= Len(s) => t[k] < s[i]
  BY <1>1, SMTT(30) DEF Below
<1>4. \A k \in 1 .. i - 1 : j <= Len(t) => s[k] < t[j]
  BY <1>1, SMTT(30) DEF Below
<1>5. QED
  BY <1>2, <1>3, <1>4 DEF Sorted

LEMMA LeftKeepsOrder ==
  ASSUME NEW s \in Seq(Int), NEW t \in Seq(Int), Ordered(s), Ordered(t),
         NEW i \in 1 .. Len(s) + 1, NEW j \in 1 .. Len(t) + 1,
         NEW out \in Seq(Int), Sorted(s, t, i, j, out),
         NEW e \in Int, At(s, i, e), Below(e, t, j),
         NEW r, Ordered(r), Range(out) \subseteq Range(r),
         \A x \in Range(r) : x \in Range(out) \/ x = e
  PROVE  /\ Sorted(s, t, i + 1, j, r)
         /\ Meets(s, t, i, out) => Meets(s, t, i + 1, r)
         /\ Misses(t, j, out) => Misses(t, j, r)
<1>1. /\ Len(s) \in Nat /\ Len(t) \in Nat
      /\ \A k \in 1 .. Len(t) : t[k] \in Int
      /\ \A x \in Range(t) : \E k \in 1 .. Len(t) : t[k] = x
      /\ Range(out) \subseteq Int
  BY RangeIndex
<1>2. /\ i \in 1 .. Len(s) /\ e \in Range(s)
      /\ \A k \in 1 .. i : s[k] <= e
      /\ Below(e, s, i + 1)
  BY AroundHead
<1>3. \A k \in 1 .. Len(t) : j <= k => e < t[k]
  BY BelowHead
<1>4. \A k \in 1 .. j - 1 : t[k] < e
  BY <1>2 DEF Sorted, At
<1>5. \A x \in Range(r) : x \in Int /\ x <= e
  <2>1. \A x \in Range(out) : x < e
    BY <1>2 DEF Sorted, At
  <2>2. SUFFICES ASSUME NEW x \in Range(r) PROVE x \in Int /\ x <= e
    OBVIOUS
  <2>3. CASE x \in Range(out)
    BY <1>1, <2>1, <2>3
  <2>4. CASE x = e
    BY <2>4
  <2>5. QED
    BY <2>2, <2>3, <2>4
<1>6. Sorted(s, t, i + 1, j, r)
  <2>1. i + 1 \in 1 .. Len(s) + 1 /\ (i + 1) - 1 = i
    BY <1>1, <1>2
  <2>2. \A k \in 1 .. j - 1 : t[k] <= e
    BY <1>1, <1>4
  <2>3. QED
    BY <1>2, <1>5, <2>1, <2>2, SortedAround
\* What is in t from here on is above e, and what came before is below.
<1>7. e \notin Range(t)
  <2>1. \A k \in 1 .. Len(t) : t[k] # e
    <3>1. ASSUME NEW k \in 1 .. Len(t) PROVE t[k] # e
      <4>1. CASE k \in 1 .. j - 1
        BY <1>1, <1>4, <4>1
      <4>2. CASE j <= k
        BY <1>1, <1>3, <4>2
      <4>3. QED
        BY <1>1, <4>1, <4>2
    <3>2. QED
      BY <3>1
  <2>2. QED
    BY <1>1, <2>1
<1>8. ASSUME Meets(s, t, i, out) PROVE Meets(s, t, i + 1, r)
  <2>1. SUFFICES ASSUME NEW k \in 1 .. i + 1 - 1, s[k] \in Range(t)
                 PROVE  s[k] \in Range(r)
    BY DEF Meets
  <2>2. s[i] = e
    BY DEF At
  <2>3. k \in 1 .. i - 1
    BY <1>7, <2>1, <2>2
  <2>4. QED
    BY <1>8, <2>1, <2>3 DEF Meets
<1>9. ASSUME Misses(t, j, out) PROVE Misses(t, j, r)
  <2>1. SUFFICES ASSUME NEW k \in 1 .. j - 1 PROVE t[k] \notin Range(r)
    BY DEF Misses
  <2>2. t[k] # e
    BY <1>1, <1>4, <2>1
  <2>3. QED
    BY <1>9, <2>1, <2>2 DEF Misses
<1>10. QED
  BY <1>6, <1>8, <1>9

LEMMA RightKeepsOrder ==
  ASSUME NEW s \in Seq(Int), NEW t \in Seq(Int), Ordered(s), Ordered(t),
         NEW i \in 1 .. Len(s) + 1, NEW j \in 1 .. Len(t) + 1,
         NEW out \in Seq(Int), Sorted(s, t, i, j, out),
         NEW e \in Int, At(t, j, e), Below(e, s, i),
         NEW r, Ordered(r), Range(out) \subseteq Range(r),
         \A x \in Range(r) : x \in Range(out) \/ x = e
  PROVE  /\ Sorted(s, t, i, j + 1, r)
         /\ Meets(s, t, i, out) => Meets(s, t, i, r)
         /\ Misses(t, j, out) /\ r = out => Misses(t, j + 1, r)
<1>1. /\ Len(s) \in Nat /\ Len(t) \in Nat
      /\ \A k \in 1 .. Len(s) : s[k] \in Int
      /\ Range(out) \subseteq Int
  BY RangeIndex
<1>2. /\ j \in 1 .. Len(t)
      /\ \A k \in 1 .. j : t[k] <= e
      /\ Below(e, t, j + 1)
  BY AroundHead
<1>3. \A k \in 1 .. i - 1 : s[k] < e
  BY <1>2 DEF Sorted, At
<1>4. \A x \in Range(out) : x < e
  BY <1>2 DEF Sorted, At
<1>5. Sorted(s, t, i, j + 1, r)
  <2>1. j + 1 \in 1 .. Len(t) + 1 /\ (j + 1) - 1 = j
    BY <1>1, <1>2
  <2>2. \A k \in 1 .. i - 1 : s[k] <= e
    BY <1>1, <1>3
  <2>3. \A x \in Range(r) : x \in Int /\ x <= e
    <3>1. SUFFICES ASSUME NEW x \in Range(r) PROVE x \in Int /\ x <= e
      OBVIOUS
    <3>2. CASE x \in Range(out)
      BY <1>1, <1>4, <3>2
    <3>3. CASE x = e
      BY <3>3
    <3>4. QED
      BY <3>1, <3>2, <3>3
  <2>4. QED
    BY <1>2, <2>1, <2>2, <2>3, SortedAround
<1>6. Meets(s, t, i, out) => Meets(s, t, i, r)
  BY DEF Meets
<1>7. ASSUME Misses(t, j, out) PROVE Misses(t, j + 1, out)
  <2>1. SUFFICES ASSUME NEW k \in 1 .. j + 1 - 1 PROVE t[k] \notin Range(out)
    BY DEF Misses
  <2>2. CASE k \in 1 .. j - 1
    BY <1>7, <2>2 DEF Misses
  <2>3. CASE k = j
    <3>1. t[k] = e
      BY <2>3 DEF At
    <3>2. QED
      BY <1>1, <1>4, <3>1
  <2>4. QED
    BY <2>1, <2>2, <2>3
<1>8. QED
  BY <1>5, <1>6, <1>7

LEMMA BothKeepsOrder ==
  ASSUME NEW s \in Seq(Int), NEW t \in Seq(Int), Ordered(s), Ordered(t),
         NEW i \in 1 .. Len(s) + 1, NEW j \in 1 .. Len(t) + 1,
         NEW out \in Seq(Int), Sorted(s, t, i, j, out),
         NEW e \in Int, At(s, i, e), At(t, j, e),
         NEW r, Ordered(r), Range(out) \subseteq Range(r),
         \A x \in Range(r) : x \in Range(out) \/ x = e
  PROVE  /\ Sorted(s, t, i + 1, j + 1, r)
         /\ Meets(s, t, i, out) /\ e \in Range(r) => Meets(s, t, i + 1, r)
         /\ Misses(t, j, out) /\ r = out => Misses(t, j + 1, r)
<1>1. Len(s) \in Nat /\ Len(t) \in Nat /\ Range(out) \subseteq Int
  BY RangeIndex
<1>2. /\ i \in 1 .. Len(s)
      /\ \A k \in 1 .. i : s[k] <= e
      /\ Below(e, s, i + 1)
  BY AroundHead
<1>3. /\ j \in 1 .. Len(t)
      /\ \A k \in 1 .. j : t[k] <= e
      /\ Below(e, t, j + 1)
  BY AroundHead
<1>4. \A x \in Range(out) : x < e
  <2>1. \A x \in Range(out) : x < s[i]
    BY <1>2 DEF Sorted
  <2>2. s[i] = e
    BY DEF At
  <2>3. QED
    BY <2>1, <2>2
<1>5. Sorted(s, t, i + 1, j + 1, r)
  <2>1. i + 1 \in 1 .. Len(s) + 1 /\ (i + 1) - 1 = i
    BY <1>1, <1>2
  <2>2. j + 1 \in 1 .. Len(t) + 1 /\ (j + 1) - 1 = j
    BY <1>1, <1>3
  <2>3. \A x \in Range(r) : x \in Int /\ x <= e
    <3>1. SUFFICES ASSUME NEW x \in Range(r) PROVE x \in Int /\ x <= e
      OBVIOUS
    <3>2. CASE x \in Range(out)
      BY <1>1, <1>4, <3>2
    <3>3. CASE x = e
      BY <3>3
    <3>4. QED
      BY <3>1, <3>2, <3>3
  <2>4. QED
    BY <1>2, <1>3, <2>1, <2>2, <2>3, SortedAround
<1>6. ASSUME Meets(s, t, i, out), e \in Range(r) PROVE Meets(s, t, i + 1, r)
  <2>1. SUFFICES ASSUME NEW k \in 1 .. i + 1 - 1, s[k] \in Range(t)
                 PROVE  s[k] \in Range(r)
    BY DEF Meets
  <2>2. CASE k \in 1 .. i - 1
    BY <1>6, <2>1, <2>2 DEF Meets
  <2>3. CASE k = i
    <3>1. s[k] = e
      BY <2>3 DEF At
    <3>2. QED
      BY <1>6, <3>1
  <2>4. QED
    BY <2>1, <2>2, <2>3
<1>7. ASSUME Misses(t, j, out) PROVE Misses(t, j + 1, out)
  <2>1. SUFFICES ASSUME NEW k \in 1 .. j + 1 - 1 PROVE t[k] \notin Range(out)
    BY DEF Misses
  <2>2. CASE k \in 1 .. j - 1
    BY <1>7, <2>2 DEF Misses
  <2>3. CASE k = j
    <3>1. t[k] = e
      BY <2>3 DEF At
    <3>2. QED
      BY <1>1, <1>4, <3>1
  <2>4. QED
    BY <2>1, <2>2, <2>3
<1>8. QED
  BY <1>5, <1>6, <1>7

LEMMA TurnKeepsOrder ==
  ASSUME NEW s \in Seq(Int), NEW t \in Seq(Int), NEW left \in BOOLEAN,
         NEW both \in BOOLEAN, NEW right \in BOOLEAN, NEW n \in Nat,
         NEW w, Midway(s, t, left, both, right, n, w), Ordered(s), Ordered(t),
         Sorted(s, t, w.i, w.j, w.out),
         NEW v, v = Turn(s, t, left, both, right, w)
  PROVE  /\ Sorted(s, t, v.i, v.j, v.out)
         /\ both /\ Meets(s, t, w.i, w.out) => Meets(s, t, v.i, v.out)
         /\ ~both /\ ~right /\ Misses(t, w.j, w.out) => Misses(t, v.j, v.out)
<1>1. /\ w \in [i : 1 .. Len(s) + 1, j : 1 .. Len(t) + 1, out : Seq(Int)]
      /\ Len(s) \in Nat /\ Len(t) \in Nat
      /\ \A k \in 1 .. Len(s) : s[k] \in Int
      /\ \A k \in 1 .. Len(t) : t[k] \in Int
  BY RangeIndex DEF Midway
<1>2. PICK i \in 1 .. Len(s) + 1 : i = w.i
  BY <1>1
<1>3. PICK j \in 1 .. Len(t) + 1 : j = w.j
  BY <1>1
<1>4. PICK out \in Seq(Int) : out = w.out
  BY <1>1
<1>5. Sorted(s, t, i, j, out)
  BY <1>2, <1>3, <1>4
<1>6. Ordered(out) /\ \A x \in Range(out) : /\ i <= Len(s) => x < s[i]
                                            /\ j <= Len(t) => x < t[j]
  BY <1>5 DEF Sorted
<1>7. Ends(s, t, w, v) \/ TakesLeft(s, t, left, w, v)
             \/ TakesRight(s, t, right, w, v) \/ TakesBoth(s, t, both, w, v)
  BY <1>1, TurnCases
<1>8. CASE Ends(s, t, w, v)
  BY <1>8 DEF Ends
<1>9. CASE TakesLeft(s, t, left, w, v)
  <2>1. i <= Len(s) /\ (j <= Len(t) => s[i] < t[j])
    BY <1>2, <1>3, <1>9 DEF TakesLeft
  <2>2. PICK e \in Int : At(s, i, e) /\ Below(e, t, j) /\ s[i] = e
    BY <1>1, <2>1, SMTT(30) DEF At, Below
  <2>3. PICK r : r = v.out
    OBVIOUS
  <2>4. v.i = i + 1 /\ v.j = j /\ r = IF left THEN Append(out, e) ELSE out
    BY <1>2, <1>3, <1>4, <1>9, <2>2, <2>3 DEF TakesLeft
  <2>5. \A x \in Range(out) : x < e
    BY <1>6, <2>1, <2>2
  <2>6. /\ r \in Seq(Int) /\ Ordered(r)
        /\ Range(out) \subseteq Range(r) /\ \A x \in Range(r) : x \in Range(out) \/ x = e
        /\ ~left => r = out
        /\ left => e \in Range(r)
    <3>1. CASE left
      <4>1. r = Append(out, e) /\ Ordered(out)
        BY <1>6, <2>4, <3>1
      <4>2. r \in Seq(Int) /\ Range(r) = Range(out) \cup {e} /\ Ordered(r)
        BY <1>4, <2>2, <2>5, <4>1, AppendFacts
      <4>3. QED
        BY <3>1, <4>2
    <3>2. CASE ~left
      BY <1>4, <1>6, <2>4, <3>2
    <3>3. QED
      BY <3>1, <3>2
  <2>7. /\ Sorted(s, t, i + 1, j, r)
        /\ Meets(s, t, i, out) => Meets(s, t, i + 1, r)
        /\ Misses(t, j, out) => Misses(t, j, r)
    <3>1. At(s, i, e) /\ Below(e, t, j) /\ Sorted(s, t, i, j, out)
      BY <1>5, <2>2
    <3>2. /\ Ordered(r) /\ Range(out) \subseteq Range(r)
          /\ \A x \in Range(r) : x \in Range(out) \/ x = e
      BY <2>6
    <3>3. i \in 1 .. Len(s) + 1 /\ j \in 1 .. Len(t) + 1 /\ out \in Seq(Int) /\ e \in Int
      BY <1>2, <1>3, <1>4, <2>2
    <3>4. QED
      BY <3>1, <3>2, <3>3, LeftKeepsOrder
  <2>8. QED
    BY <1>2, <1>3, <1>4, <2>3, <2>4, <2>6, <2>7, Zenon
<1>10. CASE TakesRight(s, t, right, w, v)
  <2>1. j <= Len(t) /\ (i <= Len(s) => t[j] < s[i])
    BY <1>2, <1>3, <1>10 DEF TakesRight
  <2>2. PICK e \in Int : At(t, j, e) /\ Below(e, s, i) /\ t[j] = e
    <3>1. t[j] \in Int
      BY <1>1, <2>1
    <3>2. At(t, j, t[j])
      BY <2>1 DEF At
    <3>3. Below(t[j], s, i)
      BY <2>1 DEF Below
    <3>4. QED
      BY <3>1, <3>2, <3>3
  <2>3. PICK r : r = v.out
    OBVIOUS
  <2>4. v.i = i /\ v.j = j + 1 /\ r = IF right THEN Append(out, e) ELSE out
    BY <1>2, <1>3, <1>4, <1>10, <2>2, <2>3 DEF TakesRight
  <2>5. \A x \in Range(out) : x < e
    BY <1>6, <2>1, <2>2
  <2>6. /\ r \in Seq(Int) /\ Ordered(r)
        /\ Range(out) \subseteq Range(r) /\ \A x \in Range(r) : x \in Range(out) \/ x = e
        /\ ~right => r = out
        /\ right => e \in Range(r)
    <3>1. CASE right
      <4>1. r = Append(out, e) /\ Ordered(out)
        BY <1>6, <2>4, <3>1
      <4>2. r \in Seq(Int) /\ Range(r) = Range(out) \cup {e} /\ Ordered(r)
        BY <1>4, <2>2, <2>5, <4>1, AppendFacts
      <4>3. QED
        BY <3>1, <4>2
    <3>2. CASE ~right
      BY <1>4, <1>6, <2>4, <3>2
    <3>3. QED
      BY <3>1, <3>2
  <2>7. /\ Sorted(s, t, i, j + 1, r)
        /\ Meets(s, t, i, out) => Meets(s, t, i, r)
        /\ Misses(t, j, out) /\ r = out => Misses(t, j + 1, r)
    BY <1>2, <1>3, <1>4, <1>5, <2>2, <2>6, RightKeepsOrder
  <2>8. QED
    BY <1>2, <1>3, <1>4, <2>3, <2>4, <2>6, <2>7, Zenon
<1>11. CASE TakesBoth(s, t, both, w, v)
  <2>1. i <= Len(s) /\ j <= Len(t) /\ s[i] = t[j]
    BY <1>2, <1>3, <1>11 DEF TakesBoth
  <2>2. PICK e \in Int : At(s, i, e) /\ At(t, j, e) /\ s[i] = e
    BY <1>1, <2>1, SMTT(30) DEF At
  <2>3. PICK r : r = v.out
    OBVIOUS
  <2>4. v.i = i + 1 /\ v.j = j + 1 /\ r = IF both THEN Append(out, e) ELSE out
    BY <1>2, <1>3, <1>4, <1>11, <2>2, <2>3 DEF TakesBoth
  <2>5. \A x \in Range(out) : x < e
    BY <1>6, <2>1, <2>2
  <2>6. /\ r \in Seq(Int) /\ Ordered(r)
        /\ Range(out) \subseteq Range(r) /\ \A x \in Range(r) : x \in Range(out) \/ x = e
        /\ ~both => r = out
        /\ both => e \in Range(r)
    <3>1. CASE both
      <4>1. r = Append(out, e) /\ Ordered(out)
        BY <1>6, <2>4, <3>1
      <4>2. r \in Seq(Int) /\ Range(r) = Range(out) \cup {e} /\ Ordered(r)
        BY <1>4, <2>2, <2>5, <4>1, AppendFacts
      <4>3. QED
        BY <3>1, <4>2
    <3>2. CASE ~both
      BY <1>4, <1>6, <2>4, <3>2
    <3>3. QED
      BY <3>1, <3>2
  <2>7. /\ Sorted(s, t, i + 1, j + 1, r)
        /\ Meets(s, t, i, out) /\ e \in Range(r) => Meets(s, t, i + 1, r)
        /\ Misses(t, j, out) /\ r = out => Misses(t, j + 1, r)
    BY <1>2, <1>3, <1>4, <1>5, <2>2, <2>6, BothKeepsOrder
  <2>8. QED
    BY <1>2, <1>3, <1>4, <2>3, <2>4, <2>6, <2>7, Zenon
<1>12. QED
  BY <1>7, <1>8, <1>9, <1>10, <1>11, Zenon

\* After as many turns as there are elements both heads are at the end.
LEMMA BothRead ==
  ASSUME NEW s \in Seq(Int), NEW t \in Seq(Int), NEW left \in BOOLEAN,
         NEW both \in BOOLEAN, NEW right \in BOOLEAN,
         NEW w, Midway(s, t, left, both, right, Len(s) + Len(t), w)
  PROVE  w.out \in Seq(Int) /\ w.i = Len(s) + 1 /\ w.j = Len(t) + 1
<1>1. /\ w \in [i : 1 .. Len(s) + 1, j : 1 .. Len(t) + 1, out : Seq(Int)]
      /\ w.i + w.j >= Len(s) + Len(t) + 2 \/ (w.i = Len(s) + 1 /\ w.j = Len(t) + 1)
  BY Zenon DEF Midway
<1>2. PICK m \in Nat, n \in Nat : m = Len(s) /\ n = Len(t)
  OBVIOUS
<1>3. PICK i \in 1 .. m + 1, j \in 1 .. n + 1 : i = w.i /\ j = w.j
  BY <1>1, <1>2
<1>4. i + j >= m + n + 2 \/ (i = m + 1 /\ j = n + 1)
  BY <1>1, <1>2, <1>3
<1>5. i = m + 1 /\ j = n + 1
  BY <1>2, <1>3, <1>4
<1>6. QED
  BY <1>1, <1>2, <1>3, <1>5

\* The loop ended in w: what holds on the way, at the end of both vectors.
Ended(s, t, left, both, right, w) ==
  /\ Walk(s, t, left, both, right) = w.out
  /\ Midway(s, t, left, both, right, Len(s) + Len(t), w)
  /\ w.out \in Seq(Int) /\ w.i = Len(s) + 1 /\ w.j = Len(t) + 1
  /\ (Ordered(s) /\ Ordered(t)) =>
       /\ Sorted(s, t, w.i, w.j, w.out)
       /\ both => Meets(s, t, w.i, w.out)
       /\ (~both /\ ~right) => Misses(t, w.j, w.out)

\* The loop ends at the end of both vectors; every lemma on the algorithms of
\* the library follows from what then holds.
LEMMA WalkEnds ==
  ASSUME NEW s \in Seq(Int), NEW t \in Seq(Int), NEW left \in BOOLEAN,
         NEW both \in BOOLEAN, NEW right \in BOOLEAN
  PROVE  \E w : Ended(s, t, left, both, right, w)
<1> DEFINE N == Len(s) + Len(t)
           began == [i |-> 1, j |-> 1, out |-> << >>]
           turn(w) == Turn(s, t, left, both, right, w)
           mid(n, w) == Midway(s, t, left, both, right, n, w)
           W == {w \in [i : 1 .. Len(s) + 1, j : 1 .. Len(t) + 1, out : Seq(Int)] :
                   \E n \in Nat : mid(n, w)}
           next == [k \in 1 .. N |-> [w \in W |-> turn(w)]]
           body(f) == [n \in 0 .. N |-> IF n = 0 THEN began ELSE turn(f[n - 1])]
           at == CHOOSE f : f = body(f)
<1>1. Len(s) \in Nat /\ Len(t) \in Nat /\ N \in Nat
  OBVIOUS
<1>2. mid(0, began) /\ Range(<< >>) = {} /\ << >> \in Seq(Int)
  <2>1. << >> \in Seq(Int) /\ Range(<< >>) = {}
    BY EmptySeq DEF Range
  <2>2. began \in [i : 1 .. Len(s) + 1, j : 1 .. Len(t) + 1, out : Seq(Int)]
    BY <1>1, <2>1
  <2>3. QED
    BY <1>1, <2>1, <2>2 DEF Midway
<1>3. began \in W
  BY <1>2 DEF Midway
<1>4. ASSUME NEW w, NEW n \in Nat, mid(n, w) PROVE mid(n + 1, turn(w))
  <2>1. PICK v : v = turn(w)
    OBVIOUS
  <2>2. QED
    BY <1>4, <2>1, TurnKeeps
<1>5. \A w \in W : turn(w) \in W
  <2>1. SUFFICES ASSUME NEW w \in W PROVE turn(w) \in W
    OBVIOUS
  <2>2. PICK n \in Nat : mid(n, w)
    OBVIOUS
  <2>3. mid(n + 1, turn(w)) /\ n + 1 \in Nat
    BY <1>4, <2>2
  <2> HIDE DEF turn
  <2>4. turn(w) \in [i : 1 .. Len(s) + 1, j : 1 .. Len(t) + 1, out : Seq(Int)]
    BY <2>3 DEF Midway
  <2> HIDE DEF mid
  <2>5. QED
    BY <2>3, <2>4
<1>6. \E f : f = body(f)
  <2>1. \A k \in 1 .. N : \A w \in W : next[k][w] = turn(w) /\ next[k][w] \in W
    <3> HIDE DEF turn, W, N
    <3>1. QED
      BY <1>5
  <2>2. PICK f : Recurs(f, N, W, began, next)
    <3> HIDE DEF next, began, W, N
    <3>1. \A k \in 1 .. N : \A w \in W : next[k][w] \in W
      BY <2>1
    <3>2. N \in Nat
      BY <1>1
    <3>3. QED
      BY <1>3, <3>1, <3>2, RecursionExists
  <2>3. \A k \in 1 .. N : f[k] = turn(f[k - 1])
    <3>1. SUFFICES ASSUME NEW k \in 1 .. N PROVE f[k] = turn(f[k - 1])
      OBVIOUS
    <3> HIDE DEF W, turn, N, next
    <3>2. f[k - 1] \in W
      BY <1>1, <2>2, <3>1 DEF Recurs
    <3>3. QED
      BY <2>1, <2>2, <3>1, <3>2 DEF Recurs
  <2>4. f = body(f)
    <3> HIDE DEF turn, W, N, began
    <3>1. QED
      BY <1>1, <2>2, <2>3 DEF Recurs
  <2>5. QED
    BY <2>4
<1>7. at = body(at)
  <2> HIDE DEF body
  <2>1. QED
    BY <1>6
<1>8. at[0] = began /\ \A k \in 0 .. N - 1 : at[k + 1] = turn(at[k])
  <2> HIDE DEF at, turn, N, began
  <2>1. body(at)[0] = began /\ \A k \in 0 .. N - 1 : body(at)[k + 1] = turn(at[k])
    BY <1>1
  <2> HIDE DEF body
  <2>2. QED
    BY <1>7, <2>1
<1>9. Walk(s, t, left, both, right) = at[N].out
  BY DEF Walk
<1> DEFINE good(w) == (Ordered(s) /\ Ordered(t)) =>
                     /\ Sorted(s, t, w.i, w.j, w.out)
                     /\ both => Meets(s, t, w.i, w.out)
                     /\ (~both /\ ~right) => Misses(t, w.j, w.out)
           H == {k \in 0 .. N : mid(k, at[k]) /\ good(at[k])}
<1>10. good(began)
  <2>1. PICK b : b = began
    OBVIOUS
  <2>2. b.i = 1 /\ b.j = 1 /\ b.out = << >>
    BY <2>1
  <2>3. Ordered(b.out)
    BY <2>2 DEF Ordered
  <2>4. Range(b.out) = {}
    BY <1>2, <2>2
  <2>5. Sorted(s, t, b.i, b.j, b.out)
    BY <2>2, <2>3, <2>4 DEF Sorted
  <2>6. Meets(s, t, b.i, b.out) /\ Misses(t, b.j, b.out)
    BY <2>2 DEF Meets, Misses
  <2>7. good(b)
    BY <2>5, <2>6
  <2>8. QED
    BY <2>1, <2>7
<1>11. ASSUME NEW w, NEW n \in Nat, mid(n, w), good(w) PROVE good(turn(w))
  <2>1. PICK v : v = turn(w)
    OBVIOUS
  <2>2. ASSUME Ordered(s), Ordered(t)
        PROVE  /\ Sorted(s, t, v.i, v.j, v.out)
               /\ both => Meets(s, t, v.i, v.out)
               /\ (~both /\ ~right) => Misses(t, v.j, v.out)
    <3>1. Sorted(s, t, w.i, w.j, w.out)
      BY <1>11, <2>2
    <3>2. /\ Sorted(s, t, v.i, v.j, v.out)
          /\ both /\ Meets(s, t, w.i, w.out) => Meets(s, t, v.i, v.out)
          /\ ~both /\ ~right /\ Misses(t, w.j, w.out) => Misses(t, v.j, v.out)
      BY <1>11, <2>1, <2>2, <3>1, TurnKeepsOrder
    <3>3. QED
      BY <1>11, <2>2, <3>2
  <2>3. good(v)
    BY <2>2
  <2>4. QED
    BY <2>1, <2>3
<1> HIDE DEF mid, good, at, turn, began
<1>12. 0 \in H
  BY <1>1, <1>2, <1>8, <1>10
<1>13. ASSUME NEW k \in 0 .. N - 1, k \in H PROVE k + 1 \in H
  <2>1. k \in Nat /\ k + 1 \in 0 .. N /\ at[k + 1] = turn(at[k]) /\ mid(k, at[k]) /\ good(at[k])
    BY <1>1, <1>8, <1>13
  <2>2. mid(k + 1, turn(at[k])) /\ good(turn(at[k]))
    BY <1>4, <1>11, <2>1
  <2>3. QED
    BY <2>1, <2>2
<1>14. N \in H
  <2>1. 0 .. N \subseteq H
    <3> HIDE DEF H, N
    <3>1. QED
      BY <1>1, <1>12, <1>13, IntervalInduction
  <2>2. QED
    BY <1>1, <2>1
<1>15. mid(N, at[N]) /\ good(at[N])
  BY <1>14
<1>16. PICK w : w = at[N]
  OBVIOUS
<1>17. Walk(s, t, left, both, right) = w.out /\ mid(N, w) /\ good(w)
  BY <1>9, <1>15, <1>16
<1>18. w.out \in Seq(Int) /\ w.i = Len(s) + 1 /\ w.j = Len(t) + 1
  BY <1>17, BothRead DEF mid
<1>19. QED
  BY <1>17, <1>18 DEF mid, good, Ended

LEMMA InSeqOfRange ==
  ASSUME NEW s \in Seq(Int), NEW S, Range(s) \subseteq S
  PROVE  s \in Seq(S)
<1>1. s \in Seq(Range(s))
  BY SeqOfRange
<1>2. QED
  BY <1>1, SeqMonotonic

LEMMA UnionFacts ==
  ASSUME NEW s \in Seq(Int), NEW t \in Seq(Int)
  PROVE  /\ SetUnion(s, t) \in Seq(Int)
         /\ Range(SetUnion(s, t)) = Range(s) \cup Range(t)
         /\ Ordered(s) /\ Ordered(t) => Ordered(SetUnion(s, t))
<1>1. PICK w : Ended(s, t, TRUE, TRUE, TRUE, w)
  BY WalkEnds
<1>2. /\ Walk(s, t, TRUE, TRUE, TRUE) = w.out
      /\ Midway(s, t, TRUE, TRUE, TRUE, Len(s) + Len(t), w)
      /\ w.out \in Seq(Int) /\ w.i = Len(s) + 1 /\ w.j = Len(t) + 1
      /\ (Ordered(s) /\ Ordered(t)) => Sorted(s, t, w.i, w.j, w.out)
  BY <1>1 DEF Ended
<1>3. SetUnion(s, t) = w.out
  BY <1>2 DEF SetUnion
<1>4. w.out \in Seq(Int) /\ w.i = Len(s) + 1 /\ w.j = Len(t) + 1
  BY <1>2
<1>5. \A e \in Range(w.out) : e \in Range(s) \cup Range(t)
  BY <1>2 DEF Midway
<1>6. \A k \in 1 .. w.i - 1 : s[k] \in Range(w.out)
  BY <1>2 DEF Midway
<1>7. \A k \in 1 .. w.j - 1 : t[k] \in Range(w.out)
  BY <1>2 DEF Midway
<1>8. Range(s) \cup Range(t) \subseteq Range(w.out)
  <2>1. Range(s) \subseteq Range(w.out)
    <3>1. Len(s) \in Nat /\ \A e \in Range(s) : \E k \in 1 .. Len(s) : s[k] = e
      BY RangeIndex
    <3>2. \A k \in 1 .. Len(s) : s[k] \in Range(w.out)
      BY <1>4, <1>6, <3>1
    <3>3. QED
      BY <3>1, <3>2
  <2>2. Range(t) \subseteq Range(w.out)
    <3>1. Len(t) \in Nat /\ \A e \in Range(t) : \E k \in 1 .. Len(t) : t[k] = e
      BY RangeIndex
    <3>2. \A k \in 1 .. Len(t) : t[k] \in Range(w.out)
      BY <1>4, <1>7, <3>1
    <3>3. QED
      BY <3>1, <3>2
  <2>3. QED
    BY <2>1, <2>2
<1>9. Ordered(s) /\ Ordered(t) => Ordered(w.out)
  BY <1>2 DEF Sorted
<1>10. QED
  BY <1>3, <1>4, <1>5, <1>8, <1>9

\* What is in both is in the intersection only when both are in order.
LEMMA IntersectionFacts ==
  ASSUME NEW s \in Seq(Int), NEW t \in Seq(Int)
  PROVE  /\ SetIntersection(s, t) \in Seq(Int)
         /\ Range(SetIntersection(s, t)) \subseteq Range(s) \cap Range(t)
         /\ Ordered(s) /\ Ordered(t) =>
              /\ Range(s) \cap Range(t) \subseteq Range(SetIntersection(s, t))
              /\ Ordered(SetIntersection(s, t))
<1>1. PICK w : Ended(s, t, FALSE, TRUE, FALSE, w)
  BY WalkEnds
<1>2. /\ Walk(s, t, FALSE, TRUE, FALSE) = w.out
      /\ Midway(s, t, FALSE, TRUE, FALSE, Len(s) + Len(t), w)
      /\ w.out \in Seq(Int) /\ w.i = Len(s) + 1 /\ w.j = Len(t) + 1
      /\ (Ordered(s) /\ Ordered(t)) =>
            Sorted(s, t, w.i, w.j, w.out) /\ Meets(s, t, w.i, w.out)
  BY <1>1 DEF Ended
<1>3. SetIntersection(s, t) = w.out
  BY <1>2 DEF SetIntersection
<1>4. w.out \in Seq(Int) /\ w.i = Len(s) + 1
  BY <1>2
<1>5. \A e \in Range(w.out) : e \in Range(s) \cap Range(t)
  BY <1>2 DEF Midway
<1>6. ASSUME Ordered(s), Ordered(t)
      PROVE  Range(s) \cap Range(t) \subseteq Range(w.out) /\ Ordered(w.out)
  <2>1. Ordered(w.out) /\ Meets(s, t, w.i, w.out)
    BY <1>2, <1>6 DEF Sorted
  <2>2. \A k \in 1 .. Len(s) : s[k] \in Range(t) => s[k] \in Range(w.out)
    BY <1>4, <2>1 DEF Meets
  <2>3. QED
    BY <2>1, <2>2, RangeIndex, SMTT(30)
<1>7. QED
  BY <1>3, <1>4, <1>5, <1>6

\* What is only in the first stays; what is in both goes only when both are in
\* order.
LEMMA DifferenceFacts ==
  ASSUME NEW s \in Seq(Int), NEW t \in Seq(Int)
  PROVE  /\ SetDifference(s, t) \in Seq(Int)
         /\ Range(s) \ Range(t) \subseteq Range(SetDifference(s, t))
         /\ Range(SetDifference(s, t)) \subseteq Range(s)
         /\ Ordered(s) /\ Ordered(t) =>
              /\ Range(SetDifference(s, t)) \cap Range(t) = {}
              /\ Ordered(SetDifference(s, t))
<1>1. PICK w : Ended(s, t, TRUE, FALSE, FALSE, w)
  BY WalkEnds
<1>2. /\ Walk(s, t, TRUE, FALSE, FALSE) = w.out
      /\ Midway(s, t, TRUE, FALSE, FALSE, Len(s) + Len(t), w)
      /\ w.out \in Seq(Int) /\ w.i = Len(s) + 1 /\ w.j = Len(t) + 1
      /\ (Ordered(s) /\ Ordered(t)) =>
            Sorted(s, t, w.i, w.j, w.out) /\ Misses(t, w.j, w.out)
  BY <1>1 DEF Ended
<1>3. SetDifference(s, t) = w.out
  BY <1>2 DEF SetDifference
<1>4. w.out \in Seq(Int) /\ w.i = Len(s) + 1 /\ w.j = Len(t) + 1
  BY <1>2
<1>5. \A e \in Range(w.out) : e \in Range(s)
  BY <1>2 DEF Midway
<1>6. \A k \in 1 .. w.i - 1 : s[k] \in Range(w.out) \/ s[k] \in Range(t)
  BY <1>2 DEF Midway
<1>7. Range(s) \ Range(t) \subseteq Range(w.out)
  <2>1. Len(s) \in Nat /\ \A e \in Range(s) : \E k \in 1 .. Len(s) : s[k] = e
    BY RangeIndex
  <2>2. \A k \in 1 .. Len(s) : s[k] \in Range(w.out) \/ s[k] \in Range(t)
    BY <1>4, <1>6, <2>1
  <2>3. QED
    BY <2>1, <2>2
<1>8. ASSUME Ordered(s), Ordered(t)
      PROVE  Range(w.out) \cap Range(t) = {} /\ Ordered(w.out)
  <2>1. Ordered(w.out) /\ Misses(t, w.j, w.out)
    BY <1>2, <1>8 DEF Sorted
  <2>2. \A k \in 1 .. Len(t) : t[k] \notin Range(w.out)
    BY <1>4, <2>1 DEF Misses
  <2>3. \A e \in Range(t) : \E k \in 1 .. Len(t) : t[k] = e
    BY RangeIndex
  <2>4. QED
    BY <2>1, <2>2, <2>3
<1>9. QED
  BY <1>3, <1>4, <1>5, <1>7, <1>8

LEMMA AmongFacts ==
  ASSUME NEW s \in Seq(Int), NEW S
  PROVE  /\ Among(s, S) \in Seq(Int)
         /\ Range(Among(s, S)) = Range(s) \cap S
         /\ Ordered(s) => Ordered(Among(s, S))
<1> DEFINE n == Len(s)
           put(k, r) == IF s[k] \in S THEN Append(r, s[k]) ELSE r
           next == [k \in 1 .. n |-> [r \in Seq(Int) |-> put(k, r)]]
           body(f) == [k \in 0 .. n |-> IF k = 0 THEN << >> ELSE put(k, f[k - 1])]
           kept == CHOOSE f : f = body(f)
<1>1. n \in Nat /\ DOMAIN s = 1 .. n /\ \A k \in 1 .. n : s[k] \in Int /\ s[k] \in Range(s)
  BY RangeIndex
<1>2. << >> \in Seq(Int) /\ Range(<< >>) = {}
  BY EmptySeq DEF Range
<1>3. \A k \in 1 .. n : \A r \in Seq(Int) : put(k, r) \in Seq(Int)
  <2>1. ASSUME NEW k \in 1 .. n, NEW r \in Seq(Int) PROVE put(k, r) \in Seq(Int)
    <3>1. s[k] \in Int
      BY <1>1
    <3>2. QED
      BY <3>1
  <2>2. QED
    BY <2>1
<1>4. \E f : f = body(f)
  <2>1. \A k \in 1 .. n : \A r \in Seq(Int) : next[k][r] = put(k, r)
    <3> HIDE DEF put, n
    <3>1. QED
      OBVIOUS
  <2>2. PICK f : Recurs(f, n, Seq(Int), << >>, next)
    <3> HIDE DEF next, n, put
    <3>1. \A k \in 1 .. n : \A r \in Seq(Int) : next[k][r] \in Seq(Int)
      BY <1>3, <2>1
    <3>2. QED
      BY <1>1, <1>2, <3>1, RecursionExists
  <2>3. \A k \in 1 .. n : f[k] = put(k, f[k - 1])
    <3> HIDE DEF put, n, next
    <3>1. SUFFICES ASSUME NEW k \in 1 .. n PROVE f[k] = put(k, f[k - 1])
      OBVIOUS
    <3>2. f[k - 1] \in Seq(Int)
      BY <1>1, <2>2, <3>1 DEF Recurs
    <3>3. QED
      BY <2>1, <2>2, <3>1, <3>2 DEF Recurs
  <2>4. f = body(f)
    <3> HIDE DEF put, n
    <3>1. QED
      BY <1>1, <2>2, <2>3 DEF Recurs
  <2>5. QED
    BY <2>4
<1>5. kept = body(kept)
  <2> HIDE DEF body
  <2>1. QED
    BY <1>4
<1>6. kept[0] = << >> /\ \A k \in 0 .. n - 1 : kept[k + 1] = put(k + 1, kept[k])
  <2> HIDE DEF kept, put, n
  <2>1. body(kept)[0] = << >> /\ \A k \in 0 .. n - 1 : body(kept)[k + 1] = put(k + 1, kept[k])
    BY <1>1
  <2> HIDE DEF body
  <2>2. QED
    BY <1>5, <2>1
<1>7. Among(s, S) = kept[n]
  BY DEF Among
<1> DEFINE good(k, r) == /\ r \in Seq(Int)
                         /\ Range(r) = {s[j] : j \in 1 .. k} \cap S
                         /\ Ordered(s) => Ordered(r)
           H == {k \in 0 .. n : good(k, kept[k])}
<1>8. good(0, << >>)
  BY <1>2 DEF Ordered
<1>9. ASSUME NEW k \in 0 .. n - 1, NEW r, good(k, r) PROVE good(k + 1, put(k + 1, r))
  <2>1. PICK e \in Int : e = s[k + 1]
    BY <1>1
  <2>2. {s[j] : j \in 1 .. k + 1} = {s[j] : j \in 1 .. k} \cup {e}
    BY <1>1, <2>1
  <2>3. CASE e \in S
    <3>1. PICK q : q = Append(r, e)
      OBVIOUS
    <3>2. q \in Seq(Int) /\ Range(q) = Range(r) \cup {e}
      BY <1>9, <2>1, <3>1, AppendFacts
    <3>3. ASSUME Ordered(s) PROVE Ordered(q)
      <4>1. ASSUME NEW x \in Range(r) PROVE x < e
        <5>1. PICK j \in 1 .. k : x = s[j]
          BY <1>9, <4>1
        <5>2. QED
          BY <1>1, <2>1, <3>3, <5>1 DEF Ordered
      <4>2. Ordered(r)
        BY <1>9, <3>3
      <4>3. QED
        BY <1>9, <2>1, <3>1, <4>1, <4>2, AppendFacts
    <3>4. put(k + 1, r) = q
      BY <2>1, <2>3, <3>1
    <3>5. Range(q) = {s[j] : j \in 1 .. k + 1} \cap S
      BY <1>9, <2>2, <2>3, <3>2
    <3> HIDE DEF put
    <3>6. QED
      BY <3>2, <3>3, <3>4, <3>5
  <2>4. CASE e \notin S
    <3>1. put(k + 1, r) = r
      BY <2>1, <2>4
    <3> HIDE DEF put
    <3>2. QED
      BY <1>9, <2>2, <2>4, <3>1
  <2>5. QED
    BY <2>3, <2>4
<1> HIDE DEF good, put, kept
<1>10. 0 \in H
  BY <1>1, <1>6, <1>8
<1>11. ASSUME NEW k \in 0 .. n - 1, k \in H PROVE k + 1 \in H
  BY <1>1, <1>6, <1>9, <1>11
<1>12. good(n, kept[n])
  <2>1. 0 .. n \subseteq H
    <3> HIDE DEF H, n
    <3>1. QED
      BY <1>1, <1>10, <1>11, IntervalInduction
  <2>2. QED
    BY <1>1, <2>1
<1>13. {s[j] : j \in 1 .. n} = Range(s)
  BY <1>1 DEF Range
<1>14. QED
  BY <1>7, <1>12, <1>13 DEF good

-----------------------------------------------------------------------------
(* A finite set in order.                                                    *)

LEMMA AscendingFacts ==
  ASSUME NEW S \in SUBSET Int, IsFiniteSet(S)
  PROVE  /\ Ascending(S) \in Seq(S) /\ Ascending(S) \in Seq(Int)
         /\ Range(Ascending(S)) = S
         /\ Ordered(Ascending(S))
<1> DEFINE n == Cardinality(S)
           below(x) == {y \in S : y < x}
           rank == [x \in S |-> Cardinality(below(x))]
<1>1. n \in Nat
  BY FS_CardinalityType
<1>2. ASSUME NEW x \in S
      PROVE  /\ IsFiniteSet(below(x)) /\ rank[x] = Cardinality(below(x))
             /\ rank[x] \in 0 .. n - 1
  <2>1. IsFiniteSet(S \ {x}) /\ Cardinality(S \ {x}) = n - 1
    BY FS_RemoveElement
  <2>2. below(x) \in SUBSET (S \ {x})
    BY <1>2
  <2>3. IsFiniteSet(below(x)) /\ Cardinality(below(x)) <= n - 1
    <3> HIDE DEF below, n
    <3>1. QED
      BY <2>1, <2>2, FS_Subset
  <2>4. Cardinality(below(x)) \in Nat
    BY <2>3, FS_CardinalityType
  <2>5. rank[x] = Cardinality(below(x))
    OBVIOUS
  <2> HIDE DEF below, rank, n
  <2>6. QED
    BY <1>1, <2>3, <2>4, <2>5
<1>3. ASSUME NEW x \in S, NEW y \in S, x < y PROVE rank[x] < rank[y]
  <2>1. below(x) \cup {x} \in SUBSET below(y) /\ x \notin below(x)
    <3>1. x \in Int /\ y \in Int
      OBVIOUS
    <3>2. ASSUME NEW z \in S, z < x PROVE z < y
      <4>1. z \in Int
        OBVIOUS
      <4>2. QED
        BY <1>3, <3>1, <3>2, <4>1
    <3>3. \A z \in below(x) : z \in below(y)
      BY <3>2
    <3>4. x \in below(y) /\ x \notin below(x)
      BY <1>3, <3>1
    <3>5. QED
      BY <3>3, <3>4, Zenon
  <2> HIDE DEF below, rank
  <2>2. IsFiniteSet(below(x)) /\ IsFiniteSet(below(y))
    BY <1>2
  <2>3. Cardinality(below(x) \cup {x}) = Cardinality(below(x)) + 1
    BY <2>1, <2>2, FS_AddElement
  <2>4. Cardinality(below(x) \cup {x}) <= Cardinality(below(y))
    BY <2>1, <2>2, FS_Subset
  <2>5. rank[x] + 1 <= rank[y]
    BY <1>2, <2>3, <2>4
  <2>6. rank[x] \in Int /\ rank[y] \in Int
    BY <1>1, <1>2
  <2>7. QED
    BY <2>5, <2>6
<1> HIDE DEF rank, n
<1>4. ASSUME NEW x \in S, NEW y \in S, rank[x] = rank[y] PROVE x = y
  <2>1. x \in Int /\ y \in Int /\ rank[x] \in Int /\ rank[y] \in Int
    <3>1. rank[x] \in 0 .. n - 1 /\ rank[y] \in 0 .. n - 1
      BY <1>2
    <3>2. QED
      BY <1>1, <3>1
  <2>2. ~(x < y) /\ ~(y < x)
    BY <1>3, <1>4, <2>1
  <2>3. QED
    BY <2>1, <2>2
<1>5. \A k \in 0 .. n - 1 : \E x \in S : rank[x] = k
  <2>1. rank \in Injection(S, 0 .. n - 1)
    <3>1. rank \in [S -> 0 .. n - 1]
      BY <1>2 DEF rank
    <3>2. QED
      BY <3>1, <1>4 DEF Injection, IsInjective
  <2>2. IsFiniteSet(0 .. n - 1) /\ Cardinality(0 .. n - 1) = n
    BY <1>1, FS_Interval
  <2>3. rank \in Surjection(S, 0 .. n - 1)
    BY <2>1, <2>2, FS_Injection DEF n
  <2>4. QED
    BY <2>3 DEF Surjection
<1>6. PICK a : a = Ascending(S)
  OBVIOUS
<1>7. a = [i \in 1 .. n |-> CHOOSE x \in S : Cardinality(below(x)) = i - 1]
  BY <1>6 DEF Ascending, n
<1> HIDE DEF below
<1>8. ASSUME NEW i \in 1 .. n PROVE a[i] \in S /\ rank[a[i]] = i - 1
  <2>1. i - 1 \in 0 .. n - 1
    BY <1>1
  <2>2. PICK x \in S : rank[x] = i - 1
    BY <1>5, <2>1
  <2>3. Cardinality(below(x)) = i - 1
    BY <1>2, <2>2
  <2>4. a[i] = CHOOSE y \in S : Cardinality(below(y)) = i - 1
    BY <1>7
  <2>5. a[i] \in S /\ Cardinality(below(a[i])) = i - 1
    BY <2>3, <2>4
  <2>6. QED
    BY <1>2, <2>5
<1>9. DOMAIN a = 1 .. n /\ a \in [1 .. n -> S]
  BY <1>7, <1>8
<1>10. a \in Seq(S) /\ Len(a) = n
  BY <1>1, <1>9
<1>11. Ordered(a)
  <2>1. SUFFICES ASSUME NEW i \in 1 .. n, NEW j \in 1 .. n, i < j PROVE a[i] < a[j]
    BY <1>10 DEF Ordered
  <2>2. a[i] \in S /\ a[j] \in S /\ rank[a[i]] < rank[a[j]]
    BY <1>1, <1>8, <2>1
  <2>3. PICK x \in S : x = a[i]
    BY <2>2
  <2>4. PICK y \in S : y = a[j]
    BY <2>2
  <2>5. rank[x] < rank[y] /\ rank[x] \in Int /\ rank[y] \in Int /\ x \in Int /\ y \in Int
    BY <1>1, <1>2, <2>2, <2>3, <2>4
  <2>6. x # y /\ ~(y < x)
    BY <1>3, <2>5
  <2>7. QED
    BY <2>3, <2>4, <2>5, <2>6
<1>12. Range(a) = S
  <2>1. ASSUME NEW x \in S PROVE x \in Range(a)
    <3>1. rank[x] + 1 \in 1 .. n /\ (rank[x] + 1) - 1 = rank[x]
      BY <1>1, <1>2
    <3>2. a[rank[x] + 1] = x
      BY <1>4, <1>8, <3>1
    <3>3. QED
      BY <1>9, <3>1, <3>2 DEF Range
  <2>2. Range(a) \subseteq S
    BY <1>10, RangeIndex
  <2>3. QED
    BY <2>1, <2>2
<1>13. a \in Seq(Int)
  BY <1>10, SeqMonotonic
<1>14. QED
  BY <1>6, <1>10, <1>11, <1>12, <1>13

\* A finite set of integers that has one has a least and a greatest.
LEMMA LeastAndGreatest ==
  ASSUME NEW S \in SUBSET Int, IsFiniteSet(S), S # {}
  PROVE  /\ \E m \in S : \A x \in S : m <= x
         /\ \E m \in S : \A x \in S : x <= m
<1>1. PICK a : a = Ascending(S)
  OBVIOUS
<1>2. a \in Seq(Int) /\ Range(a) = S /\ Ordered(a)
  BY <1>1, AscendingFacts
<1>3. /\ Len(a) \in Nat /\ \A i \in 1 .. Len(a) : a[i] \in S /\ a[i] \in Int
      /\ \A x \in S : \E i \in 1 .. Len(a) : a[i] = x
  BY <1>2, RangeIndex
<1>4. Len(a) >= 1
  <2>1. PICK x \in S : TRUE
    OBVIOUS
  <2>2. PICK i \in 1 .. Len(a) : a[i] = x
    BY <1>3, <2>1
  <2>3. QED
    BY <1>3, <2>2
<1>5. a[1] \in S /\ \A x \in S : a[1] <= x
  BY <1>2, <1>3, <1>4 DEF Ordered
<1>6. a[Len(a)] \in S /\ \A x \in S : x <= a[Len(a)]
  BY <1>2, <1>3, <1>4 DEF Ordered
<1>7. QED
  BY <1>5, <1>6

\* P holds nothing but results of an operation on the elements of two sets.
OfPairs(P, S, T, f) == \A e \in P : \E x \in S, y \in T : e = f[<<x, y>>]

\* Such a set is finite when the two are.
LEMMA PairsFinite ==
  ASSUME NEW S, IsFiniteSet(S), NEW T, IsFiniteSet(T), NEW f,
         NEW P, OfPairs(P, S, T, f)
  PROVE  IsFiniteSet(P)
<1> DEFINE g == [p \in S \X T |-> f[p]]
           R == {g[p] : p \in S \X T}
<1>1. IsFiniteSet(S \X T)
  BY FS_Product
<1>2. g \in Surjection(S \X T, R)
  <2>1. g \in [S \X T -> R]
    OBVIOUS
  <2>2. \A r \in R : \E p \in S \X T : g[p] = r
    OBVIOUS
  <2> HIDE DEF g, R
  <2>3. QED
    BY <2>1, <2>2 DEF Surjection
<1>3. ASSUME NEW e \in P PROVE e \in R
  <2>1. PICK x \in S, y \in T : e = f[<<x, y>>]
    BY DEF OfPairs
  <2>2. <<x, y>> \in S \X T
    OBVIOUS
  <2>3. g[<<x, y>>] = e
    BY <2>1, <2>2
  <2> HIDE DEF g
  <2>4. QED
    BY <2>2, <2>3
<1> HIDE DEF g, R
<1>4. IsFiniteSet(R)
  BY <1>1, <1>2, FS_Surjection
<1>5. P \subseteq R
  BY <1>3
<1>6. QED
  BY <1>4, <1>5, FS_Subset

-----------------------------------------------------------------------------
(* Words.                                                                    *)

\* The half of the words, those with the top bit, and all of them.
LEMMA WordSizes ==
  \E h \in Nat \ {0} : /\ 2 ^ (Bits - 1) = h /\ 2 ^ Bits = h + h
                       /\ Words = 0 .. h + h - 1
<1>1. Bits - 1 \in Nat /\ (Bits - 1) + 1 = Bits
  BY WidthAssumption
<1>2. 2 ^ (Bits - 1) \in Nat \ {0} /\ 2 ^ Bits = 2 ^ (Bits - 1) + 2 ^ (Bits - 1)
  BY <1>1, PowerOfTwo, PowerDoubles
<1>3. QED
  BY <1>2 DEF Words

LEMMA WordFacts ==
  /\ \A n \in Int : ToWord(n) \in Words
  /\ \A w \in Words : ToWord(w) = w /\ Signed(w) \in Int /\ ToWord(Signed(w)) = w
  /\ \A w \in Words : w \in Nat /\ (w < 2 ^ (Bits - 1) => Signed(w) = w)
<1>1. PICK h \in Nat \ {0} : /\ 2 ^ (Bits - 1) = h /\ 2 ^ Bits = h + h
                             /\ Words = 0 .. h + h - 1
  BY WordSizes
<1>2. PICK m \in Nat \ {0} : m = h + h
  BY <1>1
<1>3. \A n \in Int : ToWord(n) = n % m
  BY <1>1, <1>2 DEF ToWord
<1>4. \A w \in Words : Signed(w) = IF w < h THEN w ELSE w - m
  BY <1>1, <1>2 DEF Signed
<1>5. Words = 0 .. m - 1
  BY <1>1, <1>2
<1>6. \A n \in Int : n % m \in 0 .. m - 1
  OBVIOUS
<1>7. \A w \in 0 .. m - 1 : w % m = w /\ (w - m) % m = w
  OBVIOUS
<1>8. \A w \in Words : Signed(w) \in Int
  BY <1>4, <1>5
<1>9. \A n \in Int : ToWord(n) \in Words
  BY <1>3, <1>5, <1>6
<1>10. ASSUME NEW w \in Words
       PROVE  ToWord(w) = w /\ ToWord(Signed(w)) = w
  <2>1. w \in 0 .. m - 1 /\ w \in Int /\ w - m \in Int
    BY <1>5
  <2>2. ToWord(w) = w /\ ToWord(w - m) = w
    BY <2>1, <1>3, <1>7
  <2>3. QED
    BY <2>2, <1>4
<1>11. ASSUME NEW w \in Words
       PROVE  w \in Nat /\ (w < 2 ^ (Bits - 1) => Signed(w) = w)
  BY <1>1, <1>4, <1>5
<1>12. QED
  BY <1>8, <1>9, <1>10, <1>11

LEMMA AsIntType ==
  ASSUME NEW w \in Words
  PROVE  AsInt(w) \in Int
<1>1. IntBits \in Nat /\ IntBits - 1 \in Nat
  BY WidthAssumption
<1>2. 2 ^ IntBits \in Nat \ {0} /\ 2 ^ (IntBits - 1) \in Nat \ {0}
  BY <1>1, PowerOfTwo
<1>3. w \in Int
  BY WordFacts
<1>4. PICK m \in Nat \ {0} : m = 2 ^ IntBits
  BY <1>2
<1>5. w % m \in Int
  BY <1>3
<1>6. QED
  BY <1>2, <1>4, <1>5 DEF AsInt

\* The place values below i sum to less than 2^i.
LEMMA FromBitsType ==
  ASSUME NEW S
  PROVE  FromBits(S) \in Words
<1> DEFINE body(f) == [i \in 0 .. Bits |->
             IF i = 0 THEN 0
             ELSE f[i - 1] + (IF i - 1 \in S THEN 2 ^ (i - 1) ELSE 0)]
           low == CHOOSE f : f = body(f)
           next == [i \in 1 .. Bits |->
             [x \in Nat |-> x + (IF i - 1 \in S THEN 2 ^ (i - 1) ELSE 0)]]
<1>1. Bits \in Nat
  BY WidthAssumption
<1>2. ASSUME NEW i \in 1 .. Bits
      PROVE  /\ i - 1 \in Nat /\ i = (i - 1) + 1
             /\ 2 ^ (i - 1) \in Nat \ {0} /\ 2 ^ i = 2 ^ (i - 1) + 2 ^ (i - 1)
  <2>1. i - 1 \in Nat /\ i = (i - 1) + 1
    OBVIOUS
  <2>2. QED
    BY <2>1, PowerOfTwo, PowerDoubles
<1>3. \A i \in 1 .. Bits : \A x \in Nat : next[i][x] \in Nat
  BY <1>2
<1>4. \E f : Recurs(f, Bits, Nat, 0, next)
  <2> HIDE DEF next
  <2>1. QED
    BY <1>1, <1>3, RecursionExists
<1>5. PICK f : Recurs(f, Bits, Nat, 0, next)
  BY <1>4
<1>6. f = body(f)
  <2>1. /\ f \in [0 .. Bits -> Nat] /\ f[0] = 0
        /\ \A i \in 1 .. Bits : f[i] = next[i][f[i - 1]]
    BY <1>5 DEF Recurs
  <2>2. ASSUME NEW i \in 1 .. Bits
        PROVE  f[i] = f[i - 1] + (IF i - 1 \in S THEN 2 ^ (i - 1) ELSE 0)
    <3>1. i - 1 \in 0 .. Bits
      BY <1>1
    <3>2. f[i - 1] \in Nat
      BY <2>1, <3>1
    <3>3. QED
      BY <2>1, <3>2
  <2>3. \A i \in 0 .. Bits : i = 0 \/ i \in 1 .. Bits
    BY <1>1
  <2> HIDE DEF next
  <2>4. \A i \in 0 .. Bits : f[i] = body(f)[i]
    BY <2>1, <2>2, <2>3
  <2>5. f = [i \in 0 .. Bits |-> f[i]]
    BY <2>1
  <2>6. QED
    BY <2>4, <2>5
<1>7. low = body(low)
  <2> HIDE DEF body
  <2>1. QED
    BY <1>6
<1>8. /\ low[0] = 0
      /\ \A i \in 1 .. Bits :
           low[i] = low[i - 1] + (IF i - 1 \in S THEN 2 ^ (i - 1) ELSE 0)
  <2> HIDE DEF low
  <2>1. \A i \in 1 .. Bits : i \in 0 .. Bits /\ i # 0
    BY <1>1
  <2>2. QED
    BY <1>1, <1>7, <2>1
<1>9. FromBits(S) = low[Bits]
  BY DEF FromBits
<1> HIDE DEF low, body, next
<1> DEFINE T == {i \in 0 .. Bits : low[i] \in Nat /\ low[i] < 2 ^ i}
<1>10. 0 \in T
  BY <1>1, <1>8, PowerOfZero
<1>11. ASSUME NEW i \in 0 .. Bits - 1, i \in T PROVE i + 1 \in T
  <2>1. i + 1 \in 1 .. Bits /\ (i + 1) - 1 = i /\ i + 1 \in 0 .. Bits
    BY <1>1
  <2>2. 2 ^ i \in Nat \ {0} /\ 2 ^ (i + 1) = 2 ^ i + 2 ^ i
    BY <1>2, <2>1
  <2>3. PICK a \in Nat, p \in Nat \ {0} : a = low[i] /\ p = 2 ^ i
    BY <1>11, <2>2
  <2>4. a < p
    BY <1>11, <2>3
  <2>5. low[i + 1] = a + (IF i \in S THEN p ELSE 0)
    BY <1>8, <2>1, <2>3
  <2>6. low[i + 1] \in Nat /\ low[i + 1] < p + p
    BY <2>3, <2>4, <2>5
  <2>7. QED
    BY <2>1, <2>2, <2>3, <2>6
<1>12. 0 .. Bits \subseteq T
  <2> HIDE DEF T
  <2>1. QED
    BY <1>1, <1>10, <1>11, IntervalInduction
<1>13. low[Bits] \in Nat /\ low[Bits] < 2 ^ Bits
  BY <1>1, <1>12
<1>14. 2 ^ Bits \in Nat
  BY <1>1, PowerOfTwo
<1>15. QED
  BY <1>9, <1>13, <1>14 DEF Words

LEMMA Division ==
  ASSUME NEW k \in Nat, NEW n \in Nat \ {0}
  PROVE  k \div n \in 0 .. k /\ k % n \in 0 .. k
<1>1. k = (n * (k \div n)) + (k % n) /\ k % n \in 0 .. n - 1 /\ k \div n \in Int
  OBVIOUS
<1>2. k \div n >= 0
  OBVIOUS
<1>3. PICK q \in Nat, r \in Nat : q = k \div n /\ r = k % n /\ k = n * q + r
  BY <1>1, <1>2
<1>4. n * q >= q
  BY <1>3
<1>5. QED
  BY <1>3, <1>4

LEMMA DivisionByOne ==
  ASSUME NEW k \in Int
  PROVE  k \div 2 ^ 0 = k
BY PowerOfZero

\* What an operator computes is a word, whatever the operands.
LEMMA ApplyType ==
  ASSUME NEW op \in BinOps, NEW k \in Words, NEW n \in Words, ~Undefined(op, n)
  PROVE  Apply(op, k, n) \in Words
<1>1. k \in Nat /\ n \in Nat /\ Signed(k) \in Int
  BY WordFacts
<1>2. PICK h \in Nat \ {0} : Words = 0 .. h + h - 1
  BY WordSizes
<1>3. \A x \in 0 .. k : x \in Words
  BY <1>2
<1>4. k + n \in Int /\ k - n \in Int /\ k * n \in Int
  BY <1>1
<1>5. CASE op \in {"ADD", "SUB", "MUL"}
  BY <1>4, <1>5, WordFacts DEF Apply
<1>6. CASE op \in {"DIV", "MOD"}
  <2>1. n # 0
    BY <1>6 DEF Undefined
  <2>2. k \div n \in Words /\ k % n \in Words
    BY <1>1, <1>3, <2>1, Division
  <2>3. QED
    BY <1>6, <2>2 DEF Apply
<1>7. CASE op \in {"OR", "AND", "XOR"}
  BY <1>7, FromBitsType DEF Apply
<1>8. CASE op \in {"LSH", "RSH", "ARSH"}
  <2>1. 2 ^ n \in Nat \ {0}
    BY <1>1, PowerOfTwo
  <2>2. PICK p \in Nat \ {0} : p = 2 ^ n
    BY <2>1
  <2>3. k * p \in Int /\ Signed(k) \div p \in Int
    BY <1>1
  <2>4. ToWord(k * p) \in Words /\ ToWord(Signed(k) \div p) \in Words
    BY <2>3, WordFacts
  <2>5. k \div p \in Words
    BY <1>1, <1>3, Division
  <2>6. QED
    BY <1>8, <2>2, <2>4, <2>5 DEF Apply
<1>9. QED
  BY <1>5, <1>6, <1>7, <1>8 DEF BinOps

LEMMA ComputeType ==
  ASSUME NEW op \in BinOps, NEW k \in Words, NEW n \in Words, ~Undefined(op, n)
  PROVE  Compute(op, k, n) \in Int
<1>1. k \in Nat /\ n \in Nat /\ Signed(k) \in Int
  BY WordFacts
<1>2. PICK p \in Nat \ {0} : p = 2 ^ n
  BY <1>1, PowerOfTwo
<1>3. CASE op = "RSH"
  BY <1>1, <1>2, <1>3 DEF Compute
<1>4. CASE op = "ARSH"
  <2>1. Signed(k) \div p \in Int
    BY <1>1
  <2>2. ToWord(Signed(k) \div p) \in Int
    BY <2>1, WordFacts
  <2>3. QED
    BY <1>2, <1>4, <2>2 DEF Compute
<1>5. CASE op \notin {"RSH", "ARSH"}
  <2>1. Compute(op, k, n) = Apply(op, k, n)
    BY <1>5 DEF Compute
  <2>2. QED
    BY <2>1, ApplyType, WordFacts
<1>6. QED
  BY <1>3, <1>4, <1>5

\* Away from the top bit, the two right shifts shift the same way.
LEMMA ComputeExact ==
  ASSUME NEW op \in BinOps, NEW k \in Words, NEW n \in Words, ~Undefined(op, n),
         ~(op \in {"RSH", "ARSH"} /\ k >= 2 ^ (Bits - 1) /\ n > 0)
  PROVE  ToWord(Compute(op, k, n)) = Apply(op, k, n)
<1>1. k \in Nat /\ n \in Nat /\ Signed(k) \in Int
  BY WordFacts
<1>2. Apply(op, k, n) \in Words
  BY ApplyType
<1>3. CASE op \notin {"RSH", "ARSH"}
  <2>1. Compute(op, k, n) = Apply(op, k, n)
    BY <1>3 DEF Compute
  <2>2. QED
    BY <1>2, <2>1, WordFacts
<1>4. PICK p \in Nat \ {0} : p = 2 ^ n
  BY <1>1, PowerOfTwo
<1>5. CASE op \in {"RSH", "ARSH"} /\ n = 0
  <2>1. k \div 2 ^ n = k /\ Signed(k) \div 2 ^ n = Signed(k)
    BY <1>1, <1>5, DivisionByOne
  <2>2. ToWord(k) = k /\ ToWord(Signed(k)) = k
    BY WordFacts
  <2>3. CASE op = "RSH"
    BY <2>1, <2>2, <2>3 DEF Compute, Apply
  <2>4. CASE op = "ARSH"
    BY <2>1, <2>2, <2>4 DEF Compute, Apply
  <2>5. QED
    BY <1>5, <2>3, <2>4
<1>6. CASE op \in {"RSH", "ARSH"} /\ n # 0
  <2>1. PICK h \in Nat \ {0} : 2 ^ (Bits - 1) = h
    BY WordSizes
  <2>2. k < 2 ^ (Bits - 1)
    BY <1>1, <1>6, <2>1
  <2>3. Signed(k) = k
    BY <2>2, WordFacts
  <2>4. CASE op = "RSH"
    BY <2>3, <2>4 DEF Compute, Apply
  <2>5. CASE op = "ARSH"
    <3>1. Apply(op, k, n) = k \div 2 ^ n /\ Compute(op, k, n) = ToWord(k \div 2 ^ n)
      BY <2>3, <2>5 DEF Compute, Apply
    <3>2. ToWord(k \div 2 ^ n) = k \div 2 ^ n
      BY <1>2, <3>1, WordFacts
    <3>3. QED
      BY <3>1, <3>2
  <2>6. QED
    BY <1>6, <2>4, <2>5
<1>7. QED
  BY <1>3, <1>5, <1>6

-----------------------------------------------------------------------------
(* The operations on vectors with a flag.                                    *)

IsVector(a) == a \in [top : BOOLEAN, elems : Seq(Int)]
IsNumber(a) == a \in [top : BOOLEAN, elems : Seq(Words)]
IsOffset(a) == IsVector(a) /\ InOrder(a)

LEMMA VectorFields ==
  ASSUME NEW a, IsVector(a)
  PROVE  /\ a = [top |-> a.top, elems |-> a.elems]
         /\ a.top \in BOOLEAN /\ a.elems \in Seq(Int)
         /\ IsNumber(a) <=> Range(a.elems) \subseteq Words
         /\ InOrder(a) <=> Ordered(a.elems)
<1>1. /\ a = [top |-> a.top, elems |-> a.elems]
      /\ a.top \in BOOLEAN /\ a.elems \in Seq(Int)
  BY DEF IsVector
<1>2. ASSUME IsNumber(a) PROVE Range(a.elems) \subseteq Words
  <2>1. a.elems \in Seq(Words)
    BY <1>2 DEF IsNumber
  <2>2. QED
    BY <2>1, RangeIndex
<1>3. ASSUME Range(a.elems) \subseteq Words PROVE IsNumber(a)
  <2>1. a.elems \in Seq(Words)
    BY <1>1, <1>3, InSeqOfRange
  <2>2. QED
    BY <1>1, <2>1 DEF IsNumber
<1>4. InOrder(a) <=> Ordered(a.elems)
  BY <1>1, OrderedIsInOrder
<1>5. QED
  BY <1>1, <1>2, <1>3, <1>4

\* A vector is put together from its parts.
LEMMA MakesVector ==
  ASSUME NEW top \in BOOLEAN, NEW s \in Seq(Int), NEW a, a = [top |-> top, elems |-> s]
  PROVE  /\ IsVector(a) /\ a.top = top /\ a.elems = s
         /\ Range(s) \subseteq Words => IsNumber(a)
         /\ Ordered(s) => IsOffset(a)
<1>1. IsVector(a) /\ a.top = top /\ a.elems = s
  BY DEF IsVector
<1>2. QED
  BY <1>1, VectorFields DEF IsOffset

LEMMA NumberIsVector ==
  ASSUME NEW a, IsNumber(a)
  PROVE  IsVector(a) /\ Range(a.elems) \subseteq Words
<1>1. a.elems \in Seq(Words) /\ a.top \in BOOLEAN /\ a = [top |-> a.top, elems |-> a.elems]
  BY DEF IsNumber
<1>2. Words \subseteq Int
  BY WordFacts
<1>3. a.elems \in Seq(Int)
  <2>1. a.elems = [i \in 1 .. Len(a.elems) |-> a.elems[i]] /\ Len(a.elems) \in Nat
    BY <1>1
  <2>2. \A i \in 1 .. Len(a.elems) : a.elems[i] \in Int
    BY <1>1, <1>2
  <2>3. QED
    BY <2>1, <2>2
<1>4. QED
  BY <1>1, <1>3, RangeIndex DEF IsVector

LEMMA Constants ==
  /\ IsNumber(Bot) /\ IsOffset(Bot) /\ IsNumber(Top) /\ IsOffset(Top)
  /\ \A e : Contains(Top, e) /\ ~Contains(Bot, e)
  /\ IsNumber(Of(<<0>>)) /\ IsOffset(Of(<<0>>)) /\ Contains(Of(<<0>>), 0)
<1>1. << >> \in Seq(Int) /\ Range(<< >>) = {} /\ Ordered(<< >>)
  BY DEF Range, Ordered
<1>2. Bot = [top |-> FALSE, elems |-> << >>] /\ Top = [top |-> TRUE, elems |-> << >>]
  BY DEF Bot, Top, Of
<1>3. IsNumber(Bot) /\ IsOffset(Bot) /\ IsNumber(Top) /\ IsOffset(Top)
  BY <1>1, <1>2, MakesVector
<1>4. \A e : Contains(Top, e) /\ ~Contains(Bot, e)
  BY <1>1, <1>2 DEF Contains, Elems
<1>5. <<0>> \in Seq(Int) /\ Range(<<0>>) = {0} /\ Ordered(<<0>>)
  BY DEF Range, Ordered
<1>6. 0 \in Words
  BY WordSizes
<1>7. IsNumber(Of(<<0>>)) /\ IsOffset(Of(<<0>>))
  <2>1. PICK s, a : s = <<0>> /\ a = [top |-> FALSE, elems |-> s] /\ a = Of(<<0>>)
    BY DEF Of
  <2>2. s \in Seq(Int) /\ Range(s) \subseteq Words /\ Ordered(s)
    BY <1>5, <1>6, <2>1
  <2>3. QED
    BY <2>1, <2>2, MakesVector
<1>8. Contains(Of(<<0>>), 0)
  BY <1>5 DEF Contains, Elems, Of
<1>9. QED
  BY <1>3, <1>4, <1>7, <1>8

LEMMA JoinFacts ==
  ASSUME NEW a, IsVector(a), NEW b, IsVector(b)
  PROVE  /\ IsVector(Join(a, b))
         /\ IsNumber(a) /\ IsNumber(b) => IsNumber(Join(a, b))
         /\ InOrder(a) /\ InOrder(b) => InOrder(Join(a, b))
         /\ \A e : Contains(a, e) \/ Contains(b, e) => Contains(Join(a, b), e)
<1>1. CASE a.top \/ b.top
  <2>1. Join(a, b) = Top
    BY <1>1 DEF Join
  <2>2. QED
    BY <2>1, Constants DEF IsOffset
<1>2. CASE ~a.top /\ ~b.top
  <2>1. a.elems \in Seq(Int) /\ b.elems \in Seq(Int)
    BY VectorFields
  <2> DEFINE s == SetUnion(a.elems, b.elems)
  <2>2. /\ s \in Seq(Int) /\ Range(s) = Range(a.elems) \cup Range(b.elems)
        /\ Ordered(a.elems) /\ Ordered(b.elems) => Ordered(s)
    BY <2>1, UnionFacts
  <2>3. Join(a, b) = [top |-> FALSE, elems |-> s]
    BY <1>2 DEF Join, Of
  <2> HIDE DEF s
  <2>4. /\ IsVector(Join(a, b)) /\ Join(a, b).elems = s
        /\ Range(s) \subseteq Words => IsNumber(Join(a, b))
        /\ Ordered(s) => IsOffset(Join(a, b))
    BY <2>2, <2>3, MakesVector
  <2>5. IsNumber(a) /\ IsNumber(b) => IsNumber(Join(a, b))
    BY <2>2, <2>4, VectorFields
  <2>6. InOrder(a) /\ InOrder(b) => InOrder(Join(a, b))
    BY <2>2, <2>4, VectorFields DEF IsOffset
  <2>7. \A e : Contains(a, e) \/ Contains(b, e) => Contains(Join(a, b), e)
    BY <1>2, <2>2, <2>4 DEF Contains, Elems
  <2>8. QED
    BY <2>4, <2>5, <2>6, <2>7
<1>3. QED
  BY <1>1, <1>2

LEMMA MeetFacts ==
  ASSUME NEW a, IsVector(a), NEW b, IsVector(b)
  PROVE  /\ IsVector(Meet(a, b))
         /\ IsNumber(a) /\ IsNumber(b) => IsNumber(Meet(a, b))
         /\ InOrder(a) /\ InOrder(b) =>
              /\ InOrder(Meet(a, b))
              /\ \A e : Contains(a, e) /\ Contains(b, e) => Contains(Meet(a, b), e)
<1>1. CASE b.top
  BY <1>1 DEF Meet
<1>2. CASE a.top /\ ~b.top
  BY <1>2 DEF Meet
<1>3. CASE ~a.top /\ ~b.top
  <2>1. a.elems \in Seq(Int) /\ b.elems \in Seq(Int)
    BY VectorFields
  <2> DEFINE s == SetIntersection(a.elems, b.elems)
  <2>2. /\ s \in Seq(Int) /\ Range(s) \subseteq Range(a.elems) \cap Range(b.elems)
        /\ Ordered(a.elems) /\ Ordered(b.elems) =>
              Range(a.elems) \cap Range(b.elems) \subseteq Range(s) /\ Ordered(s)
    BY <2>1, IntersectionFacts
  <2>3. Meet(a, b) = [top |-> FALSE, elems |-> s]
    BY <1>3 DEF Meet, Of
  <2> HIDE DEF s
  <2>4. /\ IsVector(Meet(a, b)) /\ Meet(a, b).elems = s
        /\ Range(s) \subseteq Words => IsNumber(Meet(a, b))
        /\ Ordered(s) => IsOffset(Meet(a, b))
    BY <2>2, <2>3, MakesVector
  <2>5. IsNumber(a) /\ IsNumber(b) => IsNumber(Meet(a, b))
    BY <2>2, <2>4, VectorFields
  <2>6. ASSUME InOrder(a), InOrder(b)
        PROVE  /\ InOrder(Meet(a, b))
               /\ \A e : Contains(a, e) /\ Contains(b, e) => Contains(Meet(a, b), e)
    <3>1. /\ Range(a.elems) \cap Range(b.elems) \subseteq Range(s)
          /\ Ordered(s)
      BY <2>2, <2>6, VectorFields
    <3>2. QED
      BY <1>3, <2>4, <3>1 DEF Contains, Elems, IsOffset
  <2>7. QED
    BY <2>4, <2>5, <2>6
<1>4. QED
  BY <1>1, <1>2, <1>3

-----------------------------------------------------------------------------
(* Arithmetic on two vectors: all pairs, put in order.                       *)

\* A set of the pairs is finite and in order it is a vector of its elements.
LEMMA PairsAscending ==
  ASSUME NEW S, IsFiniteSet(S), NEW T, IsFiniteSet(T), NEW f,
         NEW P, P \subseteq Int, OfPairs(P, S, T, f)
  PROVE  /\ Ascending(P) \in Seq(Int) /\ Range(Ascending(P)) = P
         /\ IsOffset(Of(Ascending(P))) /\ Of(Ascending(P)).elems = Ascending(P)
         /\ P \subseteq Words => IsNumber(Of(Ascending(P)))
<1>1. IsFiniteSet(P)
  BY PairsFinite
<1>2. /\ Ascending(P) \in Seq(Int) /\ Range(Ascending(P)) = P
      /\ Ordered(Ascending(P))
  BY <1>1, AscendingFacts
<1>3. QED
  BY <1>2, MakesVector DEF Of

LEMMA ExecFacts ==
  ASSUME NEW op \in BinOps, NEW a, IsNumber(a), NEW b, IsNumber(b),
         \A n \in Elems(b) : ~Undefined(op, n)
  PROVE  /\ IsNumber(Exec(op, a, b)) /\ InOrder(Exec(op, a, b))
         /\ \A k \in Words, n \in Words :
              Contains(a, k) /\ Contains(b, n) => Contains(Exec(op, a, b), Apply(op, k, n))
<1>1. CASE IsBot(a) \/ IsBot(b)
  <2>1. Exec(op, a, b) = Bot
    BY <1>1 DEF Exec
  <2>2. Range(<< >>) = {}
    BY DEF Range
  <2>3. \A k, n : ~(Contains(a, k) /\ Contains(b, n))
    BY <1>1, <2>2 DEF IsBot, Contains, Elems
  <2>4. QED
    BY <2>1, <2>3, Constants DEF IsOffset
<1>2. CASE ~IsBot(a) /\ ~IsBot(b) /\ (a.top \/ b.top)
  <2>1. Exec(op, a, b) = Top
    BY <1>2 DEF Exec
  <2>2. QED
    BY <2>1, Constants DEF IsOffset
<1>3. CASE ~IsBot(a) /\ ~IsBot(b) /\ ~a.top /\ ~b.top
  <2> DEFINE S == Elems(a)
             T == Elems(b)
             f == [p \in S \X T |-> Apply(op, p[1], p[2])]
             P == {Apply(op, k, n) : k \in S, n \in T}
  <2>1. a.elems \in Seq(Words) /\ b.elems \in Seq(Words)
    BY DEF IsNumber
  <2>2. S \subseteq Words /\ IsFiniteSet(S) /\ T \subseteq Words /\ IsFiniteSet(T)
    BY <2>1, RangeIndex DEF Elems
  <2>3. \A k \in S : \A n \in T : Apply(op, k, n) \in Words
    BY <2>2, ApplyType
  <2>4. OfPairs(P, S, T, f)
    <3>1. \A k \in S : \A n \in T : f[<<k, n>>] = Apply(op, k, n)
      OBVIOUS
    <3>2. \A e \in P : \E k \in S, n \in T : e = Apply(op, k, n)
      OBVIOUS
    <3> HIDE DEF f, P, S, T
    <3>3. QED
      BY <3>1, <3>2 DEF OfPairs
  <2>5. P \subseteq Words /\ Words \subseteq Int
    BY <2>3, WordFacts
  <2>6. Exec(op, a, b) = Of(Ascending(P))
    BY <1>3 DEF Exec
  <2> HIDE DEF f, S, T
  <2>7. \A k \in S : \A n \in T : Apply(op, k, n) \in P
    OBVIOUS
  <2> HIDE DEF P
  <2>8. /\ Range(Ascending(P)) = P /\ Of(Ascending(P)).elems = Ascending(P)
        /\ IsNumber(Of(Ascending(P))) /\ InOrder(Of(Ascending(P)))
    BY <2>2, <2>4, <2>5, PairsAscending DEF IsOffset
  <2>9. ASSUME NEW k \in Words, NEW n \in Words, Contains(a, k), Contains(b, n)
        PROVE  Contains(Exec(op, a, b), Apply(op, k, n))
    <3>1. k \in S /\ n \in T
      BY <1>3, <2>9 DEF Contains, S, T
    <3>2. Apply(op, k, n) \in Elems(Exec(op, a, b))
      BY <2>6, <2>7, <2>8, <3>1 DEF Elems
    <3>3. QED
      BY <3>2 DEF Contains
  <2>10. QED
    BY <2>6, <2>8, <2>9
<1>4. QED
  BY <1>1, <1>2, <1>3

\* An offset and the int that the number is cut to.
Shifted(add, k, n) == IF add THEN k + AsInt(n) ELSE k - AsInt(n)

LEMMA OffsetExecFacts ==
  ASSUME NEW add \in BOOLEAN, NEW a, IsVector(a), NEW b, IsNumber(b)
  PROVE  /\ IsOffset(OffsetExec(add, a, b))
         /\ \A k \in Int, n \in Words :
              Contains(a, k) /\ Contains(b, n) =>
                Contains(OffsetExec(add, a, b), Shifted(add, k, n))
<1> DEFINE S == Elems(a)
           T == Elems(b)
           f == [p \in S \X T |-> Shifted(add, p[1], p[2])]
           P == {Shifted(add, k, n) : k \in S, n \in T}
<1>1. OffsetExec(add, a, b) =
        IF IsBot(a) \/ IsBot(b) THEN Bot
        ELSE IF a.top \/ b.top \/ \E x \in P : x > Cap THEN Top
        ELSE Of(Ascending(P))
  BY DEF OffsetExec, Shifted
<1>2. CASE IsBot(a) \/ IsBot(b)
  <2>1. OffsetExec(add, a, b) = Bot
    BY <1>1, <1>2
  <2>2. Range(<< >>) = {}
    BY DEF Range
  <2>3. \A k, n : ~(Contains(a, k) /\ Contains(b, n))
    BY <1>2, <2>2 DEF IsBot, Contains, Elems
  <2>4. QED
    BY <2>1, <2>3, Constants
<1>3. CASE ~IsBot(a) /\ ~IsBot(b) /\ (a.top \/ b.top \/ \E x \in P : x > Cap)
  <2>1. OffsetExec(add, a, b) = Top
    BY <1>1, <1>3
  <2>2. QED
    BY <2>1, Constants
<1>4. CASE ~IsBot(a) /\ ~IsBot(b) /\ ~(a.top \/ b.top \/ \E x \in P : x > Cap)
  <2>1. a.elems \in Seq(Int) /\ b.elems \in Seq(Words)
    BY DEF IsVector, IsNumber
  <2>2. S \subseteq Int /\ IsFiniteSet(S) /\ T \subseteq Words /\ IsFiniteSet(T)
    BY <2>1, RangeIndex DEF Elems
  <2>3. \A k \in S : \A n \in T : Shifted(add, k, n) \in Int
    BY <2>2, AsIntType DEF Shifted
  <2>4. OfPairs(P, S, T, f)
    <3>1. \A k \in S : \A n \in T : f[<<k, n>>] = Shifted(add, k, n)
      OBVIOUS
    <3>2. \A e \in P : \E k \in S, n \in T : e = Shifted(add, k, n)
      OBVIOUS
    <3> HIDE DEF f, P, S, T
    <3>3. QED
      BY <3>1, <3>2 DEF OfPairs
  <2>5. P \subseteq Int
    BY <2>3
  <2>6. OffsetExec(add, a, b) = Of(Ascending(P)) /\ ~a.top /\ ~b.top
    BY <1>1, <1>4
  <2> HIDE DEF f, S, T
  <2>7. \A k \in S : \A n \in T : Shifted(add, k, n) \in P
    OBVIOUS
  <2> HIDE DEF P
  <2>8. /\ Range(Ascending(P)) = P /\ Of(Ascending(P)).elems = Ascending(P)
        /\ IsOffset(Of(Ascending(P)))
    BY <2>2, <2>4, <2>5, PairsAscending
  <2>9. ASSUME NEW k \in Int, NEW n \in Words, Contains(a, k), Contains(b, n)
        PROVE  Contains(OffsetExec(add, a, b), Shifted(add, k, n))
    <3>1. k \in S /\ n \in T
      BY <2>6, <2>9 DEF Contains, S, T
    <3>2. Shifted(add, k, n) \in Elems(OffsetExec(add, a, b))
      BY <2>6, <2>7, <2>8, <3>1 DEF Elems
    <3>3. QED
      BY <3>2 DEF Contains
  <2>10. QED
    BY <2>6, <2>8, <2>9
<1>5. QED
  BY <1>2, <1>3, <1>4

\* The difference of two offsets as a word.
LEMMA OffsetMinusFacts ==
  ASSUME NEW a, IsVector(a), NEW b, IsVector(b)
  PROVE  /\ IsNumber(OffsetMinus(a, b))
         /\ \A k \in Int, n \in Int :
              Contains(a, k) /\ Contains(b, n) =>
                Contains(OffsetMinus(a, b), ToWord(k - n))
<1> DEFINE S == Elems(a)
           T == Elems(b)
           f == [p \in S \X T |-> p[1] - p[2]]
           P == {k - n : k \in S, n \in T}
           inOrder == Ascending(P)
           word == [i \in DOMAIN inOrder |-> ToWord(inOrder[i])]
<1>1. OffsetMinus(a, b) =
        IF IsBot(a) \/ IsBot(b) THEN Bot
        ELSE IF a.top \/ b.top \/ \E x \in P : x > Cap THEN Top
        ELSE Of(word)
  BY DEF OffsetMinus
<1>2. CASE IsBot(a) \/ IsBot(b)
  <2>1. OffsetMinus(a, b) = Bot
    BY <1>1, <1>2
  <2>2. Range(<< >>) = {}
    BY DEF Range
  <2>3. \A k, n : ~(Contains(a, k) /\ Contains(b, n))
    BY <1>2, <2>2 DEF IsBot, Contains, Elems
  <2>4. QED
    BY <2>1, <2>3, Constants
<1>3. CASE ~IsBot(a) /\ ~IsBot(b) /\ (a.top \/ b.top \/ \E x \in P : x > Cap)
  <2>1. OffsetMinus(a, b) = Top
    BY <1>1, <1>3
  <2>2. QED
    BY <2>1, Constants
<1>4. CASE ~IsBot(a) /\ ~IsBot(b) /\ ~(a.top \/ b.top \/ \E x \in P : x > Cap)
  <2>1. a.elems \in Seq(Int) /\ b.elems \in Seq(Int)
    BY DEF IsVector
  <2>2. S \subseteq Int /\ IsFiniteSet(S) /\ T \subseteq Int /\ IsFiniteSet(T)
    BY <2>1, RangeIndex DEF Elems
  <2>3. \A k \in S : \A n \in T : k - n \in Int
    BY <2>2
  <2>4. OfPairs(P, S, T, f)
    <3>1. \A k \in S : \A n \in T : f[<<k, n>>] = k - n
      OBVIOUS
    <3>2. \A e \in P : \E k \in S, n \in T : e = k - n
      OBVIOUS
    <3> HIDE DEF f, P, S, T
    <3>3. QED
      BY <3>1, <3>2 DEF OfPairs
  <2>5. P \subseteq Int
    BY <2>3
  <2>6. OffsetMinus(a, b) = Of(word) /\ ~a.top /\ ~b.top
    BY <1>1, <1>4
  <2> HIDE DEF f, S, T
  <2>7. \A k \in S : \A n \in T : k - n \in P
    OBVIOUS
  <2> HIDE DEF P
  <2>8. inOrder \in Seq(Int) /\ Range(inOrder) = P
    BY <2>2, <2>4, <2>5, PairsAscending
  <2> HIDE DEF inOrder
  <2>9. /\ Len(inOrder) \in Nat /\ DOMAIN inOrder = 1 .. Len(inOrder)
        /\ \A i \in 1 .. Len(inOrder) : inOrder[i] \in Int
        /\ \A e \in P : \E i \in 1 .. Len(inOrder) : inOrder[i] = e
    BY <2>8, RangeIndex
  <2>10. \A i \in 1 .. Len(inOrder) : ToWord(inOrder[i]) \in Words
    BY <2>9, WordFacts
  <2>11. word \in Seq(Words)
    BY <2>9, <2>10
  <2>12. \A e \in P : ToWord(e) \in Range(word)
    BY <2>9 DEF Range
  <2>13. IsNumber(Of(word)) /\ Elems(Of(word)) = Range(word)
    BY <2>11 DEF IsNumber, Of, Elems
  <2>14. ASSUME NEW k \in Int, NEW n \in Int, Contains(a, k), Contains(b, n)
         PROVE  Contains(OffsetMinus(a, b), ToWord(k - n))
    <3>1. k \in S /\ n \in T
      BY <2>6, <2>14 DEF Contains, S, T
    <3>2. ToWord(k - n) \in Elems(OffsetMinus(a, b))
      BY <2>6, <2>7, <2>12, <2>13, <3>1
    <3>3. QED
      BY <3>2 DEF Contains
  <2>15. QED
    BY <2>6, <2>13, <2>14
<1>5. QED
  BY <1>2, <1>3, <1>4

-----------------------------------------------------------------------------
(* What an assumption keeps.                                                 *)

Orders == CmpOps \ {"EQ", "NE", "SET", "NSET"}

LEMMA ReadType ==
  ASSUME NEW op, NEW w \in Int
  PROVE  ReadFor(op, w) \in Int
<1>1. PICK h \in Nat \ {0} : 2 ^ (Bits - 1) = h /\ 2 ^ Bits = h + h
  BY WordSizes
<1>2. Signed(w) \in Int
  BY <1>1 DEF Signed
<1>3. QED
  BY <1>2 DEF ReadFor

\* The four orders, without their other names.
LEMMA CompareOrders ==
  ASSUME NEW op, NEW x \in Int, NEW y \in Int
  PROVE  /\ op \in {"LT", "SLT"} => (Compare(op, x, y) <=> x < y)
         /\ op \in {"LE", "SLE"} => (Compare(op, x, y) <=> x <= y)
         /\ op \in {"GT", "SGT"} => (Compare(op, x, y) <=> x > y)
         /\ op \in {"GE", "SGE"} => (Compare(op, x, y) <=> x >= y)
<1>1. CASE op \in {"LT", "SLT"}
  BY <1>1, Zenon DEF Compare
<1>2. CASE op \in {"LE", "SLE"}
  <2>1. op \notin {"LT", "SLT"}
    BY <1>2
  <2>2. QED
    BY <1>2, <2>1, Zenon DEF Compare
<1>3. CASE op \in {"GT", "SGT"}
  <2>1. op \notin {"LT", "SLT"} /\ op \notin {"LE", "SLE"}
    BY <1>3
  <2>2. QED
    BY <1>3, <2>1, Zenon DEF Compare
<1>4. CASE op \in {"GE", "SGE"}
  <2>1. op \notin {"LT", "SLT"} /\ op \notin {"LE", "SLE"} /\ op \notin {"GT", "SGT"}
    BY <1>4
  <2>2. QED
    BY <1>4, <2>1, Zenon DEF Compare
<1>5. QED
  BY <1>1, <1>2, <1>3, <1>4

\* The elements that read least and greatest.
LEMMA Extremes ==
  ASSUME NEW op, NEW t \in Seq(Int), t # << >>
  PROVE  /\ \E x \in Range(t) : \A y \in Range(t) : ReadFor(op, x) <= ReadFor(op, y)
         /\ \E x \in Range(t) : \A y \in Range(t) : ReadFor(op, x) >= ReadFor(op, y)
<1> DEFINE f == [w \in Range(t) |-> ReadFor(op, w)]
           R == {f[w] : w \in Range(t)}
<1>1. Range(t) \subseteq Int /\ IsFiniteSet(Range(t)) /\ Range(t) # {}
  <2>1. Len(t) \in Nat /\ Len(t) # 0
    OBVIOUS
  <2>2. QED
    BY <2>1, RangeIndex
<1>2. \A w \in Range(t) : ReadFor(op, w) \in Int
  BY <1>1, ReadType
<1>3. R \subseteq Int /\ R # {}
  BY <1>1, <1>2
<1>4. f \in Surjection(Range(t), R)
  <2>1. f \in [Range(t) -> R]
    OBVIOUS
  <2>2. \A r \in R : \E w \in Range(t) : f[w] = r
    OBVIOUS
  <2> HIDE DEF f, R
  <2>3. QED
    BY <2>1, <2>2 DEF Surjection
<1>5. \A w \in Range(t) : f[w] = ReadFor(op, w) /\ f[w] \in R
  OBVIOUS
<1>6. \A r \in R : \E w \in Range(t) : r = ReadFor(op, w)
  OBVIOUS
<1> HIDE DEF f, R
<1>7. IsFiniteSet(R)
  BY <1>1, <1>4, FS_Surjection
<1>8. PICK l \in R, g \in R : (\A r \in R : l <= r) /\ (\A r \in R : r <= g)
  BY <1>3, <1>7, LeastAndGreatest
<1>9. PICK x \in Range(t), z \in Range(t) : l = ReadFor(op, x) /\ g = ReadFor(op, z)
  BY <1>6
<1>10. \A y \in Range(t) : ReadFor(op, x) <= ReadFor(op, y)
  BY <1>5, <1>8, <1>9
<1>11. \A y \in Range(t) : ReadFor(op, z) >= ReadFor(op, y)
  <2>1. \A y \in Range(t) : ReadFor(op, y) <= ReadFor(op, z)
    BY <1>5, <1>8, <1>9
  <2>2. ReadFor(op, z) \in Int
    BY <1>2
  <2>3. QED
    BY <1>2, <2>1, <2>2
<1>12. QED
  BY <1>10, <1>11

LEMMA KeepFacts ==
  ASSUME NEW op \in Orders, NEW s \in Seq(Int), NEW t \in Seq(Int), t # << >>
  PROVE  /\ Keep(op, s, t) \in Seq(Int)
         /\ Range(Keep(op, s, t)) \subseteq Range(s)
         /\ Ordered(s) => Ordered(Keep(op, s, t))
         /\ \A x \in Range(s), y \in Range(t) :
              Compare(op, ReadFor(op, x), ReadFor(op, y)) => x \in Range(Keep(op, s, t))
         /\ \E m \in Range(t) : \A e \in Range(Keep(op, s, t)) :
              Compare(op, ReadFor(op, e), ReadFor(op, m))
<1> DEFINE least    == CHOOSE x \in Range(t) : \A y \in Range(t) : ReadFor(op, x) <= ReadFor(op, y)
           greatest == CHOOSE x \in Range(t) : \A y \in Range(t) : ReadFor(op, x) >= ReadFor(op, y)
           m == IF op \in {"GT", "GE", "SGT", "SGE"} THEN least ELSE greatest
           S == {e \in Range(s) : Compare(op, ReadFor(op, e), ReadFor(op, m))}
<1>1. /\ least \in Range(t) /\ \A y \in Range(t) : ReadFor(op, least) <= ReadFor(op, y)
      /\ greatest \in Range(t) /\ \A y \in Range(t) : ReadFor(op, greatest) >= ReadFor(op, y)
  <2>1. /\ \E x \in Range(t) : \A y \in Range(t) : ReadFor(op, x) <= ReadFor(op, y)
        /\ \E x \in Range(t) : \A y \in Range(t) : ReadFor(op, x) >= ReadFor(op, y)
    BY Extremes
  <2>2. QED
    BY <2>1, Zenon
<1>2. Keep(op, s, t) = Among(s, S)
  BY DEF Keep
<1> HIDE DEF least, greatest
<1>3. Range(s) \subseteq Int /\ Range(t) \subseteq Int
  BY RangeIndex
<1>4. m \in Range(t)
  BY <1>1
<1>5. ASSUME NEW x \in Range(s), NEW y \in Range(t),
             Compare(op, ReadFor(op, x), ReadFor(op, y))
      PROVE  x \in S
  <2>1. PICK p \in Int, q \in Int, r \in Int :
          p = ReadFor(op, x) /\ q = ReadFor(op, y) /\ r = ReadFor(op, m)
    BY <1>3, <1>4, ReadType
  <2>2. CASE op \in {"GT", "GE", "SGT", "SGE"}
    <3>1. r <= q
      BY <1>1, <2>1, <2>2
    <3>2. Compare(op, p, q)
      BY <1>5, <2>1
    <3>3. Compare(op, p, r)
      <4>1. CASE op \in {"GT", "SGT"}
        BY <2>1, <3>1, <3>2, <4>1, CompareOrders
      <4>2. CASE op \in {"GE", "SGE"}
        BY <2>1, <3>1, <3>2, <4>2, CompareOrders
      <4>3. QED
        BY <2>2, <4>1, <4>2
    <3>4. QED
      BY <2>1, <3>3
  <2>3. CASE op \in {"LT", "LE", "SLT", "SLE"}
    <3>1. r >= q
      BY <1>1, <2>1, <2>3
    <3>2. Compare(op, p, q)
      BY <1>5, <2>1
    <3>3. Compare(op, p, r)
      <4>1. CASE op \in {"LT", "SLT"}
        BY <2>1, <3>1, <3>2, <4>1, CompareOrders
      <4>2. CASE op \in {"LE", "SLE"}
        BY <2>1, <3>1, <3>2, <4>2, CompareOrders
      <4>3. QED
        BY <2>3, <4>1, <4>2
    <3>4. QED
      BY <2>1, <3>3
  <2>4. QED
    BY <2>2, <2>3 DEF Orders, CmpOps
<1>6. S \subseteq Range(s) /\ \A e \in S : Compare(op, ReadFor(op, e), ReadFor(op, m))
  OBVIOUS
<1> HIDE DEF m, S
<1>7. /\ Among(s, S) \in Seq(Int) /\ Range(Among(s, S)) = S
      /\ Ordered(s) => Ordered(Among(s, S))
  BY <1>6, AmongFacts
<1>8. QED
  BY <1>2, <1>4, <1>5, <1>6, <1>7

\* The comparison as AssumeNum takes it: on words, or on offsets by an order
\* that is not signed.
Compares(op, x, y) ==
  CASE op = "EQ" -> x = y
    [] op = "NE" -> x # y
    [] op \in {"SET", "NSET"} -> TRUE
    [] OTHER -> Compare(op, ReadFor(op, x), ReadFor(op, y))

\* r is a with the elements s instead of its own.
Gives(a, s, r) == r = [a EXCEPT !.elems = s]

LEMMA AssumeNumTypes ==
  ASSUME NEW op \in CmpOps, NEW a, IsVector(a), NEW b, IsVector(b),
         NEW r, r = AssumeNum(op, a, b)
  PROVE  /\ IsVector(r)
         /\ IsNumber(a) /\ IsNumber(b) => IsNumber(r)
         /\ InOrder(a) /\ InOrder(b) => InOrder(r)
<1>1. /\ a = [top |-> a.top, elems |-> a.elems] /\ a.top \in BOOLEAN
      /\ a.elems \in Seq(Int) /\ b.elems \in Seq(Int)
      /\ IsNumber(a) <=> Range(a.elems) \subseteq Words
      /\ InOrder(a) <=> Ordered(a.elems)
      /\ InOrder(b) <=> Ordered(b.elems)
  BY VectorFields
<1>2. CASE b.top \/ op \in {"SET", "NSET"}
  BY <1>2 DEF AssumeNum
<1>3. CASE ~b.top /\ op = "EQ"
  <2>1. r = Meet(a, b)
    BY <1>3 DEF AssumeNum
  <2>2. QED
    BY <2>1, MeetFacts
<1>4. ASSUME NEW s \in Seq(Int), Gives(a, s, r),
             Range(s) \subseteq Range(a.elems),
             Ordered(a.elems) /\ Ordered(b.elems) => Ordered(s)
      PROVE  /\ IsVector(r)
             /\ IsNumber(a) /\ IsNumber(b) => IsNumber(r)
             /\ InOrder(a) /\ InOrder(b) => InOrder(r)
  <2>1. r = [top |-> a.top, elems |-> s]
    BY <1>1, <1>4 DEF Gives
  <2>2. /\ IsVector(r)
        /\ Range(s) \subseteq Words => IsNumber(r)
        /\ Ordered(s) => IsOffset(r)
    BY <1>1, <2>1, MakesVector
  <2>3. QED
    BY <1>1, <1>4, <2>2 DEF IsOffset
<1>5. CASE ~b.top /\ op = "NE"
  <2>1. Gives(a, SetDifference(a.elems, b.elems), r)
    BY <1>5 DEF AssumeNum, Gives
  <2>2. /\ SetDifference(a.elems, b.elems) \in Seq(Int)
        /\ Range(SetDifference(a.elems, b.elems)) \subseteq Range(a.elems)
        /\ Ordered(a.elems) /\ Ordered(b.elems) => Ordered(SetDifference(a.elems, b.elems))
    BY <1>1, DifferenceFacts
  <2>3. QED
    BY <1>4, <2>1, <2>2
<1>6. CASE ~b.top /\ op \in Orders /\ b.elems = << >>
  <2>1. Gives(a, << >>, r)
    BY <1>6 DEF AssumeNum, Orders, Gives
  <2>2. << >> \in Seq(Int) /\ Range(<< >>) \subseteq Range(a.elems) /\ Ordered(<< >>)
    BY DEF Range, Ordered
  <2>3. QED
    BY <1>4, <2>1, <2>2
<1>7. CASE ~b.top /\ op \in Orders /\ b.elems # << >>
  <2>1. Gives(a, Keep(op, a.elems, b.elems), r)
    BY <1>7 DEF AssumeNum, Orders, Gives
  <2>2. /\ Keep(op, a.elems, b.elems) \in Seq(Int)
        /\ Range(Keep(op, a.elems, b.elems)) \subseteq Range(a.elems)
        /\ Ordered(a.elems) => Ordered(Keep(op, a.elems, b.elems))
    BY <1>1, <1>7, KeepFacts
  <2>3. QED
    BY <1>4, <2>1, <2>2
<1>8. op \in {"SET", "NSET"} \/ op = "EQ" \/ op = "NE" \/ op \in Orders
  BY DEF Orders
<1>9. QED
  BY <1>2, <1>3, <1>5, <1>6, <1>7, <1>8

LEMMA OnlyElement ==
  ASSUME NEW s \in Seq(Int), Len(s) <= 1, NEW x \in Range(s), NEW y \in Range(s)
  PROVE  x = y
<1>1. PICK i \in 1 .. Len(s) : s[i] = x
  BY RangeIndex
<1>2. PICK j \in 1 .. Len(s) : s[j] = y
  BY RangeIndex
<1>3. Len(s) \in Nat
  OBVIOUS
<1>4. i = j
  BY <1>3
<1>5. QED
  BY <1>1, <1>2, <1>4

LEMMA AssumeNumCovers ==
  ASSUME NEW op \in CmpOps, NEW a, IsVector(a), NEW b, IsVector(b),
         op = "EQ" => InOrder(a) /\ InOrder(b),
         NEW x \in Int, NEW y \in Int, Contains(a, x), Contains(b, y),
         Compares(op, x, y), op = "NE" => Len(b.elems) <= 1,
         NEW r, r = AssumeNum(op, a, b)
  PROVE  Contains(r, x)
<1>1. /\ a = [top |-> a.top, elems |-> a.elems] /\ a.top \in BOOLEAN
      /\ a.elems \in Seq(Int) /\ b.elems \in Seq(Int)
  BY VectorFields
<1>2. CASE b.top \/ op \in {"SET", "NSET"}
  BY <1>2 DEF AssumeNum
<1>3. CASE ~b.top /\ op = "EQ"
  <2>1. r = Meet(a, b) /\ x = y
    BY <1>3 DEF AssumeNum, Compares
  <2>2. QED
    BY <1>3, <2>1, MeetFacts
<1>4. CASE ~b.top /\ (op = "NE" \/ op \in Orders)
  <2>1. y \in Range(b.elems)
    BY <1>4 DEF Contains, Elems
  <2>2. ASSUME NEW s, Gives(a, s, r), x \in Range(a.elems) => x \in Range(s)
        PROVE  Contains(r, x)
    <3>1. r.top = a.top /\ r.elems = s
      BY <1>1, <2>2 DEF Gives
    <3>2. QED
      BY <2>2, <3>1 DEF Contains, Elems
  <2>3. CASE op = "NE"
    <3>1. Gives(a, SetDifference(a.elems, b.elems), r) /\ x # y
      BY <1>4, <2>3 DEF AssumeNum, Compares, Gives
    <3>2. \A e \in Range(b.elems) : e = y
      BY <1>1, <2>1, <2>3, OnlyElement
    <3>3. x \in Range(a.elems) => x \in Range(SetDifference(a.elems, b.elems))
      BY <1>1, <3>1, <3>2, DifferenceFacts
    <3>4. QED
      BY <2>2, <3>1, <3>3
  <2>4. CASE op \in Orders
    <3>1. b.elems # << >>
      BY <2>1 DEF Range
    <3>2. Gives(a, Keep(op, a.elems, b.elems), r)
      BY <1>4, <2>4, <3>1 DEF AssumeNum, Orders, Gives
    <3>3. Compare(op, ReadFor(op, x), ReadFor(op, y))
      BY <2>4 DEF Compares, Orders
    <3>4. x \in Range(a.elems) => x \in Range(Keep(op, a.elems, b.elems))
      BY <1>1, <2>1, <2>4, <3>1, <3>3, KeepFacts
    <3>5. QED
      BY <2>2, <3>2, <3>4
  <2>5. QED
    BY <1>4, <2>3, <2>4
<1>5. op \in {"SET", "NSET"} \/ op = "EQ" \/ op = "NE" \/ op \in Orders
  BY DEF Orders
<1>6. QED
  BY <1>2, <1>3, <1>4, <1>5

-----------------------------------------------------------------------------
(* Abstract values and what they hold.                                       *)

LEMMA TypeCases ==
  /\ Maps \subseteq Nat
  /\ AllTypes = PtrTypes \cup {T_NUM, T_FD} /\ NonFd = PtrTypes \cup {T_NUM}
  /\ Maps \subseteq PtrTypes
  /\ T_NUM # T_FD /\ T_NUM \notin PtrTypes /\ T_FD \notin PtrTypes
  /\ T_CTX \in PtrTypes \ Maps /\ T_STACK \in PtrTypes \ Maps /\ T_DATA \in PtrTypes \ Maps
  /\ \A t \in PtrTypes \ Maps : t = T_CTX \/ t = T_STACK \/ t = T_DATA
<1>1. Maps \subseteq Nat
  <2>1. IsFiniteSet(Maps) /\ Maps = 0 .. Cardinality(Maps) - 1
    BY MapAssumption
  <2>2. Cardinality(Maps) \in Nat
    BY <2>1, FS_CardinalityType
  <2>3. PICK n \in Nat : n = Cardinality(Maps)
    BY <2>2
  <2>4. QED
    BY <2>1, <2>3
<1>2. QED
  BY <1>1 DEF AllTypes, PtrTypes, NonFd, MemTypes, T_CTX, T_STACK, T_DATA, T_NUM, T_FD

LEMMA ValueParts ==
  ASSUME NEW d
  PROVE  IsValue(d) <=> /\ d = [t \in AllTypes |-> d[t]]
                        /\ d[T_FD] \subseteq Maps
                        /\ IsNumber(d[T_NUM])
                        /\ \A t \in PtrTypes : IsOffset(d[t])
BY DEF IsValue, IsNumber, IsOffset, IsVector

\* A real value is a descriptor, a number or an offset.
LEMMA RealParts ==
  ASSUME NEW x, IsReal(x)
  PROVE  /\ x = [t |-> x.t, n |-> x.n] /\ x.n \in Int /\ x.t \in AllTypes
         /\ \/ x.t = T_FD
            \/ x.t = T_NUM /\ x.n \in Words
            \/ x.t \in PtrTypes /\ x.t # T_NUM /\ x.t # T_FD
         /\ \A d : Holds(d, x) <=> \/ x.t = T_FD /\ x.n \in d[T_FD]
                                   \/ x.t # T_FD /\ Contains(d[x.t], x.n)
<1>1. /\ x = [t |-> x.t, n |-> x.n] /\ x.n \in Int /\ x.t \in AllTypes
      /\ x.t = T_NUM => x.n \in Words
  BY DEF IsReal
<1>2. \A d : Holds(d, x) <=> \/ x.t = T_FD /\ x.n \in d[T_FD]
                             \/ x.t # T_FD /\ Contains(d[x.t], x.n)
  BY DEF Holds
<1>3. QED
  BY <1>1, <1>2, TypeCases

LEMMA MakesReal ==
  ASSUME NEW t \in AllTypes, NEW n \in Int, t = T_NUM => n \in Words,
         NEW x, x = [t |-> t, n |-> n]
  PROVE  IsReal(x) /\ x.t = t /\ x.n = n
BY DEF IsReal

LEMMA NumType ==
  ASSUME NEW n \in Int
  PROVE  IsReal(Num(n)) /\ Num(n).t = T_NUM /\ Num(n).n = ToWord(n)
<1>1. ToWord(n) \in Words /\ ToWord(n) \in Int
  BY WordFacts
<1>2. T_NUM \in AllTypes
  BY TypeCases
<1>3. QED
  BY <1>1, <1>2, MakesReal DEF Num

LEMMA JoinValue ==
  ASSUME NEW a, IsValue(a), NEW b, IsValue(b), NEW r, r = JoinVal(a, b)
  PROVE  /\ IsValue(r)
         /\ \A x : IsReal(x) /\ (Holds(a, x) \/ Holds(b, x)) => Holds(r, x)
<1>1. /\ r = [t \in AllTypes |-> r[t]]
      /\ r[T_FD] = a[T_FD] \cup b[T_FD] /\ r[T_NUM] = Join(a[T_NUM], b[T_NUM])
      /\ \A t \in PtrTypes : r[t] = Join(a[t], b[t])
  BY TypeCases DEF JoinVal
<1>2. /\ a[T_FD] \subseteq Maps /\ b[T_FD] \subseteq Maps
      /\ IsNumber(a[T_NUM]) /\ IsNumber(b[T_NUM])
      /\ \A t \in PtrTypes : IsOffset(a[t]) /\ IsOffset(b[t])
  BY ValueParts
<1>3. /\ IsNumber(r[T_NUM])
      /\ \A e : Contains(a[T_NUM], e) \/ Contains(b[T_NUM], e) => Contains(r[T_NUM], e)
  <2>1. IsVector(a[T_NUM]) /\ IsVector(b[T_NUM])
    BY <1>2, NumberIsVector
  <2>2. QED
    BY <1>1, <1>2, <2>1, JoinFacts
<1>4. ASSUME NEW t \in PtrTypes
      PROVE  /\ IsOffset(r[t])
             /\ \A e : Contains(a[t], e) \/ Contains(b[t], e) => Contains(r[t], e)
  <2>1. /\ IsVector(a[t]) /\ InOrder(a[t]) /\ IsVector(b[t]) /\ InOrder(b[t])
        /\ r[t] = Join(a[t], b[t])
    BY <1>1, <1>2 DEF IsOffset
  <2>2. QED
    BY <2>1, JoinFacts DEF IsOffset
<1>5. IsValue(r)
  BY <1>1, <1>2, <1>3, <1>4, ValueParts
<1>6. ASSUME NEW x, IsReal(x), Holds(a, x) \/ Holds(b, x) PROVE Holds(r, x)
  BY <1>1, <1>3, <1>4, <1>6, RealParts
<1>7. QED
  BY <1>5, <1>6

LEMMA ExecValue ==
  ASSUME NEW op \in BinOps, NEW a, IsValue(a), NEW b, IsValue(b),
         \A n \in Elems(b[T_NUM]) : ~Undefined(op, n),
         NEW r, r = ExecVal(op, a, b)
  PROVE  /\ IsValue(r)
         /\ \A k \in Words, n \in Words :
              Contains(a[T_NUM], k) /\ Contains(b[T_NUM], n) =>
                Contains(r[T_NUM], Apply(op, k, n))
<1>1. /\ a = [t \in AllTypes |-> a[t]] /\ a[T_FD] \subseteq Maps
      /\ IsNumber(a[T_NUM]) /\ IsNumber(b[T_NUM])
      /\ \A t \in PtrTypes : IsOffset(a[t])
  BY ValueParts
<1>2. /\ r = [t \in AllTypes |-> r[t]]
      /\ r[T_NUM] = Exec(op, a[T_NUM], b[T_NUM]) /\ r[T_FD] = a[T_FD]
      /\ \A t \in PtrTypes : r[t] = a[t]
  BY <1>1, TypeCases DEF ExecVal
<1>3. /\ IsNumber(r[T_NUM])
      /\ \A k \in Words, n \in Words :
           Contains(a[T_NUM], k) /\ Contains(b[T_NUM], n) =>
             Contains(r[T_NUM], Apply(op, k, n))
  BY <1>1, <1>2, ExecFacts
<1>4. QED
  BY <1>1, <1>2, <1>3, ValueParts

LEMMA AddValue ==
  ASSUME NEW a, IsValue(a), NEW b, IsValue(b), NEW r, r = AddVal(a, b)
  PROVE  /\ IsValue(r) /\ InOrder(r[T_NUM])
         /\ \A k \in Words, n \in Words :
              Contains(a[T_NUM], k) /\ Contains(b[T_NUM], n) =>
                Contains(r[T_NUM], ToWord(k + n))
         /\ \A t \in PtrTypes, k \in Int, n \in Words :
              \/ Contains(a[t], k) /\ Contains(b[T_NUM], n)
              \/ Contains(b[t], k) /\ Contains(a[T_NUM], n)
              => Contains(r[t], k + AsInt(n))
<1>1. /\ a[T_FD] \subseteq Maps /\ IsNumber(a[T_NUM]) /\ IsNumber(b[T_NUM])
      /\ \A t \in PtrTypes : IsOffset(a[t]) /\ IsOffset(b[t])
  BY ValueParts
<1>2. /\ r = [t \in AllTypes |-> r[t]]
      /\ r[T_NUM] = Exec("ADD", a[T_NUM], b[T_NUM]) /\ r[T_FD] = a[T_FD]
      /\ \A t \in PtrTypes : r[t] = Join(OffsetExec(TRUE, b[t], a[T_NUM]),
                                         OffsetExec(TRUE, a[t], b[T_NUM]))
  BY TypeCases DEF AddVal
<1>3. /\ IsNumber(r[T_NUM]) /\ InOrder(r[T_NUM])
      /\ \A k \in Words, n \in Words :
           Contains(a[T_NUM], k) /\ Contains(b[T_NUM], n) =>
             Contains(r[T_NUM], ToWord(k + n))
  <2>1. "ADD" \in BinOps /\ \A n : ~Undefined("ADD", n)
    BY DEF BinOps, Undefined
  <2>2. \A k, n : Apply("ADD", k, n) = ToWord(k + n)
    BY DEF Apply
  <2>3. QED
    BY <1>1, <1>2, <2>1, <2>2, ExecFacts
<1>4. ASSUME NEW t \in PtrTypes
      PROVE  /\ IsOffset(r[t])
             /\ \A k \in Int, n \in Words :
                  \/ Contains(a[t], k) /\ Contains(b[T_NUM], n)
                  \/ Contains(b[t], k) /\ Contains(a[T_NUM], n)
                  => Contains(r[t], k + AsInt(n))
  <2>1. PICK p, q : /\ p = OffsetExec(TRUE, b[t], a[T_NUM])
                    /\ q = OffsetExec(TRUE, a[t], b[T_NUM])
    OBVIOUS
  <2>2. IsVector(a[t]) /\ IsVector(b[t])
    BY <1>1 DEF IsOffset
  <2>3. \A k, n : Shifted(TRUE, k, n) = k + AsInt(n)
    BY DEF Shifted
  <2>4. /\ IsOffset(p)
        /\ \A k \in Int, n \in Words :
             Contains(b[t], k) /\ Contains(a[T_NUM], n) => Contains(p, k + AsInt(n))
    BY <1>1, <2>1, <2>2, <2>3, OffsetExecFacts
  <2>5. /\ IsOffset(q)
        /\ \A k \in Int, n \in Words :
             Contains(a[t], k) /\ Contains(b[T_NUM], n) => Contains(q, k + AsInt(n))
    BY <1>1, <2>1, <2>2, <2>3, OffsetExecFacts
  <2>6. r[t] = Join(p, q)
    BY <1>2, <2>1
  <2>7. IsOffset(r[t]) /\ \A e : Contains(p, e) \/ Contains(q, e) => Contains(r[t], e)
    BY <2>4, <2>5, <2>6, JoinFacts DEF IsOffset
  <2>8. QED
    BY <2>4, <2>5, <2>7
<1>5. IsValue(r)
  BY <1>1, <1>2, <1>3, <1>4, ValueParts
<1>6. QED
  BY <1>3, <1>4, <1>5

\* However many maps there are, the differences of their pointers are only
\* added to the numbers.
LEMMA SubNumFacts ==
  ASSUME NEW a, IsValue(a), NEW b, IsValue(b), NEW r, r = SubNum(a, b)
  PROVE  /\ IsNumber(r)
         /\ \A e : Contains(Exec("SUB", a[T_NUM], b[T_NUM]), e) => Contains(r, e)
         /\ \A t \in PtrTypes \ Maps : \A e :
              Contains(OffsetMinus(a[t], b[t]), e) => Contains(r, e)
<1> DEFINE D == {v \in [top : BOOLEAN, elems : Seq(Words)] : IsNumber(v)}
           start == Exec("SUB", a[T_NUM], b[T_NUM])
           Minus(t) == OffsetMinus(a[t], b[t])
           n == Cardinality(Maps)
           body(f) == [m \in 0 .. n |->
             IF m = 0 THEN start ELSE LET prior == f[m - 1] IN Join(prior, Minus(m - 1))]
           grow == CHOOSE f : f = body(f)
           next == [m \in 1 .. n |-> [v \in D |-> Join(v, Minus(m - 1))]]
<1>1. n \in Nat /\ Maps = 0 .. n - 1
  BY MapAssumption, FS_CardinalityType
<1>2. ASSUME NEW t \in PtrTypes PROVE IsNumber(Minus(t))
  <2>1. IsVector(a[t]) /\ IsVector(b[t])
    BY ValueParts DEF IsOffset
  <2>2. QED
    BY <2>1, OffsetMinusFacts
<1>3. IsNumber(start) /\ start \in D
  <2>1. IsNumber(a[T_NUM]) /\ IsNumber(b[T_NUM])
    BY ValueParts
  <2>2. "SUB" \in BinOps /\ \A w : ~Undefined("SUB", w)
    BY DEF BinOps, Undefined
  <2>3. IsNumber(start)
    BY <2>1, <2>2, ExecFacts
  <2>4. QED
    BY <2>3 DEF IsNumber
<1>4. ASSUME NEW v, IsNumber(v), NEW w, IsNumber(w)
      PROVE  /\ IsNumber(Join(v, w))
             /\ \A e : Contains(v, e) \/ Contains(w, e) => Contains(Join(v, w), e)
  BY <1>4, NumberIsVector, JoinFacts
<1>5. \A v : v \in D <=> IsNumber(v)
  BY DEF IsNumber
<1>6. \A m \in 1 .. n : m - 1 \in PtrTypes /\ m - 1 \in 0 .. n /\ m \in 0 .. n /\ m # 0
  BY <1>1, TypeCases
<1> HIDE DEF D, start, Minus, n
<1>7. \A m \in 1 .. n : \A v \in D : next[m][v] \in D
  <2>1. \A m \in 1 .. n : \A v \in D : next[m][v] = Join(v, Minus(m - 1))
    OBVIOUS
  <2> HIDE DEF next
  <2>2. QED
    BY <1>2, <1>4, <1>5, <1>6, <2>1
<1>8. \E f : Recurs(f, n, D, start, next)
  <2> HIDE DEF next
  <2>1. QED
    BY <1>1, <1>3, <1>7, RecursionExists
<1>9. PICK f : Recurs(f, n, D, start, next)
  BY <1>8
<1>10. f = body(f)
  <2>1. /\ f \in [0 .. n -> D] /\ f[0] = start
        /\ \A m \in 1 .. n : f[m] = next[m][f[m - 1]]
    BY <1>9 DEF Recurs
  <2>2. \A m \in 1 .. n : f[m] = Join(f[m - 1], Minus(m - 1))
    BY <1>6, <2>1
  <2>3. \A m \in 0 .. n : m = 0 \/ m \in 1 .. n
    BY <1>1
  <2> HIDE DEF next
  <2>4. \A m \in 0 .. n : f[m] = body(f)[m]
    BY <2>1, <2>2, <2>3
  <2>5. f = [m \in 0 .. n |-> f[m]]
    BY <2>1
  <2>6. QED
    BY <2>4, <2>5
<1>11. grow = body(grow)
  <2> HIDE DEF body
  <2>1. QED
    BY <1>10
<1>12. /\ grow[0] = start
       /\ \A m \in 1 .. n : grow[m] = Join(grow[m - 1], Minus(m - 1))
  <2> HIDE DEF grow
  <2>1. QED
    BY <1>1, <1>6, <1>11
<1>13. r = Join(Join(Join(grow[n], Minus(T_CTX)), Minus(T_STACK)), Minus(T_DATA))
  BY DEF SubNum, n, start, Minus
<1> HIDE DEF grow, body, next
<1> DEFINE G == {m \in 0 .. n : /\ IsNumber(grow[m])
                                /\ \A e : Contains(start, e) => Contains(grow[m], e)}
<1>14. 0 \in G
  BY <1>1, <1>3, <1>12
<1>15. ASSUME NEW m \in 0 .. n - 1, m \in G PROVE m + 1 \in G
  <2>1. m + 1 \in 1 .. n /\ (m + 1) - 1 = m
    BY <1>1
  <2>2. grow[m + 1] = Join(grow[m], Minus(m)) /\ m \in PtrTypes /\ m + 1 \in 0 .. n
    BY <1>6, <1>12, <2>1
  <2>3. IsNumber(grow[m]) /\ \A e : Contains(start, e) => Contains(grow[m], e)
    BY <1>15
  <2>4. /\ IsNumber(grow[m + 1])
        /\ \A e : Contains(grow[m], e) => Contains(grow[m + 1], e)
    BY <1>2, <1>4, <2>2, <2>3
  <2>5. QED
    BY <2>2, <2>3, <2>4
<1>16. n \in G
  <2>1. 0 .. n \subseteq G
    <3> HIDE DEF G
    <3>1. QED
      BY <1>1, <1>14, <1>15, IntervalInduction
  <2>2. n \in 0 .. n
    BY <1>1
  <2>3. QED
    BY <2>1, <2>2
<1>17. PICK g, p, q : /\ g = grow[n] /\ p = Join(g, Minus(T_CTX))
                      /\ q = Join(p, Minus(T_STACK)) /\ r = Join(q, Minus(T_DATA))
  BY <1>13
<1>18. T_CTX \in PtrTypes /\ T_STACK \in PtrTypes /\ T_DATA \in PtrTypes
  BY TypeCases
<1>19. IsNumber(g) /\ \A e : Contains(start, e) => Contains(g, e)
  BY <1>16, <1>17
<1>20. IsNumber(p) /\ \A e : Contains(g, e) \/ Contains(Minus(T_CTX), e) => Contains(p, e)
  BY <1>2, <1>4, <1>17, <1>18, <1>19
<1>21. IsNumber(q) /\ \A e : Contains(p, e) \/ Contains(Minus(T_STACK), e) => Contains(q, e)
  BY <1>2, <1>4, <1>17, <1>18, <1>20
<1>22. IsNumber(r) /\ \A e : Contains(q, e) \/ Contains(Minus(T_DATA), e) => Contains(r, e)
  BY <1>2, <1>4, <1>17, <1>18, <1>21
<1>23. \A e : Contains(start, e) => Contains(r, e)
  BY <1>19, <1>20, <1>21, <1>22
<1>24. ASSUME NEW t \in PtrTypes \ Maps, NEW e, Contains(Minus(t), e)
       PROVE  Contains(r, e)
  <2>1. t = T_CTX \/ t = T_STACK \/ t = T_DATA
    BY TypeCases
  <2>2. QED
    BY <1>20, <1>21, <1>22, <1>24, <2>1
<1>25. QED
  BY <1>22, <1>23, <1>24 DEF start, Minus

LEMMA SubValue ==
  ASSUME NEW a, IsValue(a), NEW b, IsValue(b), NEW r, r = SubVal(a, b)
  PROVE  /\ IsValue(r)
         /\ \A k \in Words, n \in Words :
              Contains(a[T_NUM], k) /\ Contains(b[T_NUM], n) =>
                Contains(r[T_NUM], ToWord(k - n))
         /\ \A t \in PtrTypes \ Maps, k \in Int, n \in Int :
              Contains(a[t], k) /\ Contains(b[t], n) =>
                Contains(r[T_NUM], ToWord(k - n))
         /\ \A t \in PtrTypes, k \in Int, n \in Words :
              Contains(a[t], k) /\ Contains(b[T_NUM], n) =>
                Contains(r[t], k - AsInt(n))
<1>1. /\ a[T_FD] \subseteq Maps /\ IsNumber(a[T_NUM]) /\ IsNumber(b[T_NUM])
      /\ \A t \in PtrTypes : IsOffset(a[t]) /\ IsOffset(b[t])
  BY ValueParts
<1>2. /\ r = [t \in AllTypes |-> r[t]]
      /\ r[T_NUM] = SubNum(a, b) /\ r[T_FD] = a[T_FD]
      /\ \A t \in PtrTypes : r[t] = OffsetExec(FALSE, a[t], b[T_NUM])
  BY TypeCases DEF SubVal
<1>3. /\ IsNumber(r[T_NUM])
      /\ \A e : Contains(Exec("SUB", a[T_NUM], b[T_NUM]), e) => Contains(r[T_NUM], e)
      /\ \A t \in PtrTypes \ Maps : \A e :
           Contains(OffsetMinus(a[t], b[t]), e) => Contains(r[T_NUM], e)
  BY <1>2, SubNumFacts
<1>4. \A k \in Words, n \in Words :
        Contains(a[T_NUM], k) /\ Contains(b[T_NUM], n) => Contains(r[T_NUM], ToWord(k - n))
  <2>1. "SUB" \in BinOps /\ \A n : ~Undefined("SUB", n)
    BY DEF BinOps, Undefined
  <2>2. \A k, n : Apply("SUB", k, n) = ToWord(k - n)
    BY DEF Apply
  <2>3. QED
    BY <1>1, <1>3, <2>1, <2>2, ExecFacts
<1>5. \A t \in PtrTypes \ Maps, k \in Int, n \in Int :
        Contains(a[t], k) /\ Contains(b[t], n) => Contains(r[T_NUM], ToWord(k - n))
  <2>1. \A t \in PtrTypes \ Maps : IsVector(a[t]) /\ IsVector(b[t])
    BY <1>1 DEF IsOffset
  <2>2. QED
    BY <1>3, <2>1, OffsetMinusFacts
<1>6. ASSUME NEW t \in PtrTypes
      PROVE  /\ IsOffset(r[t])
             /\ \A k \in Int, n \in Words :
                  Contains(a[t], k) /\ Contains(b[T_NUM], n) => Contains(r[t], k - AsInt(n))
  <2>1. IsVector(a[t])
    BY <1>1 DEF IsOffset
  <2>2. \A k, n : Shifted(FALSE, k, n) = k - AsInt(n)
    BY DEF Shifted
  <2>3. QED
    BY <1>1, <1>2, <2>1, <2>2, OffsetExecFacts
<1>7. IsValue(r)
  BY <1>1, <1>2, <1>3, <1>6, ValueParts
<1>8. QED
  BY <1>4, <1>5, <1>6, <1>7

LEMMA AtMostOne ==
  ASSUME NEW S, IsFiniteSet(S), ~(Cardinality(S) > 1), NEW p \in S, NEW q \in S
  PROVE  p = q
<1>1. SUFFICES ASSUME p # q PROVE FALSE
  OBVIOUS
<1>2. IsFiniteSet({p}) /\ Cardinality({p}) = 1
  BY FS_Singleton
<1>3. Cardinality({p} \cup {q}) = 2
  BY <1>1, <1>2, FS_AddElement
<1>4. {p} \cup {q} \in SUBSET S
  OBVIOUS
<1>5. 2 <= Cardinality(S) /\ Cardinality(S) \in Nat
  BY <1>3, <1>4, FS_Subset, FS_CardinalityType
<1>6. QED
  BY <1>5

LEMMA TypesFinite ==
  IsFiniteSet(Maps) /\ \A d : IsFiniteSet(TypesOf(d))
<1>1. IsFiniteSet(Maps)
  BY MapAssumption
<1>2. IsFiniteSet(((((Maps \cup {T_CTX}) \cup {T_STACK}) \cup {T_DATA}) \cup {T_NUM}) \cup {T_FD})
  BY <1>1, FS_AddElement
<1>3. AllTypes = ((((Maps \cup {T_CTX}) \cup {T_STACK}) \cup {T_DATA}) \cup {T_NUM}) \cup {T_FD}
  BY DEF AllTypes
<1>4. \A d : TypesOf(d) \subseteq AllTypes
  BY DEF TypesOf
<1>5. IsFiniteSet(AllTypes)
  BY <1>2, <1>3
<1>6. QED
  BY <1>1, <1>4, <1>5, FS_Subset

\* The three results of a lookup, when the maps of maps have one inner map.
LEMMA LookupValue ==
  ASSUME NEW d, IsValue(d), NEW r, r = MapLookup(d)
  PROVE  /\ IsValue(r)
         /\ Contains(r[T_NUM], 0)
         /\ \A m \in d[T_FD] \cap DOMAIN Inner :
              /\ Inner[m] = -1 => Contains(r[m], 0)
              /\ Inner[m] # -1 /\ ~SeveralNested(d) => Inner[m] \in r[T_FD]
<1> DEFINE found == d[T_FD] \cap DOMAIN Inner
           nested == {m \in found : Inner[m] # -1}
           last == CHOOSE m \in nested : \A k \in nested : k <= m
<1>1. /\ d[T_FD] \subseteq Maps /\ found \subseteq Maps /\ nested \subseteq found
  BY ValueParts
<1>2. /\ r = [t \in AllTypes |-> r[t]]
      /\ r[T_NUM] = Of(<<0>>)
      /\ r[T_FD] = IF nested = {} THEN {} ELSE {Inner[last]}
      /\ \A t \in PtrTypes : r[t] = IF t \in found \ nested THEN Of(<<0>>) ELSE Bot
  BY TypeCases DEF MapLookup
<1>3. ASSUME nested # {} PROVE last \in nested
  <2>1. nested \subseteq Maps
    BY <1>1
  <2> HIDE DEF nested
  <2>2. nested \subseteq Int /\ IsFiniteSet(nested)
    <3>1. nested \subseteq Int
      BY <2>1, TypeCases
    <3>2. IsFiniteSet(nested)
      BY <2>1, TypesFinite, FS_Subset
    <3>3. QED
      BY <3>1, <3>2
  <2>3. \E m \in nested : \A k \in nested : k <= m
    BY <1>3, <2>2, LeastAndGreatest
  <2>4. QED
    BY <2>3, Zenon
<1>4. \A m \in nested : Inner[m] \in Maps
  BY MapAssumption
<1>5. IsNumber(r[T_NUM]) /\ Contains(r[T_NUM], 0)
  BY <1>2, Constants
<1>6. \A t \in PtrTypes : IsOffset(r[t])
  BY <1>2, Constants
<1>7. r[T_FD] \subseteq Maps
  <2> HIDE DEF nested, last
  <2>1. QED
    BY <1>2, <1>3, <1>4
<1>8. IsValue(r)
  BY <1>2, <1>5, <1>6, <1>7, ValueParts
<1>9. ASSUME NEW m \in found, Inner[m] = -1 PROVE Contains(r[m], 0)
  <2>1. m \in PtrTypes /\ m \in found \ nested
    BY <1>1, <1>9, TypeCases
  <2>2. QED
    BY <1>2, <2>1, Constants
<1>10. ASSUME NEW m \in found, Inner[m] # -1, ~SeveralNested(d)
       PROVE  Inner[m] \in r[T_FD]
  <2> DEFINE S == {Inner[k] : k \in nested}
  <2>1. m \in nested
    BY <1>10
  <2>2. ~(Cardinality(S) > 1)
    BY <1>10 DEF SeveralNested
  <2>3. S \subseteq Maps
    BY <1>4
  <2>4. Inner[m] \in S /\ Inner[last] \in S
    <3> HIDE DEF nested, last
    <3>1. QED
      BY <1>3, <2>1
  <2> HIDE DEF S
  <2>5. IsFiniteSet(S)
    BY <2>3, TypesFinite, FS_Subset
  <2>6. Inner[m] = Inner[last]
    BY <2>2, <2>4, <2>5, AtMostOne
  <2> HIDE DEF nested, last
  <2>7. QED
    BY <1>2, <2>1, <2>6
<1>11. QED
  BY <1>5, <1>8, <1>9, <1>10

LEMMA AssumeTypeValue ==
  ASSUME NEW d, IsValue(d), NEW T, NEW r, r = AssumeType(d, T)
  PROVE  /\ IsValue(r)
         /\ \A x : IsReal(x) /\ Holds(d, x) /\ x.t \in T => Holds(r, x)
<1>1. /\ d[T_FD] \subseteq Maps /\ IsNumber(d[T_NUM])
      /\ \A t \in PtrTypes : IsOffset(d[t])
  BY ValueParts
<1>2. /\ r = [t \in AllTypes |-> r[t]]
      /\ \A t \in AllTypes : r[t] = IF t \in T THEN d[t] ELSE IF t = T_FD THEN {} ELSE Bot
  BY DEF AssumeType
<1>3. IsNumber(Bot) /\ IsOffset(Bot)
  BY Constants
<1>4. r[T_FD] \subseteq Maps /\ IsNumber(r[T_NUM]) /\ \A t \in PtrTypes : IsOffset(r[t])
  BY <1>1, <1>2, <1>3, TypeCases
<1>5. IsValue(r)
  BY <1>2, <1>4, ValueParts
<1>6. ASSUME NEW x, IsReal(x), Holds(d, x), x.t \in T PROVE Holds(r, x)
  <2>1. r[x.t] = d[x.t]
    BY <1>2, <1>6, RealParts
  <2>2. QED
    BY <1>6, <2>1, RealParts
<1>7. QED
  BY <1>5, <1>6

\* The parts of r are those of a after the assumption.
Assumed(op, a, b, r) ==
  /\ r[T_FD] = IF op = "EQ" THEN a[T_FD] \cap b[T_FD]
               ELSE IF op = "NE" THEN a[T_FD] \ b[T_FD] ELSE a[T_FD]
  /\ \A t \in NonFd : r[t] = AssumeNum(op, a[t], b[t])

LEMMA AssumeValTypes ==
  ASSUME NEW op \in CmpOps, NEW a, IsValue(a), NEW b, IsValue(b),
         NEW r, r = AssumeVal(op, a, b)
  PROVE  IsValue(r) /\ Assumed(op, a, b, r)
<1>1. /\ a[T_FD] \subseteq Maps /\ IsNumber(a[T_NUM]) /\ IsNumber(b[T_NUM])
      /\ \A t \in PtrTypes : IsOffset(a[t]) /\ IsOffset(b[t])
  BY ValueParts
<1>2. /\ r = [t \in AllTypes |-> r[t]]
      /\ \A t \in NonFd : r[t] = AssumeNum(op, a[t], b[t])
      /\ r[T_FD] = IF op \in {"EQ", "NE"} THEN AssumeFd(op, a[T_FD], b[T_FD]) ELSE a[T_FD]
  BY TypeCases DEF AssumeVal, AssumeValIn, AssumeOffset
<1>3. r[T_FD] = IF op = "EQ" THEN a[T_FD] \cap b[T_FD]
                ELSE IF op = "NE" THEN a[T_FD] \ b[T_FD] ELSE a[T_FD]
  BY <1>2 DEF AssumeFd
<1>4. IsNumber(r[T_NUM])
  <2>1. IsVector(a[T_NUM]) /\ IsVector(b[T_NUM])
    BY <1>1, NumberIsVector
  <2>2. r[T_NUM] = AssumeNum(op, a[T_NUM], b[T_NUM])
    BY <1>2, TypeCases
  <2>3. QED
    BY <1>1, <2>1, <2>2, AssumeNumTypes
<1>5. ASSUME NEW t \in PtrTypes PROVE IsOffset(r[t])
  <2>1. IsVector(a[t]) /\ IsVector(b[t]) /\ InOrder(a[t]) /\ InOrder(b[t])
    BY <1>1 DEF IsOffset
  <2>2. r[t] = AssumeNum(op, a[t], b[t])
    BY <1>2, TypeCases
  <2>3. QED
    BY <2>1, <2>2, AssumeNumTypes DEF IsOffset
<1>6. r[T_FD] \subseteq Maps
  BY <1>1, <1>3
<1>7. QED
  BY <1>2, <1>3, <1>4, <1>5, <1>6, ValueParts DEF Assumed

\* An inequality removes nothing when there is nothing on the right.
LEMMA NoneRemoved ==
  ASSUME NEW a, IsVector(a), NEW b, IsVector(b), IsBot(b), NEW x, Contains(a, x)
  PROVE  Contains(AssumeNum("NE", a, b), x)
<1>1. a = [top |-> a.top, elems |-> a.elems] /\ a.elems \in Seq(Int)
  BY VectorFields
<1>2. AssumeNum("NE", a, b) = [a EXCEPT !.elems = SetDifference(a.elems, << >>)]
  BY DEF AssumeNum, IsBot
<1>3. Range(a.elems) \subseteq Range(SetDifference(a.elems, << >>))
  <2>1. << >> \in Seq(Int) /\ Range(<< >>) = {}
    BY DEF Range
  <2>2. QED
    BY <1>1, <2>1, DifferenceFacts
<1>4. PICK r : r = AssumeNum("NE", a, b)
  OBVIOUS
<1>5. r.top = a.top /\ r.elems = SetDifference(a.elems, << >>)
  BY <1>1, <1>2, <1>4
<1>6. Contains(r, x)
  BY <1>3, <1>5 DEF Contains, Elems
<1>7. QED
  BY <1>4, <1>6

\* The part of a value that holds a real value is not bottom.
LEMMA HeldType ==
  ASSUME NEW b, IsValue(b), NEW y, IsReal(y), Holds(b, y)
  PROVE  y.t \in TypesOf(b)
<1>1. CASE y.t = T_FD
  <2>1. b[T_FD] # {}
    BY <1>1, RealParts
  <2>2. QED
    BY <1>1, <2>1, RealParts DEF TypesOf, BotAt
<1>2. CASE y.t # T_FD
  <2>1. Contains(b[y.t], y.n) /\ y.t \in AllTypes
    BY <1>2, RealParts
  <2>2. Range(<< >>) = {}
    BY DEF Range
  <2>3. ~IsBot(b[y.t])
    BY <2>1, <2>2 DEF IsBot, Contains, Elems
  <2>4. QED
    BY <1>2, <2>1, <2>3 DEF TypesOf, BotAt
<1>3. QED
  BY <1>1, <1>2

\* The comparison of the machine, as the domains take it.
LEMMA ComparesTypes ==
  ASSUME NEW op \in CmpOps, NEW x, IsReal(x), NEW y, IsReal(y), NEW b,
         MayCompare(op, x, y), x.t \notin Maps,
         op \in {"EQ", "NE"} \cup Orders, ~AcrossTypes(op, x, y, b)
  PROVE  /\ op # "NE" => x.t = y.t
         /\ op = "EQ" => x.n = y.n
         /\ op = "NE" /\ x.t = y.t => x.n # y.n
         /\ op \in Orders =>
              Compare(op, IF x.t = T_NUM THEN ReadFor(op, x.n) ELSE x.n,
                          IF x.t = T_NUM THEN ReadFor(op, y.n) ELSE y.n)
<1>1. op # "SET" /\ op # "NSET"
  BY DEF Orders
<1>2. CASE op = "EQ"
  <2>1. x.t = y.t
    BY <1>2 DEF MayCompare
  <2>2. Compare(op, x.n, y.n)
    BY <1>2, <2>1 DEF MayCompare, SignedOps
  <2>3. x.n = y.n
    BY <1>2, <2>2, Zenon DEF Compare
  <2>4. QED
    BY <1>2, <2>1, <2>3 DEF Orders
<1>3. CASE op = "NE"
  <2>1. ASSUME x.t = y.t PROVE x.n # y.n
    <3>1. Compare(op, x.n, y.n)
      BY <1>3, <2>1 DEF MayCompare, SignedOps
    <3>2. QED
      BY <1>3, <3>1, Zenon DEF Compare
  <2>2. QED
    BY <1>3, <2>1 DEF Orders
<1>4. CASE op \in Orders
  <2>1. x.t = y.t /\ op # "EQ" /\ op # "NE"
    BY <1>4 DEF AcrossTypes, Orders
  <2>2. CASE x.t = T_NUM /\ op \in SignedOps
    <3>1. Compare(op, Signed(x.n), Signed(y.n))
      BY <1>1, <2>1, <2>2 DEF MayCompare
    <3>2. QED
      BY <2>1, <2>2, <3>1 DEF ReadFor
  <2>3. CASE ~(x.t = T_NUM /\ op \in SignedOps)
    <3>1. Compare(op, x.n, y.n)
      BY <1>1, <2>1, <2>3 DEF MayCompare
    <3>2. QED
      BY <2>1, <2>3, <3>1 DEF ReadFor
  <2>4. QED
    BY <2>2, <2>3
<1>5. QED
  BY <1>2, <1>3, <1>4

\* A branch keeps the real value, unless the step is one that may lose it.
LEMMA AssumeValCovers ==
  ASSUME NEW op \in CmpOps, NEW a, IsValue(a), NEW b, IsValue(b),
         NEW x, IsReal(x), Holds(a, x), NEW y, IsReal(y), Holds(b, y),
         MayCompare(op, x, y), x.t \notin Maps,
         \A t \in NonFd \ {T_NUM} : ~AbortsOffset(op, a[t], b[t]),
         ~SeveralOnRight(op, b), ~OutOfOrder(a, b), ~AcrossTypes(op, x, y, b)
  PROVE  Holds(AssumeVal(op, a, b), x)
<1>1. PICK r : r = AssumeVal(op, a, b)
  OBVIOUS
<1>2. /\ r[T_FD] = IF op = "EQ" THEN a[T_FD] \cap b[T_FD]
                   ELSE IF op = "NE" THEN a[T_FD] \ b[T_FD] ELSE a[T_FD]
      /\ \A t \in NonFd : r[t] = AssumeNum(op, a[t], b[t])
  <2>1. Assumed(op, a, b, r)
    BY <1>1, AssumeValTypes
  <2>2. QED
    BY <2>1 DEF Assumed
<1>3. /\ b[T_FD] \subseteq Maps /\ IsFiniteSet(b[T_FD])
      /\ IsFiniteSet(TypesOf(b)) /\ y.t \in TypesOf(b)
  BY ValueParts, TypesFinite, FS_Subset, HeldType
<1>4. op = "NE" => /\ x.t # y.t => ~(Cardinality(TypesOf(b)) > 1)
                   /\ ~(Cardinality(b[T_FD]) > 1)
                   /\ \A t \in NonFd : ~(Len(b[t].elems) > 1)
  BY DEF SeveralOnRight, AcrossTypes
<1>5. op \in {"SET", "NSET"} \/ op = "EQ" \/ op = "NE" \/ op \in Orders
  BY DEF Orders
<1>6. ASSUME NEW t \in NonFd
      PROVE  IsVector(a[t]) /\ IsVector(b[t]) /\ InOrder(a[t]) /\ InOrder(b[t])
  <2>1. CASE t = T_NUM
    <3>1. IsNumber(a[t]) /\ IsNumber(b[t]) /\ InOrder(a[t]) /\ InOrder(b[t])
      BY <2>1, ValueParts DEF OutOfOrder
    <3>2. QED
      BY <3>1, NumberIsVector
  <2>2. CASE t \in PtrTypes
    BY <2>2, ValueParts DEF IsOffset
  <2>3. QED
    BY <2>1, <2>2, TypeCases
<1>7. CASE op \in {"SET", "NSET"}
  <2>1. r[T_FD] = a[T_FD] /\ \A t \in NonFd : r[t] = a[t]
    BY <1>2, <1>7 DEF AssumeNum
  <2>2. Holds(r, x)
    BY <2>1, RealParts, TypeCases
  <2>3. QED
    BY <1>1, <2>2
<1>8. ASSUME op \notin {"SET", "NSET"}
      PROVE  /\ op # "NE" => x.t = y.t
             /\ op = "EQ" => x.n = y.n
             /\ op = "NE" /\ x.t = y.t => x.n # y.n
             /\ op \in Orders =>
                  Compare(op, IF x.t = T_NUM THEN ReadFor(op, x.n) ELSE x.n,
                              IF x.t = T_NUM THEN ReadFor(op, y.n) ELSE y.n)
  BY <1>5, <1>8, ComparesTypes
<1>9. CASE op \notin {"SET", "NSET"} /\ x.t = T_FD
  <2>1. x.n \in a[T_FD]
    BY <1>9, RealParts
  <2>2. CASE op = "EQ"
    <3>1. x.n \in b[T_FD]
      BY <1>8, <1>9, <2>2, RealParts
    <3>2. QED
      BY <1>1, <1>2, <1>9, <2>1, <2>2, <3>1, RealParts
  <2>3. CASE op = "NE"
    <3>1. x.n \notin b[T_FD]
      <4>1. CASE y.t = T_FD
        <5>1. y.n \in b[T_FD] /\ x.n # y.n
          BY <1>8, <1>9, <2>3, <4>1, RealParts
        <5>2. QED
          BY <1>3, <1>4, <2>3, <5>1, AtMostOne
      <4>2. CASE y.t # T_FD
        <5>1. T_FD \notin TypesOf(b)
          BY <1>3, <1>4, <1>9, <2>3, <4>2, AtMostOne
        <5>2. b[T_FD] = {}
          BY <5>1, TypeCases DEF TypesOf, BotAt
        <5>3. QED
          BY <5>2
      <4>3. QED
        BY <4>1, <4>2
    <3>2. QED
      BY <1>1, <1>2, <1>9, <2>1, <2>3, <3>1, RealParts
  <2>4. CASE op \in Orders
    <3>1. r[T_FD] = a[T_FD]
      BY <1>2, <2>4 DEF Orders
    <3>2. QED
      BY <1>1, <1>9, <2>1, <3>1, RealParts
  <2>5. QED
    BY <1>5, <1>9, <2>2, <2>3, <2>4
<1>10. CASE op \notin {"SET", "NSET"} /\ x.t # T_FD
  <2>1. PICK t, i, j : t = x.t /\ i = x.n /\ j = y.n
    OBVIOUS
  <2>2. /\ t \in NonFd /\ Contains(a[t], i) /\ i \in Int /\ j \in Int
        /\ r[t] = AssumeNum(op, a[t], b[t])
    BY <1>2, <1>10, <2>1, RealParts, TypeCases
  <2>3. IsVector(a[t]) /\ IsVector(b[t]) /\ InOrder(a[t]) /\ InOrder(b[t])
    BY <1>6, <2>2
  <2>4. Contains(r[t], i) => Holds(AssumeVal(op, a, b), x)
    BY <1>1, <1>10, <2>1, RealParts
  <2>5. y.t = t => Contains(b[t], j)
    BY <1>10, <2>1, RealParts
  <2>6. CASE op = "EQ"
    <3>1. y.t = t /\ i = j
      BY <1>8, <1>10, <2>1, <2>6
    <3>2. Compares(op, i, j)
      BY <2>6, <3>1 DEF Compares
    <3>3. QED
      BY <2>2, <2>3, <2>4, <2>5, <2>6, <3>1, <3>2, AssumeNumCovers
  <2>7. CASE op = "NE" /\ y.t = t
    <3>1. i # j /\ ~(Len(b[t].elems) > 1)
      BY <1>4, <1>8, <1>10, <2>1, <2>2, <2>7
    <3>2. Compares(op, i, j)
      BY <2>7, <3>1 DEF Compares
    <3>3. Len(b[t].elems) <= 1
      <4>1. b[t].elems \in Seq(Int)
        BY <2>3, VectorFields
      <4>2. QED
        BY <3>1, <4>1
    <3>4. QED
      BY <2>2, <2>3, <2>4, <2>5, <2>7, <3>2, <3>3, AssumeNumCovers
  <2>8. CASE op = "NE" /\ y.t # t
    <3>1. t \notin TypesOf(b)
      BY <1>3, <1>4, <2>1, <2>8, AtMostOne
    <3>2. IsBot(b[t])
      BY <2>2, <3>1, TypeCases DEF TypesOf, BotAt
    <3>3. QED
      BY <2>2, <2>3, <2>4, <2>8, <3>2, NoneRemoved
  <2>9. CASE op \in Orders
    <3>1. /\ y.t = t /\ op \notin {"EQ", "NE", "SET", "NSET"}
          /\ Compare(op, IF t = T_NUM THEN ReadFor(op, i) ELSE i,
                         IF t = T_NUM THEN ReadFor(op, j) ELSE j)
      BY <1>8, <1>10, <2>1, <2>9 DEF Orders
    <3>2. CASE t = T_NUM \/ op \notin SignedOps
      <4>1. Compare(op, ReadFor(op, i), ReadFor(op, j))
        BY <3>1, <3>2 DEF ReadFor
      <4>2. Compares(op, i, j)
        BY <3>1, <4>1 DEF Compares
      <4>3. QED
        BY <2>2, <2>3, <2>4, <2>5, <3>1, <4>2, AssumeNumCovers
    <3>3. CASE t # T_NUM /\ op \in SignedOps
      <4>1. b[t].top \/ b[t].elems = << >>
        BY <2>2, <3>3 DEF AbortsOffset
      <4>2. Range(<< >>) = {}
        BY DEF Range
      <4>3. b[t].top
        BY <2>5, <3>1, <4>1, <4>2 DEF Contains, Elems
      <4>4. r[t] = a[t]
        BY <2>2, <4>3 DEF AssumeNum
      <4>5. QED
        BY <2>2, <2>4, <4>4
    <3>4. QED
      BY <3>2, <3>3
  <2>10. QED
    BY <1>5, <1>10, <2>6, <2>7, <2>8, <2>9
<1>11. QED
  BY <1>7, <1>9, <1>10

-----------------------------------------------------------------------------
(* Verdicts.                                                                 *)

\* An assumption that changes nothing holds already, of every element on the
\* left and the one on the right.
LEMMA SatisfiedCompares ==
  ASSUME NEW op \in CmpOps \ {"SET", "NSET"}, NEW a, IsVector(a), NEW b, IsVector(b),
         op = "NE" => InOrder(a) /\ InOrder(b), ~a.top, ~b.top, Len(b.elems) <= 1, AssumeNum(op, a, b) = a,
         NEW x \in Range(a.elems), NEW y \in Range(b.elems)
  PROVE  Compares(op, x, y)
<1>1. /\ a = [top |-> a.top, elems |-> a.elems]
      /\ a.elems \in Seq(Int) /\ b.elems \in Seq(Int)
      /\ op = "NE" => Ordered(a.elems) /\ Ordered(b.elems)
  BY VectorFields
<1>2. \A e \in Range(b.elems) : e = y
  BY <1>1, OnlyElement
<1>3. CASE op = "EQ"
  <2>1. a = Of(SetIntersection(a.elems, b.elems))
    BY <1>3 DEF AssumeNum, Meet
  <2>2. a.elems = SetIntersection(a.elems, b.elems)
    BY <2>1 DEF Of
  <2>3. x \in Range(b.elems)
    BY <1>1, <2>2, IntersectionFacts
  <2>4. QED
    BY <1>2, <1>3, <2>3 DEF Compares
<1>4. CASE op = "NE"
  <2>1. a = [a EXCEPT !.elems = SetDifference(a.elems, b.elems)]
    BY <1>4 DEF AssumeNum
  <2>2. a.elems = SetDifference(a.elems, b.elems)
    BY <1>1, <2>1
  <2>3. x \notin Range(b.elems)
    BY <1>1, <1>4, <2>2, DifferenceFacts
  <2>4. x # y
    BY <2>3
  <2>5. QED
    BY <1>4, <2>4 DEF Compares
<1>5. CASE op \in Orders
  <2>1. b.elems # << >>
    BY DEF Range
  <2>2. a = [a EXCEPT !.elems = Keep(op, a.elems, b.elems)]
    BY <1>5, <2>1 DEF AssumeNum, Orders
  <2>3. a.elems = Keep(op, a.elems, b.elems)
    BY <1>1, <2>2
  <2>4. PICK m \in Range(b.elems) : \A e \in Range(Keep(op, a.elems, b.elems)) :
                                      Compare(op, ReadFor(op, e), ReadFor(op, m))
    BY <1>1, <1>5, <2>1, KeepFacts
  <2>5. Compare(op, ReadFor(op, x), ReadFor(op, y))
    BY <1>2, <2>3, <2>4
  <2>6. QED
    BY <1>5, <2>5 DEF Compares, Orders
<1>6. QED
  BY <1>3, <1>4, <1>5 DEF Orders

\* The reading of a comparison by the domain is that of the property.
LEMMA ComparesMeaning ==
  ASSUME NEW op \in CmpOps \ {"SET", "NSET"}, NEW x, NEW y, Compares(op, x, y)
  PROVE  IF op \in SignedOps THEN Compare(op, Signed(x), Signed(y))
         ELSE Compare(op, x, y)
<1>1. CASE op = "EQ"
  <2>1. x = y /\ op \notin SignedOps
    BY <1>1 DEF Compares, SignedOps
  <2>2. Compare("EQ", x, y)
    BY <2>1 DEF Compare
  <2>3. QED
    BY <1>1, <2>1, <2>2
<1>2. CASE op = "NE"
  <2>1. x # y /\ op \notin SignedOps
    BY <1>2 DEF Compares, SignedOps
  <2>2. Compare("NE", x, y)
    BY <2>1 DEF Compare
  <2>3. QED
    BY <1>2, <2>1, <2>2
<1>3. CASE op \in Orders
  <2>1. Compare(op, ReadFor(op, x), ReadFor(op, y))
    BY <1>3 DEF Compares, Orders
  <2>2. QED
    BY <2>1 DEF ReadFor
<1>4. QED
  BY <1>1, <1>2, <1>3 DEF Orders

-----------------------------------------------------------------------------
(* What the machine computes, and the value that holds it.                   *)

\* The sum of the machine, and what is known of it when no offset is cut.
LEMMA AddedValue ==
  ASSUME NEW a, IsValue(a), NEW b, IsValue(b), NEW x, IsReal(x), NEW y, IsReal(y),
         T_FD \notin {x.t, y.t}, T_NUM \in {x.t, y.t},
         NEW r, r = AddVal(a, b), NEW v, v = Added(x, y)
  PROVE  /\ IsValue(r) /\ IsReal(v)
         /\ Holds(a, x) /\ Holds(b, y) /\ ~CutsOffset(x, y) /\ ~CutsOffset(y, x)
              => Holds(r, v)
<1>1. PICK good \in BOOLEAN : good <=> /\ Holds(a, x) /\ Holds(b, y)
                                      /\ ~CutsOffset(x, y) /\ ~CutsOffset(y, x)
  OBVIOUS
<1>2. IsValue(a) /\ IsValue(b) /\ IsReal(x) /\ IsReal(y)
  OBVIOUS
<1>3. v = IF x.t = T_NUM /\ y.t = T_NUM THEN Num(x.n + y.n)
          ELSE IF x.t = T_NUM THEN [y EXCEPT !.n = @ + Signed(x.n)]
          ELSE [x EXCEPT !.n = @ + Signed(y.n)]
  BY DEF Added
<1>4. x.t # T_FD /\ y.t # T_FD /\ (x.t = T_NUM \/ y.t = T_NUM)
  OBVIOUS
<1>5. /\ IsValue(r)
      /\ \A k \in Words, n \in Words :
           Contains(a[T_NUM], k) /\ Contains(b[T_NUM], n) =>
             Contains(r[T_NUM], ToWord(k + n))
      /\ \A t \in PtrTypes, k \in Int, n \in Words :
           \/ Contains(a[t], k) /\ Contains(b[T_NUM], n)
           \/ Contains(b[t], k) /\ Contains(a[T_NUM], n)
           => Contains(r[t], k + AsInt(n))
  BY AddValue
<1>6. /\ good => ~CutsOffset(x, y) /\ ~CutsOffset(y, x)
      /\ good => Contains(a[x.t], x.n) /\ Contains(b[y.t], y.n)
  BY <1>1, <1>4, RealParts
<1>7. IsReal(v) /\ (good => Holds(r, v))
  <2>1. CASE x.t = T_NUM /\ y.t = T_NUM
    <3>1. x.n \in Words /\ y.n \in Words /\ x.n + y.n \in Int
      BY <1>2, <2>1, RealParts, TypeCases
    <3>2. IsReal(v) /\ v.t = T_NUM /\ v.n = ToWord(x.n + y.n)
      BY <1>3, <2>1, <3>1, NumType
    <3>3. good => Contains(r[T_NUM], v.n)
      BY <1>5, <1>6, <2>1, <3>1, <3>2
    <3>4. QED
      BY <3>2, <3>3, RealParts, TypeCases
  <2>2. CASE x.t = T_NUM /\ y.t # T_NUM
    <3>1. /\ x.n \in Words /\ y.n \in Int /\ y.t \in PtrTypes /\ y.t \in AllTypes
          /\ y = [t |-> y.t, n |-> y.n]
      BY <1>2, <1>4, <2>2, RealParts, TypeCases
    <3>2. Signed(x.n) \in Int
      BY <3>1, WordFacts
    <3>3. v = [t |-> y.t, n |-> y.n + Signed(x.n)]
      BY <1>3, <2>2, <3>1
    <3>4. IsReal(v) /\ v.t = y.t /\ v.n = y.n + Signed(x.n)
      BY <2>2, <3>1, <3>2, <3>3, MakesReal
    <3>5. good => Signed(x.n) = AsInt(x.n)
      BY <1>6, <2>2 DEF CutsOffset
    <3>6. good => Contains(r[y.t], y.n + AsInt(x.n))
      BY <1>5, <1>6, <2>2, <3>1
    <3>7. good => Contains(r[v.t], v.n)
      BY <3>4, <3>5, <3>6
    <3>8. QED
      BY <1>4, <3>4, <3>7, RealParts
  <2>3. CASE x.t # T_NUM /\ y.t = T_NUM
    <3>1. /\ y.n \in Words /\ x.n \in Int /\ x.t \in PtrTypes /\ x.t \in AllTypes
          /\ x = [t |-> x.t, n |-> x.n]
      BY <1>2, <1>4, <2>3, RealParts, TypeCases
    <3>2. Signed(y.n) \in Int
      BY <3>1, WordFacts
    <3>3. v = [t |-> x.t, n |-> x.n + Signed(y.n)]
      BY <1>3, <2>3, <3>1
    <3>4. IsReal(v) /\ v.t = x.t /\ v.n = x.n + Signed(y.n)
      BY <2>3, <3>1, <3>2, <3>3, MakesReal
    <3>5. good => Signed(y.n) = AsInt(y.n)
      BY <1>6, <2>3 DEF CutsOffset
    <3>6. good => Contains(r[x.t], x.n + AsInt(y.n))
      BY <1>5, <1>6, <2>3, <3>1
    <3>7. good => Contains(r[v.t], v.n)
      BY <3>4, <3>5, <3>6
    <3>8. QED
      BY <1>4, <3>4, <3>7, RealParts
  <2>4. QED
    BY <1>4, <2>1, <2>2, <2>3
<1>8. QED
  BY <1>1, <1>5, <1>7

LEMMA SubtractedValue ==
  ASSUME NEW a, IsValue(a), NEW b, IsValue(b), NEW x, IsReal(x), NEW y, IsReal(y),
         T_FD \notin {x.t, y.t}, y.t = T_NUM \/ (y.t = x.t /\ x.t \notin Maps),
         NEW r, r = SubVal(a, b), NEW v, v = Subtracted(x, y)
  PROVE  /\ IsValue(r) /\ IsReal(v)
         /\ Holds(a, x) /\ Holds(b, y) /\ ~CutsOffset(x, y) => Holds(r, v)
<1>1. PICK good \in BOOLEAN : good <=> Holds(a, x) /\ Holds(b, y) /\ ~CutsOffset(x, y)
  OBVIOUS
<1>2. IsValue(a) /\ IsValue(b) /\ IsReal(x) /\ IsReal(y)
  OBVIOUS
<1>3. v = IF y.t = x.t THEN Num(x.n - y.n) ELSE [x EXCEPT !.n = @ - Signed(y.n)]
  BY DEF Subtracted
<1>4. x.t # T_FD /\ y.t # T_FD /\ (y.t = T_NUM \/ (y.t = x.t /\ x.t \notin Maps))
  OBVIOUS
<1>5. /\ IsValue(r)
      /\ \A k \in Words, n \in Words :
           Contains(a[T_NUM], k) /\ Contains(b[T_NUM], n) =>
             Contains(r[T_NUM], ToWord(k - n))
      /\ \A t \in PtrTypes \ Maps, k \in Int, n \in Int :
           Contains(a[t], k) /\ Contains(b[t], n) =>
             Contains(r[T_NUM], ToWord(k - n))
      /\ \A t \in PtrTypes, k \in Int, n \in Words :
           Contains(a[t], k) /\ Contains(b[T_NUM], n) =>
             Contains(r[t], k - AsInt(n))
  BY SubValue
<1>6. /\ good => ~CutsOffset(x, y)
      /\ good => Contains(a[x.t], x.n) /\ Contains(b[y.t], y.n)
  BY <1>1, <1>4, RealParts
<1>7. IsReal(v) /\ (good => Holds(r, v))
  <2>1. CASE y.t = x.t
    <3>1. x.n \in Int /\ y.n \in Int /\ x.n - y.n \in Int
      BY <1>2, RealParts
    <3>2. IsReal(v) /\ v.t = T_NUM /\ v.n = ToWord(x.n - y.n)
      BY <1>3, <2>1, <3>1, NumType
    <3>3. good => Contains(r[T_NUM], ToWord(x.n - y.n))
      <4>1. CASE x.t = T_NUM
        <5>1. x.n \in Words /\ y.n \in Words
          BY <1>2, <2>1, <4>1, RealParts, TypeCases
        <5>2. QED
          BY <1>5, <1>6, <2>1, <4>1, <5>1
      <4>2. CASE x.t # T_NUM
        <5>1. x.t \in PtrTypes \ Maps
          BY <1>2, <1>4, <2>1, <4>2, RealParts
        <5>2. QED
          BY <1>5, <1>6, <2>1, <3>1, <5>1
      <4>3. QED
        BY <4>1, <4>2
    <3>4. QED
      BY <3>2, <3>3, RealParts, TypeCases
  <2>2. CASE y.t # x.t
    <3>1. /\ y.t = T_NUM /\ y.n \in Words /\ x.n \in Int /\ x.t \in PtrTypes
          /\ x.t \in AllTypes /\ x = [t |-> x.t, n |-> x.n]
      BY <1>2, <1>4, <2>2, RealParts, TypeCases
    <3>2. Signed(y.n) \in Int
      BY <3>1, WordFacts
    <3>3. v = [t |-> x.t, n |-> x.n - Signed(y.n)]
      BY <1>3, <2>2, <3>1
    <3>4. IsReal(v) /\ v.t = x.t /\ v.n = x.n - Signed(y.n)
      BY <2>2, <3>1, <3>2, <3>3, MakesReal
    <3>5. good => Signed(y.n) = AsInt(y.n)
      BY <1>6, <2>2, <3>1 DEF CutsOffset
    <3>6. good => Contains(r[x.t], x.n - AsInt(y.n))
      BY <1>5, <1>6, <3>1
    <3>7. good => Contains(r[v.t], v.n)
      BY <3>4, <3>5, <3>6
    <3>8. QED
      BY <1>4, <3>4, <3>7, RealParts
  <2>3. QED
    BY <2>1, <2>2
<1>8. QED
  BY <1>1, <1>5, <1>7

LEMMA ComputedValue ==
  ASSUME NEW op \in BinOps, NEW a, IsValue(a), NEW b, IsValue(b),
         NEW x, IsReal(x), NEW y, IsReal(y), x.t = T_NUM, y.t = T_NUM,
         \A n \in Elems(b[T_NUM]) \cup {y.n} : ~Undefined(op, n),
         NEW r, r = ExecVal(op, a, b), NEW v, v = Num(Compute(op, x.n, y.n))
  PROVE  /\ IsValue(r) /\ IsReal(v)
         /\ Holds(a, x) /\ Holds(b, y) /\ ~ShiftsSignBit(op, x, y) => Holds(r, v)
<1>1. /\ x.n \in Words /\ y.n \in Words /\ x.t # T_FD /\ y.t # T_FD
      /\ ~Undefined(op, y.n) /\ \A n \in Elems(b[T_NUM]) : ~Undefined(op, n)
  BY RealParts, TypeCases
<1>2. /\ IsValue(r)
      /\ \A k \in Words, n \in Words :
           Contains(a[T_NUM], k) /\ Contains(b[T_NUM], n) =>
             Contains(r[T_NUM], Apply(op, k, n))
  BY <1>1, ExecValue
<1>3. Compute(op, x.n, y.n) \in Int
  BY <1>1, ComputeType
<1>4. IsReal(v) /\ v.t = T_NUM /\ v.n = ToWord(Compute(op, x.n, y.n))
  BY <1>3, NumType
<1>5. ASSUME Holds(a, x), Holds(b, y), ~ShiftsSignBit(op, x, y) PROVE Holds(r, v)
  <2>1. Contains(a[T_NUM], x.n) /\ Contains(b[T_NUM], y.n)
    BY <1>1, <1>5, RealParts
  <2>2. v.n = Apply(op, x.n, y.n)
    BY <1>1, <1>4, <1>5, ComputeExact DEF ShiftsSignBit
  <2>3. Contains(r[T_NUM], v.n)
    BY <1>1, <1>2, <2>1, <2>2
  <2>4. QED
    BY <1>4, <2>3, RealParts, TypeCases
<1>6. QED
  BY <1>2, <1>4, <1>5

\* The result of a lookup in the map m.
LEMMA FoundValue ==
  ASSUME NEW a, IsValue(a), NEW m \in Maps, NEW r, r = MapLookup(a), NEW v \in Found(m)
  PROVE  /\ IsValue(r) /\ IsReal(v)
         /\ m \in a[T_FD] /\ ~SeveralNested(a) => Holds(r, v)
<1>1. PICK good \in BOOLEAN : good <=> m \in a[T_FD] /\ ~SeveralNested(a)
  OBVIOUS
<1>2. \/ v = Num(0)
      \/ m \in DOMAIN Inner /\ Inner[m] = -1 /\ v = [t |-> m, n |-> 0]
      \/ m \in DOMAIN Inner /\ Inner[m] # -1 /\ v = [t |-> T_FD, n |-> Inner[m]]
  BY DEF Found
<1>3. /\ IsValue(r) /\ Contains(r[T_NUM], 0)
      /\ \A k \in a[T_FD] \cap DOMAIN Inner :
           /\ Inner[k] = -1 => Contains(r[k], 0)
           /\ Inner[k] # -1 /\ ~SeveralNested(a) => Inner[k] \in r[T_FD]
  BY LookupValue
<1>4. /\ good => ~SeveralNested(a)
      /\ good /\ m \in DOMAIN Inner => m \in a[T_FD] \cap DOMAIN Inner
  BY <1>1
<1>5. m \in Maps /\ (m \in DOMAIN Inner => Inner[m] \in Maps \cup {-1})
  BY MapAssumption
<1>6. IsReal(v) /\ (good => Holds(r, v))
  <2>1. CASE v = Num(0)
    <3>1. ToWord(0) = 0
      BY WordFacts, WordSizes
    <3>2. IsReal(v) /\ v.t = T_NUM /\ v.n = 0
      BY <2>1, <3>1, NumType
    <3>3. QED
      BY <1>3, <3>2, RealParts, TypeCases
  <2>2. CASE m \in DOMAIN Inner /\ Inner[m] = -1 /\ v = [t |-> m, n |-> 0]
    <3>1. m \in AllTypes /\ m # T_NUM /\ m # T_FD
      BY <1>5, TypeCases
    <3>2. IsReal(v) /\ v.t = m /\ v.n = 0
      BY <2>2, <3>1, MakesReal
    <3>3. good => Contains(r[v.t], v.n)
      BY <1>3, <1>4, <2>2, <3>2
    <3>4. QED
      BY <3>1, <3>2, <3>3, RealParts
  <2>3. CASE m \in DOMAIN Inner /\ Inner[m] # -1 /\ v = [t |-> T_FD, n |-> Inner[m]]
    <3>1. Inner[m] \in Int /\ T_FD \in AllTypes /\ T_FD # T_NUM
      <4>1. PICK k \in Maps : k = Inner[m]
        BY <1>5, <2>3
      <4>2. Maps \subseteq Nat
        BY TypeCases
      <4>3. k \in Int
        BY <4>2
      <4>4. QED
        BY <4>1, <4>3, TypeCases
    <3>2. IsReal(v) /\ v.t = T_FD /\ v.n = Inner[m]
      BY <2>3, <3>1, MakesReal
    <3>3. good => Inner[m] \in r[T_FD]
      BY <1>3, <1>4, <2>3
    <3>4. QED
      BY <3>2, <3>3, RealParts
  <2>4. QED
    BY <1>2, <2>1, <2>2, <2>3
<1>7. QED
  BY <1>1, <1>3, <1>6

-----------------------------------------------------------------------------
(* The steps keep Held.                                                      *)

\* A step gives one register two new values; what it has to show is that the
\* abstract value holds the real one unless the step is inexact.
LEMMA StepKeeps ==
  ASSUME Held, NEW d \in Regs, NEW val, NEW value, Set(d, val, value),
         exact' \in BOOLEAN, exact' => exact,
         IsValue(val), IsReal(value), exact' => Holds(val, value)
  PROVE  Held'
<1>1. /\ reg' = [reg EXCEPT ![d] = val] /\ real' = [real EXCEPT ![d] = value]
      /\ DOMAIN reg = Regs /\ DOMAIN real = Regs
  BY DEF Set, Held
<1>2. /\ DOMAIN reg' = Regs /\ DOMAIN real' = Regs
      /\ \A r \in Regs : reg'[r] = IF r = d THEN val ELSE reg[r]
      /\ \A r \in Regs : real'[r] = IF r = d THEN value ELSE real[r]
  BY <1>1
<1>3. ASSUME NEW r \in Regs
      PROVE  /\ IsValue(reg'[r]) /\ IsReal(real'[r])
             /\ exact' => Holds(reg'[r], real'[r])
  <2>1. CASE r = d
    BY <1>2, <2>1
  <2>2. CASE r # d
    BY <1>2, <2>2 DEF Held, Covered
  <2>3. QED
    BY <2>1, <2>2
<1>4. QED
  BY <1>2, <1>3 DEF Held, Covered

\* What the two registers of a step hold.
LEMMA Operands ==
  ASSUME Held, NEW d \in Regs, NEW s \in Regs
  PROVE  /\ IsValue(reg[d]) /\ IsValue(reg[s]) /\ IsReal(real[d]) /\ IsReal(real[s])
         /\ exact => Holds(reg[d], real[d]) /\ Holds(reg[s], real[s])
         /\ exact \in BOOLEAN
BY DEF Held, Covered

LEMMA ExecKeeps ==
  ASSUME Held, NEW d \in Regs, NEW s \in Regs, NEW op \in BinOps, ExecStep(d, s, op)
  PROVE  Held'
<1>1. PICK a, b, x, y, r, v : /\ a = reg[d] /\ b = reg[s] /\ x = real[d] /\ y = real[s]
                              /\ r = ExecVal(op, a, b) /\ v = Num(Compute(op, x.n, y.n))
  OBVIOUS
<1>2. /\ IsValue(a) /\ IsValue(b) /\ IsReal(x) /\ IsReal(y)
      /\ exact => Holds(a, x) /\ Holds(b, y)
      /\ exact \in BOOLEAN
  BY <1>1, Operands
<1>3. /\ x.t = T_NUM /\ y.t = T_NUM
      /\ \A n \in Elems(b[T_NUM]) \cup {y.n} : ~Undefined(op, n)
      /\ Set(d, r, v)
      /\ exact' = (exact /\ ~ShiftsSignBit(op, x, y))
  BY <1>1 DEF ExecStep, Count
<1>4. IsValue(r) /\ IsReal(v) /\ (Holds(a, x) /\ Holds(b, y) /\ ~ShiftsSignBit(op, x, y) => Holds(r, v))
  BY <1>1, <1>2, <1>3, ComputedValue
<1>5. exact' \in BOOLEAN /\ (exact' => exact) /\ (exact' => Holds(r, v))
  BY <1>2, <1>3, <1>4
<1>6. QED
  BY <1>3, <1>4, <1>5, StepKeeps

LEMMA AddKeeps ==
  ASSUME Held, NEW d \in Regs, NEW s \in Regs, AddStep(d, s)
  PROVE  Held'
<1>1. PICK a, b, x, y, r, v : /\ a = reg[d] /\ b = reg[s] /\ x = real[d] /\ y = real[s]
                              /\ r = AddVal(a, b) /\ v = Added(x, y)
  OBVIOUS
<1>2. /\ IsValue(a) /\ IsValue(b) /\ IsReal(x) /\ IsReal(y)
      /\ exact => Holds(a, x) /\ Holds(b, y)
      /\ exact \in BOOLEAN
  BY <1>1, Operands
<1>3. /\ T_FD \notin {x.t, y.t} /\ T_NUM \in {x.t, y.t}
      /\ Set(d, r, v)
      /\ exact' = (exact /\ ~(CutsOffset(x, y) \/ CutsOffset(y, x)))
  BY <1>1 DEF AddStep, Count
<1>4. IsValue(r) /\ IsReal(v) /\ (Holds(a, x) /\ Holds(b, y) /\ ~(CutsOffset(x, y) \/ CutsOffset(y, x)) => Holds(r, v))
  BY <1>1, <1>2, <1>3, AddedValue
<1>5. exact' \in BOOLEAN /\ (exact' => exact) /\ (exact' => Holds(r, v))
  BY <1>2, <1>3, <1>4
<1>6. QED
  BY <1>3, <1>4, <1>5, StepKeeps

LEMMA SubKeeps ==
  ASSUME Held, NEW d \in Regs, NEW s \in Regs, SubStep(d, s)
  PROVE  Held'
<1>1. PICK a, b, x, y, r, v : /\ a = reg[d] /\ b = reg[s] /\ x = real[d] /\ y = real[s]
                              /\ r = SubVal(a, b) /\ v = Subtracted(x, y)
  OBVIOUS
<1>2. /\ IsValue(a) /\ IsValue(b) /\ IsReal(x) /\ IsReal(y)
      /\ exact => Holds(a, x) /\ Holds(b, y)
      /\ exact \in BOOLEAN
  BY <1>1, Operands
<1>3. /\ T_FD \notin {x.t, y.t} /\ (y.t = T_NUM \/ (y.t = x.t /\ x.t \notin Maps))
      /\ Set(d, r, v)
      /\ exact' = (exact /\ ~CutsOffset(x, y))
  BY <1>1 DEF SubStep, Count
<1>4. IsValue(r) /\ IsReal(v) /\ (Holds(a, x) /\ Holds(b, y) /\ ~CutsOffset(x, y) => Holds(r, v))
  BY <1>1, <1>2, <1>3, SubtractedValue
<1>5. exact' \in BOOLEAN /\ (exact' => exact) /\ (exact' => Holds(r, v))
  BY <1>2, <1>3, <1>4
<1>6. QED
  BY <1>3, <1>4, <1>5, StepKeeps

LEMMA JoinKeeps ==
  ASSUME Held, NEW d \in Regs, NEW s \in Regs, JoinStep(d, s)
  PROVE  Held'
<1>1. PICK a, b, r : a = reg[d] /\ b = reg[s] /\ r = JoinVal(a, b)
  OBVIOUS
<1>2. PICK v \in {real[d], real[s]} : Set(d, r, v) /\ exact' = (exact /\ ~FALSE)
  BY <1>1 DEF JoinStep, Count
<1>3. /\ IsValue(a) /\ IsValue(b) /\ IsReal(v)
      /\ exact => Holds(a, v) \/ Holds(b, v)
      /\ exact \in BOOLEAN
  BY <1>1, <1>2, Operands
<1>4. IsValue(r) /\ (exact => Holds(r, v))
  BY <1>1, <1>3, JoinValue
<1>5. exact' \in BOOLEAN /\ (exact' => exact) /\ (exact' => Holds(r, v))
  BY <1>2, <1>3, <1>4
<1>6. QED
  BY <1>2, <1>3, <1>4, <1>5, StepKeeps

LEMMA LookupKeeps ==
  ASSUME Held, NEW d \in Regs, LookupStep(d)
  PROVE  Held'
<1>1. PICK a, x, r : a = reg[d] /\ x = real[d] /\ r = MapLookup(a)
  OBVIOUS
<1>2. /\ IsValue(a) /\ IsReal(x) /\ (exact => Holds(a, x)) /\ exact \in BOOLEAN
  BY <1>1, Operands
<1>3. /\ x.t = T_FD /\ x.n \in Maps
      /\ \E v \in Found(x.n) : Set(d, r, v)
      /\ exact' = (exact /\ ~SeveralNested(a))
  BY <1>1, MapAssumption DEF LookupStep, Count
<1>4. PICK v \in Found(x.n) : Set(d, r, v)
  BY <1>3
<1>5. IsValue(r) /\ IsReal(v) /\ (x.n \in a[T_FD] /\ ~SeveralNested(a) => Holds(r, v))
  BY <1>1, <1>2, <1>3, FoundValue
<1>6. exact' \in BOOLEAN /\ (exact' => exact) /\ (exact' => Holds(r, v))
  BY <1>2, <1>3, <1>5, RealParts
<1>7. QED
  BY <1>4, <1>5, <1>6, StepKeeps

LEMMA AssumeKeeps ==
  ASSUME Held, NEW d \in Regs, NEW s \in Regs, NEW op \in CmpOps, AssumeStep(d, s, op)
  PROVE  Held'
<1>1. PICK a, b, x, y, r : /\ a = reg[d] /\ b = reg[s] /\ x = real[d] /\ y = real[s]
                           /\ r = AssumeVal(op, a, b)
  OBVIOUS
<1>2. /\ IsValue(a) /\ IsValue(b) /\ IsReal(x) /\ IsReal(y)
      /\ exact => Holds(a, x) /\ Holds(b, y)
      /\ exact \in BOOLEAN
  BY <1>1, Operands
<1>3. /\ MayCompare(op, x, y) /\ Set(d, r, x)
      /\ \A t \in NonFd \ {T_NUM} : ~AbortsOffset(op, a[t], b[t])
      /\ exact' = (exact /\ ~LosesCompared(op, a, b, x, y))
  BY <1>1 DEF AssumeStep, Count
<1>4. IsValue(r)
  BY <1>1, <1>2, AssumeValTypes
<1>5. /\ exact' \in BOOLEAN /\ (exact' => exact)
      /\ exact' => /\ ~SeveralOnRight(op, b) /\ ~OutOfOrder(a, b)
                   /\ ~AcrossTypes(op, x, y, b) /\ x.t \notin Maps
  BY <1>2, <1>3 DEF LosesCompared
<1>6. ASSUME exact' PROVE Holds(r, x)
  <2>1. /\ Holds(a, x) /\ Holds(b, y) /\ x.t \notin Maps
        /\ ~SeveralOnRight(op, b) /\ ~OutOfOrder(a, b) /\ ~AcrossTypes(op, x, y, b)
    BY <1>2, <1>5, <1>6
  <2>2. QED
    BY <1>1, <1>2, <1>3, <2>1, AssumeValCovers
<1>7. QED
  BY <1>2, <1>3, <1>4, <1>5, <1>6, StepKeeps

LEMMA AssumeTypeKeeps ==
  ASSUME Held, NEW d \in Regs, NEW T, AssumeTypeStep(d, T)
  PROVE  Held'
<1>1. PICK a, x, r : a = reg[d] /\ x = real[d] /\ r = AssumeType(a, T)
  OBVIOUS
<1>2. /\ IsValue(a) /\ IsReal(x) /\ (exact => Holds(a, x)) /\ exact \in BOOLEAN
  BY <1>1, Operands
<1>3. x.t \in T /\ Set(d, r, x) /\ exact' = (exact /\ ~FALSE)
  BY <1>1 DEF AssumeTypeStep, Count
<1>4. IsValue(r) /\ (exact => Holds(r, x))
  BY <1>1, <1>2, <1>3, AssumeTypeValue
<1>5. exact' \in BOOLEAN /\ (exact' => exact) /\ (exact' => Holds(r, x))
  BY <1>2, <1>3, <1>4
<1>6. QED
  BY <1>2, <1>3, <1>4, <1>5, StepKeeps

\* PairInit: what a register may hold at first is given by the constant.
LEMMA InitHeld ==
  PairInit => Held
<1>1. SUFFICES ASSUME PairInit PROVE Held
  OBVIOUS
<1>2. PICK f \in [Regs -> Starts] : /\ reg = [r \in Regs |-> f[r].val]
                                    /\ real = [r \in Regs |-> f[r].real]
  BY <1>1 DEF PairInit
<1>3. ASSUME NEW r \in Regs
      PROVE  IsValue(reg[r]) /\ IsReal(real[r]) /\ Holds(reg[r], real[r])
  <2>1. PICK s \in Starts : s = f[r]
    OBVIOUS
  <2>2. IsValue(s.val) /\ IsReal(s.real) /\ Holds(s.val, s.real)
    BY StartsAssumption
  <2>3. reg[r] = s.val /\ real[r] = s.real
    BY <1>2, <2>1
  <2>4. QED
    BY <2>2, <2>3
<1>4. exact = TRUE
  BY <1>1 DEF PairInit
<1>5. QED
  BY <1>2, <1>3, <1>4 DEF Held, Covered

LEMMA NextHeld ==
  Held /\ [PairNext]_pairVars => Held'
<1>1. SUFFICES ASSUME Held, [PairNext]_pairVars PROVE Held'
  OBVIOUS
<1>2. CASE UNCHANGED pairVars
  BY <1>1, <1>2 DEF pairVars, Held, Covered
<1>3. CASE PairNext
  <2>1. PICK d \in Regs :
          \/ \E s \in Regs :
              \/ \E op \in BinOps : ExecStep(d, s, op)
              \/ AddStep(d, s)
              \/ SubStep(d, s)
              \/ JoinStep(d, s)
              \/ \E op \in CmpOps : AssumeStep(d, s, op)
          \/ LookupStep(d)
          \/ \E T \in {{T_NUM}, PtrTypes, NonFd} : AssumeTypeStep(d, T)
    BY <1>3 DEF PairNext
  <2>2. ASSUME NEW s \in Regs, NEW op \in BinOps, ExecStep(d, s, op) PROVE Held'
    BY <1>1, <2>2, ExecKeeps
  <2>3. ASSUME NEW s \in Regs, AddStep(d, s) PROVE Held'
    BY <1>1, <2>3, AddKeeps
  <2>4. ASSUME NEW s \in Regs, SubStep(d, s) PROVE Held'
    BY <1>1, <2>4, SubKeeps
  <2>5. ASSUME NEW s \in Regs, JoinStep(d, s) PROVE Held'
    BY <1>1, <2>5, JoinKeeps
  <2>6. ASSUME NEW s \in Regs, NEW op \in CmpOps, AssumeStep(d, s, op) PROVE Held'
    BY <1>1, <2>6, AssumeKeeps
  <2>7. CASE LookupStep(d)
    BY <1>1, <2>7, LookupKeeps
  <2>8. ASSUME NEW T, AssumeTypeStep(d, T) PROVE Held'
    BY <1>1, <2>8, AssumeTypeKeeps
  <2>9. QED
    BY <2>1, <2>2, <2>3, <2>4, <2>5, <2>6, <2>7, <2>8
<1>4. QED
  BY <1>1, <1>2, <1>3

\* The property of verdicts follows from what the registers hold.
LEMMA HeldSatisfied ==
  Held => SatisfiedIsTrue
<1>1. SUFFICES ASSUME Held, NEW d \in Regs, NEW s \in Regs,
                      NEW op \in CmpOps \ {"SET", "NSET"},
                      exact, real[d].t = real[s].t, real[d].t # T_FD,
                      ~OutOfOrder(reg[d], reg[s]),
                      IsOfType(reg[d], {real[d].t}),
                      \A t \in NonFd : Len(reg[s][t].elems) <= 1,
                      SatisfiedVal(op, {real[d].t}, reg[d], reg[s])
               PROVE  IF op \in SignedOps THEN Compare(op, Signed(real[d].n), Signed(real[s].n))
                      ELSE Compare(op, real[d].n, real[s].n)
  BY Zenon DEF SatisfiedIsTrue
<1>2. PICK a, b, x, y, t : /\ a = reg[d] /\ b = reg[s] /\ x = real[d] /\ y = real[s]
                           /\ t = x.t
  OBVIOUS
<1>3. /\ IsValue(a) /\ IsValue(b) /\ IsReal(x) /\ IsReal(y)
      /\ Holds(a, x) /\ Holds(b, y)
  BY <1>1, <1>2, Operands
<1>4. /\ t \in NonFd /\ t \in AllTypes /\ t # T_FD /\ y.t = t
      /\ Contains(a[t], x.n) /\ Contains(b[t], y.n)
      /\ x.n \in Int /\ y.n \in Int
  BY <1>1, <1>2, <1>3, RealParts, TypeCases
<1>5. t \in TypesOf(a) /\ t \in TypesOf(b)
  BY <1>2, <1>3, <1>4, HeldType
<1>6. ~IsBot(a[t]) /\ ~IsBot(b[t])
  BY <1>4, <1>5 DEF TypesOf, BotAt
<1>7. ~a[t].top /\ ~b[t].top /\ AssumeNum(op, a[t], b[t]) = a[t]
  <2>1. SatisfiedVal(op, {t}, a, b) /\ IsOfType(a, {t})
    BY <1>1, <1>2
  <2>2. SatisfiedNum(op, a[t], b[t]) \/ SatisfiedOffset(op, a[t], b[t])
    BY <1>4, <2>1 DEF SatisfiedVal
  <2>3. QED
    BY <1>6, <2>2 DEF SatisfiedNum, SatisfiedOffset, AssumeOffset
<1>8. IsVector(a[t]) /\ IsVector(b[t]) /\ InOrder(a[t]) /\ InOrder(b[t])
  <2>1. CASE t = T_NUM
    <3>1. IsNumber(a[t]) /\ IsNumber(b[t]) /\ InOrder(a[t]) /\ InOrder(b[t])
      BY <1>1, <1>2, <1>3, <2>1, ValueParts DEF OutOfOrder
    <3>2. QED
      BY <3>1, NumberIsVector
  <2>2. CASE t \in PtrTypes
    BY <1>3, <2>2, ValueParts DEF IsOffset
  <2>3. QED
    BY <1>4, <2>1, <2>2, TypeCases
<1>9. x.n \in Range(a[t].elems) /\ y.n \in Range(b[t].elems)
  BY <1>4, <1>7 DEF Contains, Elems
<1>10. Len(b[t].elems) <= 1
  BY <1>1, <1>2, <1>4
<1>11. Compares(op, x.n, y.n)
  BY <1>7, <1>8, <1>9, <1>10, SatisfiedCompares
<1>12. IF op \in SignedOps THEN Compare(op, Signed(x.n), Signed(y.n))
       ELSE Compare(op, x.n, y.n)
  BY <1>11, ComparesMeaning
<1>13. QED
  BY <1>2, <1>12

\* An abstract value holds the real one after every exact step of the RCP
\* analyser (RCP_domain), for every number of maps, every width of the words
\* and every value the registers may start with.
THEOREM ValuesAlwaysCovered ==
  PairSpec => []Covered
<1>1. Held => Covered
  BY DEF Held
<1>2. QED
  BY <1>1, InitHeld, NextHeld, PTL DEF PairSpec

\* A comparison that satisfied() accepts against one value holds of the real
\* values (RCP_domain::satisfied, through the three set domains).
THEOREM VerdictsAlwaysTrue ==
  PairSpec => []SatisfiedIsTrue
BY InitHeld, NextHeld, HeldSatisfied, PTL DEF PairSpec

=============================================================================
