----------------------------- MODULE SetDomains -----------------------------
(* The value domains of the RCP analyser: NumDomSet, OffsetDomSet and        *)
(* FdSetDom of ai_dom_set.hpp and ai_dom_set.cpp.                            *)
(*                                                                           *)
(* NumDomSet and OffsetDomSet keep a flag and a vector.  The vector is a     *)
(* sequence here, never a set: the algorithms of the standard library that   *)
(* join, meet and subtract vectors walk both of them once and are right      *)
(* only when both are in order, and not every operation keeps them so.       *)
(*                                                                           *)
(* Machine integers are scaled: a uint64_t is a word of Bits bits, an int    *)
(* has IntBits bits, and the cap 1 << 30 on offsets is two bits below it.    *)
EXTENDS Integers, Sequences, FiniteSets, Functions

CONSTANTS
    Bits,        \* width of uint64_t and int64_t
    IntBits      \* width of int

ASSUME WidthAssumption ==
    /\ Bits \in Nat /\ IntBits \in Nat
    /\ 3 <= IntBits /\ IntBits < Bits

Words == 0 .. 2^Bits - 1

\* static_cast<int64_t> of a word, and the word of an integer.
Signed(w) == IF w < 2^(Bits - 1) THEN w ELSE w - 2^Bits
ToWord(n) == n % 2^Bits

\* (int)n: the low half of the word, as a signed number.
AsInt(w) == LET low == w % 2^IntBits
            IN  IF low < 2^(IntBits - 1) THEN low ELSE low - 2^IntBits

Cap == 2^(IntBits - 2)

-----------------------------------------------------------------------------
(* The representation.                                                       *)

Of(s) == [top |-> FALSE, elems |-> s]
Bot   == Of(<< >>)
Top   == [top |-> TRUE, elems |-> << >>]

IsBot(a)    == ~a.top /\ a.elems = << >>
IsSingle(a) == ~a.top /\ Len(a.elems) = 1

Elems(a) == Range(a.elems)

\* What a value stands for: "e is one of the numbers".
Contains(a, e) == a.top \/ e \in Elems(a)

\* A std::set copied into a vector: the elements in ascending order.
Ascending(S) ==
    [i \in 1 .. Cardinality(S) |->
        CHOOSE x \in S : Cardinality({y \in S : y < x}) = i - 1]

InOrder(a) == \A i \in 1 .. Len(a.elems) - 1 : a.elems[i] < a.elems[i + 1]

-----------------------------------------------------------------------------
(* std::set_union, std::set_intersection and std::set_difference on vectors. *)
(* Each walks the two once and compares only the heads.                      *)

\* One turn of the loop: the lesser of the two heads is taken, or both heads
\* when they are equal; what is only in s, in both or only in t is put out as
\* left, both and right say.
Turn(s, t, left, both, right, w) ==
    LET Put(wanted, e) == IF wanted THEN Append(w.out, e) ELSE w.out
        i == w.i
        j == w.j
    IN  IF i > Len(s) /\ j > Len(t) THEN w
        ELSE IF j > Len(t) \/ (i <= Len(s) /\ s[i] < t[j])
        THEN [i |-> i + 1, j |-> j, out |-> Put(left, s[i])]
        ELSE IF i > Len(s) \/ t[j] < s[i]
        THEN [i |-> i, j |-> j + 1, out |-> Put(right, t[j])]
        ELSE [i |-> i + 1, j |-> j + 1, out |-> Put(both, s[i])]

Walk(s, t, left, both, right) ==
    LET at[n \in 0 .. Len(s) + Len(t)] ==
            IF n = 0 THEN [i |-> 1, j |-> 1, out |-> << >>]
            ELSE Turn(s, t, left, both, right, at[n - 1])
    IN  at[Len(s) + Len(t)].out

SetUnion(s, t)        == Walk(s, t, TRUE, TRUE, TRUE)
SetIntersection(s, t) == Walk(s, t, FALSE, TRUE, FALSE)
SetDifference(s, t)   == Walk(s, t, TRUE, FALSE, FALSE)

-----------------------------------------------------------------------------
(* operator|= and operator&=, the same text in both classes.                 *)

Join(a, b) ==
    IF a.top \/ b.top THEN Top ELSE Of(SetUnion(a.elems, b.elems))

Meet(a, b) ==
    IF b.top THEN a
    ELSE IF a.top THEN b
    ELSE Of(SetIntersection(a.elems, b.elems))

-----------------------------------------------------------------------------
(* NumDomSet::exec.                                                          *)

BinOps == {"ADD", "SUB", "MUL", "DIV", "MOD", "OR", "AND", "LSH", "RSH",
           "ARSH", "XOR"}

Bit(w, i) == (w \div 2^i) % 2 = 1

\* The word whose bits are those of S.
FromBits(S) ==
    LET low[i \in 0 .. Bits] ==
            IF i = 0 THEN 0
            ELSE low[i - 1] + (IF i - 1 \in S THEN 2^(i - 1) ELSE 0)
    IN  low[Bits]

Places == 0 .. Bits - 1

\* A division by zero and a shift by the width are not defined in C++.
Undefined(op, n) ==
    \/ op \in {"DIV", "MOD"} /\ n = 0
    \/ op \in {"LSH", "RSH", "ARSH"} /\ n >= Bits

\* RSH converts its left operand to int64_t and ARSH does not.
Apply(op, k, n) ==
    CASE op = "ADD"  -> ToWord(k + n)
      [] op = "SUB"  -> ToWord(k - n)
      [] op = "MUL"  -> ToWord(k * n)
      [] op = "DIV"  -> k \div n
      [] op = "MOD"  -> k % n
      [] op = "OR"   -> FromBits({i \in Places : Bit(k, i) \/ Bit(n, i)})
      [] op = "AND"  -> FromBits({i \in Places : Bit(k, i) /\ Bit(n, i)})
      [] op = "XOR"  -> FromBits({i \in Places : Bit(k, i) # Bit(n, i)})
      [] op = "LSH"  -> ToWord(k * 2^n)
      [] op = "RSH"  -> ToWord(Signed(k) \div 2^n)
      [] op = "ARSH" -> k \div 2^n

Exec(op, a, b) ==
    IF IsBot(a) \/ IsBot(b) THEN Bot
    ELSE IF a.top \/ b.top THEN Top
    ELSE Of(Ascending({Apply(op, k, n) : k \in Elems(a), n \in Elems(b)}))

-----------------------------------------------------------------------------
(* OffsetDomSet::exec and the difference of two sets of offsets.             *)

\* Offsets are int64_t; only an upper bound is kept.  A program would need
\* 2^32 additions to reach the lower end of int64_t: it is not modelled.
OffsetExec(add, a, b) ==
    LET S == {IF add THEN k + AsInt(n) ELSE k - AsInt(n) :
                k \in Elems(a), n \in Elems(b)}
    IN  IF IsBot(a) \/ IsBot(b) THEN Bot
        ELSE IF a.top \/ b.top \/ \E x \in S : x > Cap THEN Top
        ELSE Of(Ascending(S))

\* The differences are put in order as signed numbers and kept as words.
OffsetMinus(a, b) ==
    LET S == {k - n : k \in Elems(a), n \in Elems(b)}
        inOrder == Ascending(S)
    IN  IF IsBot(a) \/ IsBot(b) THEN Bot
        ELSE IF a.top \/ b.top \/ \E x \in S : x > Cap THEN Top
        ELSE Of([i \in DOMAIN inOrder |-> ToWord(inOrder[i])])

-----------------------------------------------------------------------------
(* assume(op, right): keep the elements that may satisfy the comparison.     *)

CmpOps == {"EQ", "NE", "SET", "NSET", "LT", "LE", "GT", "GE", "SLT", "SLE",
           "SGT", "SGE"}

SignedOps == {"SLT", "SLE", "SGT", "SGE"}

\* The comparison, on numbers already read as signed or unsigned.
Compare(op, x, y) ==
    CASE op \in {"LT", "SLT"} -> x < y
      [] op \in {"LE", "SLE"} -> x <= y
      [] op \in {"GT", "SGT"} -> x > y
      [] op \in {"GE", "SGE"} -> x >= y
      [] op = "EQ" -> x = y
      [] op = "NE" -> x # y

\* The element as the comparison reads it; offsets are signed already.
ReadFor(op, w) == IF op \in SignedOps THEN Signed(w) ELSE w

\* The elements of s that are in S, in their order.
Among(s, S) ==
    LET kept[k \in 0 .. Len(s)] ==
            IF k = 0 THEN << >>
            ELSE IF s[k] \in S THEN Append(kept[k - 1], s[k]) ELSE kept[k - 1]
    IN  kept[Len(s)]

\* Mutant: every order is tested against the least element on the right.
KeepAgainstLeast(op, s, t) ==
    LET Read(w) == ReadFor(op, w)
        m == CHOOSE x \in Range(t) : \A y \in Range(t) : Read(x) <= Read(y)
    IN  Among(s, {e \in Range(s) : Compare(op, Read(e), Read(m))})

\* The elements of s that compare with the least or greatest element of t.
Keep(op, s, t) ==
    LET Read(w)  == ReadFor(op, w)
        least    == CHOOSE x \in Range(t) : \A y \in Range(t) : Read(x) <= Read(y)
        greatest == CHOOSE x \in Range(t) : \A y \in Range(t) : Read(x) >= Read(y)
        m == IF op \in {"GT", "GE", "SGT", "SGE"} THEN least ELSE greatest
    IN  Among(s, {e \in Range(s) : Compare(op, Read(e), Read(m))})

AssumeNum(op, a, b) ==
    IF b.top \/ op \in {"SET", "NSET"} THEN a
    ELSE IF op = "EQ" THEN Meet(a, b)
    ELSE IF op = "NE" THEN [a EXCEPT !.elems = SetDifference(@, b.elems)]
    ELSE IF b.elems = << >> THEN [a EXCEPT !.elems = << >>]
    ELSE [a EXCEPT !.elems = Keep(op, @, b.elems)]

\* Orders on signed numbers are asserted not to reach sets of offsets.
AbortsOffset(op, a, b) == op \in SignedOps /\ ~b.top /\ b.elems # << >>

\* The same text otherwise, on signed elements.
AssumeOffset(op, a, b) == AssumeNum(op, a, b)

\* FdSetDom::assume, on the set of map descriptors.
AssumeFd(op, a, b) ==
    CASE op = "EQ" -> a \cap b
      [] op = "NE" -> a \ b
      [] OTHER -> a

-----------------------------------------------------------------------------
(* satisfied(op, right): does assuming the comparison change anything?       *)

\* Mutant: a top on the left is taken to satisfy every comparison.
SatisfiedNumTop(op, a, b) ==
    \/ IsBot(a) \/ IsBot(b)
    \/ ~b.top /\ AssumeNum(op, a, b) = a

SatisfiedNum(op, a, b) ==
    \/ IsBot(a) \/ IsBot(b)
    \/ ~a.top /\ ~b.top /\ AssumeNum(op, a, b) = a

SatisfiedOffset(op, a, b) ==
    \/ IsBot(a) \/ IsBot(b)
    \/ ~a.top /\ ~b.top /\ AssumeOffset(op, a, b) = a

\* all is the set of every map descriptor, the top of FdSetDom.
SatisfiedFd(op, a, b, all) ==
    \/ a = {} \/ b = {}
    \/ a # all /\ b # all /\ AssumeFd(op, a, b) = a

=============================================================================
