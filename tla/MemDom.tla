------------------------------- MODULE MemDom -------------------------------
(* The abstract stack of the RCP analyser (ai_dom_mem.hpp, ai_dom_mem.cpp):  *)
(* a vector of cells, each a range of bytes and what was stored there.       *)
(*                                                                           *)
(* Of RCP_domain only the split into numbers and the rest matters here: a    *)
(* value is a set of Values, its join is union, and must_be_num is inclusion *)
(* in Nums.  Sets of offsets and widths are sets too, with Unknown for top.  *)
EXTENDS Integers, Sequences, FiniteSets, SequencesExt, FiniteSetsExt

CONSTANTS
    Size,       \* STACK_SIZE
    Widths,     \* widths of accesses
    Values,     \* values a register may have
    Nums        \* those that are numbers

ASSUME MemAssumption ==
    /\ Size \in Nat \ {0}
    /\ Widths \subseteq 1 .. Size
    /\ Nums \subseteq Values

Unknown == {-1}       \* the top of OffsetDomSet and NumDomSet
Far == 1000         \* numeric_limits<int64_t>::max()

-----------------------------------------------------------------------------
(* Cells.                                                                    *)

End(c) == c.offset + c.width

Overlapping(c, o, w) ==
    \/ c.offset <= o /\ End(c) > o
    \/ o <= c.offset /\ o + w > c.offset

FromRange(start, end, d) ==
    [offset |-> start, width |-> Max({0, end - start}), dom |-> d]

MustBeNum(d) == d \subseteq Nums
Blurred(d)   == IF MustBeNum(d) THEN Nums ELSE Values

\* Cell::split at a position, with its two assertions.
Split(c, u) ==
    <<FromRange(c.offset, u, IF u >= End(c) THEN c.dom ELSE Blurred(c.dom)),
      FromRange(u, End(c), IF c.offset >= u THEN c.dom ELSE Blurred(c.dom))>>

CanSplit(c, u) == c.offset <= u /\ u <= End(c)

\* Cell::split of two cells: the parts [mid1, mid2, right].  minmax on the
\* starts compares a cell with itself, so the order of the arguments stands.
SplitTwo(a, b) ==
    LET mid1 == Split(a, b.offset)[2]
        cut  == IF End(b) < End(a) THEN Split(mid1, End(b)) ELSE Split(b, End(a))
    IN  IF End(b) < End(a)
        THEN [mid1 |-> cut[1], mid2 |-> b, right |-> cut[2]]
        ELSE [mid1 |-> mid1, mid2 |-> cut[1], right |-> cut[2]]

ByOffset(cells) == SortSeq(cells, LAMBDA c, d : c.offset < d.offset)

IsTop(m) == ~m.bot /\ m.cells = << >>
TopMem   == [bot |-> FALSE, cells |-> << >>]

-----------------------------------------------------------------------------
(* load.                                                                     *)

Load(m, o, w) ==
    LET hit   == SelectSeq(m.cells, LAMBDA c : Overlapping(c, o, w))
        whole == SelectSeq(hit, LAMBDA c : c.offset = o /\ c.width = w)
        total == FoldLeft(+, 0, [i \in DOMAIN hit |-> hit[i].width])
        first == Min({c.offset : c \in ToSet(hit)})
        last  == Max({0} \cup {End(c) : c \in ToSet(hit)})
    IN  IF whole # << >> THEN whole[1].dom
        ELSE IF total = 0 \/ first > o \/ last < o + w THEN Values
        ELSE IF \E c \in ToSet(hit) : ~MustBeNum(c.dom) THEN Values
        ELSE IF first + total < last THEN Values
        ELSE Nums

-----------------------------------------------------------------------------
(* store.                                                                    *)

\* Mutant: the rest of a cell that is overwritten keeps its value.
PiecesKeep(c, n) ==
    (IF c.offset < n.offset
     THEN <<FromRange(c.offset, n.offset, c.dom)>> ELSE << >>)
    \o (IF End(c) > End(n)
        THEN <<FromRange(End(n), End(c), c.dom)>> ELSE << >>)

\* What is left of a cell around a new one.
Pieces(c, n) ==
    (IF c.offset < n.offset
     THEN <<FromRange(c.offset, n.offset, Blurred(c.dom))>> ELSE << >>)
    \o (IF End(c) > End(n)
        THEN <<FromRange(End(n), End(c), Blurred(c.dom))>> ELSE << >>)

Apart(c, n) == End(c) <= n.offset \/ c.offset >= End(n)

\* Mutant: cells that are overwritten in part are kept beside the new one.
StoreAtKeeps(m, o, w, d) ==
    LET new == [offset |-> o, width |-> w, dom |-> d]
    IN  [bot |-> FALSE,
         cells |-> ByOffset(SelectSeq(m.cells, LAMBDA c : c.offset # o) \o <<new>>)]

\* All cells equal to one that is overwritten are erased.
StoreAt(m, o, w, d) ==
    LET new    == [offset |-> o, width |-> w, dom |-> d]
        pieces == FlattenSeq([i \in DOMAIN m.cells |->
                      IF Apart(m.cells[i], new) THEN << >>
                      ELSE Pieces(m.cells[i], new)])
    IN  [bot |-> FALSE,
         cells |-> ByOffset(SelectSeq(m.cells, LAMBDA c : Apart(c, new))
                            \o pieces \o <<new>>)]

StoreAborts(m, o, w, d) ==
    LET new == [offset |-> o, width |-> w, dom |-> d]
    IN  FoldLeft(+, 0, [i \in DOMAIN m.cells |->
            IF Apart(m.cells[i], new) THEN 0 ELSE Len(Pieces(m.cells[i], new))]) > 2

Single(O) == O # Unknown /\ Cardinality(O) = 1
The(O)    == CHOOSE o \in O : TRUE

Store(m, O, w, d) ==
    IF Single(O) THEN StoreAt(m, The(O), w, d) ELSE TopMem

-----------------------------------------------------------------------------
(* operator|=.                                                               *)

Removed(c) == [c EXCEPT !.offset = Far, !.width = 0]

\* One turn of the loop over neighbours: drop the left one or keep what the
\* two have in common, and leave the rest of the longer one for the next turn.
Neighbours(cells, i) ==
    LET a == cells[i]
        b == cells[i + 1]
        s == SplitTwo(a, b)
    IN  IF End(a) <= b.offset \/ a.width = 0
        THEN [cells EXCEPT ![i] = Removed(a)]
        ELSE [cells EXCEPT ![i] = [s.mid1 EXCEPT !.dom = @ \cup s.mid2.dom],
                           ![i + 1] = s.right]

Sweep(cells) ==
    LET n == Len(cells)
        turn[i \in 0 .. n] ==
            IF i = 0 THEN Append(cells, Removed([offset |-> 0, width |-> 0, dom |-> {}]))
            ELSE LET prior == turn[i - 1] IN Neighbours(prior, i)
    IN  turn

\* The result for one order of the two vectors; std::sort may leave cells of
\* one offset either way round.
JoinInOrder(a, b, cells) ==
    IF a.bot THEN b
    ELSE IF b.bot \/ IsTop(a) THEN a
    ELSE IF IsTop(b) THEN TopMem
    ELSE [bot |-> FALSE,
          cells |-> ByOffset(SelectSeq(Sweep(ByOffset(cells))[Len(cells)],
                                       LAMBDA c : c.offset # Far))]

Joins(a, b) ==
    {JoinInOrder(a, b, cells) : cells \in {a.cells \o b.cells, b.cells \o a.cells}}

\* Mutant: the vectors are not sorted before the loop.
JoinAbortsUnsorted(a, b) ==
    \E cells \in {a.cells \o b.cells, b.cells \o a.cells} :
        \E i \in 1 .. Len(cells) :
            LET now == Sweep(cells)[i - 1]
            IN  /\ ~(End(now[i]) <= now[i + 1].offset \/ now[i].width = 0)
                /\ ~CanSplit(now[i], now[i + 1].offset)

\* The assertions of Cell::split that the loop evaluates.
JoinAborts(a, b) ==
    \E cells \in {ByOffset(a.cells \o b.cells), ByOffset(b.cells \o a.cells)} :
        \E i \in 1 .. Len(cells) :
            LET now == Sweep(cells)[i - 1]
            IN  /\ ~(End(now[i]) <= now[i + 1].offset \/ now[i].width = 0)
                /\ ~CanSplit(now[i], now[i + 1].offset)

Meet(a, b) ==
    IF a.bot \/ b.bot THEN [bot |-> TRUE, cells |-> << >>]
    ELSE IF IsTop(a) THEN b ELSE a

-----------------------------------------------------------------------------
(* store_dynamic: the width or the offset is one of several.                 *)

Least(W) == IF W = Unknown THEN 0 ELSE Min(W)

\* The bytes that are written in any case.
Surely(m, O, W, d) ==
    LET high == IF O = Unknown THEN Size ELSE Max(O)
    IN  IF Least(W) > 0 /\ high < Size THEN StoreAt(m, high, Least(W), Blurred(d)) ELSE m

StoreDynamic(m, O, W, d) ==
    LET low  == IF O = Unknown THEN 0 ELSE Min(O)
        most == IF W = Unknown THEN Size - low ELSE Max(W)
        now  == Surely(m, O, W, d)
    IN  IF W = {} \/ O = {} THEN {m}
        ELSE IF Single(W) /\ Single(O) THEN {Store(m, O, The(W), d)}
        ELSE Joins(now, StoreAt(now, low, most, Blurred(d)))

\* Where several widths meet several offsets, offsets between the first and
\* the last are forgotten by neither of the two stores.
Scattered(O, W) == ~Single(O) /\ W # Unknown /\ ~Single(W)

\* A part of a cell that may hold a pointer is written: the join keeps the
\* pointers of the whole cell beside a number, though what is left of one may
\* be anything.
Torn(m, o, w) ==
    \E c \in ToSet(m.cells) : /\ ~MustBeNum(c.dom)
                              /\ Overlapping(c, o, w)
                              /\ c.offset < o \/ o + w < End(c)

=============================================================================
