----------------------------- MODULE ArrayProofs -----------------------------
(* The cells that the states of the array expansion domain share have no     *)
(* byte in common, the search for overlapping cells then finds them all, and *)
(* what a state says of a cell covers what its array holds there; for every  *)
(* array, set of access sizes and number of states and operations.           *)
EXTENDS ArrayPair, Iteration, TLAPS

-----------------------------------------------------------------------------
(* Arithmetic.                                                               *)

LEMMA Quotient ==
    ASSUME NEW a \in Nat, NEW s \in Nat \ {0}
    PROVE  a \div s \in Nat /\ s * (a \div s) <= a /\ a < s * (a \div s) + s
OBVIOUS

LEMMA Multiples ==
    ASSUME NEW s \in Nat \ {0}, NEW x \in Int, NEW y \in Int, s * x < s * y + s
    PROVE  x <= y /\ s * x <= s * y
<1>1. x <= y
  OBVIOUS
<1>2. QED
  BY <1>1

\* A range starts within the array, if all of it lies there.
LEMMA RangeFits ==
    ASSUME NEW lb \in Nat, NEW ub \in Int, NEW s \in Nat \ {0}, lb <= ub,
           lb + Extent(lb, ub, s) <= Size,
           NEW j \in Nat, lb + s * j <= ub
    PROVE  lb + s * j + s <= Size
<1> DEFINE d == (ub - lb) \div s
<1>1. ub - lb \in Nat
  OBVIOUS
<1>2. d \in Nat /\ ub - lb < s * d + s
  BY <1>1, Quotient
<1> HIDE DEF d
<1>3. s * j < s * d + s
  BY <1>2
<1>4. s * j <= s * d
  BY <1>2, <1>3, Multiples
<1>5. lb + s * (d + 1) <= Size
  BY DEF d, Extent
<1>6. s * (d + 1) = s * d + s
  BY <1>2
<1>7. Size \in Nat
  BY ArrayAssumption
<1>8. s * j \in Nat /\ s * d \in Nat
  BY <1>2
<1>9. QED
  BY <1>4, <1>5, <1>6, <1>7, <1>8

-----------------------------------------------------------------------------
(* The searches for overlapping cells.                                       *)

LEMMA CellFacts ==
    ASSUME NEW k \in AllCells
    PROVE  /\ k.o \in Nat /\ k.s \in Nat \ {0} /\ k.s \in Sizes /\ k.o + k.s <= Size
           /\ k = Cell(k.o, k.s) /\ k.o .. k.o + k.s - 1 \subseteq 0 .. Size - 1
<1>1. k \in [o : 0 .. Size - 1, s : Sizes] /\ k.o + k.s <= Size
  BY DEF AllCells
<1>2. k = Cell(k.o, k.s)
  BY <1>1 DEF Cell
<1>3. k.o \in Nat /\ k.s \in Sizes /\ k.s \in Nat \ {0} /\ Size \in Nat
  <2>1. k.o \in 0 .. Size - 1 /\ k.s \in Sizes
    BY <1>1
  <2>2. Size \in Nat /\ Sizes \subseteq Nat \ {0}
    BY ArrayAssumption
  <2>3. k.s \in Nat \ {0}
    BY <2>1, <2>2
  <2>4. k.o \in Nat
    BY <2>1, <2>2
  <2>5. QED
    BY <2>1, <2>2, <2>3, <2>4
<1>4. k.o .. k.o + k.s - 1 \subseteq 0 .. Size - 1
  BY <1>1, <1>3
<1>5. QED
  BY <1>1, <1>2, <1>3, <1>4

LEMMA CellIn ==
    ASSUME NEW o \in Nat, NEW s \in Sizes, o + s <= Size
    PROVE  Cell(o, s) \in AllCells /\ Cell(o, s).o = o /\ Cell(o, s).s = s
BY ArrayAssumption DEF AllCells, Cell

LEMMA SearchWithin ==
    \A K, o, s : get_overlap_cells(K, o, s) \subseteq K
BY DEF get_overlap_cells

\* When no two cells overlap, the search finds every cell that overlaps the
\* bytes: what would stop it lies within the cell it has not come to.
LEMMA SearchFindsAll ==
    ASSUME NEW K \in SUBSET AllCells,
           \A x, y \in K : x # y => ~overlap(x, y.o, y.s),
           NEW k \in AllCells
    PROVE  {x \in K : overlap(x, k.o, k.s)} \ {k} = get_overlap_cells(K, k.o, k.s)
<1>1. k = Cell(k.o, k.s) /\ k.o \in Nat /\ k.s \in Nat \ {0}
  BY CellFacts
<1>2. ASSUME NEW x \in K, x # k, overlap(x, k.o, k.s),
             NEW y \in K \cup {k}, Between(x.o, y.o, k.o)
      PROVE  \E z \in K \cup {k} : z.o = y.o /\ overlap(z, k.o, k.s)
  <2>1. x.o \in Nat /\ x.s \in Nat \ {0} /\ y.o \in Nat /\ y.s \in Nat \ {0}
    BY CellFacts
  <2>2. CASE y.o = k.o
    BY <1>1, <2>2 DEF overlap, last
  <2>3. CASE y.o = x.o
    BY <1>2, <2>3
  <2>4. CASE y.o # k.o /\ y.o # x.o /\ x.o <= y.o
    <3>1. y \in K /\ x # y
      BY <2>4
    <3>2. overlap(x, y.o, y.s)
      BY <1>1, <1>2, <2>1, <2>4 DEF overlap, last, Between
    <3>3. QED
      BY <3>1, <3>2
  <2>5. CASE y.o # k.o /\ y.o # x.o /\ ~(x.o <= y.o)
    <3>1. overlap(y, k.o, k.s)
      BY <1>1, <1>2, <2>1, <2>5 DEF overlap, last, Between
    <3>2. QED
      BY <3>1
  <2>6. QED
    BY <2>2, <2>3, <2>4, <2>5
<1>3. QED
  BY <1>1, <1>2 DEF get_overlap_cells

\* Whatever overlaps, the search comes to a cell unless another one with no
\* byte in common lies on the way.
LEMMA FoundUnlessHidden ==
    ASSUME NEW o \in Nat, NEW s \in Nat \ {0},
           NEW k \in cells, k # Cell(o, s), overlap(k, o, s), ~Hidden(k, o, s)
    PROVE  k \in get_overlap_cells(cells, o, s)
<1> DEFINE all == cells \cup {Cell(o, s)}
<1>1. ASSUME NEW y \in all, Between(k.o, y.o, o)
      PROVE  overlap(y, o, s)
  <2>1. CASE y \in cells
    BY <1>1, <2>1 DEF Hidden
  <2>2. CASE y = Cell(o, s)
    BY <2>2 DEF Cell, overlap, last
  <2>3. QED
    BY <2>1, <2>2
<1>2. QED
  BY <1>1 DEF get_overlap_cells

\* Of the cells at one offset there is a largest.
LEMMA LargestCell ==
    ASSUME NEW K \in SUBSET AllCells, NEW k \in K
    PROVE  \E y \in K : y.o = k.o /\ k.s <= y.s /\ \A z \in K : z.o = y.o => z.s <= y.s
<1> DEFINE gaps == {n \in Nat : \E z \in K : z.o = k.o /\ z.s = Size - n}
<1>1. \A z \in K : z.s \in Nat /\ z.o \in Nat /\ z.s <= Size /\ Size - z.s \in Nat
  BY CellFacts, ArrayAssumption
<1>2. Size - k.s \in gaps /\ Size \in Nat
  BY <1>1, ArrayAssumption
<1>3. PICK n \in gaps : \A j \in gaps : n <= j
  BY <1>2, LeastElement
<1>4. PICK y \in K : y.o = k.o /\ y.s = Size - n
  BY <1>3
<1>5. ASSUME NEW z \in K, z.o = k.o PROVE z.s <= y.s
  <2>1. Size - z.s \in gaps
    BY <1>1, <1>2, <1>5
  <2>2. n <= Size - z.s
    BY <1>3, <2>1
  <2>3. QED
    BY <1>1, <1>2, <1>4, <2>2
<1>6. QED
  BY <1>4, <1>5

\* A store somewhere in a range forgets the cells it may write, unless the
\* range begins after a cell and ends before its last byte.
LEMMA FoundUnlessInside ==
    ASSUME cells \subseteq AllCells, NEW index, index.lo \in Nat, index.hi \in Nat,
           NEW i \in index.lo .. index.hi, NEW s \in Nat \ {0},
           NEW k \in cells, overlap(k, i, s), ~Inside(k, index, s)
    PROVE  k \in get_overlap_cells_symbolic_offset(cells, index, s)
<1>1. PICK y \in cells : /\ y.o = k.o /\ k.s <= y.s
                         /\ \A z \in cells : z.o = y.o => z.s <= y.s
  BY LargestCell
<1>2. y.o \in Nat /\ y.s \in Nat \ {0} /\ k.s \in Nat /\ k.o = y.o /\ i \in Nat
  BY <1>1, CellFacts
<1>3. y.o <= i + s - 1 /\ i <= last(y)
  BY <1>1, <1>2 DEF overlap, last
<1>4. last(y) \in Int /\ y.o <= last(y)
  BY <1>2 DEF last
<1>5. y.o >= index.lo \/ index.hi + s - 1 >= last(y)
  BY <1>1, <1>2, <1>4 DEF Inside
<1>6. \E j \in index.lo .. index.hi : y.o \in j .. j + s - 1 \/ last(y) \in j .. j + s - 1
  <2>1. CASE y.o >= i
    BY <1>2, <1>3, <2>1
  <2>2. CASE last(y) <= i + s - 1
    BY <1>2, <1>3, <1>4, <2>2
  <2>3. CASE y.o < i /\ y.o >= index.lo
    <3>1. y.o \in index.lo .. index.hi /\ y.o \in y.o .. y.o + s - 1
      BY <1>2, <2>3
    <3>2. QED
      BY <3>1
  <2>4. CASE last(y) > i + s - 1 /\ index.hi + s - 1 >= last(y)
    <3>1. /\ last(y) - s + 1 \in index.lo .. index.hi
          /\ last(y) \in last(y) - s + 1 .. (last(y) - s + 1) + s - 1
      BY <1>2, <1>4, <2>4
    <3>2. QED
      BY <3>1
  <2>5. QED
    BY <1>2, <1>4, <1>5, <2>1, <2>2, <2>3, <2>4
<1>7. symbolic_overlap(y, index, s)
  BY <1>6 DEF symbolic_overlap
<1>8. QED
  BY <1>1, <1>7 DEF get_overlap_cells_symbolic_offset

-----------------------------------------------------------------------------
(* The arrays.                                                               *)

LEMMA FindsValues ==
    ASSUME NEW bytes \in [0 .. Size - 1 -> Byte], NEW k \in AllCells
    PROVE  Finds(bytes, k.o, k.s) \subseteq Values
<1>1. k.o \in 0 .. Size - 1 /\ k.o \in k.o .. k.o + k.s - 1 /\ k.o >= 0
  BY CellFacts
<1>2. bytes[k.o] \in Byte
  BY <1>1
<1>3. QED
  BY <1>1, <1>2 DEF Finds, Byte

LEMMA FindsSomething ==
    ASSUME NEW bytes, NEW k \in AllCells
    PROVE  Finds(bytes, k.o, k.s) # {}
BY ArrayAssumption DEF Finds

\* What is read depends on the bytes that are read.
LEMMA FindsSame ==
    ASSUME NEW bytes, NEW other, NEW k \in AllCells,
           \A b \in k.o .. k.o + k.s - 1 : other[b] = bytes[b]
    PROVE  Finds(other, k.o, k.s) = Finds(bytes, k.o, k.s)
<1>1. k.o \in k.o .. k.o + k.s - 1
  BY CellFacts
<1>2. QED
  BY <1>1 DEF Finds

LEMMA NoOverlap ==
    ASSUME NEW k \in AllCells, NEW o \in Int, NEW s \in Int, k \notin Overlapped(o, s),
           NEW b \in k.o .. k.o + k.s - 1
    PROVE  b \in 0 .. Size - 1 /\ b \notin o .. o + s - 1
<1>1. k.o \in Nat /\ k.s \in Nat \ {0} /\ k.o .. k.o + k.s - 1 \subseteq 0 .. Size - 1
  BY CellFacts
<1>2. ~overlap(k, o, s)
  BY DEF Overlapped
<1>3. QED
  BY <1>1, <1>2 DEF overlap, last

\* A store changes what is read of the cells it overlaps only.
LEMMA FindsElsewhere ==
    ASSUME NEW bytes \in [0 .. Size - 1 -> Byte], NEW k \in AllCells,
           NEW o \in Int, NEW s \in Int, NEW v, k \notin Overlapped(o, s)
    PROVE  Finds(Written(bytes, o, s, v), k.o, k.s) = Finds(bytes, k.o, k.s)
<1>1. \A b \in k.o .. k.o + k.s - 1 : Written(bytes, o, s, v)[b] = bytes[b]
  BY NoOverlap DEF Written
<1>2. QED
  BY <1>1, FindsSame

LEMMA FindsWritten ==
    ASSUME NEW bytes \in [0 .. Size - 1 -> Byte], NEW k \in AllCells, NEW v
    PROVE  Finds(Written(bytes, k.o, k.s, v), k.o, k.s) = {v}
<1>1. /\ k.o .. k.o + k.s - 1 \subseteq 0 .. Size - 1
      /\ k.o \in k.o .. k.o + k.s - 1
  BY CellFacts
<1>2. \A b \in k.o .. k.o + k.s - 1 :
        Written(bytes, k.o, k.s, v)[b] = [at |-> k.o, s |-> k.s, v |-> v]
  BY <1>1 DEF Written
<1>3. QED
  BY <1>1, <1>2 DEF Finds

LEMMA WrittenType ==
    ASSUME NEW bytes \in [0 .. Size - 1 -> Byte], NEW o \in Int, NEW s \in Nat, NEW v \in Values
    PROVE  Written(bytes, o, s, v) \in [0 .. Size - 1 -> Byte]
<1>1. [at |-> o, s |-> s, v |-> v] \in Byte
  BY DEF Byte
<1>2. QED
  BY <1>1 DEF Written

LEMMA UnwrittenType == Unwritten \in [0 .. Size - 1 -> Byte]
<1>1. [at |-> -1, s |-> 0, v |-> Values] \in Byte
  BY DEF Byte
<1>2. QED
  BY <1>1 DEF Unwritten

LEMMA FindsUnwritten ==
    ASSUME NEW k \in AllCells
    PROVE  Finds(Unwritten, k.o, k.s) = Values
<1>1. k.o \in 0 .. Size - 1 /\ k.o \in k.o .. k.o + k.s - 1 /\ k.o # -1
  BY CellFacts
<1>2. Unwritten[k.o].at = -1
  BY <1>1 DEF Unwritten
<1>3. QED
  BY <1>1, <1>2 DEF Finds

\* Nothing but the cells that overlap s bytes from o may be read differently.
ReadSame(other, bytes, o, s) ==
    \A k \in AllCells \ Overlapped(o, s) : Finds(other, k.o, k.s) = Finds(bytes, k.o, k.s)

\* The bytes of the elements of a range lie within the range.
LEMMA RangeBytes ==
    ASSUME NEW bytes \in [0 .. Size - 1 -> Byte], NEW lb \in Nat, NEW ub \in Int,
           NEW s \in Nat \ {0}, lb <= ub, NEW v \in Values
    PROVE  /\ Extent(lb, ub, s) \in Int
           /\ WrittenRange(bytes, lb, ub, s, v) \in [0 .. Size - 1 -> Byte]
           /\ ReadSame(WrittenRange(bytes, lb, ub, s, v), bytes, lb, Extent(lb, ub, s))
<1> DEFINE at(b)   == lb + s * ((b - lb) \div s)
           elem(b) == [at |-> at(b), s |-> s, v |-> v]
           e       == (ub - lb) \div s
           size    == Extent(lb, ub, s)
<1>1. \A b \in 0 .. Size - 1 :
        WrittenRange(bytes, lb, ub, s, v)[b] = IF lb <= b /\ at(b) <= ub THEN elem(b) ELSE bytes[b]
  BY DEF WrittenRange
<1>2. Size \in Nat
  BY ArrayAssumption
<1>3. ub - lb \in Nat
  OBVIOUS
<1>4. e \in Nat /\ s * e <= ub - lb /\ ub - lb < s * e + s
  BY <1>3, Quotient
<1>5. size = s * (e + 1) /\ size \in Int
  <2>1. size = s * (e + 1)
    BY DEF Extent
  <2> HIDE DEF e, size
  <2>2. QED
    BY <1>4, <2>1
<1>6. ASSUME NEW b \in 0 .. Size - 1, lb <= b
      PROVE  /\ (b - lb) \div s \in Nat /\ at(b) \in Nat
             /\ s * ((b - lb) \div s) <= b - lb /\ b - lb < s * ((b - lb) \div s) + s
  <2>1. b - lb \in Nat
    BY <1>6
  <2>2. (b - lb) \div s \in Nat /\ s * ((b - lb) \div s) <= b - lb
        /\ b - lb < s * ((b - lb) \div s) + s
    BY <2>1, Quotient
  <2>3. QED
    BY <2>2
<1>7. \A b \in 0 .. Size - 1 : lb <= b => elem(b) \in Byte
  BY <1>6 DEF Byte
<1>8. ASSUME NEW b \in 0 .. Size - 1, lb <= b, at(b) <= ub
      PROVE  b \in lb .. lb + size - 1
  <2> DEFINE d == (b - lb) \div s
  <2>1. d \in Nat /\ b - lb < s * d + s
    BY <1>6, <1>8
  <2>2. lb + s * d <= ub
    BY <1>8
  <2> HIDE DEF d, e, size
  <2>3. s * d < s * e + s
    BY <1>4, <2>1, <2>2
  <2>4. s * d <= s * e
    BY <1>4, <2>1, <2>3, Multiples
  <2>5. s * (e + 1) = s * e + s /\ s * e \in Int /\ s * d \in Int
    BY <1>4, <2>1
  <2>6. QED
    BY <1>2, <1>8, <1>5, <2>1, <2>4, <2>5
<1>9. WrittenRange(bytes, lb, ub, s, v) \in [0 .. Size - 1 -> Byte]
  <2>1. \A b \in 0 .. Size - 1 : WrittenRange(bytes, lb, ub, s, v)[b] \in Byte
    <3> HIDE DEF at, elem
    <3>1. QED
      BY <1>1, <1>7
  <2>2. WrittenRange(bytes, lb, ub, s, v)
          = [b \in 0 .. Size - 1 |-> WrittenRange(bytes, lb, ub, s, v)[b]]
    BY DEF WrittenRange
  <2>3. QED
    BY <2>1, <2>2
<1>10. ASSUME NEW k \in AllCells, k \notin Overlapped(lb, size)
      PROVE  Finds(WrittenRange(bytes, lb, ub, s, v), k.o, k.s) = Finds(bytes, k.o, k.s)
  <2>1. \A b \in k.o .. k.o + k.s - 1 : b \in 0 .. Size - 1 /\ b \notin lb .. lb + size - 1
    <3> HIDE DEF size
    <3>1. QED
      BY <1>10, <1>5, NoOverlap
  <2>2. \A b \in k.o .. k.o + k.s - 1 : WrittenRange(bytes, lb, ub, s, v)[b] = bytes[b]
    <3> HIDE DEF at, elem, size
    <3>1. QED
      BY <1>1, <1>8, <2>1
  <2>3. QED
    BY <2>2, FindsSame
<1>11. QED
  BY <1>9, <1>10, <1>5 DEF ReadSame

-----------------------------------------------------------------------------
(* What the operations do to an abstract state.                              *)

LEMMA StateFacts ==
    ASSUME Shape, NEW p \in States
    PROVE  M(p) \in AbsState /\ M(p).cells = cells /\ M(p).inv = inv[p]
BY DEF Shape, M, AbsState

LEMMA KillFacts ==
    ASSUME NEW m \in AbsState, NEW K
    PROVE  /\ kill_cells(m, K) \in AbsState /\ kill_cells(m, K).cells = m.cells \ K
           /\ \A k \in AllCells : kill_cells(m, K).inv[k] = IF k \in K THEN Values ELSE m.inv[k]
BY DEF kill_cells, AbsState

LEMMA MakeFacts ==
    ASSUME NEW m \in AbsState, NEW c \in AllCells
    PROVE  /\ mk_cell(m, c.o, c.s) \in AbsState /\ mk_cell(m, c.o, c.s).inv = m.inv
           /\ mk_cell(m, c.o, c.s).cells = m.cells \cup {c}
<1>1. Cell(c.o, c.s) = c
  BY CellFacts
<1>2. QED
  BY <1>1 DEF mk_cell, AbsState

LEMMA AssignFacts ==
    ASSUME NEW m \in AbsState, NEW c \in AllCells, NEW V \in SUBSET Values
    PROVE  /\ do_assign(m, c, V) \in AbsState /\ do_assign(m, c, V).cells = m.cells
           /\ \A k \in AllCells : do_assign(m, c, V).inv[k] = IF k = c THEN V ELSE m.inv[k]
BY DEF do_assign, AbsState

\* What both say of each scalar, and what the domain then has of them all.
Both(x, y) == [k \in AllCells |-> x[k] \cap y[k]]
Settled(value, r) == value = r \/ value = Reduced(r)

LEMMA ReducedFacts ==
    ASSUME NEW r \in [AllCells -> SUBSET Values]
    PROVE  /\ Reduced(r) \in [AllCells -> SUBSET Values]
           /\ ~is_bottom(r) => Reduced(r) = r
           /\ is_bottom(r) => \A k \in AllCells : Reduced(r)[k] = {}
BY DEF Reduced

LEMMA MeetFacts ==
    ASSUME NEW x \in [AllCells -> SUBSET Values], NEW y \in [AllCells -> SUBSET Values]
    PROVE  /\ Both(x, y) \in [AllCells -> SUBSET Values]
           /\ meet(x, y) = Reduced(Both(x, y)) /\ meet(x, y) \in [AllCells -> SUBSET Values]
           /\ join(x, y) \in [AllCells -> SUBSET Values]
           /\ \A k \in AllCells : join(x, y)[k] = x[k] \cup y[k]
<1>1. Both(x, y) \in [AllCells -> SUBSET Values]
  BY DEF Both
<1>2. meet(x, y) = Reduced(Both(x, y))
  BY DEF meet, Both
<1>3. QED
  BY <1>1, <1>2, ReducedFacts DEF join

LEMMA StoreFacts ==
    ASSUME NEW m \in AbsState, NEW index, NEW s, NEW V \in SUBSET Values,
           IsConstant(index) => Cell(index.lo, s) \in AllCells /\ s \in Sizes
    PROVE  LET n    == array_store(m, index, s, V)
               c    == Cell(index.lo, s)
               over == get_overlap_cells(m.cells, index.lo, s)
               some == get_overlap_cells_symbolic_offset(m.cells, index, s)
           IN  /\ n \in AbsState
               /\ is_bottom(m.inv) => n = m
               /\ ~is_bottom(m.inv) /\ IsConstant(index) =>
                    /\ n.cells = (m.cells \ over) \cup {c}
                    /\ \A k \in AllCells :
                         n.inv[k] = IF k = c THEN V ELSE IF k \in over THEN Values ELSE m.inv[k]
               /\ ~is_bottom(m.inv) /\ ~IsConstant(index) =>
                    /\ n.cells = m.cells \ some
                    /\ \A k \in AllCells : n.inv[k] = IF k \in some THEN Values ELSE m.inv[k]
<1> DEFINE n    == array_store(m, index, s, V)
           c    == Cell(index.lo, s)
           over == get_overlap_cells(m.cells, index.lo, s)
           some == get_overlap_cells_symbolic_offset(m.cells, index, s)
           k1   == kill_cells(m, over)
           k2   == mk_cell(k1, index.lo, s)
<1>1. CASE is_bottom(m.inv)
  BY <1>1 DEF array_store
<1>2. CASE ~is_bottom(m.inv) /\ IsConstant(index)
  <2>1. n = do_assign(k2, c, V)
    BY <1>2 DEF array_store
  <2>2. c \in AllCells /\ c.o = index.lo /\ c.s = s
    BY <1>2 DEF Cell
  <2>3. /\ k1 \in AbsState /\ k1.cells = m.cells \ over
        /\ \A k \in AllCells : k1.inv[k] = IF k \in over THEN Values ELSE m.inv[k]
    <3> HIDE DEF over
    <3>1. QED
      BY KillFacts
  <2>4. k2 \in AbsState /\ k2.inv = k1.inv /\ k2.cells = k1.cells \cup {c}
    <3> HIDE DEF k1, c
    <3>1. mk_cell(k1, c.o, c.s) = k2
      BY <2>2
    <3> HIDE DEF k2
    <3>2. QED
      BY <2>2, <2>3, <3>1, MakeFacts
  <2> HIDE DEF k1, k2, c
  <2>5. /\ n \in AbsState /\ n.cells = k2.cells
        /\ \A k \in AllCells : n.inv[k] = IF k = c THEN V ELSE k2.inv[k]
    <3> HIDE DEF n
    <3>1. QED
      BY <2>1, <2>2, <2>4, AssignFacts
  <2> HIDE DEF n, over, some
  <2>6. /\ n \in AbsState /\ n.cells = (m.cells \ over) \cup {c}
        /\ \A k \in AllCells : n.inv[k] = IF k = c THEN V ELSE IF k \in over THEN Values ELSE m.inv[k]
    BY <2>3, <2>4, <2>5
  <2>7. QED
    BY <1>2, <2>6 DEF n, c, over, some
<1>3. CASE ~is_bottom(m.inv) /\ ~IsConstant(index)
  <2>1. n = kill_cells(m, some)
    BY <1>3 DEF array_store
  <2> HIDE DEF n, some, over
  <2>2. /\ n \in AbsState /\ n.cells = m.cells \ some
        /\ \A k \in AllCells : n.inv[k] = IF k \in some THEN Values ELSE m.inv[k]
    BY <2>1, KillFacts
  <2>3. QED
    BY <1>3, <2>2 DEF n, some, over
<1>4. QED
  BY <1>1, <1>2, <1>3

LEMMA LoadFacts ==
    ASSUME NEW m \in AbsState, NEW index, NEW s, Cell(index.lo, s) \in AllCells
    PROVE  LET n == array_load(m, index, s)
               c == Cell(index.lo, s)
           IN  /\ n \in AbsState /\ n.inv = m.inv
               /\ \/ n.cells = m.cells
                  \/ n.cells = m.cells \cup {c} /\ get_overlap_cells(m.cells, c.o, c.s) = {}
<1> DEFINE c == Cell(index.lo, s)
<1>1. c.o = index.lo /\ c.s = s
  BY DEF Cell
<1>2. /\ mk_cell(m, index.lo, s) \in AbsState /\ mk_cell(m, index.lo, s).inv = m.inv
      /\ mk_cell(m, index.lo, s).cells = m.cells \cup {c}
  <2> HIDE DEF c
  <2>1. QED
    BY <1>1, MakeFacts DEF c
<1>3. QED
  BY <1>1, <1>2 DEF array_load

-----------------------------------------------------------------------------
(* Steps.                                                                    *)

\* A state that says of every scalar what it should, but for those in K, does so
\* when these no longer count; if it became bottom, it was for one of them, and
\* none counts.
LEMMA SpreadCovers ==
    ASSUME NEW bytes \in [0 .. Size - 1 -> Byte],
           NEW r \in [AllCells -> SUBSET Values], NEW value, Settled(value, r), NEW K,
           \A j \in AllCells : value[j] # Values /\ j \notin K
                                 => Finds(bytes, j.o, j.s) \subseteq r[j],
           NEW k \in AllCells, k \notin Spread(value, K)
    PROVE  Finds(bytes, k.o, k.s) \subseteq value[k]
<1>1. CASE is_bottom(r)
  <2>1. PICK j \in AllCells : r[j] = {}
    BY <1>1 DEF is_bottom
  <2>2. value[j] = {} /\ value[j] # Values
    BY <1>1, <2>1, ReducedFacts, ArrayAssumption DEF Settled
  <2>3. j \in K
    BY <2>1, <2>2, FindsSomething
  <2>4. is_bottom(value)
    BY <2>2 DEF is_bottom
  <2>5. QED
    BY <2>3, <2>4 DEF Spread
<1>2. CASE ~is_bottom(r)
  <2>1. value = r
    BY <1>2, ReducedFacts DEF Settled
  <2>2. k \notin K
    BY DEF Spread
  <2>3. QED
    BY <2>1, <2>2, FindsValues
<1>3. QED
  BY <1>1, <1>2

\* An operation of p leaves a good state when it forgets, or assigns well, what
\* it does not leave stale.
LEMMA BecomesSettled ==
    ASSUME Shape, Covering, NEW p \in States, NEW n \in AbsState,
           NEW bytes \in [0 .. Size - 1 -> Byte], NEW new, NEW fresh,
           Becomes(p, n, bytes, new, fresh),
           NEW r \in [AllCells -> SUBSET Values], Settled(n.inv, r),
           \A k \in AllCells :
               k \in fresh \/ (k \notin new /\ <<p, k>> \notin stale)
                 => Finds(bytes, k.o, k.s) \subseteq r[k]
    PROVE  /\ Covering' /\ cells' \subseteq AllCells
           /\ inv' \in [States -> [AllCells -> SUBSET Values]]
           /\ real' \in [States -> [0 .. Size - 1 -> Byte]]
<1>1. /\ cells' = n.cells /\ inv' = [inv EXCEPT ![p] = n.inv]
      /\ real' = [real EXCEPT ![p] = bytes] /\ stale' = StaleAfter(p, n, new, fresh)
  BY DEF Becomes
<1>2. /\ cells' \subseteq AllCells /\ inv' \in [States -> [AllCells -> SUBSET Values]]
      /\ real' \in [States -> [0 .. Size - 1 -> Byte]]
  BY <1>1 DEF Shape, AbsState
<1>3. ASSUME NEW q \in States, NEW k \in AllCells, <<q, k>> \notin stale'
      PROVE  Finds(real'[q], k.o, k.s) \subseteq inv'[q][k]
  <2>1. CASE q # p
    <3>1. real'[q] = real[q] /\ inv'[q] = inv[q]
      BY <1>1, <2>1 DEF Shape
    <3>2. <<q, k>> \notin stale
      BY <1>1, <1>3, <2>1 DEF StaleAfter
    <3>3. QED
      BY <3>1, <3>2 DEF Covering
  <2>2. CASE q = p
    <3> DEFINE K == {j \in AllCells : /\ n.inv[j] # Values /\ j \notin fresh
                                      /\ <<p, j>> \in stale \/ j \in new}
    <3>1. real'[q] = bytes /\ inv'[q] = n.inv
      BY <1>1, <2>2 DEF Shape
    <3>2. \A j \in AllCells : n.inv[j] # Values /\ j \notin K
                                => Finds(bytes, j.o, j.s) \subseteq r[j]
      OBVIOUS
    <3>3. k \notin Spread(n.inv, K)
      BY <1>1, <1>3, <2>2 DEF StaleAfter
    <3> HIDE DEF K
    <3>4. Finds(bytes, k.o, k.s) \subseteq n.inv[k]
      BY <3>2, <3>3, SpreadCovers
    <3>5. QED
      BY <3>1, <3>4
  <2>3. QED
    BY <2>1, <2>2
<1>4. QED
  BY <1>2, <1>3 DEF Covering

LEMMA BecomesCovers ==
    ASSUME Shape, Covering, NEW p \in States, NEW n \in AbsState,
           NEW bytes \in [0 .. Size - 1 -> Byte], NEW new, NEW fresh,
           Becomes(p, n, bytes, new, fresh),
           \A k \in AllCells :
               k \in fresh \/ (k \notin new /\ <<p, k>> \notin stale)
                 => Finds(bytes, k.o, k.s) \subseteq n.inv[k]
    PROVE  /\ Covering' /\ cells' \subseteq AllCells
           /\ inv' \in [States -> [AllCells -> SUBSET Values]]
           /\ real' \in [States -> [0 .. Size - 1 -> Byte]]
<1>1. n.inv \in [AllCells -> SUBSET Values] /\ Settled(n.inv, n.inv)
  BY DEF AbsState, Settled
<1>2. QED
  BY <1>1, BecomesSettled

LEMMA AddedApart ==
    ASSUME NEW K \in SUBSET AllCells, \A x, y \in K : x # y => ~overlap(x, y.o, y.s),
           NEW c \in AllCells
    PROVE  \A x, y \in (K \ get_overlap_cells(K, c.o, c.s)) \cup {c} : x # y => ~overlap(x, y.o, y.s)
<1> SUFFICES ASSUME NEW x \in K, x # c, overlap(x, c.o, c.s) \/ overlap(c, x.o, x.s)
             PROVE  x \in get_overlap_cells(K, c.o, c.s)
  OBVIOUS
<1>1. overlap(x, c.o, c.s)
  BY CellFacts DEF overlap, last
<1>2. QED
  BY <1>1, SearchFindsAll

LEMMA StoreStep ==
    ASSUME Shape, Covering, CellsApart, NEW p \in States,
           NEW index, index.lo \in Nat, index.hi \in Nat, NEW i \in index.lo .. index.hi,
           NEW s \in Sizes, i + s <= Size, NEW v \in Values, StoreAt(p, index, i, s, v)
    PROVE  /\ Covering' /\ cells' \subseteq AllCells
           /\ inv' \in [States -> [AllCells -> SUBSET Values]]
           /\ real' \in [States -> [0 .. Size - 1 -> Byte]]
           /\ ~crossed => \A x, y \in cells' : x # y => ~overlap(x, y.o, y.s)
<1> DEFINE c     == Cell(i, s)
           over  == get_overlap_cells(cells, index.lo, s)
           some  == get_overlap_cells_symbolic_offset(cells, index, s)
           n     == array_store(M(p), index, s, {v})
           bytes == Written(real[p], i, s, v)
           new   == {k \in Overlapped(i, s) : is_bottom(inv[p]) \/ Missed(k, index, s)}
           fresh == IF IsConstant(index) /\ ~is_bottom(inv[p]) THEN {c} ELSE {}
<1>1. /\ M(p) \in AbsState /\ M(p).cells = cells /\ M(p).inv = inv[p]
      /\ i \in Nat /\ s \in Nat \ {0} /\ cells \in SUBSET AllCells
      /\ real[p] \in [0 .. Size - 1 -> Byte] /\ inv[p] \in [AllCells -> SUBSET Values]
  BY StateFacts, ArrayAssumption DEF Shape
<1>2. c \in AllCells /\ c.o = i /\ c.s = s
  BY <1>1, CellIn
<1>3. IsConstant(index) => index.lo = i
  BY <1>1 DEF IsConstant
<1>4. /\ n \in AbsState
      /\ is_bottom(inv[p]) => n = M(p)
      /\ ~is_bottom(inv[p]) /\ IsConstant(index) =>
           /\ n.cells = (cells \ over) \cup {c}
           /\ \A k \in AllCells :
                n.inv[k] = IF k = c THEN {v} ELSE IF k \in over THEN Values ELSE inv[p][k]
      /\ ~is_bottom(inv[p]) /\ ~IsConstant(index) =>
           /\ n.cells = cells \ some
           /\ \A k \in AllCells : n.inv[k] = IF k \in some THEN Values ELSE inv[p][k]
  <2>1. {v} \in SUBSET Values
    OBVIOUS
  <2>2. IsConstant(index) => Cell(index.lo, s) = c
    BY <1>3
  <2>3. IsConstant(index) => Cell(index.lo, s) \in AllCells /\ s \in Sizes
    BY <1>2, <2>2
  <2> HIDE DEF c
  <2>4. QED
    BY <1>1, <2>1, <2>2, <2>3, StoreFacts
<1>5. bytes \in [0 .. Size - 1 -> Byte]
  BY <1>1, WrittenType
<1>6. Becomes(p, n, bytes, new, fresh)
  BY <1>3 DEF StoreAt
<1>7. ASSUME NEW k \in AllCells, k \in fresh \/ (k \notin new /\ <<p, k>> \notin stale)
      PROVE  Finds(bytes, k.o, k.s) \subseteq n.inv[k]
  <2>1. Finds(bytes, k.o, k.s) \subseteq Values
    BY <1>5, FindsValues
  <2>2. <<p, k>> \notin stale => Finds(real[p], k.o, k.s) \subseteq inv[p][k]
    BY DEF Covering
  <2>3. k \notin Overlapped(i, s) => Finds(bytes, k.o, k.s) = Finds(real[p], k.o, k.s)
    BY <1>1, FindsElsewhere
  <2>4. CASE is_bottom(inv[p])
    <3>1. k \notin Overlapped(i, s) /\ <<p, k>> \notin stale
      BY <1>7, <2>4
    <3>2. QED
      BY <1>1, <1>4, <2>2, <2>3, <2>4, <3>1
  <2>5. CASE ~is_bottom(inv[p]) /\ IsConstant(index)
    <3>1. CASE k = c
      <4>1. Finds(bytes, k.o, k.s) = {v}
        <5>1. bytes = Written(real[p], k.o, k.s, v)
          BY <1>2, <3>1
        <5>2. Finds(Written(real[p], k.o, k.s, v), k.o, k.s) = {v}
          BY <1>1, FindsWritten
        <5>3. QED
          BY <5>1, <5>2
      <4>2. QED
        BY <1>4, <2>5, <3>1, <4>1
    <3>2. CASE k # c
      <4>1. k \notin new /\ <<p, k>> \notin stale
        BY <1>7, <3>2
      <4>2. k \in Overlapped(i, s) => k \in over
        <5>1. ASSUME k \in Overlapped(i, s) PROVE k \in over
          <6>1. k \in cells /\ ~Hidden(k, i, s) /\ overlap(k, i, s)
            BY <1>3, <2>5, <4>1, <5>1 DEF Missed, Absent, Overlapped
          <6>2. k \in get_overlap_cells(cells, i, s)
            BY <1>1, <3>2, <6>1, FoundUnlessHidden
          <6>3. QED
            BY <1>3, <2>5, <6>2
        <5>2. QED
          BY <5>1
      <4>3. QED
        BY <1>4, <2>1, <2>2, <2>3, <2>5, <3>2, <4>1, <4>2
    <3>3. QED
      BY <3>1, <3>2
  <2>6. CASE ~is_bottom(inv[p]) /\ ~IsConstant(index)
    <3>1. k \notin new /\ <<p, k>> \notin stale
      BY <1>7, <2>6
    <3>2. k \in Overlapped(i, s) => k \in some
      <4>1. ASSUME k \in Overlapped(i, s) PROVE k \in some
        <5>1. k \in cells /\ ~Inside(k, index, s) /\ overlap(k, i, s)
          BY <2>6, <3>1, <4>1 DEF Missed, Absent, Overlapped
        <5>2. QED
          BY <1>1, <5>1, FoundUnlessInside
      <4>2. QED
        BY <4>1
    <3>3. QED
      BY <1>4, <2>1, <2>2, <2>3, <2>6, <3>1, <3>2
  <2>7. QED
    BY <2>4, <2>5, <2>6
<1>8. /\ Covering' /\ cells' \subseteq AllCells
      /\ inv' \in [States -> [AllCells -> SUBSET Values]]
      /\ real' \in [States -> [0 .. Size - 1 -> Byte]]
  <2> HIDE DEF n, bytes, new, fresh
  <2>1. QED
    BY <1>4, <1>5, <1>6, <1>7, BecomesCovers
<1>9. ASSUME ~crossed, NEW x \in cells', NEW y \in cells', x # y PROVE ~overlap(x, y.o, y.s)
  <2>1. \A a, b \in cells : a # b => ~overlap(a, b.o, b.s)
    BY <1>9 DEF CellsApart
  <2>2. cells' = n.cells
    BY <1>6 DEF Becomes
  <2>3. CASE cells' \subseteq cells
    BY <1>9, <2>1, <2>3
  <2>4. CASE cells' = (cells \ over) \cup {c} /\ IsConstant(index)
    <3>1. over = get_overlap_cells(cells, c.o, c.s)
      BY <1>2, <1>3, <2>4
    <3> HIDE DEF c, over
    <3>2. QED
      BY <1>1, <1>2, <1>9, <2>1, <2>4, <3>1, AddedApart
  <2>5. QED
    BY <1>1, <1>4, <2>2, <2>3, <2>4
<1>10. QED
  BY <1>8, <1>9

LEMMA LoadStep ==
    ASSUME Shape, Covering, CellsApart, NEW p \in States,
           NEW index, index.lo \in Nat, NEW s \in Sizes, index.lo + s <= Size,
           Becomes(p, array_load(M(p), index, s), real[p], {}, {})
    PROVE  /\ Covering' /\ cells' \subseteq AllCells
           /\ inv' \in [States -> [AllCells -> SUBSET Values]]
           /\ real' \in [States -> [0 .. Size - 1 -> Byte]]
           /\ ~crossed => \A x, y \in cells' : x # y => ~overlap(x, y.o, y.s)
<1> DEFINE c == Cell(index.lo, s)
           n == array_load(M(p), index, s)
<1>1. /\ M(p) \in AbsState /\ M(p).cells = cells /\ M(p).inv = inv[p]
      /\ cells \in SUBSET AllCells /\ real[p] \in [0 .. Size - 1 -> Byte]
  BY StateFacts DEF Shape
<1>2. c \in AllCells
  BY CellIn
<1>3. /\ n \in AbsState /\ n.inv = inv[p]
      /\ \/ n.cells = cells
         \/ n.cells = cells \cup {c} /\ get_overlap_cells(cells, c.o, c.s) = {}
  BY <1>1, <1>2, LoadFacts
<1>4. /\ Covering' /\ cells' \subseteq AllCells
      /\ inv' \in [States -> [AllCells -> SUBSET Values]]
      /\ real' \in [States -> [0 .. Size - 1 -> Byte]]
  <2>1. Becomes(p, n, real[p], {}, {})
    OBVIOUS
  <2>2. \A k \in AllCells : <<p, k>> \notin stale => Finds(real[p], k.o, k.s) \subseteq n.inv[k]
    BY <1>3 DEF Covering
  <2> HIDE DEF n
  <2>3. QED
    BY <1>1, <1>3, <2>1, <2>2, BecomesCovers
<1>5. ASSUME ~crossed PROVE \A x, y \in cells' : x # y => ~overlap(x, y.o, y.s)
  <2>1. \A x, y \in cells : x # y => ~overlap(x, y.o, y.s)
    BY <1>5 DEF CellsApart
  <2>2. cells' = n.cells
    BY DEF Becomes
  <2>3. CASE n.cells = cells
    BY <2>1, <2>2, <2>3
  <2>4. CASE n.cells = cells \cup {c} /\ get_overlap_cells(cells, c.o, c.s) = {}
    <3> HIDE DEF c, n
    <3>1. cells' = (cells \ get_overlap_cells(cells, c.o, c.s)) \cup {c}
      BY <2>2, <2>4
    <3>2. QED
      BY <1>1, <1>2, <2>1, <3>1, AddedApart
  <2>5. QED
    BY <1>3, <2>3, <2>4
<1>6. QED
  BY <1>4, <1>5

\* The bounds of accesses and ranges are in the array.
LEMMA IndexFacts ==
    /\ \A x \in Indexes : x.lo \in Nat /\ x.hi \in Nat
    /\ \A r \in Ranges : /\ r[1].lo \in Nat /\ r[1].hi \in Nat
                         /\ r[2].lo \in Nat /\ r[2].hi \in Nat
<1>1. \A x \in Indexes \cup UNION {{r[1], r[2]} : r \in Ranges} : x.lo \in Nat /\ x.hi \in Nat
  BY PairAssumption, ArrayAssumption
<1>2. \A r \in Ranges : {r[1], r[2]} \subseteq UNION {{q[1], q[2]} : q \in Ranges}
  OBVIOUS
<1>3. QED
  BY <1>1, <1>2

\* A range is stored by a loop, or the state is left as it is and every scalar
\* of the bytes of the range is out of date.
LEMMA RangeStep ==
    ASSUME Shape, Covering, NEW p \in States, NEW m \in AbsState,
           NEW bytes \in [0 .. Size - 1 -> Byte], NEW new, BeginRange(p, m, bytes, new),
           m.cells \subseteq cells,
           \A k \in AllCells : (k \notin new /\ <<p, k>> \notin stale)
                                 => Finds(bytes, k.o, k.s) \subseteq m.inv[k]
    PROVE  /\ Covering' /\ cells' \subseteq cells
           /\ inv' \in [States -> [AllCells -> SUBSET Values]]
           /\ real' \in [States -> [0 .. Size - 1 -> Byte]]
           /\ todo' = None \/ IsTodo(todo')
<1> DEFINE Stored(r, s, v, lb, ub) ==
             LET size == Extent(lb, ub, s) IN
             /\ lb <= ub /\ lb + size <= Size
             /\ IF InRange(r[1], r[2]) /\ ~is_bottom(m.inv)
                THEN /\ Becomes(p, m, bytes, new, {})
                     /\ todo' = [p |-> p, i |-> lb, ub |-> ub, s |-> s, v |-> v]
                ELSE /\ Becomes(p, m, WrittenRange(bytes, lb, ub, s, v),
                                new \cup Overlapped(lb, size), {})
                     /\ todo' = None
<1> PICK r \in Ranges, s \in Sizes, v \in Values :
           \E lb \in r[1].lo .. r[1].hi, ub \in r[2].lo .. r[2].hi : Stored(r, s, v, lb, ub)
  BY DEF BeginRange
<1> PICK lb \in r[1].lo .. r[1].hi, ub \in r[2].lo .. r[2].hi : Stored(r, s, v, lb, ub)
  OBVIOUS
<1> DEFINE size   == Extent(lb, ub, s)
           later  == WrittenRange(bytes, lb, ub, s, v)
<1>1. /\ lb \in Nat /\ ub \in Int /\ s \in Nat \ {0} /\ lb <= ub
      /\ lb + Extent(lb, ub, s) <= Size
  BY IndexFacts, ArrayAssumption
<1>2. cells' = m.cells
  BY DEF Becomes
<1>3. CASE InRange(r[1], r[2]) /\ ~is_bottom(m.inv)
  <2>1. Becomes(p, m, bytes, new, {}) /\ todo' = [p |-> p, i |-> lb, ub |-> ub, s |-> s, v |-> v]
    BY <1>3
  <2>2. \A j \in Nat : lb + s * j <= ub => lb + s * j + s <= Size
    <3> SUFFICES ASSUME NEW j \in Nat, lb + s * j <= ub PROVE lb + s * j + s <= Size
      OBVIOUS
    <3> HIDE DEF Stored
    <3>1. QED
      BY <1>1, RangeFits, Zenon
  <2>3. IsTodo(todo')
    BY <1>1, <2>1, <2>2 DEF IsTodo
  <2>4. QED
    BY <1>2, <2>1, <2>3, BecomesCovers
<1>4. CASE ~(InRange(r[1], r[2]) /\ ~is_bottom(m.inv))
  <2>1. Becomes(p, m, later, new \cup Overlapped(lb, size), {}) /\ todo' = None
    BY <1>4
  <2>2. /\ later \in [0 .. Size - 1 -> Byte] /\ size \in Int
        /\ ReadSame(later, bytes, lb, size)
    <3> HIDE DEF Stored
    <3>1. size \in Int
      BY <1>1, RangeBytes, Zenon
    <3>2. later \in [0 .. Size - 1 -> Byte]
      BY <1>1, RangeBytes, Zenon
    <3>3. ReadSame(later, bytes, lb, size)
      BY <1>1, RangeBytes, Zenon
    <3>4. QED
      BY <3>1, <3>2, <3>3
  <2> HIDE DEF size, later
  <2>3. ASSUME NEW k \in AllCells, k \notin new \cup Overlapped(lb, size), <<p, k>> \notin stale
        PROVE  Finds(later, k.o, k.s) \subseteq m.inv[k]
    BY <2>2, <2>3 DEF ReadSame
  <2>4. QED
    BY <1>2, <2>1, <2>2, <2>3, BecomesCovers
<1>5. QED
  BY <1>3, <1>4

LEMMA StoreRangeStep ==
    ASSUME Shape, Covering, CellsApart, NEW p \in States, StoreRange(p)
    PROVE  Shape' /\ Covering' /\ CellsApart'
<1>1. /\ M(p) \in AbsState /\ M(p).cells = cells /\ M(p).inv = inv[p]
      /\ real[p] \in [0 .. Size - 1 -> Byte]
  BY StateFacts DEF Shape
<1>2. /\ Covering' /\ cells' \subseteq cells
      /\ inv' \in [States -> [AllCells -> SUBSET Values]]
      /\ real' \in [States -> [0 .. Size - 1 -> Byte]]
      /\ todo' = None \/ IsTodo(todo')
  BY <1>1, RangeStep DEF StoreRange, Covering
<1>3. crossed' = crossed
  BY DEF StoreRange
<1>4. QED
  BY <1>2, <1>3 DEF Shape, CellsApart

LEMMA ArrayInitStep ==
    ASSUME Shape, Covering, CellsApart, NEW p \in States, ArrayInit(p)
    PROVE  Shape' /\ Covering' /\ CellsApart'
<1> DEFINE m   == array_init(M(p))
           new == {k \in AllCells : is_bottom(inv[p]) \/ Absent(k)}
<1>1. M(p) \in AbsState /\ M(p).cells = cells /\ M(p).inv = inv[p]
  BY StateFacts
<1>2. /\ m \in AbsState /\ m.cells \subseteq cells
      /\ ~is_bottom(inv[p]) => \A k \in cells \cap AllCells : m.inv[k] = Values
  BY <1>1, KillFacts DEF array_init
<1>3. \A k \in AllCells : k \notin new => Finds(Unwritten, k.o, k.s) \subseteq m.inv[k]
  BY <1>2, FindsUnwritten DEF Absent
<1>4. BeginRange(p, m, Unwritten, new) /\ crossed' = crossed
  BY DEF ArrayInit
<1> HIDE DEF m, new
<1>5. /\ Covering' /\ cells' \subseteq cells
      /\ inv' \in [States -> [AllCells -> SUBSET Values]]
      /\ real' \in [States -> [0 .. Size - 1 -> Byte]]
      /\ todo' = None \/ IsTodo(todo')
  BY <1>2, <1>3, <1>4, UnwrittenType, RangeStep
<1>6. QED
  BY <1>4, <1>5 DEF Shape, CellsApart

LEMMA ElementStep ==
    ASSUME Shape, Covering, CellsApart, Element
    PROVE  Shape' /\ Covering' /\ CellsApart'
<1>1. IsTodo(todo) /\ crossed' = crossed
  BY DEF Element, Shape
<1>2. CASE todo.i <= todo.ub
  <2> DEFINE index == [lo |-> todo.i, hi |-> todo.i]
  <2>1. /\ StoreAt(todo.p, index, todo.i, todo.s, todo.v)
        /\ todo' = [todo EXCEPT !.i = @ + todo.s]
    BY <1>2 DEF Element
  <2>2. todo.p \in States /\ todo.i \in Nat /\ todo.s \in Sizes /\ todo.v \in Values
        /\ todo.s \in Nat \ {0} /\ todo.ub \in Int
    BY <1>1, ArrayAssumption DEF IsTodo
  <2>3. todo.i + todo.s <= Size
    <3>1. todo.i + todo.s * 0 <= todo.ub => todo.i + todo.s * 0 + todo.s <= Size
      BY <1>1 DEF IsTodo
    <3>2. QED
      BY <1>2, <2>2, <3>1
  <2>4. /\ Covering' /\ cells' \subseteq AllCells
        /\ inv' \in [States -> [AllCells -> SUBSET Values]]
        /\ real' \in [States -> [0 .. Size - 1 -> Byte]]
        /\ ~crossed => \A x, y \in cells' : x # y => ~overlap(x, y.o, y.s)
    <3>1. index.lo \in Nat /\ index.hi \in Nat /\ todo.i \in index.lo .. index.hi
      BY <2>2
    <3> HIDE DEF index
    <3>2. QED
      BY <2>1, <2>2, <2>3, <3>1, StoreStep
  <2>5. IsTodo(todo')
    <3>1. /\ todo'.p = todo.p /\ todo'.ub = todo.ub /\ todo'.s = todo.s /\ todo'.v = todo.v
          /\ todo'.i = todo.i + todo.s
      BY <2>1
    <3>2. ASSUME NEW j \in Nat, todo'.i + todo'.s * j <= todo'.ub
          PROVE  todo'.i + todo'.s * j + todo'.s <= Size
      <4>1. j + 1 \in Nat /\ todo.s * (j + 1) = todo.s * j + todo.s
        BY <2>2
      <4>2. todo.i + todo.s * (j + 1) <= todo.ub => todo.i + todo.s * (j + 1) + todo.s <= Size
        BY <1>1, <4>1 DEF IsTodo
      <4>3. todo.s * j \in Int /\ Size \in Int
        BY <2>2, ArrayAssumption
      <4>4. QED
        BY <2>2, <3>1, <3>2, <4>1, <4>2, <4>3
    <3>3. QED
      BY <2>2, <3>1, <3>2 DEF IsTodo
  <2>6. QED
    BY <1>1, <2>4, <2>5 DEF Shape, CellsApart
<1>3. CASE ~(todo.i <= todo.ub)
  <2>1. todo' = None /\ UNCHANGED <<cells, inv, real, stale>>
    BY <1>3 DEF Element
  <2>2. QED
    BY <1>1, <2>1 DEF Shape, Covering, CellsApart
<1>4. QED
  BY <1>2, <1>3

LEMMA LoadAndStore ==
    ASSUME Shape, Covering, CellsApart, NEW p \in States, Store(p) \/ Load(p)
    PROVE  Shape' /\ Covering' /\ CellsApart'
<1>1. crossed' = crossed /\ todo' = todo
  BY DEF Store, Load
<1>2. /\ Covering' /\ cells' \subseteq AllCells
      /\ inv' \in [States -> [AllCells -> SUBSET Values]]
      /\ real' \in [States -> [0 .. Size - 1 -> Byte]]
      /\ ~crossed => \A x, y \in cells' : x # y => ~overlap(x, y.o, y.s)
  <2>1. CASE Store(p)
    <3>1. PICK index \in Indexes, s \in Sizes, v \in Values :
            Fits(index, s) /\ \E i \in index.lo .. index.hi : StoreAt(p, index, i, s, v)
      BY <2>1 DEF Store
    <3>2. PICK i \in index.lo .. index.hi : StoreAt(p, index, i, s, v)
      BY <3>1
    <3>3. index.lo \in Nat /\ index.hi \in Nat /\ s \in Nat /\ Size \in Nat
      BY IndexFacts, ArrayAssumption
    <3>4. i + s <= Size
      BY <3>1, <3>3 DEF Fits
    <3>5. QED
      BY <3>2, <3>3, <3>4, StoreStep
  <2>2. CASE Load(p)
    <3>1. PICK index \in Indexes, s \in Sizes :
            Fits(index, s) /\ Becomes(p, array_load(M(p), index, s), real[p], {}, {})
      BY <2>2 DEF Load
    <3>2. index.lo \in Nat /\ index.hi \in Nat /\ s \in Nat /\ Size \in Nat
      BY IndexFacts, ArrayAssumption
    <3>3. index.lo + s <= Size
      BY <3>1, <3>2 DEF Fits
    <3>4. QED
      BY <3>1, <3>2, <3>3, LoadStep
  <2>3. QED
    BY <2>1, <2>2
<1>3. QED
  BY <1>1, <1>2 DEF Shape, CellsApart

\* A join, a meet or a copy says of each array what one of the two said.
LEMMA CombineStep ==
    ASSUME Shape, Covering, CellsApart, NEW p \in States, NEW q \in States,
           Join(p, q) \/ Meet(p, q) \/ Copy(p, q)
    PROVE  Shape' /\ Covering' /\ CellsApart'
<1>1. /\ inv[p] \in [AllCells -> SUBSET Values] /\ inv[q] \in [AllCells -> SUBSET Values]
      /\ real[p] \in [0 .. Size - 1 -> Byte] /\ real[q] \in [0 .. Size - 1 -> Byte]
  BY DEF Shape
<1>2. \E value \in [AllCells -> SUBSET Values], bytes \in {real[p], real[q]} :
        /\ inv' = [inv EXCEPT ![p] = value] /\ real' = [real EXCEPT ![p] = bytes]
        /\ UNCHANGED <<cells, crossed, todo>>
        /\ \A r \in States \ {p}, k \in AllCells : <<r, k>> \in stale => <<r, k>> \in stale'
        /\ \A k \in AllCells : <<p, k>> \notin stale' =>
             Finds(bytes, k.o, k.s) \subseteq value[k]
  <2>1. \A k \in AllCells : /\ <<p, k>> \notin stale => Finds(real[p], k.o, k.s) \subseteq inv[p][k]
                            /\ <<q, k>> \notin stale => Finds(real[q], k.o, k.s) \subseteq inv[q][k]
                            /\ Finds(real[p], k.o, k.s) \subseteq Values
                            /\ Finds(real[q], k.o, k.s) \subseteq Values
    BY <1>1, FindsValues DEF Covering
  <2>2. ASSUME NEW r \in [AllCells -> SUBSET Values], NEW value, Settled(value, r),
               NEW bytes \in {real[p], real[q]}, Combine(p, q, value, bytes),
               \A k \in AllCells : <<p, k>> \notin stale /\ <<q, k>> \notin stale =>
                 Finds(bytes, k.o, k.s) \subseteq r[k]
        PROVE  \A k \in AllCells : <<p, k>> \notin stale' => Finds(bytes, k.o, k.s) \subseteq value[k]
    <3> SUFFICES ASSUME NEW k \in AllCells, <<p, k>> \notin stale'
                 PROVE  Finds(bytes, k.o, k.s) \subseteq value[k]
      OBVIOUS
    <3> DEFINE K == {j \in AllCells :
                       value[j] # Values /\ (<<p, j>> \in stale \/ <<q, j>> \in stale)}
    <3>1. k \notin Spread(value, K)
      BY <2>2 DEF Combine
    <3>2. \A j \in AllCells : value[j] # Values /\ j \notin K
                                => Finds(bytes, j.o, j.s) \subseteq r[j]
      BY <2>2
    <3>3. bytes \in [0 .. Size - 1 -> Byte]
      BY <1>1
    <3> HIDE DEF K
    <3>4. QED
      BY <2>2, <3>1, <3>2, <3>3, SpreadCovers
  <2>3. CASE Join(p, q)
    <3> DEFINE value == join(inv[p], inv[q])
    <3>1. PICK bytes \in {real[p], real[q]} : Combine(p, q, value, bytes)
      BY <2>3 DEF Join
    <3>2. /\ value \in [AllCells -> SUBSET Values]
          /\ \A k \in AllCells : value[k] = inv[p][k] \cup inv[q][k]
      BY <1>1, MeetFacts
    <3> HIDE DEF value
    <3>3. \A k \in AllCells : <<p, k>> \notin stale /\ <<q, k>> \notin stale =>
            Finds(bytes, k.o, k.s) \subseteq value[k]
      BY <2>1, <3>2
    <3>4. \A k \in AllCells : <<p, k>> \notin stale' => Finds(bytes, k.o, k.s) \subseteq value[k]
      BY <2>2, <3>1, <3>2, <3>3 DEF Settled
    <3>5. QED
      BY <3>1, <3>2, <3>4 DEF Combine
  <2>4. CASE Meet(p, q)
    <3> DEFINE r     == Both(inv[p], inv[q])
               value == meet(inv[p], inv[q])
    <3>1. real[p] = real[q] /\ Combine(p, q, value, real[p])
      BY <2>4 DEF Meet
    <3>2. /\ value \in [AllCells -> SUBSET Values] /\ r \in [AllCells -> SUBSET Values]
          /\ Settled(value, r)
      BY <1>1, MeetFacts DEF Settled
    <3>3. \A k \in AllCells : <<p, k>> \notin stale /\ <<q, k>> \notin stale =>
            Finds(real[p], k.o, k.s) \subseteq r[k]
      BY <2>1, <3>1 DEF Both
    <3> HIDE DEF value, r
    <3>4. \A k \in AllCells : <<p, k>> \notin stale' => Finds(real[p], k.o, k.s) \subseteq value[k]
      BY <2>2, <3>1, <3>2, <3>3
    <3>5. QED
      BY <3>1, <3>2, <3>4 DEF Combine
  <2>5. CASE Copy(p, q)
    <3>1. \A k \in AllCells : <<p, k>> \notin stale' => <<q, k>> \notin stale
      BY <2>5 DEF Copy
    <3>2. QED
      BY <1>1, <2>1, <2>5, <3>1 DEF Copy
  <2>6. QED
    BY <2>3, <2>4, <2>5
<1>3. PICK value \in [AllCells -> SUBSET Values], bytes \in {real[p], real[q]} :
        /\ inv' = [inv EXCEPT ![p] = value] /\ real' = [real EXCEPT ![p] = bytes]
        /\ UNCHANGED <<cells, crossed, todo>>
        /\ \A r \in States \ {p}, k \in AllCells : <<r, k>> \in stale => <<r, k>> \in stale'
        /\ \A k \in AllCells : <<p, k>> \notin stale' =>
             Finds(bytes, k.o, k.s) \subseteq value[k]
  BY <1>2
<1>4. Shape' /\ CellsApart'
  BY <1>1, <1>3 DEF Shape, CellsApart
<1>5. ASSUME NEW r \in States, NEW k \in AllCells, <<r, k>> \notin stale'
      PROVE  Finds(real'[r], k.o, k.s) \subseteq inv'[r][k]
  <2>1. CASE r = p
    <3>1. inv'[r] = value /\ real'[r] = bytes
      BY <1>3, <2>1 DEF Shape
    <3>2. QED
      BY <1>3, <1>5, <2>1, <3>1
  <2>2. CASE r # p
    <3>1. inv'[r] = inv[r] /\ real'[r] = real[r] /\ <<r, k>> \notin stale
      BY <1>3, <1>5, <2>2 DEF Shape
    <3>2. QED
      BY <3>1 DEF Covering
  <2>3. QED
    BY <2>1, <2>2
<1>6. QED
  BY <1>4, <1>5 DEF Covering

-----------------------------------------------------------------------------
(* Backward steps.                                                           *)

LEMMA MeetStateFacts ==
    ASSUME NEW m \in AbsState, NEW x \in [AllCells -> SUBSET Values]
    PROVE  LET n == [m EXCEPT !.inv = meet(@, x)]
               r == Both(m.inv, x)
           IN  /\ n \in AbsState /\ n.cells = m.cells
               /\ r \in [AllCells -> SUBSET Values] /\ Settled(n.inv, r)
<1>1. m.inv \in [AllCells -> SUBSET Values]
  BY DEF AbsState
<1>2. /\ meet(m.inv, x) \in [AllCells -> SUBSET Values]
      /\ Both(m.inv, x) \in [AllCells -> SUBSET Values]
      /\ Settled(meet(m.inv, x), Both(m.inv, x))
  BY <1>1, MeetFacts DEF Settled
<1>3. QED
  BY <1>2 DEF AbsState

LEMMA BackLoadStep ==
    ASSUME Shape, Covering, CellsApart, NEW p \in States, NEW q \in States, BackLoad(p, q)
    PROVE  Shape' /\ Covering' /\ CellsApart'
<1>1. PICK index \in Indexes, s \in Sizes, L \in SUBSET Values :
        /\ Fits(index, s)
        /\ \E i \in index.lo .. index.hi : Finds(real[p], i, s) \subseteq L
        /\ LET n == backward_array_load(M(q), index, s, L, inv[p])
           IN  /\ Becomes(q, n, real[q], StaleIn(p), {})
               /\ crossed' = (crossed \/ \E x, y \in n.cells : x # y /\ overlap(x, y.o, y.s))
  BY DEF BackLoad
<1> DEFINE c == Cell(index.lo, s)
           n == backward_array_load(M(q), index, s, L, inv[p])
<1>2. real[p] = real[q] /\ todo' = todo
  BY DEF BackLoad
<1>3. /\ M(q) \in AbsState /\ M(q).cells = cells /\ M(q).inv = inv[q]
      /\ inv[p] \in [AllCells -> SUBSET Values] /\ real[q] \in [0 .. Size - 1 -> Byte]
  BY StateFacts DEF Shape
<1>4. index.lo \in Nat /\ index.hi \in Nat /\ s \in Nat /\ Size \in Nat
  BY IndexFacts, ArrayAssumption
<1>5. c \in AllCells /\ c.o = index.lo /\ c.s = s
  BY <1>1, <1>4, CellIn DEF Fits
<1>6. IsConstant(index) => Finds(real[q], c.o, c.s) \subseteq L
  BY <1>1, <1>2, <1>4, <1>5 DEF IsConstant
<1>7. /\ n \in AbsState
      /\ \E r \in [AllCells -> SUBSET Values] :
           /\ Settled(n.inv, r)
           /\ \A k \in AllCells :
                \/ r[k] = inv[q][k]
                \/ r[k] = inv[q][k] \cap inv[p][k]
                \/ IsConstant(index) /\ k = c /\ r[k] = (inv[q][k] \cap L) \cap inv[p][k]
  <2>1. CASE is_bottom(inv[q])
    BY <1>3, <2>1 DEF backward_array_load, Settled, AbsState
  <2>2. CASE ~is_bottom(inv[q]) /\ Known(index, inv[p])
    <3> DEFINE k1 == mk_cell(M(q), index.lo, s)
               V  == inv[q][c] \cap L
               k2 == do_assign(k1, c, V)
               k3 == [k2 EXCEPT !.inv = meet(@, inv[p])]
               r  == Both(k2.inv, inv[p])
    <3>1. n = k3 /\ IsConstant(index)
      BY <1>3, <2>2 DEF backward_array_load, Known
    <3>2. k1 \in AbsState /\ k1.inv = inv[q]
      <4> HIDE DEF c
      <4>1. mk_cell(M(q), c.o, c.s) \in AbsState /\ mk_cell(M(q), c.o, c.s).inv = inv[q]
        BY <1>3, <1>5, MakeFacts
      <4>2. QED
        BY <1>5, <4>1
    <3>3. V \in SUBSET Values
      BY <1>1
    <3> HIDE DEF k1, c, V
    <3>4. k2 \in AbsState /\ \A k \in AllCells : k2.inv[k] = IF k = c THEN V ELSE inv[q][k]
      BY <1>5, <3>2, <3>3, AssignFacts
    <3> HIDE DEF k2
    <3>5. k3 \in AbsState /\ r \in [AllCells -> SUBSET Values] /\ Settled(k3.inv, r)
      BY <1>3, <3>4, MeetStateFacts
    <3>6. \A k \in AllCells : r[k] = k2.inv[k] \cap inv[p][k]
      BY DEF Both
    <3> HIDE DEF k3, n, r
    <3>7. \A k \in AllCells : \/ r[k] = inv[q][k] \cap inv[p][k]
                              \/ k = c /\ r[k] = (inv[q][k] \cap L) \cap inv[p][k]
      BY <3>4, <3>6 DEF V
    <3>8. QED
      BY <3>1, <3>5, <3>7
  <2>3. CASE ~is_bottom(inv[q]) /\ ~Known(index, inv[p])
    <3> DEFINE r == Both(inv[q], inv[p])
    <3>1. n = [M(q) EXCEPT !.inv = meet(@, inv[p])]
      BY <1>3, <2>3 DEF backward_array_load
    <3>2. \A k \in AllCells : r[k] = inv[q][k] \cap inv[p][k]
      BY DEF Both
    <3> HIDE DEF n
    <3>3. n \in AbsState /\ r \in [AllCells -> SUBSET Values] /\ Settled(n.inv, r)
      BY <1>3, <3>1, MeetStateFacts
    <3> HIDE DEF r
    <3>4. QED
      BY <3>2, <3>3
  <2>4. QED
    BY <2>1, <2>2, <2>3
<1>8. PICK r \in [AllCells -> SUBSET Values] :
        /\ Settled(n.inv, r)
        /\ \A k \in AllCells :
             \/ r[k] = inv[q][k]
             \/ r[k] = inv[q][k] \cap inv[p][k]
             \/ IsConstant(index) /\ k = c /\ r[k] = (inv[q][k] \cap L) \cap inv[p][k]
  BY <1>7
<1>9. ASSUME NEW k \in AllCells, k \notin StaleIn(p), <<q, k>> \notin stale
      PROVE  Finds(real[q], k.o, k.s) \subseteq r[k]
  <2>1. Finds(real[q], k.o, k.s) \subseteq inv[q][k] /\ Finds(real[q], k.o, k.s) \subseteq inv[p][k]
    BY <1>2, <1>9 DEF Covering, StaleIn
  <2> HIDE DEF n, c
  <2>2. QED
    BY <1>6, <1>8, <2>1
<1>10. /\ Covering' /\ cells' \subseteq AllCells
      /\ inv' \in [States -> [AllCells -> SUBSET Values]]
      /\ real' \in [States -> [0 .. Size - 1 -> Byte]]
  <2>1. Becomes(q, n, real[q], StaleIn(p), {})
    BY <1>1
  <2> HIDE DEF n
  <2>2. QED
    BY <1>3, <1>7, <1>8, <1>9, <2>1, BecomesSettled
<1>11. CellsApart' /\ crossed' \in BOOLEAN
  BY <1>1 DEF CellsApart, Becomes, Shape
<1>12. QED
  BY <1>2, <1>10, <1>11 DEF Shape

\* n says of the scalars, but for those in E, what m and x say, less what m says
\* of those in K.
Knows(n, m, K, x, E) ==
    \E r \in [AllCells -> SUBSET Values] :
        /\ Settled(n.inv, r)
        /\ \A k \in AllCells \ E : r[k] = (IF k \in K THEN Values ELSE m.inv[k]) \cap x[k]

LEMMA KnowsForgotten ==
    ASSUME NEW m \in AbsState, NEW k1 \in AbsState, NEW x \in [AllCells -> SUBSET Values],
           NEW n, n = [k1 EXCEPT !.inv = meet(@, x)], NEW K, NEW E,
           \A k \in AllCells \ E : k1.inv[k] = IF k \in K THEN Values ELSE m.inv[k]
    PROVE  n \in AbsState /\ n.cells = k1.cells /\ Knows(n, m, K, x, E)
<1> DEFINE r == Both(k1.inv, x)
<1>1. /\ n \in AbsState /\ n.cells = k1.cells
      /\ r \in [AllCells -> SUBSET Values] /\ Settled(n.inv, r)
  BY MeetStateFacts
<1>2. \A k \in AllCells : r[k] = k1.inv[k] \cap x[k]
  BY DEF Both
<1> HIDE DEF r
<1>3. QED
  BY <1>1, <1>2 DEF Knows

\* A store of a value other than the one known of its cell leaves bottom.
Differs(m, c, V) == {k \in {c} : m.inv[c] \cap V = {}}

Narrowed(a, m, c, V) ==
    \A k \in AllCells : a.inv[k] = IF k = c THEN m.inv[c] \cap V ELSE m.inv[k]
Loosened(n, m, c, V) ==
    \A k \in AllCells \ Differs(m, c, V) : n.inv[k] = IF k \in {c} THEN Values ELSE m.inv[k]
Unassigned(a, c) == [a EXCEPT !.inv = Forgotten(@, c)]

LEMMA BackAssignFacts ==
    ASSUME NEW m \in AbsState, ~is_bottom(m.inv), NEW c \in AllCells, NEW V \in SUBSET Values,
           NEW a \in AbsState, Narrowed(a, m, c, V)
    PROVE  /\ Unassigned(a, c) \in AbsState /\ Unassigned(a, c).cells = a.cells
           /\ Loosened(Unassigned(a, c), m, c, V)
<1> DEFINE n == Unassigned(a, c)
<1>1. a.inv \in [AllCells -> SUBSET Values]
  BY DEF AbsState
<1>2. CASE is_bottom(a.inv)
  <2>1. n = a
    BY <1>2 DEF Forgotten, AbsState, Unassigned
  <2>2. PICK j \in AllCells : a.inv[j] = {}
    BY <1>2 DEF is_bottom
  <2>3. j = c /\ m.inv[c] \cap V = {}
    BY <2>2 DEF is_bottom, Narrowed
  <2>4. QED
    BY <2>1, <2>3 DEF Differs, Narrowed, Loosened
<1>3. CASE ~is_bottom(a.inv)
  <2>1. n = [a EXCEPT !.inv = [@ EXCEPT ![c] = Values]]
    BY <1>3 DEF Forgotten, Unassigned
  <2>2. /\ n \in AbsState /\ n.cells = a.cells
        /\ \A k \in AllCells : n.inv[k] = IF k = c THEN Values ELSE a.inv[k]
    BY <1>1, <2>1 DEF AbsState
  <2>3. QED
    BY <2>2 DEF Narrowed, Loosened
<1>4. QED
  BY <1>2, <1>3

\* What a backward store makes of m; c is the cell that is stored, over and some
\* those found to overlap it.
StoredBack(n, m, constant, c, over, some, V, x) ==
    /\ n \in AbsState
    /\ is_bottom(m.inv) => n = m
    /\ ~is_bottom(m.inv) /\ is_bottom(x) => n.cells = m.cells /\ Settled(n.inv, x)
    /\ ~is_bottom(m.inv) /\ ~is_bottom(x) /\ ~constant =>
         n.cells \subseteq m.cells /\ Knows(n, m, some, x, {})
    /\ ~is_bottom(m.inv) /\ ~is_bottom(x) /\ constant /\ over # {} =>
         n.cells \subseteq m.cells /\ Knows(n, m, over, x, {})
    /\ ~is_bottom(m.inv) /\ ~is_bottom(x) /\ constant /\ over = {} =>
         n.cells = (m.cells \ over) \cup {c} /\ Knows(n, m, {c}, x, Differs(m, c, V))

LEMMA BackStoreFacts ==
    ASSUME NEW m \in AbsState, NEW index, NEW s, NEW V \in SUBSET Values,
           NEW x \in [AllCells -> SUBSET Values],
           IsConstant(index) => Cell(index.lo, s) \in AllCells
    PROVE  StoredBack(backward_array_store(m, index, s, V, x), m, IsConstant(index),
                      Cell(index.lo, s), get_overlap_cells(m.cells, index.lo, s),
                      get_overlap_cells_symbolic_offset(m.cells, index, s), V, x)
<1> DEFINE n         == backward_array_store(m, index, s, V, x)
           c         == Cell(index.lo, s)
           over      == get_overlap_cells(m.cells, index.lo, s)
           some      == get_overlap_cells_symbolic_offset(m.cells, index, s)
           before(k) == [k EXCEPT !.inv = meet(@, x)]
<1>1. ASSUME NEW K, n = before(kill_cells(m, K))
      PROVE  n \in AbsState /\ n.cells \subseteq m.cells /\ Knows(n, m, K, x, {})
  <2> DEFINE k1 == kill_cells(m, K)
  <2>1. /\ k1 \in AbsState /\ k1.cells = m.cells \ K
        /\ \A k \in AllCells : k1.inv[k] = IF k \in K THEN Values ELSE m.inv[k]
    BY KillFacts
  <2>2. n = [k1 EXCEPT !.inv = meet(@, x)]
    BY <1>1
  <2>3. \A k \in AllCells \ {} : k1.inv[k] = IF k \in K THEN Values ELSE m.inv[k]
    BY <2>1
  <2> HIDE DEF k1, n
  <2>4. n \in AbsState /\ n.cells = k1.cells /\ Knows(n, m, K, x, {})
    BY <2>1, <2>2, <2>3, KnowsForgotten
  <2>5. QED
    BY <2>1, <2>4
<1>2. CASE is_bottom(m.inv)
  BY <1>2 DEF backward_array_store, StoredBack
<1>3. CASE ~is_bottom(m.inv) /\ is_bottom(x)
  <2>1. n = before(m)
    BY <1>3 DEF backward_array_store
  <2> DEFINE r == Both(m.inv, x)
  <2>2. \A k \in AllCells : r[k] = m.inv[k] \cap x[k]
    BY DEF Both
  <2> HIDE DEF n
  <2>3. /\ n \in AbsState /\ n.cells = m.cells /\ n.inv = Reduced(r)
        /\ m.inv \in [AllCells -> SUBSET Values]
    BY <2>1, MeetStateFacts, MeetFacts DEF AbsState
  <2> HIDE DEF r
  <2>4. is_bottom(r)
    BY <1>3, <2>2 DEF is_bottom
  <2>5. n.inv = Reduced(x)
    BY <1>3, <2>3, <2>4 DEF Reduced
  <2>6. QED
    BY <1>3, <2>3, <2>5 DEF n, Settled, StoredBack
<1>4. CASE ~is_bottom(m.inv) /\ ~is_bottom(x) /\ ~IsConstant(index)
  <2>1. n = before(kill_cells(m, some))
    BY <1>4 DEF backward_array_store
  <2> HIDE DEF some, n, over, c, StoredBack
  <2>2. n \in AbsState /\ n.cells \subseteq m.cells /\ Knows(n, m, some, x, {})
    BY <1>1, <2>1
  <2>3. QED
    BY <1>4, <2>2 DEF some, n, over, c, StoredBack
<1>5. CASE ~is_bottom(m.inv) /\ ~is_bottom(x) /\ IsConstant(index) /\ over # {}
  <2>1. n = before(kill_cells(m, over))
    BY <1>5 DEF backward_array_store
  <2> HIDE DEF some, n, over, c, StoredBack
  <2>2. n \in AbsState /\ n.cells \subseteq m.cells /\ Knows(n, m, over, x, {})
    BY <1>1, <2>1
  <2>3. QED
    BY <1>5, <2>2 DEF some, n, over, c, StoredBack
<1>6. CASE ~is_bottom(m.inv) /\ ~is_bottom(x) /\ IsConstant(index) /\ over = {}
  <2> DEFINE k1 == mk_cell(m, index.lo, s)
             W  == m.inv[c] \cap V
             k2 == do_assign(k1, c, W)
             k3 == Unassigned(k2, c)
  <2>1. n = [k3 EXCEPT !.inv = meet(@, x)]
    BY <1>6 DEF backward_array_store, Unassigned
  <2>2. c \in AllCells /\ c.o = index.lo /\ c.s = s
    BY <1>6 DEF Cell
  <2>3. k1 \in AbsState /\ k1.inv = m.inv /\ k1.cells = m.cells \cup {c}
    <3> HIDE DEF c
    <3>1. /\ mk_cell(m, c.o, c.s) \in AbsState /\ mk_cell(m, c.o, c.s).inv = m.inv
          /\ mk_cell(m, c.o, c.s).cells = m.cells \cup {c}
      BY <2>2, MakeFacts
    <3>2. QED
      BY <2>2, <3>1
  <2> HIDE DEF k1, c, over
  <2>4. /\ k2 \in AbsState /\ k2.cells = k1.cells
        /\ Narrowed(k2, m, c, V)
    <3>1. W \in SUBSET Values
      OBVIOUS
    <3> HIDE DEF W
    <3>2. \A k \in AllCells : k2.inv[k] = IF k = c THEN W ELSE m.inv[k]
      BY <2>2, <2>3, <3>1, AssignFacts
    <3>3. k2 \in AbsState /\ k2.cells = k1.cells
      BY <2>2, <2>3, <3>1, AssignFacts
    <3>4. QED
      BY <3>2, <3>3 DEF Narrowed, W
  <2> HIDE DEF k2
  <2>5. /\ k3 \in AbsState /\ k3.cells = k2.cells
        /\ Loosened(k3, m, c, V)
    BY <1>6, <2>2, <2>4, BackAssignFacts
  <2> HIDE DEF k3, n
  <2>6. n \in AbsState /\ n.cells = k3.cells /\ Knows(n, m, {c}, x, Differs(m, c, V))
    BY <2>1, <2>5, KnowsForgotten DEF Loosened
  <2>7. n.cells = (m.cells \ over) \cup {c}
    BY <1>6, <2>3, <2>4, <2>5, <2>6
  <2>8. QED
    BY <1>6, <2>6, <2>7 DEF n, c, over, StoredBack
<1>7. QED
  BY <1>2, <1>3, <1>4, <1>5, <1>6

\* Before the store the bytes held what p says of them, and the others what
\* they hold after it.
LEMMA BackStoreStep ==
    ASSUME Shape, Covering, CellsApart, NEW p \in States, NEW q \in States, BackStore(p, q)
    PROVE  Shape' /\ Covering' /\ CellsApart'
<1>1. PICK index \in Indexes, s \in Sizes, v \in Values, V \in SUBSET Values :
        /\ Fits(index, s) /\ v \in V
        /\ \E i \in index.lo .. index.hi :
             real[q] = Written(real[p], i, s, v) /\ BackStoreAt(p, q, index, i, s, V)
  BY DEF BackStore
<1>2. PICK i \in index.lo .. index.hi :
        real[q] = Written(real[p], i, s, v) /\ BackStoreAt(p, q, index, i, s, V)
  BY <1>1
<1> DEFINE c       == Cell(i, s)
           over    == get_overlap_cells(cells, index.lo, s)
           some    == get_overlap_cells_symbolic_offset(cells, index, s)
           n       == backward_array_store(M(q), index, s, V, inv[p])
           left(k) == \/ is_bottom(inv[q])
                      \/ IF IsConstant(index) /\ k = c THEN Kept(i, s) ELSE Missed(k, index, s)
           new     == {k \in Overlapped(i, s) : left(k)} \cup StaleIn(p)
<1>3. UNCHANGED <<crossed, todo>>
  BY DEF BackStore
<1>4. /\ M(q) \in AbsState /\ M(q).cells = cells /\ M(q).inv = inv[q]
      /\ cells \in SUBSET AllCells
      /\ inv[p] \in [AllCells -> SUBSET Values] /\ inv[q] \in [AllCells -> SUBSET Values]
      /\ real[p] \in [0 .. Size - 1 -> Byte]
  BY StateFacts DEF Shape
<1>5. /\ index.lo \in Nat /\ index.hi \in Nat /\ i \in Nat /\ s \in Nat \ {0} /\ Size \in Nat
      /\ IsConstant(index) => index.lo = i
  BY IndexFacts, ArrayAssumption DEF IsConstant
<1>6. c \in AllCells /\ c.o = i /\ c.s = s
  <2>1. i + s <= Size
    BY <1>1, <1>5 DEF Fits
  <2>2. QED
    BY <1>5, <2>1, CellIn
<1>7. StoredBack(n, M(q), IsConstant(index), c, over, some, V, inv[p])
  <2>1. /\ IsConstant(index) => Cell(index.lo, s) = c
        /\ IsConstant(index) => Cell(index.lo, s) \in AllCells
    BY <1>5, <1>6
  <2> HIDE DEF c, n, over, some
  <2>2. StoredBack(n, M(q), IsConstant(index), Cell(index.lo, s), over, some, V, inv[p])
    <3>1. StoredBack(n, M(q), IsConstant(index), Cell(index.lo, s),
                     get_overlap_cells(M(q).cells, index.lo, s),
                     get_overlap_cells_symbolic_offset(M(q).cells, index, s), V, inv[p])
      BY <1>4, <2>1, BackStoreFacts DEF n
    <3>2. QED
      BY <1>4, <3>1 DEF over, some
  <2>3. QED
    BY <2>1, <2>2 DEF StoredBack
<1>8. Becomes(q, n, real[p], new, {})
  BY <1>2 DEF BackStoreAt
<1> HIDE DEF n, some, over, c
<1>9. ASSUME NEW k \in AllCells, k \notin new, <<q, k>> \notin stale
      PROVE  /\ Finds(real[p], k.o, k.s) \subseteq Values
             /\ Finds(real[p], k.o, k.s) \subseteq inv[p][k]
             /\ k \notin Overlapped(i, s) => Finds(real[p], k.o, k.s) \subseteq inv[q][k]
  <2>1. /\ Finds(real[p], k.o, k.s) \subseteq Values
        /\ Finds(real[p], k.o, k.s) \subseteq inv[p][k]
    BY <1>4, <1>9, FindsValues DEF Covering, StaleIn
  <2>2. k \notin Overlapped(i, s) => Finds(real[p], k.o, k.s) \subseteq inv[q][k]
    BY <1>2, <1>4, <1>5, <1>9, FindsElsewhere DEF Covering
  <2>3. QED
    BY <2>1, <2>2
<1>10. ASSUME NEW r \in [AllCells -> SUBSET Values], Settled(n.inv, r),
              \A k \in AllCells : k \notin new /\ <<q, k>> \notin stale
                                    => Finds(real[p], k.o, k.s) \subseteq r[k]
       PROVE  /\ Covering' /\ cells' \subseteq AllCells
              /\ inv' \in [States -> [AllCells -> SUBSET Values]]
              /\ real' \in [States -> [0 .. Size - 1 -> Byte]]
  <2> HIDE DEF new
  <2>1. QED
    BY <1>4, <1>7, <1>8, <1>10, BecomesSettled DEF StoredBack
<1>11. ASSUME NEW K, NEW E, Knows(n, M(q), K, inv[p], E),
              \A k \in AllCells : k \notin new /\ <<q, k>> \notin stale
                                    => k \notin E /\ (k \in Overlapped(i, s) => k \in K)
       PROVE  /\ Covering' /\ cells' \subseteq AllCells
              /\ inv' \in [States -> [AllCells -> SUBSET Values]]
              /\ real' \in [States -> [0 .. Size - 1 -> Byte]]
  <2>1. PICK r \in [AllCells -> SUBSET Values] :
          /\ Settled(n.inv, r)
          /\ \A k \in AllCells \ E :
               r[k] = (IF k \in K THEN Values ELSE inv[q][k]) \cap inv[p][k]
    BY <1>4, <1>11 DEF Knows
  <2> HIDE DEF new
  <2>2. ASSUME NEW k \in AllCells, k \notin new, <<q, k>> \notin stale
        PROVE  Finds(real[p], k.o, k.s) \subseteq r[k]
    <3>1. /\ k \notin E /\ (k \in Overlapped(i, s) => k \in K)
      BY <1>11, <2>2
    <3>2. QED
      BY <1>9, <2>1, <2>2, <3>1
  <2>3. QED
    BY <1>10, <2>1, <2>2
<1>12. /\ Covering' /\ cells' \subseteq AllCells
       /\ inv' \in [States -> [AllCells -> SUBSET Values]]
       /\ real' \in [States -> [0 .. Size - 1 -> Byte]]
  <2>1. CASE is_bottom(inv[q])
    <3>1. \A k \in AllCells : k \notin new => k \notin Overlapped(i, s)
      BY <2>1
    <3>2. n.inv = inv[q] /\ Settled(n.inv, inv[q])
      BY <1>4, <1>7, <2>1 DEF Settled, StoredBack
    <3> HIDE DEF new
    <3>3. QED
      BY <1>4, <1>9, <1>10, <3>1, <3>2
  <2>2. CASE ~is_bottom(inv[q]) /\ is_bottom(inv[p])
    <3>1. Settled(n.inv, inv[p])
      BY <1>4, <1>7, <2>2 DEF StoredBack
    <3> HIDE DEF new
    <3>2. QED
      BY <1>4, <1>9, <1>10, <3>1
  <2>3. CASE ~is_bottom(inv[q]) /\ ~is_bottom(inv[p]) /\ ~IsConstant(index)
    <3>1. ASSUME NEW k \in AllCells, k \notin new, k \in Overlapped(i, s) PROVE k \in some
      <4>1. k \in cells /\ ~Inside(k, index, s) /\ overlap(k, i, s)
        BY <2>3, <3>1 DEF Missed, Absent, Overlapped
      <4>2. QED
        BY <1>4, <1>5, <4>1, FoundUnlessInside DEF some
    <3>2. Knows(n, M(q), some, inv[p], {})
      BY <1>4, <1>7, <2>3 DEF StoredBack
    <3> HIDE DEF new
    <3>3. QED
      BY <1>11, <3>1, <3>2
  <2>4. CASE ~is_bottom(inv[q]) /\ ~is_bottom(inv[p]) /\ IsConstant(index)
    <3>1. ASSUME NEW k \in AllCells, k \notin new, k \in Overlapped(i, s), k # c PROVE k \in over
      <4>1. k \in cells /\ ~Hidden(k, i, s) /\ overlap(k, i, s)
        BY <1>5, <2>4, <3>1 DEF Missed, Absent, Overlapped
      <4>2. k \in get_overlap_cells(cells, i, s)
        BY <1>5, <3>1, <4>1, FoundUnlessHidden DEF c
      <4>3. QED
        BY <1>5, <2>4, <4>2 DEF over
    <3>2. CASE over # {}
      <4>1. ASSUME NEW k \in AllCells, k \notin new, k \in Overlapped(i, s) PROVE k # c
        BY <1>5, <2>4, <3>2, <4>1 DEF Kept, over
      <4>2. Knows(n, M(q), over, inv[p], {})
        BY <1>4, <1>7, <2>4, <3>2 DEF StoredBack
      <4> HIDE DEF new
      <4>3. QED
        BY <1>11, <3>1, <4>1, <4>2
    <3>3. CASE over = {}
      <4>1. ASSUME <<q, c>> \notin stale PROVE c \notin Differs(M(q), c, V)
        <5>1. Finds(real[q], c.o, c.s) = {v}
          <6>1. real[q] = Written(real[p], c.o, c.s, v)
            BY <1>2, <1>6
          <6>2. Finds(Written(real[p], c.o, c.s, v), c.o, c.s) = {v}
            BY <1>4, <1>6, FindsWritten
          <6>3. QED
            BY <6>1, <6>2
        <5>2. v \in inv[q][c]
          BY <1>6, <4>1, <5>1 DEF Covering
        <5>3. QED
          BY <1>1, <1>4, <5>2 DEF Differs
      <4>2. \A k \in AllCells : k \notin new /\ <<q, k>> \notin stale
              => k \notin Differs(M(q), c, V) /\ (k \in Overlapped(i, s) => k \in {c})
        BY <3>1, <3>3, <4>1 DEF Differs
      <4>3. Knows(n, M(q), {c}, inv[p], Differs(M(q), c, V))
        BY <1>4, <1>7, <2>4, <3>3 DEF StoredBack
      <4> HIDE DEF new
      <4>4. QED
        BY <1>11, <4>2, <4>3
    <3>4. QED
      BY <3>2, <3>3
  <2>5. QED
    BY <2>1, <2>2, <2>3, <2>4
<1>13. CellsApart'
  <2> SUFFICES ASSUME ~crossed PROVE \A x, y \in cells' : x # y => ~overlap(x, y.o, y.s)
    BY <1>3 DEF CellsApart
  <2>1. \A x, y \in cells : x # y => ~overlap(x, y.o, y.s)
    BY DEF CellsApart
  <2>2. cells' = n.cells
    BY <1>8 DEF Becomes
  <2>3. CASE cells' \subseteq cells
    BY <2>1, <2>3
  <2>4. CASE cells' = (cells \ over) \cup {c} /\ IsConstant(index)
    <3>1. over = get_overlap_cells(cells, c.o, c.s)
      BY <1>5, <1>6, <2>4 DEF over
    <3>2. cells \in SUBSET AllCells /\ c \in AllCells
      BY <1>4, <1>6
    <3>3. QED
      BY <2>1, <2>4, <3>1, <3>2, AddedApart
  <2>5. QED
    BY <1>4, <1>7, <2>2, <2>3, <2>4 DEF StoredBack
<1>14. QED
  BY <1>3, <1>12, <1>13 DEF Shape

LEMMA BackInitStep ==
    ASSUME Shape, Covering, CellsApart, NEW p \in States, NEW q \in States, BackInit(p, q)
    PROVE  Shape' /\ Covering' /\ CellsApart'
<1> DEFINE n   == backward_array_init(M(q), inv[p])
           new == {k \in AllCells : is_bottom(inv[q]) \/ Absent(k)} \cup StaleIn(p)
<1>1. Becomes(q, n, real[p], new, {}) /\ UNCHANGED <<crossed, todo>>
  BY DEF BackInit
<1>2. /\ M(q) \in AbsState /\ M(q).cells = cells /\ M(q).inv = inv[q]
      /\ inv[p] \in [AllCells -> SUBSET Values] /\ real[p] \in [0 .. Size - 1 -> Byte]
  BY StateFacts DEF Shape
<1>3. /\ n \in AbsState /\ n.cells \subseteq cells
      /\ \E r \in [AllCells -> SUBSET Values] :
           /\ Settled(n.inv, r)
           /\ ~is_bottom(inv[q]) => \A k \in AllCells \cap cells : r[k] = Values \cap inv[p][k]
  <2>1. CASE is_bottom(inv[q])
    BY <1>2, <2>1 DEF backward_array_init, Settled, AbsState
  <2>2. CASE ~is_bottom(inv[q])
    <3> DEFINE k1 == kill_cells(M(q), cells)
               r  == Both(k1.inv, inv[p])
    <3>1. n = [k1 EXCEPT !.inv = meet(@, inv[p])]
      BY <1>2, <2>2 DEF backward_array_init
    <3>2. /\ k1 \in AbsState /\ k1.cells \subseteq cells
          /\ \A k \in AllCells \cap cells : k1.inv[k] = Values
      BY <1>2, KillFacts
    <3> HIDE DEF k1, n
    <3>3. /\ n \in AbsState /\ n.cells = k1.cells
          /\ r \in [AllCells -> SUBSET Values] /\ Settled(n.inv, r)
      BY <1>2, <3>1, <3>2, MeetStateFacts
    <3>4. \A k \in AllCells : r[k] = k1.inv[k] \cap inv[p][k]
      BY DEF Both
    <3> HIDE DEF r
    <3>5. QED
      BY <3>2, <3>3, <3>4
  <2>3. QED
    BY <2>1, <2>2
<1>4. PICK r \in [AllCells -> SUBSET Values] :
        /\ Settled(n.inv, r)
        /\ ~is_bottom(inv[q]) => \A k \in AllCells \cap cells : r[k] = Values \cap inv[p][k]
  BY <1>3
<1>5. ASSUME NEW k \in AllCells, k \notin new
      PROVE  Finds(real[p], k.o, k.s) \subseteq r[k]
  <2>1. Finds(real[p], k.o, k.s) \subseteq Values /\ Finds(real[p], k.o, k.s) \subseteq inv[p][k]
    BY <1>2, <1>5, FindsValues DEF Covering, StaleIn
  <2>2. k \in cells /\ ~is_bottom(inv[q])
    BY <1>5 DEF Absent
  <2> HIDE DEF n, new
  <2>3. QED
    BY <1>4, <2>1, <2>2
<1>6. /\ Covering' /\ cells' \subseteq AllCells
      /\ inv' \in [States -> [AllCells -> SUBSET Values]]
      /\ real' \in [States -> [0 .. Size - 1 -> Byte]]
  <2> HIDE DEF n, new
  <2>1. QED
    BY <1>1, <1>2, <1>3, <1>4, <1>5, BecomesSettled
<1>7. CellsApart'
  BY <1>1, <1>3 DEF CellsApart, Becomes
<1>8. QED
  BY <1>1, <1>6, <1>7 DEF Shape

-----------------------------------------------------------------------------
(* The theorems.                                                             *)

LEMMA ArrayStart == Init => Shape /\ Covering /\ CellsApart
<1> SUFFICES ASSUME Init PROVE Shape /\ Covering /\ CellsApart
  OBVIOUS
<1>1. Shape
  BY UnwrittenType DEF Init, Shape
<1>2. Covering
  BY FindsUnwritten DEF Init, Covering
<1>3. QED
  BY <1>1, <1>2 DEF Init, CellsApart

LEMMA ArrayStep == Shape /\ Covering /\ CellsApart /\ [Next]_vars
                     => (Shape /\ Covering /\ CellsApart)'
<1> SUFFICES ASSUME Shape, Covering, CellsApart, [Next]_vars
             PROVE  Shape' /\ Covering' /\ CellsApart'
  OBVIOUS
<1>1. CASE Operation
  <2>1. PICK p \in States :
          \/ Store(p) \/ Load(p) \/ StoreRange(p) \/ ArrayInit(p)
          \/ \E q \in States \ {p} :
               \/ Join(p, q) \/ Meet(p, q) \/ Copy(p, q)
               \/ BackLoad(p, q) \/ BackStore(p, q) \/ BackInit(p, q)
    BY <1>1 DEF Operation
  <2>2. QED
    BY <2>1, LoadAndStore, StoreRangeStep, ArrayInitStep, CombineStep, BackLoadStep,
       BackStoreStep, BackInitStep
<1>2. CASE Element
  BY <1>2, ElementStep
<1>3. CASE UNCHANGED vars
  BY <1>3 DEF vars, Shape, Covering, CellsApart
<1>4. QED
  BY <1>1, <1>2, <1>3 DEF Next

LEMMA ArrayInvariant == Spec => [](Shape /\ Covering /\ CellsApart)
BY ArrayStart, ArrayStep, PTL DEF Spec

\* The cells of the map that the states share have no byte in common, until a
\* backward load makes one without looking (offset_map, mk_cell).
THEOREM CellsAlwaysApart == Spec => []CellsApart
BY ArrayInvariant, PTL

\* The search that gives up at the first offset of no use (get_overlap_cells)
\* finds every cell that overlaps as long as the cells are apart.
THEOREM SearchAlwaysFinds == Spec => []SearchFinds
<1>1. Shape /\ CellsApart => SearchFinds
  BY SearchFindsAll DEF Shape, CellsApart, SearchFinds
<1>2. QED
  BY <1>1, ArrayInvariant, PTL

\* The scalar that a load of a state gives covers what its array holds,
\* whatever other states, older or newer, did to the cells in the meantime; but
\* for those an operation did not come to (Missed) when their bytes changed.
THEOREM LoadsAlwaysCovered == Spec => []LoadCovers
<1>1. Covering => LoadCovers
  BY DEF Covering, LoadCovers
<1>2. QED
  BY <1>1, ArrayInvariant, PTL

=============================================================================
