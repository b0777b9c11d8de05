--------------------------- MODULE ArrayExpansion ---------------------------
(* array_expansion.hpp: an array as a set of cells [o, s], the bytes o to    *)
(* o + s - 1, each with a scalar variable for what the bytes hold.  The      *)
(* cells of an array are kept in one map for all abstract states; a state    *)
(* has what it knows of the scalars, here the values each may have.  The     *)
(* scalar of a cell that is made again is the one it had before.             *)
(*                                                                           *)
(* m is [cells, inv] of one state.  An index is an interval of the content   *)
(* domain, [lo, hi]; one number is a constant.                               *)
EXTENDS Integers, FiniteSets

CONSTANTS
    Size,           \* bytes of the array
    Sizes,          \* sizes of accesses
    Values,         \* what an access may read or write
    MaxElems        \* max_num_elems of array_store_range

ASSUME ArrayAssumption ==
    /\ Size \in Nat \ {0} /\ MaxElems \in Nat
    /\ Sizes \subseteq Nat \ {0} /\ Values # {}

Cell(o, s) == [o |-> o, s |-> s]
AllCells == {c \in [o : 0 .. Size - 1, s : Sizes] : c.o + c.s <= Size}

IsConstant(index) == index.lo = index.hi

\* The last byte of a cell.
last(c) == c.o + c.s - 1

\* cell::overlap.
overlap(c, o, s) == c.o <= o + s - 1 /\ o <= last(c)

\* cell::symbolic_overlap: the first byte of the cell or its last may be in
\* the range.
symbolic_overlap(c, index, s) ==
    \E i \in index.lo .. index.hi : {c.o, last(c)} \cap (i .. i + s - 1) # {}

Between(a, j, b) == (a <= j /\ j <= b) \/ (b <= j /\ j <= a)

\* Mutant: the search goes down only.
get_overlap_cellsBelow(cells, o, s) ==
    {x \in cells \ {Cell(o, s)} : overlap(x, o, s) /\ x.o <= o}

\* offset_map::get_overlap_cells: from o down, and from o up, to the first
\* offset none of whose cells overlaps.
get_overlap_cells(cells, o, s) ==
    LET all == cells \cup {Cell(o, s)}
        goes_on(j) == \E x \in all : x.o = j /\ overlap(x, o, s)
    IN  {x \in cells \ {Cell(o, s)} :
            overlap(x, o, s) /\ \A y \in all : Between(x.o, y.o, o) => goes_on(y.o)}

\* get_overlap_cells_symbolic_offset: of the cells at one offset it looks at
\* the largest.
get_overlap_cells_symbolic_offset(cells, index, s) ==
    {x \in cells : \E y \in cells :
        /\ y.o = x.o /\ \A z \in cells : z.o = y.o => z.s <= y.s
        /\ symbolic_overlap(y, index, s)}

\* Mutant: the cells go and their scalars stay.
kill_cellsOnly(m, K) == [cells |-> m.cells \ K, inv |-> m.inv]

\* array_expansion_domain::kill_cells.
kill_cells(m, K) ==
    [cells |-> m.cells \ K, inv |-> [k \in AllCells |-> IF k \in K THEN Values ELSE m.inv[k]]]

\* offset_map::mk_cell.
mk_cell(m, o, s) == [m EXCEPT !.cells = @ \cup {Cell(o, s)}]

\* do_assign to a cell.
do_assign(m, c, V) == [m EXCEPT !.inv[c] = V]

is_bottom(inv) == \E k \in AllCells : inv[k] = {}

\* The scalars are in one domain: where one has no value left, all of it is
\* bottom.
Reduced(inv) == IF is_bottom(inv) THEN [k \in AllCells |-> {}] ELSE inv

\* operator| and operator& of the content domain.
join(x, y) == [k \in AllCells |-> x[k] \cup y[k]]
meet(x, y) == Reduced([k \in AllCells |-> x[k] \cap y[k]])

\* operator-= of the content domain.
Forgotten(inv, c) == IF is_bottom(inv) THEN inv ELSE [inv EXCEPT ![c] = Values]

-----------------------------------------------------------------------------
(* The operations; V has the values of the expression that is stored.        *)

\* Mutant: a cell is made without a look at the others.
array_loadAnyway(m, index, s) ==
    IF ~is_bottom(m.inv) /\ IsConstant(index) THEN mk_cell(m, index.lo, s) ELSE m

\* array_load: a cell is made where no other overlaps, and gives its scalar to
\* the variable; any other load gives nothing.
array_load(m, index, s) ==
    IF ~is_bottom(m.inv) /\ IsConstant(index) /\ get_overlap_cells(m.cells, index.lo, s) = {}
    THEN mk_cell(m, index.lo, s) ELSE m

array_store(m, index, s, V) ==
    IF is_bottom(m.inv) THEN m
    ELSE IF IsConstant(index)
    THEN LET k == kill_cells(m, get_overlap_cells(m.cells, index.lo, s))
         IN  do_assign(mk_cell(k, index.lo, s), Cell(index.lo, s), V)
    ELSE kill_cells(m, get_overlap_cells_symbolic_offset(m.cells, index, s))

\* The ranges array_store_range does not ignore.
InRange(lb, ub) == IsConstant(lb) /\ IsConstant(ub) /\ ub.lo - lb.lo + 1 <= MaxElems

\* array_init before the range is stored.
array_init(m) == IF is_bottom(m.inv) THEN m ELSE kill_cells(m, m.cells)

\* Backwards, from the state m after an operation to the one before it, which
\* is in the invariant of the forward analysis.  L has the values of the
\* variable a load went to, V those that m knows the stored expression to have.
\* The index is that of the invariant, and no number where this is bottom.
Known(index, invariant) == IsConstant(index) /\ ~is_bottom(invariant)
backward_array_load(m, index, s, L, invariant) ==
    IF is_bottom(m.inv) THEN m
    ELSE IF Known(index, invariant)
    THEN LET c == Cell(index.lo, s)
             n == do_assign(mk_cell(m, index.lo, s), c, m.inv[c] \cap L)
         IN  [n EXCEPT !.inv = meet(@, invariant)]
    ELSE [m EXCEPT !.inv = meet(@, invariant)]

backward_array_store(m, index, s, V, invariant) ==
    LET before(n) == [n EXCEPT !.inv = meet(@, invariant)]
        c == Cell(index.lo, s)
        over == get_overlap_cells(m.cells, index.lo, s)
        assigned == do_assign(mk_cell(m, index.lo, s), c, m.inv[c] \cap V)
    IN  IF is_bottom(m.inv) THEN m
        ELSE IF is_bottom(invariant) THEN before(m)
        ELSE IF ~IsConstant(index)
        THEN before(kill_cells(m, get_overlap_cells_symbolic_offset(m.cells, index, s)))
        ELSE IF over # {} THEN before(kill_cells(m, over))
        ELSE before([assigned EXCEPT !.inv = Forgotten(@, c)])

\* backward_array_init before the meet.
backward_array_init(m, invariant) ==
    IF is_bottom(m.inv) THEN m
    ELSE [kill_cells(m, m.cells) EXCEPT !.inv = meet(@, invariant)]

=============================================================================
