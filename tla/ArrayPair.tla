----------------------------- MODULE ArrayPair -----------------------------
(* Abstract states of the array expansion domain, which share one map of     *)
(* cells, each beside an array of bytes that it speaks of.  Operations on     *)
(* either come in any order, as the fixpoint iterations of an analysis       *)
(* interleave the states of its blocks; those of a backward analysis undo    *)
(* what led from the array of one state to that of the other.                *)
EXTENDS ArrayExpansion

CONSTANTS
    States,         \* the abstract states
    Indexes,        \* intervals [lo, hi] an index may have
    Ranges,         \* pairs of them, the bounds of a range
    MaxSteps        \* bound on the number of operations

ASSUME PairAssumption ==
    /\ \A x \in Indexes \cup UNION {{r[1], r[2]} : r \in Ranges} :
          {x.lo, x.hi} \subseteq 0 .. Size - 1
    /\ MaxSteps \in Nat

None == [i |-> -1]

VARIABLES
    cells,          \* the cells in the map
    inv,            \* state -> what it knows of the scalars
    real,           \* state -> byte -> [at, s, v]: the store it is from
    stale,          \* <<p, k>>: an operation left k in p when its bytes changed
    crossed,        \* a cell was made that overlaps another
    todo,           \* the loop over a range, or None
    steps

vars == <<cells, inv, real, stale, crossed, todo, steps>>

M(p) == [cells |-> cells, inv |-> inv[p]]

Unwritten == [b \in 0 .. Size - 1 |-> [at |-> -1, s |-> 0, v |-> Values]]

Init ==
    /\ cells = {} /\ inv = [p \in States |-> [k \in AllCells |-> Values]]
    /\ real = [p \in States |-> Unwritten]
    /\ stale = {} /\ crossed = FALSE /\ todo = None /\ steps = 0

-----------------------------------------------------------------------------
(* The arrays.                                                               *)

Written(bytes, o, s, v) ==
    [b \in DOMAIN bytes |-> IF b \in o .. o + s - 1 THEN [at |-> o, s |-> s, v |-> v] ELSE bytes[b]]

\* The elements of a range are written one after the other.
WrittenRange(bytes, lb, ub, s, v) ==
    [b \in DOMAIN bytes |->
        LET at == lb + s * ((b - lb) \div s)
        IN  IF lb <= b /\ at <= ub THEN [at |-> at, s |-> s, v |-> v] ELSE bytes[b]]

\* The bytes of a range, from its first on.
Extent(lb, ub, s) == s * ((ub - lb) \div s + 1)

\* Bytes of several stores, or of a part of one, may be read as anything.
Finds(bytes, o, s) ==
    IF \A b \in o .. o + s - 1 : bytes[b].at = o /\ bytes[b].s = s
    THEN {bytes[o].v} ELSE Values

-----------------------------------------------------------------------------
(* Where an operation does not forget a cell whose bytes it changes: it      *)
(* leaves a bottom state as it is, and elsewhere it may not come to the cell.*)

\* The cell was taken from the map by an operation of another state.
Absent(k) == k \notin cells

\* The search ends before it, at an offset with no cell in the way.
Hidden(k, o, s) ==
    \E y \in cells : Between(k.o, y.o, o) /\ ~overlap(y, o, s)

\* The bytes an index may mean are all behind its first and before its last.
Inside(k, index, s) ==
    \E y \in cells : y.o = k.o /\ y.o < index.lo /\ index.hi + s - 1 < last(y)

Missed(k, index, s) ==
    Absent(k) \/ IF IsConstant(index) THEN Hidden(k, index.lo, s) ELSE Inside(k, index, s)

\* The scalars that do not cover when those in K do not: where K makes the
\* state bottom, none does.
Spread(value, K) == IF is_bottom(value) /\ K # {} THEN AllCells ELSE K

\* What is stale in p after n: what was or becomes so, and is known of.
StaleAfter(p, n, new, fresh) ==
    {x \in stale : x[1] # p}
    \cup {<<p, k>> : k \in Spread(n.inv, {j \in AllCells :
                        /\ n.inv[j] # Values /\ j \notin fresh
                        /\ <<p, j>> \in stale \/ j \in new})}

Overlapped(o, s) == {k \in AllCells : overlap(k, o, s)}

Becomes(p, n, bytes, new, fresh) ==
    /\ cells' = n.cells /\ inv' = [inv EXCEPT ![p] = n.inv]
    /\ real' = [real EXCEPT ![p] = bytes]
    /\ stale' = StaleAfter(p, n, new, fresh)

-----------------------------------------------------------------------------
(* Operations.                                                               *)

Fits(index, s) == index.lo <= index.hi /\ index.hi + s <= Size

\* A store at the real index i.
StoreAt(p, index, i, s, v) ==
    LET fresh == IF IsConstant(index) /\ ~is_bottom(inv[p]) THEN {Cell(i, s)} ELSE {}
    IN  Becomes(p, array_store(M(p), index, s, {v}), Written(real[p], i, s, v),
                {k \in Overlapped(i, s) : is_bottom(inv[p]) \/ Missed(k, index, s)}, fresh)

Store(p) ==
    /\ \E index \in Indexes, s \in Sizes, v \in Values :
         Fits(index, s) /\ \E i \in index.lo .. index.hi : StoreAt(p, index, i, s, v)
    /\ UNCHANGED <<crossed, todo>>

Load(p) ==
    /\ \E index \in Indexes, s \in Sizes :
         Fits(index, s) /\ Becomes(p, array_load(M(p), index, s), real[p], {}, {})
    /\ UNCHANGED <<crossed, todo>>

\* array_store_range, of which only constant ranges are done.
BeginRange(p, m, bytes, new) ==
    \E r \in Ranges, s \in Sizes, v \in Values :
      \E lb \in r[1].lo .. r[1].hi, ub \in r[2].lo .. r[2].hi :
        LET size == Extent(lb, ub, s) IN
        /\ lb <= ub /\ lb + size <= Size
        /\ IF InRange(r[1], r[2]) /\ ~is_bottom(m.inv)
           THEN /\ Becomes(p, m, bytes, new, {})
                /\ todo' = [p |-> p, i |-> lb, ub |-> ub, s |-> s, v |-> v]
           ELSE /\ Becomes(p, m, WrittenRange(bytes, lb, ub, s, v),
                           new \cup Overlapped(lb, size), {})
                /\ todo' = None

StoreRange(p) == BeginRange(p, M(p), real[p], {}) /\ UNCHANGED crossed

\* array_init: of a fresh array.
ArrayInit(p) ==
    /\ BeginRange(p, array_init(M(p)), Unwritten,
                  {k \in AllCells : is_bottom(inv[p]) \/ Absent(k)})
    /\ UNCHANGED crossed

\* One round of the loop of array_store_range.
Element ==
    /\ todo # None
    /\ IF todo.i <= todo.ub
       THEN /\ StoreAt(todo.p, [lo |-> todo.i, hi |-> todo.i], todo.i, todo.s, todo.v)
            /\ todo' = [todo EXCEPT !.i = @ + todo.s]
       ELSE todo' = None /\ UNCHANGED <<cells, inv, real, stale>>
    /\ UNCHANGED <<crossed, steps>>

\* operator|, operator& and a copy.
Combine(p, q, value, bytes) ==
    /\ inv' = [inv EXCEPT ![p] = value] /\ real' = [real EXCEPT ![p] = bytes]
    /\ stale' = {x \in stale : x[1] # p}
                \cup {<<p, k>> : k \in Spread(value, {j \in AllCells :
                        value[j] # Values /\ (<<p, j>> \in stale \/ <<q, j>> \in stale)})}
    /\ UNCHANGED <<cells, crossed, todo>>

Join(p, q) == \E bytes \in {real[p], real[q]} : Combine(p, q, join(inv[p], inv[q]), bytes)
Meet(p, q) == real[p] = real[q] /\ Combine(p, q, meet(inv[p], inv[q]), real[p])
Copy(p, q) ==
    /\ inv' = [inv EXCEPT ![p] = inv[q]] /\ real' = [real EXCEPT ![p] = real[q]]
    /\ stale' = {x \in stale : x[1] # p} \cup {<<p, x[2]>> : x \in {y \in stale : y[1] = q}}
    /\ UNCHANGED <<cells, crossed, todo>>

-----------------------------------------------------------------------------
(* Backward operations: q is after the operation and p before it; q becomes  *)
(* what may be before.  What is stale in p is so in q after the meet.        *)

StaleIn(p) == {k \in AllCells : <<p, k>> \in stale}

BackLoad(p, q) ==
    /\ real[p] = real[q]
    /\ \E index \in Indexes, s \in Sizes, L \in SUBSET Values :
         /\ Fits(index, s)
         /\ \E i \in index.lo .. index.hi : Finds(real[p], i, s) \subseteq L
         /\ LET n == backward_array_load(M(q), index, s, L, inv[p])
            IN  /\ Becomes(q, n, real[q], StaleIn(p), {})
                /\ crossed' = (crossed \/ \E x, y \in n.cells : x # y /\ overlap(x, y.o, y.s))
    /\ UNCHANGED todo

\* The cell that is stored keeps its value when another one overlaps it.
Kept(o, s) == get_overlap_cells(cells, o, s) # {}

BackStoreAt(p, q, index, i, s, V) ==
    LET left(k) == \/ is_bottom(inv[q])
                   \/ IF IsConstant(index) /\ k = Cell(i, s) THEN Kept(i, s)
                      ELSE Missed(k, index, s)
    IN  Becomes(q, backward_array_store(M(q), index, s, V, inv[p]), real[p],
                {k \in Overlapped(i, s) : left(k)} \cup StaleIn(p), {})

BackStore(p, q) ==
    /\ \E index \in Indexes, s \in Sizes, v \in Values, V \in SUBSET Values :
         /\ Fits(index, s) /\ v \in V
         /\ \E i \in index.lo .. index.hi :
              /\ real[q] = Written(real[p], i, s, v)
              /\ BackStoreAt(p, q, index, i, s, V)
    /\ UNCHANGED <<crossed, todo>>

BackInit(p, q) ==
    /\ \E bytes \in {Unwritten} \cup {WrittenRange(Unwritten, lb, ub, s, v) :
                        lb \in 0 .. Size - 1, ub \in 0 .. Size - 1, s \in Sizes, v \in Values} :
         real[q] = bytes
    /\ Becomes(q, backward_array_init(M(q), inv[p]), real[p],
               {k \in AllCells : is_bottom(inv[q]) \/ Absent(k)} \cup StaleIn(p), {})
    /\ UNCHANGED <<crossed, todo>>

-----------------------------------------------------------------------------

Operation ==
    /\ steps < MaxSteps /\ todo = None
    /\ \E p \in States :
         \/ Store(p) \/ Load(p) \/ StoreRange(p) \/ ArrayInit(p)
         \/ \E q \in States \ {p} :
              \/ Join(p, q) \/ Meet(p, q) \/ Copy(p, q)
              \/ BackLoad(p, q) \/ BackStore(p, q) \/ BackInit(p, q)
    /\ steps' = steps + 1

Next == Operation \/ Element

Spec == Init /\ [][Next]_vars

-----------------------------------------------------------------------------
(* Properties.                                                               *)

\* The cells in the map have no byte in common, in whatever order states
\* store and load, until a backward load makes a cell without looking
\* (backward_array_load calls mk_cell and no get_overlap_cells).
CellsApart == ~crossed => \A x, y \in cells : x # y => ~overlap(x, y.o, y.s)

\* The search of get_overlap_cells, which gives up at the first offset of no
\* use, then finds every cell that overlaps.
SearchFinds ==
    ~crossed => \A k \in AllCells :
        {x \in cells : overlap(x, k.o, k.s)} \ {k} = get_overlap_cells(cells, k.o, k.s)

\* The scalar a load of a state gives covers what its array holds, though
\* another state made the cells, or removed them, or was joined with it; but
\* for scalars that an operation left when their bytes changed.
LoadCovers ==
    \A p \in States, k \in AllCells :
        (todo = None /\ <<p, k>> \notin stale) =>
            Finds(real[p], k.o, k.s) \subseteq inv[p][k]

-----------------------------------------------------------------------------
(* Why: the invariants that the proofs use.                                  *)

\* What a byte may be.
Byte == {b \in [at : Int, s : Nat, v : Values \cup {Values}] : b.at >= 0 => b.v \in Values}

AbsState == [cells : SUBSET AllCells, inv : [AllCells -> SUBSET Values]]

\* The elements that are left to be stored lie in the array.
IsTodo(t) ==
    /\ t.p \in States /\ t.i \in Nat /\ t.ub \in Int /\ t.s \in Sizes /\ t.v \in Values
    /\ \A j \in Nat : t.i + t.s * j <= t.ub => t.i + t.s * j + t.s <= Size

Shape ==
    /\ cells \subseteq AllCells /\ inv \in [States -> [AllCells -> SUBSET Values]]
    /\ real \in [States -> [0 .. Size - 1 -> Byte]]
    /\ crossed \in BOOLEAN /\ (todo = None \/ IsTodo(todo))

Covering ==
    \A p \in States, k \in AllCells :
        <<p, k>> \notin stale => Finds(real[p], k.o, k.s) \subseteq inv[p][k]

=============================================================================
