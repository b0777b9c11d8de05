------------------------------ MODULE MemPair ------------------------------
(* Two abstract stacks, each beside the real bytes of a path through the     *)
(* program: what Machine does with MemDom (ai.cpp), step by step.            *)
EXTENDS MemDom

CONSTANTS
    Word,       \* bytes of a register
    Wide,       \* values that are cut when stored in less than Word bytes
    Narrow,     \* the number that is left of them
    Stored,     \* abstract values to store
    OffsetSets, WidthSets,  \* offsets and widths of a store, when not known
    MaxSteps    \* bound on the number of steps

ASSUME PairAssumption ==
    /\ Wide \subseteq Values /\ Narrow \in Nums \ Wide
    /\ \A d \in Stored : d \subseteq Values

VARIABLES
    mem,        \* the abstract stacks
    real,       \* the real ones: byte -> [v, k, w], byte k of a w-byte value v
    exact,      \* no step was one of the inexact ones
    aborted,    \* an assert() of the code failed
    steps

vars == <<mem, real, exact, aborted, steps>>

Paths == {1, 2}
Bytes == 0 .. Size - 1
Garbage == [v |-> "garbage", k |-> 0, w |-> 0]

\* Machine::init: nothing is known of the stack.
Init ==
    /\ mem = [p \in Paths |-> TopMem]
    /\ real = [p \in Paths |-> [b \in Bytes |-> Garbage]]
    /\ exact = TRUE
    /\ aborted = FALSE
    /\ steps = 0

-----------------------------------------------------------------------------
Cut(v, w) == IF v \in Wide /\ w < Word THEN Narrow ELSE v

Written(bytes, o, w, v) ==
    [b \in Bytes |-> IF b \in o .. o + w - 1
                     THEN [v |-> Cut(v, w), k |-> b - o, w |-> w] ELSE bytes[b]]

Step(inexact, aborts) ==
    /\ steps' = steps + 1
    /\ exact' = (exact /\ ~inexact)
    /\ aborted' = aborts

\* Machine::store: an address that may be elsewhere than on the stack is
\* passed on as an unknown offset.
Address(O, elsewhere) == IF elsewhere THEN Unknown ELSE O

\* A store of known width: operator()(Mem).
StoreStep(p, O, elsewhere, w, d) ==
    LET at == Address(O, elsewhere)
    IN  \E o \in O, v \in d :
            /\ o + w <= Size
            /\ mem' = [mem EXCEPT ![p] = Store(@, at, w, d)]
            /\ real' = [real EXCEPT ![p] =
                            IF elsewhere THEN @ ELSE Written(@, o, w, v)]
            /\ Step(Cut(v, w) # v,
                    Single(at) /\ StoreAborts(mem[p], The(at), w, d))

\* A helper writes to memory of a size that is not known: operator()(Call).
\* The address may be elsewhere and still turn out to be on the stack.
CallStep(p, O, elsewhere, W, d) ==
    LET at == Address(O, elsewhere)
    IN  \E o \in O, w \in (IF W = Unknown THEN 1 .. Size ELSE W), v \in d \cap Nums :
            /\ o + w <= Size
            /\ ~Single(W)
            /\ \E m \in StoreDynamic(mem[p], at, W, d) :
                    mem' = [mem EXCEPT ![p] = m]
            /\ real' = [real EXCEPT ![p] =
                            [b \in Bytes |-> IF b \in o .. o + w - 1
                                             THEN [v |-> v, k |-> 0, w |-> 0] ELSE @[b]]]
            /\ Step(Scattered(at, W) \/ Torn(Surely(mem[p], at, W, d), o, w), FALSE)

\* Two paths meet: operator|= of MemDom; the bytes are those of either path.
JoinStep(p, q) ==
    /\ p # q
    /\ \E m \in Joins(mem[p], mem[q]) : mem' = [mem EXCEPT ![p] = m]
    /\ \E bytes \in {real[p], real[q]} : real' = [real EXCEPT ![p] = bytes]
    /\ Step(FALSE, JoinAborts(mem[p], mem[q]))

\* Two descriptions of the same bytes: operator&= of MemDom.
MeetStep(p, q) ==
    /\ p # q /\ real[p] = real[q]
    /\ mem' = [mem EXCEPT ![p] = Meet(@, mem[q])]
    /\ UNCHANGED real
    /\ Step(FALSE, FALSE)

Next ==
    /\ steps < MaxSteps /\ ~aborted
    /\ \E p \in Paths :
        \/ \E O \in OffsetSets, d \in Stored, elsewhere \in BOOLEAN :
            \/ \E w \in Widths : StoreStep(p, O, elsewhere, w, d)
            \/ \E W \in WidthSets : CallStep(p, O, elsewhere, W, d)
        \/ \E q \in Paths : JoinStep(p, q) \/ MeetStep(p, q)

Spec == Init /\ [][Next]_vars

-----------------------------------------------------------------------------
(* Properties.                                                               *)

\* Cells lie in order and do not overlap, and their values are known ones.
TypeOK ==
    /\ \A p \in Paths :
        LET cells == mem[p].cells
        IN  /\ mem[p].bot = FALSE
            /\ \A i \in DOMAIN cells : cells[i].dom \subseteq Values
            /\ \A i \in 1 .. Len(cells) - 1 : End(cells[i]) <= cells[i + 1].offset
    /\ exact \in BOOLEAN /\ aborted \in BOOLEAN
    /\ steps \in 0 .. MaxSteps

\* What a load of the real bytes may return.
Loaded(bytes, o, w) ==
    LET first == bytes[o]
        at    == o .. o + w - 1
    IN  IF \A b \in at : bytes[b] = [v |-> first.v, k |-> b - o, w |-> w]
        THEN {first.v}
        ELSE IF \A b \in at : bytes[b].v \in Nums THEN Nums
        ELSE Values

\* A load returns what the program would read (MemDom::load), after any
\* stores, helper calls and joins, unless a wide value was cut by a narrow
\* store, or a helper's write was scattered or tore a cell.
LoadCovers ==
    exact => \A p \in Paths, w \in Widths : \A o \in 0 .. Size - w :
                Loaded(real[p], o, w) \subseteq Load(mem[p], o, w)

\* No assertion of MemDom fails (ai_dom_mem.hpp:29-34, ai_dom_mem.cpp:85).
AssertsHold == ~aborted

=============================================================================
