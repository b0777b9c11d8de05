------------------------------ MODULE CrabPair ------------------------------
(* The translation to Crab beside the machine it speaks of: one program runs *)
(* on the state of the Crab program and on registers and a stack of its own. *)
(* A havoc takes the value the machine has.  What is shown is the claim the  *)
(* verifier rests on: if no assertion of the translation can fail, then the  *)
(* program is safe; for that, each safe step must have its path in Crab.     *)
EXTENDS Crab, TLC

CONSTANTS
    Maps,           \* maps, as positive numbers
    ValueSize,      \* map -> size of its values
    KeySize,        \* map -> size of its keys
    Instructions,   \* the instructions a program may have next
    Starts,         \* records [real, crab, stack, cells, packet]
    Address,        \* the value a pointer has where Crab knows none
    Samples,        \* the numbers memory may hold and functions return
    MaxSteps        \* bound on the number of steps

\* What setup_entry and a load of a packet pointer assume of an address, and
\* that the sizes of a map fit in its descriptor.
ASSUME PairAssumption ==
    /\ Address \in BeforeData .. PtrMax /\ Address >= StackSize
    /\ \A m \in Maps : /\ m \in Nat \ {0}
                        /\ KeySize[m] \in 1 .. 2^(ValueShift - KeyShift) - 1
                        /\ ValueSize[m] \in Nat \ {0}
    /\ MaxSteps \in Nat

VARIABLES
    real,           \* register -> [t, n], for the registers with a value
    stack,          \* byte -> [v, at, width, number]: the store it is from,
                    \* and whether its bytes may be read one by one
    c,              \* the state of the Crab program
    lost,           \* no path of Crab is that of the machine
    steps

vars == <<real, stack, c, lost, steps>>

-----------------------------------------------------------------------------
(* What Crab knows of a value.                                               *)

\* A value is a number, a descriptor of the map n, or a pointer with the
\* offset n to the context, the stack, the packet or a value of the map t.
Num(n)    == [t |-> T_NUM, n |-> W!ToWord(n)]
Ptr(t, n) == [t |-> t, n |-> n]

IsNum(v)     == v.t = T_NUM
IsPointer(v) == v.t \in {T_CTX, T_STACK, T_DATA} \cup Maps

\* allocate_fds: the sizes of the map, for no two maps share an index.
FdOf(m) == ValueSize[m] * 2^ValueShift + KeySize[m] * 2^KeyShift

Region(v) == IF v.t \in Maps THEN ValueSize[v.t] ELSE v.t

Value(v) == CASE IsNum(v) -> W!Signed(v.n)
              [] v.t = T_MAP -> FdOf(v.n)
              [] OTHER -> Address

DomOf(v) == Dom(Value(v), IF IsPointer(v) THEN v.n ELSE Unknown, Region(v))

\* A null pointer that a lookup returned is in the region of its map.
Null(d, v) == v = Num(0) /\ d.region # Unknown /\ is_shared(d)

\* d is what Crab may have for v.
Matches(d, v) ==
    \/ Null(d, v) /\ d.value \in {0, Unknown}
    \/ /\ d.region \in {Region(v), Unknown}
       /\ IF IsPointer(v) THEN d.value = Unknown \/ d.value > 0
          ELSE d.value \in {Value(v), Unknown}
       /\ IsPointer(v) => d.offset \in {v.n, Unknown}

\* Every havoc takes the value that is there.
Chosen(d, v) ==
    LET known(x, y) == IF x = Unknown THEN y ELSE x
    IN  IF Null(d, v) THEN [d EXCEPT !.value = 0]
        ELSE Dom(known(d.value, Value(v)), known(d.offset, DomOf(v).offset),
                 known(d.region, Region(v)))

Init ==
    /\ \E s \in Starts :
        /\ real = s.real /\ stack = s.stack
        /\ c = LET e == setup_entry(Address, s.packet.size, s.packet.meta)
               IN  [e EXCEPT !.reg = [r \in Registers |->
                                        IF r \in DOMAIN s.crab THEN s.crab[r] ELSE e.reg[r]],
                             !.regions = s.cells.regions @@ @,
                             !.values = s.cells.values, !.offsets = s.cells.offsets]
    /\ lost = FALSE /\ steps = 0

-----------------------------------------------------------------------------
(* The machine: which instructions are safe.                                 *)

Operand(v) == IF v.reg THEN real[v.n] ELSE Num(W!AsInt(v.n))
BinOperand(ins) == IF ins.lddw THEN Num(ins.v.n) ELSE Operand(ins.v)

\* The registers an instruction reads.
Reads(ins) ==
    LET of(v) == IF v.reg THEN {v.n} ELSE {}
    IN  CASE ins.kind = "Bin" -> of(ins.v) \cup (IF ins.op = "MOV" THEN {} ELSE {ins.dst})
          [] ins.kind = "Un" -> {ins.dst}
          [] ins.kind = "Assume" -> {ins.left} \cup of(ins.right)
          [] ins.kind \in {"Mem", "LockAdd"} ->
                {ins.base} \cup (IF ins.kind = "Mem" /\ ins.load THEN {} ELSE of(ins.value))
          [] ins.kind = "Call" -> {ins.singles[i].reg : i \in DOMAIN ins.singles}
                \cup UNION {{ins.pairs[i].mem, ins.pairs[i].size} : i \in DOMAIN ins.pairs}
          [] ins.kind = "Packet" -> {6}
          [] ins.kind = "Exit" -> {0}
          [] OTHER -> {}

First(t) == CASE t = T_STACK -> -StackSize [] t = T_DATA -> c.meta_size [] OTHER -> 0
Last(t)  == CASE t = T_STACK -> 0
              [] t = T_DATA -> c.data_size
              [] t = T_CTX -> Descriptor.size
              [] OTHER -> ValueSize[t]

InBounds(v, offset, width) ==
    IsPointer(v) /\ First(v.t) <= v.n + offset /\ v.n + offset + width <= Last(v.t)

\* The byte of the stack that is reversed last is the first of the access.
Bytes(at, width) == at .. at + width - 1
At(v, offset, width) == -(v.n + offset) - width

Whole(at, width) ==
    \A i \in Bytes(at, width) : stack[i].at = at /\ stack[i].width = width
OnlyNumbers(at, width) == \A i \in Bytes(at, width) : stack[i].number
Loadable(at, width) == Whole(at, width) \/ OnlyNumbers(at, width)

SpecialFields == {Descriptor.data, Descriptor.end, Descriptor.meta}

\* Pointers are stored whole and in the stack only; those the context has
\* are not overwritten.
LegalMem(ins) ==
    LET b == real[ins.base]
    IN  /\ InBounds(b, ins.offset, ins.width)
        /\ ins.load /\ b.t = T_STACK => Loadable(At(b, ins.offset, ins.width), ins.width)
        /\ ~ins.load =>
            /\ IsNum(Operand(ins.value)) \/ (b.t = T_STACK /\ ins.width = Word)
            /\ b.t = T_CTX => b.n + ins.offset \notin SpecialFields

\* Arithmetic on pointers is in 64 bits and adds or subtracts a number;
\* pointers into one memory, but no map, may be subtracted.
LegalBin(ins) ==
    LET x == IF ins.op = "MOV" THEN Num(0) ELSE real[ins.dst]
        y == BinOperand(ins)
    IN  IF ins.op = "MOV" THEN ins.is64 \/ IsNum(y)
        ELSE \/ IsNum(x) /\ IsNum(y)
             \/ /\ ins.is64
                /\ \/ ins.op = "ADD" /\ {IsPointer(x), IsPointer(y)} = {TRUE, FALSE}
                      /\ T_MAP \notin {x.t, y.t}
                   \/ ins.op = "SUB" /\ IsPointer(x) /\ IsNum(y)
                   \/ ins.op = "SUB" /\ x.t = y.t /\ IsPointer(x) /\ x.t \notin Maps

LegalAssume(ins) ==
    LET x == real[ins.left]
        y == Operand(ins.right)
    IN  \/ IsNum(x) /\ IsNum(y)
        \/ y = Num(0) \/ x = Num(0)
        \/ x.t = y.t /\ x.t \notin Maps \cup {T_MAP}

LegalSingle(arg, map) ==
    LET v == real[arg.reg]
    IN  CASE arg.kind = "ANYTHING" -> IsNum(v)
          [] arg.kind = "MAP_FD" -> v.t = T_MAP
          [] arg.kind = "PTR_TO_MAP_KEY" -> v.t = T_STACK /\ InBounds(v, 0, KeySize[map])
          [] arg.kind = "PTR_TO_MAP_VALUE" -> v.t = T_STACK /\ InBounds(v, 0, ValueSize[map])
          [] arg.kind = "PTR_TO_CTX" -> v = Ptr(T_CTX, 0)

LegalPair(arg) ==
    LET size == real[arg.size]
        v    == real[arg.mem]
    IN  /\ IsNum(size) /\ W!Signed(size.n) >= (IF arg.can_be_zero THEN 0 ELSE 1)
        /\ \/ arg.kind = "PTR_TO_MEM_OR_NULL" /\ v = Num(0)
           \/ v.t # T_CTX /\ InBounds(v, 0, size.n)

LegalCall(ins) ==
    LET fds == {i \in DOMAIN ins.singles : ins.singles[i].kind = "MAP_FD"}
        map == real[ins.singles[CHOOSE i \in fds : TRUE].reg].n
    IN  /\ \A i \in fds : real[ins.singles[i].reg].t = T_MAP
        /\ \A i \in DOMAIN ins.singles : LegalSingle(ins.singles[i], map)
        /\ \A i \in DOMAIN ins.pairs : LegalPair(ins.pairs[i])

Legal(ins) ==
    /\ Reads(ins) \subseteq DOMAIN real
    /\ CASE ins.kind = "Bin" -> LegalBin(ins)
         [] ins.kind = "Un" -> IsNum(real[ins.dst])
         [] ins.kind = "Assume" -> LegalAssume(ins)
         [] ins.kind = "Mem" -> LegalMem(ins)
         [] ins.kind = "LockAdd" ->
               /\ real[ins.base].t \in Maps /\ IsNum(real[ins.value.n])
               /\ InBounds(real[ins.base], ins.offset, ins.width)
         [] ins.kind = "Call" -> LegalCall(ins)
         [] ins.kind = "Packet" -> real[6].t = T_CTX
         [] ins.kind = "Exit" -> IsNum(real[0])
         [] OTHER -> TRUE

-----------------------------------------------------------------------------
(* The machine: what instructions do.                                        *)

\* Numbers of some bits; a division by zero is zero.
RealOp(op, x, y, bits) ==
    LET m == 2^bits
        k == y % bits
    IN  CASE op = "ADD" -> (x + y) % m
          [] op = "SUB" -> (x - y) % m
          [] op = "MUL" -> (x * y) % m
          [] op = "DIV" -> IF y = 0 THEN 0 ELSE x \div y
          [] op = "MOD" -> IF y = 0 THEN x ELSE x % y
          [] op = "LSH" -> (x * 2^k) % m
          [] op = "RSH" -> x \div 2^k
          [] op = "ARSH" -> ((IF 2 * x < m THEN x ELSE x - m) \div 2^k) % m
          [] OTHER -> W!Apply(op, x, y)

BinReal(ins) ==
    LET x  == IF ins.op = "MOV" THEN Num(0) ELSE real[ins.dst]
        y  == BinOperand(ins)
        by(v, w, sign) == [v EXCEPT !.n = @ + sign * W!Signed(w.n)]
        low(v) == v.n % 2^IntBits
    IN  IF IsNum(x) /\ IsNum(y) /\ ins.op # "MOV"
        THEN Num(IF ins.is64 THEN RealOp(ins.op, x.n, y.n, Bits)
                 ELSE RealOp(ins.op, low(x), low(y), IntBits))
        ELSE CASE ins.op = "MOV" -> IF ins.is64 THEN y ELSE Num(low(y))
               [] ins.op = "ADD" -> IF IsNum(y) THEN by(x, y, 1) ELSE by(y, x, 1)
               [] ins.op = "SUB" -> IF IsNum(y) THEN by(x, y, -1) ELSE Num(x.n - y.n)

\* A condition holds; a pointer has the number that Crab has for it.
Taken(ins) ==
    LET x == real[ins.left]
        y == Operand(ins.right)
        number(r) == IF IsNum(real[r]) THEN real[r].n ELSE W!ToWord(c.reg[r].value)
        a == number(ins.left)
        b == IF ins.right.reg THEN number(ins.right.n) ELSE y.n
    IN  IF x.t = y.t /\ ~IsNum(x) THEN Order(ins.op, x.n, y.n)
        ELSE IF ins.op \in UnsignedOps THEN Order(ins.op, a, b)
        ELSE Order(ins.op, W!Signed(a), W!Signed(b))

Executes(ins) == (ins.kind = "Assume" /\ Reads(ins) \subseteq DOMAIN real) => Taken(ins)

\* What is stored in so many bytes.
Cut(v, width) == IF IsNum(v) THEN Num(v.n % 2^(width * (Bits \div Word))) ELSE v

StackFinds(at, width) ==
    IF Whole(at, width) THEN {stack[at].v} ELSE {Cut(Num(n), width) : n \in Samples}

LoadReal(ins) ==
    LET b  == real[ins.base]
        at == b.n + ins.offset
        d  == Descriptor
    IN  CASE b.t = T_STACK -> StackFinds(At(b, ins.offset, ins.width), ins.width)
          [] b.t = T_CTX /\ at \in SpecialFields ->
                {Ptr(T_DATA, CASE at = d.data -> 0
                               [] at = d.end -> c.data_size
                               [] at = d.meta -> c.meta_size)}
          [] OTHER -> {Num(n) : n \in Samples}

\* Bytes that some function wrote.
Filled(at, width) ==
    [i \in DOMAIN stack |-> IF i \in Bytes(at, width)
                            THEN [v |-> Num(0), at |-> -1, width |-> 0, number |-> TRUE] ELSE stack[i]]

StoreReal(ins) ==
    LET b  == real[ins.base]
        at == At(b, ins.offset, ins.width)
        v  == Operand(ins.value)
        of == [v |-> Cut(v, ins.width), at |-> at, width |-> ins.width,
               number |-> IsNum(v) /\ ~(ins.value.reg /\ Null(c.reg[ins.value.n], v))]
    IN  IF b.t # T_STACK THEN stack
        ELSE [i \in DOMAIN stack |-> IF i \in Bytes(at, ins.width) THEN of ELSE stack[i]]

\* The function writes to the memory that it is given for that.
CallStack(ins) ==
    LET to == {p \in {ins.pairs[i] : i \in DOMAIN ins.pairs} :
                p.kind = "PTR_TO_UNINIT_MEM" /\ real[p.mem].t = T_STACK}
        p == CHOOSE p \in to : TRUE
        n == real[p.size].n
    IN  IF to = {} THEN stack ELSE Filled(At(real[p.mem], 0, n), n)

CallReturns(ins) ==
    IF ins.returns_map THEN {Num(0), Ptr(real[ins.singles[1].reg].n, 0)}
    ELSE {Num(n) : n \in Samples}

\* The registers and the stack after an instruction.
RealAfter(ins) ==
    LET into(r, V) == {[real |-> (r :> v) @@ real, stack |-> stack] : v \in V}
        returning(V, s) ==
            {[real |-> (0 :> v) @@ [r \in DOMAIN real \ 1 .. 5 |-> real[r]], stack |-> s] :
                v \in V}
        samples == {Num(n) : n \in Samples}
    IN  CASE ins.kind = "LoadMapFd" -> into(ins.dst, {Ptr(T_MAP, ins.map)})
          [] ins.kind = "Bin" -> into(ins.dst, {BinReal(ins)})
          [] ins.kind = "Un" -> into(ins.dst, IF ins.op = "NEG" THEN {Num(-real[ins.dst].n)}
                                              ELSE samples)
          [] ins.kind = "Mem" /\ ins.load -> into(ins.value.n, LoadReal(ins))
          [] ins.kind = "Mem" /\ ~ins.load -> {[real |-> real, stack |-> StoreReal(ins)]}
          [] ins.kind = "Call" -> returning(CallReturns(ins), CallStack(ins))
          [] ins.kind = "Packet" -> returning(samples, stack)
          [] OTHER -> {[real |-> real, stack |-> stack]}

-----------------------------------------------------------------------------
(* Where the translation is not exact, and why.                              *)

TypeOf(r) == IF r \in DOMAIN real THEN real[r].t ELSE T_UNINIT

\* What Bin does not check: operations on pointers but additions and
\* subtractions of 64 bits, and anything done with a descriptor.
UnguardedBin(ins) ==
    LET x == IF ins.op = "MOV" THEN T_NUM ELSE TypeOf(ins.dst)
        y == IF ins.v.reg THEN TypeOf(ins.v.n) ELSE T_NUM
    IN  \/ T_MAP \in {x, y}
        \/ (~ins.is64 \/ ins.op \notin {"ADD", "SUB"}) /\ {x, y} # {T_NUM}

\* What accesses do not check: a descriptor is no pointer; the value stored
\* in the packet; the fields of the context; whether the bytes of the stack
\* are of one store; and the bounds of accesses with register 10.
UnguardedMem(ins) ==
    LET t  == TypeOf(ins.base)
        at == real[ins.base].n + ins.offset
    IN  \/ t = T_MAP
        \/ t = T_DATA /\ ~ins.load /\ ins.value.reg /\ TypeOf(ins.value.n) # T_NUM
        \/ t = T_CTX /\ ~ins.load /\ at \in SpecialFields
        \/ t = T_STACK /\ ins.load /\ InBounds(real[ins.base], ins.offset, ins.width)
                       /\ ~Loadable(-at - ins.width, ins.width)
        \/ ins.base = 10 /\ ~InBounds(real[10], ins.offset, ins.width)

\* What calls do not check: that an argument is not below the stack, nor
\* behind the start of the context, nor the context as memory; and that what
\* may be null has a value.
UnguardedCall(ins) ==
    LET below(r) == TypeOf(r) = T_STACK /\ real[r].n < -StackSize
    IN  \/ \E i \in DOMAIN ins.singles :
              below(ins.singles[i].reg)
              \/ (TypeOf(ins.singles[i].reg) = T_CTX /\ real[ins.singles[i].reg].n > 0)
        \/ \E i \in DOMAIN ins.pairs :
              LET arg == ins.pairs[i]
              IN  \/ below(arg.mem) \/ TypeOf(arg.mem) = T_CTX
                  \/ arg.kind = "PTR_TO_MEM_OR_NULL" /\ TypeOf(arg.mem) = T_UNINIT

Unguarded(ins) ==
    CASE ins.kind = "Bin" -> UnguardedBin(ins)
      [] ins.kind = "Un" -> TypeOf(ins.dst) # T_UNINIT
      [] ins.kind = "Assume" ->
            ins.right.reg /\ T_MAP \in {TypeOf(ins.left), TypeOf(ins.right.n)}
      [] ins.kind = "Mem" -> UnguardedMem(ins)
      [] ins.kind = "LockAdd" -> ins.base \in DOMAIN real /\ Null(c.reg[ins.base], real[ins.base])
      [] ins.kind = "Call" -> UnguardedCall(ins)
      [] OTHER -> FALSE

\* Safe steps whose path Crab may not have.  Of Bin: a constant of 64 bits is
\* cut to int; a null pointer stays one after an addition; results of 32 bits
\* are not cut; LSH shifts to the right; divisions and RSH are signed; and
\* shifts by constants are bounded too low.
InexactBin(ins) ==
    LET x == IF ins.op = "MOV" THEN Num(0) ELSE real[ins.dst]
        y == BinOperand(ins)
        v == BinReal(ins)
    IN  \/ ins.lddw /\ W!AsInt(ins.v.n) # W!Signed(ins.v.n)
        \/ ins.op \in {"ADD", "SUB"}
           /\ (Null(c.reg[ins.dst], x) \/ (ins.v.reg /\ Null(c.reg[ins.v.n], y)))
        \/ ~ins.is64 /\ ins.op \notin {"MOV", "OR", "AND", "XOR"}
           /\ v # BinReal([ins EXCEPT !.is64 = TRUE])
        \/ ins.op = "LSH" /\ v # x
        \/ ins.op \in {"DIV", "MOD"} /\ (W!Signed(x.n) < 0 \/ W!Signed(y.n) <= 0)
        \/ ins.op = "RSH" /\ W!Signed(x.n) < 0
        \/ ins.op \in {"RSH", "ARSH"} /\ ~ins.v.reg
           /\ ~InRange(ins.op, W!Signed(v.n), W!AsInt(ins.v.n))

\* A word with its top bit set, compared with a constant as unsigned; and a
\* descriptor compared with the zero of a register.
InexactAssume(ins) ==
    LET x == real[ins.left]
        y == Operand(ins.right)
    IN  \/ /\ ~ins.right.reg /\ ins.op \in UnsignedOps /\ IsNum(x)
           /\ W!Signed(x.n) < 0 \/ W!Signed(y.n) < 0
        \/ ins.right.reg /\ T_MAP \in {x.t, y.t}

\* A constant is stored as it is, however narrow or negative; with register
\* 10, the byte above is taken for a number too.
InexactMem(ins) ==
    LET b  == real[ins.base]
        up == -(b.n + ins.offset)
    IN  /\ b.t = T_STACK /\ ~ins.load /\ ~ins.value.reg
        /\ \/ Cut(Operand(ins.value), ins.width) # Num(ins.value.n)
           \/ ins.base = 10 /\ up \in DOMAIN stack /\ ~stack[up].number

Inexact(ins) ==
    CASE ins.kind = "Bin" -> InexactBin(ins)
      [] ins.kind = "Assume" -> InexactAssume(ins)
      [] ins.kind = "Mem" -> InexactMem(ins)
      [] OTHER -> FALSE

-----------------------------------------------------------------------------
(* Steps.                                                                    *)

\* The program goes on when no assertion has failed.  The model ends at the
\* steps that Inexact lists.
Step(ins) ==
    /\ ~lost /\ Legal(ins) /\ Executes(ins) /\ ~Inexact(ins)
    /\ LET paths == Exec(c, ins)
       IN  /\ ~Rejected(paths)
           /\ \E after \in RealAfter(ins) :
                LET regs == DOMAIN after.real
                    found == {p.c : p \in {q \in paths :
                                \A r \in regs : Matches(q.c.reg[r], after.real[r])}}
                IN  /\ real' = after.real /\ stack' = after.stack
                    /\ lost' = (found = {})
                    /\ \E d \in IF found = {} THEN {c} ELSE found :
                         c' = [d EXCEPT !.reg = [r \in Registers |->
                                IF r \in regs THEN Chosen(@[r], after.real[r]) ELSE @[r]]]
    /\ steps' = steps + 1

Next == steps < MaxSteps /\ \E ins \in Instructions : Step(ins)

Spec == Init /\ [][Next]_vars

-----------------------------------------------------------------------------
(* Properties.                                                               *)

\* Exactly the registers that Crab has as initialised have a value.
TypeOK ==
    /\ DOMAIN real \subseteq Registers
    /\ \A r \in Registers : is_init(c.reg[r]) <=> r \in DOMAIN real
    /\ DOMAIN stack = 0 .. StackSize - 1
    /\ lost \in BOOLEAN /\ steps \in 0 .. MaxSteps

\* The Crab program has a path for every safe step whose assertions hold,
\* but those of Inexact: no behaviour is cut off (instruction_builder_t).
Followed == ~lost

\* What a load from the stack may find is what Crab's arrays have there:
\* stores of every width forget what they overwrite (array_dom_t).
StackAgrees ==
    \A at \in 0 .. StackSize - 1, width \in 1 .. Word :
        (at + width <= StackSize /\ Loadable(at, width)) =>
        \A v \in StackFinds(at, width) :
            Matches(Dom(CellGet(c.values, at, width), CellGet(c.offsets, at, width),
                        c.regions[at]), v)

\* If no assertion of an instruction can fail then the machine may execute
\* it, but for what Unguarded lists (abs_validate returns true).
VerifiedIsSafe ==
    \A ins \in Instructions :
        ~Legal(ins) => Unguarded(ins) \/ (Executes(ins) => Rejected(Exec(c, ins)))

\* crab_constraints.cpp:617 on accesses to the packet: "We just verify that
\* only numbers are written there, so as not to leak information."  The run
\* crab_packet refutes it.
OnlyNumbersDoc ==
    \A ins \in Instructions :
        /\ ins.kind = "Mem" /\ ~ins.load /\ ins.value.reg /\ ins.base # 10
        /\ Reads(ins) \subseteq DOMAIN real
        /\ real[ins.base].t = T_DATA /\ ~IsNum(real[ins.value.n])
        => Rejected(Exec(c, ins))

=============================================================================
