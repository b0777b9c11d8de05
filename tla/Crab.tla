-------------------------------- MODULE Crab --------------------------------
(* crab_constraints.cpp: what each eBPF instruction becomes in the language  *)
(* of Crab.  An instruction is a tree of blocks of assignments, assumptions  *)
(* and assertions on integers; here it is the set of its paths from one      *)
(* state of the Crab program.  A path [ok, c] ends in state c, or at an      *)
(* assertion that fails; an assumption that fails leaves no path.            *)
(*                                                                           *)
(* A variable after havoc is Unknown, which stands for any number.           *)
(* The widths of words, the size of the stack and the constants of the file  *)
(* are scaled; a value operand is [reg, n], as in Extractor.                 *)
EXTENDS Integers, Sequences, FiniteSets

LOCAL SX == INSTANCE SequencesExt

CONSTANTS
    Registers,      \* the registers the program uses, 10 among them
    Bits, IntBits,  \* widths of uint64_t and of int
    Word,           \* bytes of a pointer, 8 in the code
    StackSize,      \* STACK_SIZE
    PacketOff,      \* MAX_PACKET_OFF
    BeforeData,     \* 4098, how far a pointer may go below the packet
    ValueShift,     \* where the value size is in a descriptor: 14
    KeyShift,       \* where the key size is: 6
    Descriptor,     \* ptype_descr: [size, data, end, meta]
    Unknown         \* any number

ASSUME CrabAssumption ==
    /\ 10 \in Registers
    /\ IntBits \in Nat \ {0, 1} /\ Bits \in Nat /\ IntBits < Bits
    /\ {Word, StackSize, PacketOff, BeforeData} \subseteq Nat \ {0}
    /\ KeyShift \in Nat /\ ValueShift \in Nat /\ KeyShift < ValueShift

\* enum region_t.  A shared region is the size of a map's values.
T_UNINIT == -6
T_NUM    == -5
T_MAP    == -4
T_CTX    == -3
T_STACK  == -2
T_DATA   == -1
T_SHARED == 0

IntMax == 2^(IntBits - 1) - 1
IntMin == -(2^(IntBits - 1))

\* 64-bit words: a cast of one to a signed number and to int, and back.
W == INSTANCE SetDomains

\* PTR_MAX.
PtrMax == IntMax - PacketOff

\* Registers are triples of a value, an offset and a region.
Dom(value, offset, region) == [value |-> value, offset |-> offset, region |-> region]

is_pointer(v)   == v.region >= T_CTX
is_init(v)      == v.region > T_UNINIT
is_singleton(v) == v.region < T_SHARED
is_shared(v)    == v.region > T_SHARED
is_not_num(v)   == v.region > T_NUM

-----------------------------------------------------------------------------
(* Paths.                                                                    *)

On(c)        == {[ok |-> TRUE, c |-> c]}
Failed(c)    == {[ok |-> FALSE, c |-> c]}
Checked(b, c) == IF b THEN On(c) ELSE Failed(c)
Assuming(b, paths) == IF b THEN paths ELSE {}
Then(paths, Do(_)) == UNION {IF p.ok THEN Do(p.c) ELSE {p} : p \in paths}

\* abs_validate: a program is refused when an assertion may fail.
Rejected(paths) == \E p \in paths : ~p.ok

Set(c, r, v) == [c EXCEPT !.reg[r] = v]

\* no_pointer: a number whose offset means nothing.
Number(c, r, value) == Set(c, r, Dom(value, Unknown, T_NUM))

\* Mutant: the registers of the caller are left as they are.
scratch_regsNone(c) == c

scratch_regs(c) ==
    [c EXCEPT !.reg = [r \in Registers |->
        IF r \in 1 .. 5 THEN Dom(Unknown, Unknown, T_UNINIT) ELSE @[r]]]

\* machine_t::setup_entry; the addresses and sizes are chosen elsewhere.
setup_entry(address, data_size, meta_size) ==
    [reg |-> [r \in Registers |->
                CASE r = 10 -> Dom(address, 0, T_STACK)
                  [] r = 1 -> Dom(address, 0, T_CTX)
                  [] OTHER -> Dom(Unknown, Unknown, T_UNINIT)],
     regions |-> [i \in 0 .. StackSize |-> Unknown],
     values |-> {}, offsets |-> {},
     value_size |-> Unknown, key_size |-> Unknown,
     data_size |-> data_size, meta_size |-> meta_size]

-----------------------------------------------------------------------------
(* array_dom_t: the stack is three arrays.  values and offsets are sets of   *)
(* cells, regions is a region for each byte.  Addresses in it are reversed.  *)

CellPut(cells, at, width, v) ==
    {x \in cells : x.at + x.width <= at \/ at + width <= x.at}
    \cup {[at |-> at, width |-> width, v |-> v]}

CellGet(cells, at, width) ==
    LET whole == {x \in cells : x.at = at /\ x.width = width}
    IN  IF whole = {} THEN Unknown ELSE (CHOOSE x \in whole : TRUE).v

Marked(regions, at, width, region) ==
    [i \in DOMAIN regions |-> IF i \in at .. at + width - 1 THEN region ELSE regions[i]]

\* Mutant: the region is that of the byte before the value.
StackLoadBefore(c, r, at, width) ==
    On(Set(c, r, Dom(CellGet(c.values, at, width), CellGet(c.offsets, at, width),
                     IF at > 0 THEN c.regions[at - 1] ELSE c.regions[at])))

\* array_dom_t::load, and the assumption after it that the region is one.
StackLoad(c, r, at, width) ==
    On(Set(c, r, Dom(CellGet(c.values, at, width), CellGet(c.offsets, at, width),
                     c.regions[at])))

\* array_dom_t::store: a pointer has the width of a word.
StackStore(c, v, at, width) ==
    LET put(value, offset) ==
            [c EXCEPT !.regions = Marked(@, at, width, v.region),
                      !.values = CellPut(@, at, width, value),
                      !.offsets = CellPut(@, at, width, offset)]
    IN  IF width = Word THEN On(put(v.value, v.offset))
        ELSE Checked(v.region = T_NUM, put(Unknown, Unknown))

\* Mutant: the values that were there are kept.
HavocNumbersKept(c, at, width) ==
    [c EXCEPT !.regions = Marked(@, at, width, T_NUM)]

\* array_dom_t::havoc_num_region.
HavocNumbers(c, at, width) ==
    [c EXCEPT !.regions = Marked(@, at, width, T_NUM),
              !.values = CellPut(@, at, width, Unknown),
              !.offsets = CellPut(@, at, width, Unknown)]

-----------------------------------------------------------------------------
(* Memory accesses.                                                          *)

\* The register a load goes to, or the value that is stored.
Stored(c, ins) == IF ins.value.reg THEN c.reg[ins.value.n]
                  ELSE Dom(ins.value.n, Unknown, T_NUM)

\* exec_stack_access.
StackAccess(c, ins) ==
    LET m  == c.reg[ins.base]
        at == -ins.offset - ins.width - m.offset
        v  == Stored(c, ins)
    IN  Assuming(m.region = T_STACK,
          IF ~(at >= 0 /\ at <= StackSize - ins.width) THEN Failed(c)
          ELSE IF ins.load THEN StackLoad(c, ins.value.n, at, ins.width)
          ELSE IF ~is_init(v) THEN Failed(c)
          ELSE StackStore(c, v, at, ins.width))

\* Mutant: the last byte of the access may be outside.
SharedAccessBeyond(c, ins) ==
    LET m  == c.reg[ins.base]
        at == m.offset + ins.offset
    IN  Assuming(is_shared(m),
          IF ~(at >= 0 /\ at < m.region) THEN Failed(c)
          ELSE IF ins.load THEN On(Number(c, ins.value.n, Unknown))
          ELSE Checked(Stored(c, ins).region = T_NUM, c))

\* exec_shared_access.
SharedAccess(c, ins) ==
    LET m  == c.reg[ins.base]
        at == m.offset + ins.offset
    IN  Assuming(is_shared(m),
          IF ~(at >= 0 /\ at <= m.region - ins.width) THEN Failed(c)
          ELSE IF ins.load THEN On(Number(c, ins.value.n, Unknown))
          ELSE Checked(Stored(c, ins).region = T_NUM, c))

\* exec_data_access.
DataAccess(c, ins) ==
    LET m  == c.reg[ins.base]
        at == m.offset + ins.offset
    IN  Assuming(m.region = T_DATA,
          IF ~(c.meta_size <= at /\ at <= c.data_size - ins.width) THEN Failed(c)
          ELSE IF ins.load THEN On(Number(c, ins.value.n, Unknown))
          ELSE On(c))

\* exec_ctx_access: the fields that point to the packet, and the others.
CtxAccess(c, ins) ==
    LET m  == c.reg[ins.base]
        at == m.offset + ins.offset
        d  == Descriptor
        special == IF d.data < 0 THEN {}
                   ELSE {<<d.data, 0>>, <<d.end, c.data_size>>}
                        \cup (IF d.meta < 0 THEN {} ELSE {<<d.meta, c.meta_size>>})
        pointers == {p \in special : p[1] = at}
    IN  Assuming(m.region = T_CTX,
          IF ~(at >= 0 /\ at <= d.size - ins.width) THEN Failed(c)
          ELSE IF ins.load /\ pointers = {} THEN On(Number(c, ins.value.n, Unknown))
          ELSE IF ins.load
          THEN UNION {On(Set(c, ins.value.n, Dom(Unknown, p[2], T_DATA))) : p \in pointers}
          ELSE Assuming(pointers = {}, Checked(Stored(c, ins).region = T_NUM, c)))

\* exec_mem_access_indirect: one branch for each kind of memory.
Indirect(c, ins) ==
    LET m  == c.reg[ins.base]
        st == ~ins.load /\ ~ins.value.reg
    IN  IF m.value = 0 \/ ~is_not_num(m) \/ (st /\ m.region = T_CTX) THEN Failed(c)
        ELSE StackAccess(c, ins) \cup CtxAccess(c, ins) \cup SharedAccess(c, ins)
             \cup (IF Descriptor.data >= 0 THEN DataAccess(c, ins) ELSE {})

\* exec_direct_stack_store_immediate: the loop runs over one byte more.
StoreImmediate(c, n, at, width) ==
    [c EXCEPT !.regions = Marked(@, at, width + 1, T_NUM),
              !.offsets = {x \in @ : x.at + x.width <= at \/ at + width + 1 <= x.at},
              !.values = CellPut(@, at, width, n)]

\* Accesses by r10, whose bounds are not checked here.
Direct(c, ins) ==
    LET at == -ins.offset - ins.width
    IN  IF ins.load THEN StackLoad(c, ins.value.n, at, ins.width)
        ELSE IF ~ins.value.reg THEN On(StoreImmediate(c, ins.value.n, at, ins.width))
        ELSE IF ~is_init(Stored(c, ins)) THEN Failed(c)
        ELSE StackStore(c, Stored(c, ins), at, ins.width)

Mem(c, ins) == IF ins.base = 10 THEN Direct(c, ins) ELSE Indirect(c, ins)

LockAdd(c, ins) ==
    LET m  == c.reg[ins.base]
        at == m.offset + ins.offset
    IN  Checked(/\ is_shared(m) /\ c.reg[ins.value.n].region = T_NUM
                /\ at >= 0 /\ at <= m.region - ins.width, c)

-----------------------------------------------------------------------------
(* Arithmetic.                                                               *)

\* Two children of a block forget a value beyond the range of int; the block
\* itself also goes on.
overflow(c, r)  == Assuming(c.reg[r].value > IntMax, On([c EXCEPT !.reg[r].value = Unknown]))
underflow(c, r) == Assuming(c.reg[r].value < IntMin, On([c EXCEPT !.reg[r].value = Unknown]))

Plus(offset, k) == IF offset = Unknown THEN Unknown ELSE offset + k

\* dst += k and dst -= -k, of whatever dst is.
AddConstant(c, r, k) ==
    LET sum == [c EXCEPT !.reg[r].value = @ + k, !.reg[r].offset = Plus(@, k)]
    IN  IF k = 0 THEN On(c)
        ELSE On(sum) \cup (IF k > 0 THEN overflow(sum, r) ELSE underflow(sum, r))

\* Division in Crab is signed and leaves no state for a zero.
Quotient(a, b) ==
    LET size(n) == IF n < 0 THEN -n ELSE n
        q == size(a) \div size(b)
    IN  IF (a < 0) = (b < 0) THEN q ELSE -q

\* The left shift is written lshr, as the one to the right is ashr.  A shift
\* by the width or more is not defined.
Arith(op, a, b) ==
    CASE op = "MUL" -> a * b
      [] op = "DIV" -> Quotient(a, b)
      [] op = "MOD" -> a - b * Quotient(a, b)
      [] op \in {"OR", "AND", "XOR"} -> W!Signed(W!Apply(op, W!ToWord(a), W!ToWord(b)))
      [] op = "LSH" -> W!ToWord(a) \div 2^b
      [] op \in {"RSH", "ARSH"} -> a \div 2^b

\* 1 << (64 - k) in an int, as the processor shifts.
IntShift(k) == W!AsInt(2^((Bits - k) % IntBits))

\* What is assumed of a result when the operand is a constant.
InRange(op, v, k) ==
    CASE op = "AND" -> k > 0 => v \in 0 .. k
      [] op = "RSH" -> v >= 0 /\ v <= IntShift(k)
      [] op = "ARSH" -> v <= IntShift(k) /\ v >= -IntShift(k)
      [] OTHER -> TRUE

\* The other operations, which make a number of anything.
OtherOp(c, ins, b) ==
    LET op == ins.op
        v  == Arith(op, c.reg[ins.dst].value, b)
        to == Number(c, ins.dst, v)
    IN  IF op \in {"DIV", "MOD"} /\ b = 0 THEN {}
        ELSE IF op \in {"LSH", "RSH", "ARSH"} /\ b \notin 0 .. Bits - 1
        THEN On(Number(c, ins.dst, Unknown))
        ELSE Assuming(~ins.v.reg => InRange(op, v, b),
               On(to)
               \cup (IF op \in {"MUL", "LSH"} THEN overflow(to, ins.dst) \cup underflow(to, ins.dst)
                     ELSE {})
               \cup (IF op \in {"DIV", "MOD"} /\ (ins.v.reg \/ b = -1)
                     THEN overflow(to, ins.dst) ELSE {}))

\* assert_no_overflow.
NoOverflow(c, r) == Checked(c.reg[r].offset \in -BeforeData .. PacketOff, c)

BothNumbers(c, r, v) ==
    LET to == [c EXCEPT !.reg[r].value = v]
    IN  On(to) \cup overflow(to, r) \cup underflow(to, r)

\* A pointer and a number in either order, or two numbers.
AddRegister(c, dst, s) ==
    LET d == c.reg[dst]
    IN  Assuming(is_pointer(d),
            IF s.region # T_NUM THEN Failed(c)
            ELSE NoOverflow(Set(c, dst, Dom(d.value + s.value, d.offset + s.value, d.region)), dst))
        \cup Assuming(is_pointer(s),
            IF d.region # T_NUM THEN Failed(c)
            ELSE NoOverflow(Set(c, dst, Dom(Unknown, d.value + s.offset, s.region)), dst))
        \cup Assuming(d.region = T_NUM /\ s.region = T_NUM,
            BothNumbers(c, dst, d.value + s.value))

\* Two pointers into one memory, a pointer and a number, or two numbers.
SubRegister(c, dst, s) ==
    LET d == c.reg[dst]
    IN  Assuming(is_pointer(s),
            IF ~is_singleton(s) \/ d.region # s.region THEN Failed(c)
            ELSE On(Number(c, dst, d.offset - s.offset)))
        \cup Assuming(s.region = T_NUM /\ is_pointer(d),
            NoOverflow([c EXCEPT !.reg[dst].offset = @ - s.value], dst))
        \cup Assuming(s.region = T_NUM /\ d.region = T_NUM,
            BothNumbers(c, dst, d.value - s.value))

\* wrap32 on the blocks that do not return before it.
wrap32(ins, paths) ==
    IF ins.is64 \/ ins.op \in {"ADD", "SUB", "MUL", "DIV", "MOD", "LSH"} THEN paths
    ELSE {[p EXCEPT !.c.reg[ins.dst].value = IF @ = Unknown THEN @ ELSE @ % 2^IntBits] :
              p \in paths}

\* operator()(Bin).
Bin(c, ins) ==
    LET k == W!AsInt(ins.v.n)
        s == c.reg[ins.v.n]
    IN  IF (ins.v.reg /\ ~is_init(s)) \/ (ins.op # "MOV" /\ ~is_init(c.reg[ins.dst]))
        THEN Failed(c)
        ELSE wrap32(ins,
            CASE ins.op = "MOV" -> On(IF ins.v.reg THEN Set(c, ins.dst, s)
                                      ELSE Number(c, ins.dst, k))
              [] ins.op = "ADD" -> IF ins.v.reg THEN AddRegister(c, ins.dst, s)
                                   ELSE AddConstant(c, ins.dst, k)
              [] ins.op = "SUB" -> IF ins.v.reg THEN SubRegister(c, ins.dst, s)
                                   ELSE AddConstant(c, ins.dst, -k)
              [] OTHER -> OtherOp(c, ins, IF ins.v.reg THEN s.value ELSE k))

\* operator()(Un): the region is that of before a negation.
Un(c, ins) ==
    LET to == [c EXCEPT !.reg[ins.dst].value = -@]
    IN  IF ~is_init(c.reg[ins.dst]) THEN Failed(c)
        ELSE IF ins.op = "NEG" THEN On(to) \cup overflow(to, ins.dst)
        ELSE On(Number(c, ins.dst, Unknown))

-----------------------------------------------------------------------------
(* Conditions.                                                               *)

Order(op, a, b) ==
    CASE op = "EQ" -> a = b
      [] op = "NE" -> a # b
      [] op \in {"GE", "SGE"} -> a >= b
      [] op \in {"LE", "SLE"} -> a <= b
      [] op \in {"GT", "SGT"} -> a > b
      [] op \in {"LT", "SLT"} -> a < b

UnsignedOps == {"GE", "LE", "GT", "LT"}

\* jmp_to_cst_imm: the bounds but those of LE are cast to unsigned; one is
\* added to them or taken from them in the type they have.
jmp_to_cst_imm(op, a, k) ==
    LET u == k % 2^IntBits
    IN  CASE op = "GE" -> a >= u
          [] op = "GT" -> a >= (u + 1) % 2^IntBits
          [] op = "LT" -> a <= (u - 1) % 2^IntBits
          [] op = "LE" -> a <= k /\ 0 <= a
          [] op = "SGT" -> a >= W!AsInt(k + 1)
          [] op = "SLT" -> a <= W!AsInt(k - 1)
          [] OTHER -> Order(op, a, k)

\* operator()(Assume) with a constant: the assumption comes first.
AssumeConstant(c, ins) ==
    LET d == c.reg[ins.left]
        k == W!AsInt(ins.right.n)
    IN  Assuming(jmp_to_cst_imm(ins.op, d.value, k), Checked(k # 0 => d.region = T_NUM, c))

\* With a register: values of one region, or a pointer and null.
AssumeRegister(c, ins) ==
    LET d == c.reg[ins.left]
        s == c.reg[ins.right.n]
        null(v) == Checked(v.region = T_NUM /\ v.value = 0, c)
    IN  IF d.region = s.region
        THEN Assuming(/\ d.region = T_NUM
                      /\ ins.op \in UnsignedOps \/ Order(ins.op, d.value, s.value), On(c))
             \cup Assuming(is_pointer(d),
                    IF ~is_singleton(d) THEN Failed(c)
                    ELSE Assuming(Order(ins.op, d.offset, s.offset), On(c)))
        ELSE Assuming(is_pointer(d), null(s)) \cup Assuming(is_pointer(s), null(d))

Assume(c, ins) ==
    IF ~is_init(c.reg[ins.left]) \/ (ins.right.reg /\ ~is_init(c.reg[ins.right.n]))
    THEN Failed(c)
    ELSE IF ins.right.reg THEN AssumeRegister(c, ins) ELSE AssumeConstant(c, ins)

-----------------------------------------------------------------------------
(* Calls, and the rest.                                                      *)

\* An argument of its own, of a program that is not privileged.
Single(c, arg) ==
    LET v == c.reg[arg.reg]
        in_stack(size) == /\ v.region = T_STACK /\ v.value > 0
                          /\ v.offset + size <= 0 /\ v.offset <= StackSize
    IN  CASE arg.kind = "ANYTHING" -> Checked(v.region = T_NUM, c)
          [] arg.kind = "MAP_FD" ->
                IF v.region # T_MAP THEN Failed(c)
                ELSE On([c EXCEPT !.value_size = W!ToWord(v.value) \div 2^ValueShift,
                                  !.key_size = (v.value % 2^ValueShift) \div 2^KeyShift])
          [] arg.kind = "PTR_TO_MAP_KEY" -> Checked(in_stack(c.key_size), c)
          [] arg.kind = "PTR_TO_MAP_VALUE" -> Checked(in_stack(c.value_size), c)
          [] arg.kind = "PTR_TO_CTX" ->
                Checked(v.region = T_CTX /\ v.value > 0 /\ v.offset >= 0, c)

\* assert_mem: nothing is said of a pointer to the context.
AssertMem(c, arg, width, may_write) ==
    LET v == c.reg[arg]
    IN  IF ~is_pointer(v) \/ ~(v.value > 0) THEN Failed(c)
        ELSE Assuming(v.region = T_STACK,
                Checked(v.offset + width <= 0 /\ v.offset <= StackSize,
                        IF may_write THEN HavocNumbers(c, -(width + v.offset), width) ELSE c))
             \cup Assuming(is_shared(v),
                Checked(v.offset >= 0 /\ v.offset <= v.region - width, c))
             \cup Assuming(v.region = T_DATA /\ Descriptor.data >= 0,
                Checked(c.meta_size <= v.offset /\ v.offset <= c.data_size - width, c))

\* An argument that is memory and one that is its size.
Pair(c, arg) ==
    LET size == c.reg[arg.size]
        v    == c.reg[arg.mem]
    IN  IF ~(/\ size.region = T_NUM
             /\ IF arg.can_be_zero THEN size.value >= 0 ELSE size.value > 0) THEN Failed(c)
        ELSE IF arg.kind = "PTR_TO_MEM_OR_NULL"
        THEN Assuming(v.region = T_NUM, Checked(v.value = 0, c))
             \cup Assuming(is_not_num(v), AssertMem(c, arg.mem, size.value, FALSE))
        ELSE AssertMem(c, arg.mem, size.value, arg.kind = "PTR_TO_UNINIT_MEM")

\* operator()(Call).
Call(c, ins) ==
    LET singles == SX!FoldLeft(LAMBDA P, a : Then(P, LAMBDA d : Single(d, a)), On(c), ins.singles)
        pairs   == SX!FoldLeft(LAMBDA P, a : Then(P, LAMBDA d : Pair(d, a)), singles, ins.pairs)
        r0(d)   == IF ins.returns_map THEN Dom(Unknown, 0, d.value_size)
                   ELSE Dom(Unknown, Unknown, T_NUM)
    IN  Then(pairs, LAMBDA d : On(Set(scratch_regs(d), 0, r0(d))))

Packet(c) ==
    IF c.reg[6].region # T_CTX THEN Failed(c)
    ELSE On(scratch_regs(Number(c, 0, Unknown)))

Exit(c) == Checked(c.reg[0].region = T_NUM, c)

LoadMapFd(c, ins) == On(Set(c, ins.dst, Dom(ins.mapfd, Unknown, T_MAP)))

\* instruction_builder_t::exec.
Exec(c, ins) ==
    CASE ins.kind = "Bin" -> Bin(c, ins)
      [] ins.kind = "Un" -> Un(c, ins)
      [] ins.kind = "Assume" -> Assume(c, ins)
      [] ins.kind = "Call" -> Call(c, ins)
      [] ins.kind = "Packet" -> Packet(c)
      [] ins.kind = "Exit" -> Exit(c)
      [] ins.kind = "Mem" -> Mem(c, ins)
      [] ins.kind = "LockAdd" -> LockAdd(c, ins)
      [] ins.kind = "LoadMapFd" -> LoadMapFd(c, ins)

=============================================================================
