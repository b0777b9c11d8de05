---------------------------- MODULE MachinePair ----------------------------
(* The registers of the RCP analyser beside those of the program.  Each      *)
(* instruction runs after its assertions, as explicate_assertions puts them; *)
(* a program ends at an assertion that does not hold.                        *)
EXTENDS RcpMachine, RcpReal

CONSTANTS
    Instructions,   \* the instructions a program may have next
    Points,         \* registers at a point of a program: records [regs, real]
    Packets,        \* where the packet lies: records [meta, end]
    Samples         \* the numbers that memory may hold

VARIABLES
    regs,           \* RegsDom: register -> value; those without are not there
    packet          \* the ends of the packet, whose data is at offset 3

machineVars == <<regs, real, packet, exact, steps>>

Ptr(t, n) == [t |-> t, n |-> n]

-----------------------------------------------------------------------------
(* What a program is made of.                                                *)

Readable  == 0 .. 10    \* the registers of a program
Writeable == 0 .. 9     \* asm_unmarshal.cpp notes a write to register 10

IsOperand(v) ==
    v = [reg |-> v.reg, n |-> v.n] /\ v.reg \in BOOLEAN /\ v.n \in Int
    /\ (v.reg => v.n \in Readable)

\* Offsets are 16 bits and widths at most 8, far below the cap of 2^30.
IsAccess(base, offset, width) ==
    base \in Readable /\ offset \in -Cap .. Cap /\ width \in 1 .. Cap

IsCall(ins) ==
    /\ ins.singles \in Seq([kind : {"ANYTHING", "MAP_FD", "PTR_TO_MAP_KEY",
                                     "PTR_TO_MAP_VALUE", "PTR_TO_CTX"}, reg : Readable])
    /\ ins.pairs \in Seq([kind : {"PTR_TO_MEM", "PTR_TO_MEM_OR_NULL", "PTR_TO_UNINIT_MEM"},
                           mem : Readable, size : Readable, can_be_zero : BOOLEAN])
    /\ ins.returns_map \in BOOLEAN
    /\ ins.returns_map => \E i \in DOMAIN ins.singles :
                              ins.singles[i] = [kind |-> "MAP_FD", reg |-> 1]

IsInstruction(ins) ==
    \/ ins.kind = "LoadMapFd" /\ ins.dst \in Writeable /\ ins.mapfd \in Maps
    \/ /\ ins.kind = "Bin" /\ ins.op \in BinOps \cup {"MOV"} /\ ins.is64 \in BOOLEAN
       /\ ins.dst \in Writeable /\ IsOperand(ins.v)
    \/ ins.kind = "Un" /\ ins.dst \in Writeable
    \/ /\ ins.kind = "Assume" /\ ins.op \in CmpOps /\ ins.left \in Readable
       /\ IsOperand(ins.right)
    \/ /\ ins.kind = "Mem" /\ ins.load \in BOOLEAN /\ IsAccess(ins.base, ins.offset, ins.width)
       /\ IsOperand(ins.value)
       /\ ins.load => ins.value.reg /\ ins.value.n \in Writeable
    \/ /\ ins.kind = "LockAdd" /\ IsAccess(ins.base, ins.offset, ins.width)
       /\ IsOperand(ins.value) /\ ins.value.reg
    \/ ins.kind = "Call" /\ IsCall(ins)
    \/ ins.kind \in {"Packet", "Exit"}

\* At a point of a program the abstract values hold the real ones, the size
\* of the packet is not known, and no memory is as large as the cap.
ASSUME MachineAssumption ==
    /\ \A ins \in Instructions : IsInstruction(ins)
    /\ \A p \in Points :
        /\ DOMAIN p.regs \subseteq Writeable /\ DOMAIN p.real = DOMAIN p.regs
        /\ \A r \in DOMAIN p.regs :
            /\ IsValue(p.regs[r]) /\ IsTidy(p.regs[r])
            /\ IsReal(p.real[r]) /\ Holds(p.regs[r], p.real[r])
    /\ Packets \subseteq [meta : 0 .. 3, end : 3 .. Cap]
    /\ Samples \subseteq Int
    /\ StackSize <= Cap /\ Descriptor.size <= Cap /\ \A m \in Maps : ValueSize[m] <= Cap

Over(f, g) == [r \in DOMAIN f \cup DOMAIN g |-> IF r \in DOMAIN f THEN f[r] ELSE g[r]]

RealEntry ==
    [r \in {1, 10, 13, 14} |->
        CASE r = 1  -> Ptr(T_CTX, 0)
          [] r = 10 -> Ptr(T_STACK, StackSize)
          [] r = 13 -> Num(packet.end - 3)
          [] r = 14 -> Num(3 - packet.meta)]

MachineInit ==
    /\ packet \in Packets
    /\ \E p \in Points : regs = Over(p.regs, Entry) /\ real = Over(p.real, RealEntry)
    /\ exact = TRUE
    /\ steps = 0

-----------------------------------------------------------------------------
(* The real machine.                                                         *)

RealOf(v) == IF v.reg THEN real[v.n] ELSE Num(v.n)

IsNum(r)  == real[r].t = T_NUM

\* The first byte of the memory of a type, and the byte after the last.
First(t) == IF t = T_DATA THEN packet.meta ELSE 0
Last(t)  == CASE t \in Maps -> ValueSize[t]
              [] t = T_DATA -> packet.end
              [] t = T_STACK -> StackSize
              [] t = T_CTX -> Descriptor.size

SafeAccess(r, offset, width) ==
    LET p == real[r]
    IN  /\ p.t \in PtrTypes
        /\ First(p.t) <= p.n + offset
        /\ p.n + offset + width <= Last(p.t)

\* What an assertion says of the real registers.
Means(a) ==
    LET x == real[a.reg]
        width == IF a.width.reg THEN real[a.width.n].n ELSE a.width.n
        end == IF a.v.reg THEN packet.end ELSE a.v.n
    IN  IF a.kind = "type"
        THEN real[a.given].t \in a.when => x.t \in a.types
        ELSE x.t \in a.types => Compare(a.op, x.n + a.offset + width, end)

\* What the program may do: memory is accessed within its bounds, pointers
\* are not written where they can be read from outside, only values that may
\* be compared are, and arithmetic on pointers is addition of numbers.
PairLegal(arg) ==
    /\ IsNum(arg.size) /\ (real[arg.size].n = 0 => arg.can_be_zero)
    /\ \/ arg.kind = "PTR_TO_MEM_OR_NULL" /\ real[arg.mem] = Num(0)
       \/ real[arg.mem].t # T_CTX /\ SafeAccess(arg.mem, 0, real[arg.size].n)

BinLegal(op, x, y) ==
    CASE op = "MOV" -> TRUE
      [] op = "ADD" -> T_FD \notin {x.t, y.t} /\ T_NUM \in {x.t, y.t}
      [] op = "SUB" -> x.t # T_FD /\ (y.t = T_NUM \/ (y.t = x.t /\ x.t \notin Maps))
      [] OTHER -> x.t = T_NUM /\ y.t = T_NUM

Legal(ins) ==
    CASE ins.kind = "Exit" -> IsNum(0)
      [] ins.kind = "Un" -> IsNum(ins.dst)
      [] ins.kind = "Bin" -> BinLegal(ins.op, RealOf([reg |-> TRUE, n |-> ins.dst]), RealOf(ins.v))
      [] ins.kind = "Assume" ->
            \/ RealOf(ins.right) = Num(0)
            \/ /\ real[ins.left].t = RealOf(ins.right).t
               /\ ins.op \in {"EQ", "NE"} \/ real[ins.left].t # T_FD
      [] ins.kind = "Mem" ->
            /\ SafeAccess(ins.base, ins.offset, ins.width)
            /\ (~ins.load /\ ins.value.reg /\ real[ins.base].t # T_STACK)
                    => IsNum(ins.value.n)
      [] ins.kind = "LockAdd" ->
            /\ real[ins.base].t \in Maps
            /\ SafeAccess(ins.base, ins.offset, ins.width)
            /\ IsNum(ins.value.n)
      [] ins.kind = "Call" ->
            /\ \A i \in DOMAIN ins.singles :
                    real[ins.singles[i].reg].t \in ArgTypes(ins.singles[i].kind)
            /\ \A i \in DOMAIN ins.pairs : PairLegal(ins.pairs[i])
      [] OTHER -> TRUE

-----------------------------------------------------------------------------
(* Where the code is not exact, and why.                                     *)

\* Instructions no assertion guards: Un on a pointer; the right operand of
\* the other operations; a constant added to a descriptor; the value of a
\* LockAdd; the pairs of a call after the first; and the bytes below meta, as
\* the lower bound of an access is 0, wherever the packet begins.
BelowMeta(r, offset) == real[r].t = T_DATA /\ real[r].n + offset < packet.meta

Unguarded(ins) ==
    \/ ins.kind = "Un"
    \/ ins.kind = "Bin" /\ ins.op \notin {"MOV", "ADD", "SUB"} /\ RealOf(ins.v).t # T_NUM
    \/ ins.kind = "Bin" /\ ins.op \in {"ADD", "SUB"} /\ T_FD \in {real[ins.dst].t, RealOf(ins.v).t}
    \/ ins.kind = "LockAdd" /\ ~IsNum(ins.value.n)
    \/ ins.kind = "Call" /\ Len(ins.pairs) > 1
    \/ ins.kind \in {"Mem", "LockAdd"} /\ BelowMeta(ins.base, ins.offset)
    \/ ins.kind = "Call" /\ ins.pairs # << >> /\ BelowMeta(ins.pairs[1].mem, 0)

\* What an operation on 64 bits computes; on 32 bits it has the low halves
\* of numbers.  What other operations make of a pointer is not known.
Computed(op, x, y) ==
    CASE op = "MOV" -> y
      [] op = "ADD" -> Added(x, y)
      [] op = "SUB" -> IF y.t = T_NUM THEN Subtracted(x, y) ELSE Num(x.n - y.n)
      [] OTHER -> IF y.t = T_NUM THEN Num(Compute(op, x.n, y.n)) ELSE Num(0)

Low(x) == IF x.t = T_NUM THEN Num(x.n % 2^IntBits) ELSE Num(0)

LeftOf(ins) == IF ins.op = "MOV" THEN Num(0) ELSE real[ins.dst]

BinReal(ins) ==
    LET x == LeftOf(ins)
        y == RealOf(ins.v)
    IN  IF ins.is64 THEN Computed(ins.op, x, y) ELSE Low(Computed(ins.op, Low(x), Low(y)))

BinInexact(ins) ==
    LET x == LeftOf(ins)
        y == RealOf(ins.v)
    IN  \/ ~ins.is64 /\ BinReal(ins) # Computed(ins.op, x, y)
        \/ ins.op \in {"ADD", "SUB"} /\ (CutsOffset(x, y) \/ CutsOffset(y, x))
        \/ ShiftsSignBit(ins.op, x, y)

\* A division by zero or a shift by the width, in the machine or in the code.
BinUndefined(f, ins) ==
    LET y == RealOf(ins.v)
        n == IF ins.is64 THEN y.n ELSE Low(y).n
    IN  \E k \in Elems(Eval(f, ins.v)[T_NUM]) \cup {n} : Undefined(ins.op, k)

\* A field of the context that is read in part, or the pointer to meta.
LoadInexact(ins) ==
    LET p == real[ins.base]
        n == p.n + ins.offset
    IN  p.t = T_CTX /\ (n = Descriptor.meta \/ ins.width > 1)

\* An assertion compares with null, and differences of pointers are out of
\* order in the vector it compares.
NullInexact(ins) ==
    /\ ins.pairs # << >> /\ ins.pairs[1].kind = "PTR_TO_MEM_OR_NULL"
    /\ ~InOrder(regs[ins.pairs[1].mem][T_NUM])

\* f: the registers after the assertions.
Inexact(f, ins) ==
    CASE ins.kind = "Bin" -> BinInexact(ins) \/ Unguarded(ins)
      [] ins.kind = "Assume" ->
            LosesCompared(ins.op, f[ins.left], Eval(f, ins.right), real[ins.left], RealOf(ins.right))
      [] ins.kind = "Mem" -> ins.load /\ LoadInexact(ins)
      [] ins.kind = "Call" -> NullInexact(ins) \/ (ins.returns_map /\ SeveralNested(f[1]))
      [] ins.kind = "Un" -> TRUE
      [] OTHER -> FALSE

\* An assertion on bounds: numbers and widths are cut to int in an offset.
BoundInexact(a) ==
    a.kind = "linear" /\ a.width.reg
    /\ \/ ~IsNum(a.width.n)
       \/ LET gap == (IF a.v.reg THEN packet.end ELSE a.v.n) - real[a.width.n].n - a.offset
          IN  AsInt(ToWord(gap)) # gap

-----------------------------------------------------------------------------
(* The steps.                                                                *)

\* What a load may find.  The stack may hold what any register held.
LoadReal(ins) ==
    LET p == real[ins.base]
        n == p.n + ins.offset
        whole == ins.width = 1
    IN  CASE p.t = T_STACK -> {Num(w) : w \in Samples} \cup {real[r] : r \in DOMAIN real}
          [] p.t = T_CTX /\ whole /\ n = Descriptor.data -> {Ptr(T_DATA, 3)}
          [] p.t = T_CTX /\ whole /\ n = Descriptor.end -> {Ptr(T_DATA, packet.end)}
          [] p.t = T_CTX /\ whole /\ n = Descriptor.meta -> {Ptr(T_DATA, packet.meta)}
          [] OTHER -> {Num(w) : w \in Samples}

\* A helper leaves its result in register 0 and nothing in 1 to 5.
Returned(v) == [r \in (DOMAIN real \ 1 .. 5) \cup {0} |-> IF r = 0 THEN v ELSE real[r]]

\* The real registers after the instruction.
RealAfter(ins) ==
    LET into(r, V) == {Assign(real, r, v) : v \in V}
        returns(V) == {Returned(v) : v \in V}
        samples == {Num(w) : w \in Samples}
    IN  CASE ins.kind = "LoadMapFd" -> into(ins.dst, {Ptr(T_FD, ins.mapfd)})
          [] ins.kind = "Bin" -> into(ins.dst, {BinReal(ins)})
          [] ins.kind = "Un" -> into(ins.dst, samples)
          [] ins.kind = "Assume" ->
                IF MayCompare(ins.op, real[ins.left], RealOf(ins.right)) THEN {real} ELSE {}
          [] ins.kind = "Call" -> returns(IF ins.returns_map THEN Found(real[1].n) ELSE samples)
          [] ins.kind = "Packet" -> returns(samples)
          [] ins.kind = "Mem" /\ ins.load -> into(ins.value.n, LoadReal(ins))
          [] OTHER -> {real}

\* The analyser reads neither the operand of Un nor the value of LockAdd.
Initialised(ins) ==
    /\ Reads(ins) \subseteq DOMAIN regs
    /\ ins.kind = "Un" => ins.dst \in DOMAIN real
    /\ ins.kind = "LockAdd" => ins.value.n \in DOMAIN real
    /\ \A i \in DOMAIN Extract(ins) : ReadsOf(Extract(ins)[i]) \subseteq DOMAIN regs

Demanded(ins) == \A i \in DOMAIN Extract(ins) : Means(Extract(ins)[i])

Execute(ins) ==
    LET f == AssertedAll(regs, Extract(ins))
    IN  /\ Initialised(ins) /\ Demanded(ins)
        /\ ins.kind = "Bin" /\ ins.op # "MOV" => ~BinUndefined(f, ins)
        /\ ins.kind = "Assume" =>
                \A t \in NonFd \ {T_NUM} :
                    ~AbortsOffset(ins.op, f[ins.left][t], Eval(f, ins.right)[t])
        /\ regs' = Run(f, ins)
        /\ real' \in RealAfter(ins)
        /\ Count(Inexact(f, ins))
        /\ UNCHANGED packet

MachineNext == steps < MaxSteps /\ \E ins \in Instructions : Execute(ins)

MachineSpec == MachineInit /\ [][MachineNext]_machineVars

-----------------------------------------------------------------------------
(* Properties.                                                               *)

\* The analyser has a value for exactly the registers the program may read
\* (RegsDom::at throws for the others), and values are of their types.
TypeOK ==
    /\ DOMAIN regs = DOMAIN real
    /\ {10, 13, 14} \subseteq DOMAIN regs
    /\ \A r \in DOMAIN regs :
        /\ IsValue(regs[r]) /\ IsTidy(regs[r])
        /\ IsReal(real[r])
    /\ exact \in BOOLEAN /\ steps \in 0 .. MaxSteps

\* Machine and its assumed assertions lose no execution: whatever a register
\* holds is covered, unless a step was one Inexact names.
RegistersCovered == exact => \A r \in DOMAIN real : Holds(regs[r], real[r])

\* An instruction whose assertions hold is safe, unless it is one that no
\* assertion guards: the extractor asks for enough (AssertionExtractor).
AssertionsSuffice ==
    \A ins \in Instructions :
        (/\ exact /\ Initialised(ins) /\ Demanded(ins)
         /\ ~Unguarded(ins))
        => Legal(ins)

\* An assertion the analyser finds satisfied does hold (Machine::satisfied),
\* for registers of one type each, and a bound that is one number.
SatisfiedHolds ==
    \A ins \in Instructions :
        Initialised(ins) =>
        \A i \in DOMAIN Extract(ins) :
            LET a == Extract(ins)[i]
                single == \A r \in ReadsOf(a) : Cardinality(TypesOf(regs[r])) = 1
                one == a.kind = "linear" =>
                          \A t \in NonFd : Len(RightOf(regs, a)[t].elems) <= 1
            IN  (exact /\ single /\ one /\ ~BoundInexact(a) /\ Satisfied(regs, a))
                => Means(a)

-----------------------------------------------------------------------------
(* Why: the invariant that the proofs use.                                   *)

\* Beside the types and what the registers hold: no instruction writes the
\* end of the stack or the size of the packet, of which nothing is known.
Tracked ==
    /\ TypeOK /\ RegistersCovered
    /\ regs = [r \in DOMAIN regs |-> regs[r]]
    /\ DOMAIN regs \subseteq Readable \cup {13, 14}
    /\ real[10] = Ptr(T_STACK, StackSize)
    /\ regs[DATA_END_REG] = NumTop
    /\ packet \in Packets

=============================================================================
