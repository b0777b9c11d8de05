----------------------------- MODULE Extractor -----------------------------
(* AssertionExtractor of ai.cpp: the assertions an instruction must satisfy  *)
(* to be safe, on the types of registers and on the bounds of accesses.      *)
(*                                                                           *)
(* A value operand is [reg, n]: the register n, or the immediate n.          *)
EXTENDS Rcp

CONSTANTS
    StackSize,     \* STACK_SIZE
    ValueSize,     \* map_defs: descriptor -> value_size
    Descriptor     \* ptype_descr: [size, data, end, meta], -1 for no field

ASSUME DescriptorAssumption ==
    /\ StackSize \in Nat \ {0}
    /\ ValueSize \in [Maps -> Nat]
    /\ Descriptor \in [size : Nat, data : Nat \cup {-1}, end : Nat \cup {-1},
                       meta : Nat \cup {-1}]
    \* The fields that a context has are different (spec_type_descriptors.hpp).
    /\ \A f, g \in {"data", "end", "meta"} :
            f # g /\ Descriptor[f] # -1 => Descriptor[f] # Descriptor[g]

Imm(n) == [reg |-> FALSE, n |-> n]
Reg(n) == [reg |-> TRUE, n |-> n]

DATA_END_REG == 13

\* The types as AssertionExtractor lists them: the maps, then the others.
TypeIndices == [i \in 1 .. Cardinality(Maps) |-> i - 1]
               \o <<T_CTX, T_STACK, T_DATA, T_NUM, T_FD>>

-----------------------------------------------------------------------------
(* The two kinds of assertions.                                              *)

\* TypeConstraint: the type of reg, when that of the register given is so.
Typed(r, T)                == [kind |-> "type", reg |-> r, types |-> T,
                               given |-> r, when |-> AllTypes]
TypedWhen(r, T, given, when) == [kind |-> "type", reg |-> r, types |-> T,
                                 given |-> given, when |-> when]

\* LinearConstraint: reg + offset + width is in order op with v.
Linear(op, r, offset, width, v, T) ==
    [kind |-> "linear", op |-> op, reg |-> r, offset |-> offset,
     width |-> width, v |-> v, types |-> T]

\* The end of the memory a pointer of a type points into.
EndOf(t) ==
    CASE t \in Maps -> Imm(ValueSize[t])
      [] t = T_DATA -> Reg(DATA_END_REG)
      [] t = T_STACK -> Imm(StackSize)
      [] t = T_CTX -> Imm(Descriptor.size)

\* Mutant: the upper bound is on the first byte of the access only.
check_accessFirst(T, r, offset, width) ==
    LET In == Among(TypeIndices, T \ {T_NUM})
    IN  <<Linear("GE", r, offset, Imm(0), Imm(0), T)>>
        \o [i \in DOMAIN In |-> Linear("LE", r, offset, Imm(0), EndOf(In[i]), {In[i]})]

check_access(T, r, offset, width) ==
    LET In == Among(TypeIndices, T \ {T_NUM})
    IN  <<Linear("GE", r, offset, Imm(0), Imm(0), T)>>
        \o [i \in DOMAIN In |-> Linear("LE", r, offset, width, EndOf(In[i]), {In[i]})]

same_type(T, r1, r2) ==
    LET In == Among(TypeIndices, T)
    IN  [i \in DOMAIN In |-> TypedWhen(r1, {In[i]}, r2, {In[i]})]

-----------------------------------------------------------------------------
(* The assertions of each kind of instruction, for unprivileged programs.    *)

\* What a single argument must be.
ArgTypes(kind) ==
    CASE kind = "ANYTHING" -> {T_NUM}
      [] kind = "MAP_FD" -> {T_FD}
      [] kind \in {"PTR_TO_MAP_KEY", "PTR_TO_MAP_VALUE"} -> {T_STACK, T_DATA}
      [] kind = "PTR_TO_CTX" -> {T_CTX}

OfPair(arg) ==
    (IF arg.kind = "PTR_TO_MEM_OR_NULL"
     THEN <<Typed(arg.mem, MemTypes \cup {T_NUM}),
            Linear("EQ", arg.mem, 0, Imm(0), Imm(0), {T_NUM})>>
     ELSE <<Typed(arg.mem, MemTypes)>>)
    \o <<Typed(arg.size, {T_NUM}),
         Linear(IF arg.can_be_zero THEN "GE" ELSE "GT", arg.size, 0, Imm(0), Imm(0),
                {T_NUM})>>
    \o check_access(MemTypes, arg.mem, 0, Reg(arg.size))

\* The loop over the pairs is left after the first.
OfCall(call) ==
    [i \in DOMAIN call.singles |->
        Typed(call.singles[i].reg, ArgTypes(call.singles[i].kind))]
    \o (IF call.pairs = << >> THEN << >> ELSE OfPair(call.pairs[1]))

explicate(cond) ==
    IF ~cond.right.reg
    THEN IF cond.right.n # 0 THEN <<Typed(cond.left, {T_NUM})>> ELSE << >>
    ELSE (IF cond.op \notin {"EQ", "NE"} THEN <<Typed(cond.left, NonFd)>> ELSE << >>)
         \o same_type(AllTypes, cond.left, cond.right.n)

\* A pointer may be written to the stack only.
OfMem(ins) ==
    LET bounds(T) == check_access(T, ins.base, ins.offset, Imm(ins.width))
    IN  IF ins.base = 10 THEN bounds({T_STACK})
        ELSE <<Typed(ins.base, PtrTypes)>> \o bounds(PtrTypes)
             \o (IF ins.load \/ ~ins.value.reg THEN << >>
                 ELSE [i \in 1 .. 3 |->
                        TypedWhen(ins.value.n, {T_NUM}, ins.base,
                                  <<Maps, {T_CTX}, {T_DATA}>>[i])])

OfLockAdd(ins) ==
    <<Typed(ins.base, Maps)>>
    \o check_access(Maps, ins.base, ins.offset, Imm(ins.width))

OfBin(ins) ==
    LET r == ins.v.n
    IN  IF ins.op = "MOV" \/ (ins.op \in {"ADD", "SUB"} /\ ~ins.v.reg) THEN << >>
        ELSE IF ins.op = "ADD"
        THEN <<TypedWhen(r, {T_NUM}, ins.dst, PtrTypes),
               TypedWhen(ins.dst, {T_NUM}, r, PtrTypes)>>
        ELSE IF ins.op = "SUB"
        THEN <<Typed(ins.dst, NonFd \ Maps)>> \o same_type(NonFd \ Maps, r, ins.dst)
        ELSE <<Typed(ins.dst, {T_NUM})>>

Extract(ins) ==
    CASE ins.kind = "Exit" -> <<Typed(0, {T_NUM})>>
      [] ins.kind = "Call" -> OfCall(ins)
      [] ins.kind = "Assume" -> explicate(ins)
      [] ins.kind = "Mem" -> OfMem(ins)
      [] ins.kind = "LockAdd" -> OfLockAdd(ins)
      [] ins.kind = "Bin" -> OfBin(ins)
      [] OTHER -> << >>

=============================================================================
