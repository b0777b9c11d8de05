------------------------------ MODULE Marshal ------------------------------
(* eBPF slots and instructions, and the translation of instructions to slots *)
(* (linux_ebpf.hpp, asm_marshal.cpp).                                        *)
(*                                                                           *)
(* A slot is a record [opcode, dst, src, offset, imm]; an instruction is a   *)
(* record with its variant in field k.  An optional value is a sequence of   *)
(* at most one, a Value is [reg |-> r] or [imm |-> n].                       *)
EXTENDS Integers, Sequences, SequencesExt

CONSTANTS
    ImmBits,    \* width of an immediate, 32 in the code
    PcBits      \* width of pc_t and of offsets, 16 in the code

ASSUME WidthAssumption == ImmBits \in Nat \ {0} /\ PcBits \in Nat \ {0}

U(n, bits) == n % 2 ^ bits
S(n, bits) == IF U(n, bits) >= 2 ^ (bits - 1) THEN U(n, bits) - 2 ^ bits ELSE U(n, bits)

\* The values of a signed field.
Signed(bits) == -(2 ^ (bits - 1)) .. 2 ^ (bits - 1) - 1

\* A 64-bit immediate is two of the width ImmBits.
merge(imm, next) == U(next, ImmBits) * 2 ^ ImmBits + U(imm, ImmBits)
split(v) == <<S(v, ImmBits), S(v \div 2 ^ ImmBits, ImmBits)>>

Slot(opcode, dst, src, offset, imm) ==
    [opcode |-> opcode, dst |-> dst, src |-> src, offset |-> offset, imm |-> imm]

Reg(r) == [reg |-> r]
Imm(n) == [imm |-> n]
IsReg(v) == DOMAIN v = {"reg"}

-----------------------------------------------------------------------------
(* The fields of an opcode.                                                  *)

LD    == 0
LDX   == 1
ST    == 2
STX   == 3
ALU   == 4
JMP   == 5
ALU64 == 7
SrcReg == 8
LddwImm == 24

ModeAbs  == 1
ModeInd  == 2
ModeMem  == 3
ModeXadd == 6

width_to_opcode(w) == CASE w = 4 -> 0 [] w = 2 -> 8 [] w = 1 -> 16 [] w = 8 -> 24

BinCode == [ADD |-> 0, SUB |-> 1, MUL |-> 2, DIV |-> 3, OR |-> 4, AND |-> 5,
            LSH |-> 6, RSH |-> 7, MOD |-> 9, XOR |-> 10, MOV |-> 11, ARSH |-> 12]

ConditionCode == [EQ |-> 1, GT |-> 2, GE |-> 3, SET |-> 4, NE |-> 5, SGT |-> 6,
                  SGE |-> 7, LT |-> 10, LE |-> 11, SLT |-> 12, SLE |-> 13]

UnImm == [NEG |-> 0, LE16 |-> 16, LE32 |-> 32, LE64 |-> 64]

-----------------------------------------------------------------------------
(* MarshalVisitor: the slots of one instruction.                             *)

EncodeLddw(dst, isFd, imm, next) ==
    <<Slot(LddwImm, dst, IF isFd THEN 1 ELSE 0, 0, imm), Slot(0, 0, 0, 0, next)>>

RegOf(v) == IF IsReg(v) THEN v.reg ELSE 0
ImmOf(v) == IF IsReg(v) THEN 0 ELSE S(v.imm, ImmBits)
FromReg(v) == IF IsReg(v) THEN SrcReg ELSE 0

EncodeBin(b) ==
    IF b.lddw THEN EncodeLddw(b.dst, FALSE, split(b.v.imm)[1], split(b.v.imm)[2])
    ELSE <<Slot((IF b.is64 THEN ALU64 ELSE ALU) + 16 * BinCode[b.op] + FromReg(b.v),
                b.dst, RegOf(b.v), 0, ImmOf(b.v))>>

\* Mutant: every conversion is given the 32-bit class.
EncodeUnAlu(b) ==
    IF b.op = "NEG" THEN <<Slot(ALU64 + 128, b.dst, 0, 0, 0)>>
    ELSE <<Slot(ALU + SrcReg + 208, b.dst, 0, 0, UnImm[b.op])>>

\* Negation is always the 64-bit one; endian conversions have the source bit.
EncodeUn(b) ==
    IF b.op = "NEG" THEN <<Slot(ALU64 + 128, b.dst, 0, 0, 0)>>
    ELSE <<Slot((IF b.op = "LE64" THEN ALU64 ELSE ALU) + SrcReg + 208,
                b.dst, 0, 0, UnImm[b.op])>>

EncodeJmp(b, offset) ==
    IF b.cond = << >> THEN <<Slot(JMP, 0, 0, offset, 0)>>
    ELSE LET c == b.cond[1]
         IN  <<Slot(JMP + 16 * ConditionCode[c.op] + FromReg(c.right),
                    c.left, RegOf(c.right), offset, ImmOf(c.right))>>

EncodeMem(b) ==
    LET size == 32 * ModeMem + width_to_opcode(b.access.width)
    IN  IF b.is_load
        THEN <<Slot(LDX + size, b.value.reg, b.access.basereg, b.access.offset, 0)>>
        ELSE <<Slot((IF IsReg(b.value) THEN STX ELSE ST) + size, b.access.basereg,
                    RegOf(b.value), b.access.offset, ImmOf(b.value))>>

EncodePacket(b) ==
    LET mode == IF b.regoffset = << >> THEN ModeAbs ELSE ModeInd
    IN  <<Slot(LD + 32 * mode + width_to_opcode(b.width), 0,
               IF b.regoffset = << >> THEN 0 ELSE b.regoffset[1], 0, b.offset)>>

EncodeLockAdd(b) ==
    <<Slot(STX + 32 * ModeXadd + width_to_opcode(b.access.width),
           b.access.basereg, b.valreg, b.access.offset, 0)>>

\* Undefined, and the assumptions and assertions of a Cfg, have no encoding.
CanEncode(ins) == ins.k \notin {"Undefined", "Assume", "Assert"}

Encode(ins, offset) ==
    CASE ins.k = "Bin"       -> EncodeBin(ins)
      [] ins.k = "Un"        -> EncodeUn(ins)
      [] ins.k = "LoadMapFd" -> EncodeLddw(ins.dst, TRUE, ins.mapfd, 0)
      [] ins.k = "Call"      -> <<Slot(JMP + 128, 0, 0, 0, ins.func)>>
      [] ins.k = "Exit"      -> <<Slot(JMP + 144, 0, 0, 0, 0)>>
      [] ins.k = "Jmp"       -> EncodeJmp(ins, offset)
      [] ins.k = "Mem"       -> EncodeMem(ins)
      [] ins.k = "Packet"    -> EncodePacket(ins)
      [] ins.k = "LockAdd"   -> EncodeLockAdd(ins)

-----------------------------------------------------------------------------
(* marshal of a labelled program.                                            *)

\* Mutant: the second slot of a map load is forgotten.
sizeOfBin(ins) == IF ins.k = "Bin" /\ ins.lddw THEN 2 ELSE 1

size(ins) == IF ins.k = "LoadMapFd" \/ (ins.k = "Bin" /\ ins.lddw) THEN 2 ELSE 1

\* The number of the first slot of the i-th instruction, in a pc_t.
FirstSlot(prog, i) ==
    LET slot[j \in 0 .. Len(prog)] ==
            IF j = 0 THEN 0 ELSE slot[j - 1] + size(prog[j].ins)
    IN  U(slot[i - 1], PcBits)

\* get_labels: of instructions with one label the last one counts.
get_labels(prog) ==
    [l \in {prog[i].label : i \in DOMAIN prog} |->
        FirstSlot(prog, CHOOSE i \in DOMAIN prog :
            /\ prog[i].label = l
            /\ \A j \in DOMAIN prog : prog[j].label = l => j <= i)]

label_to_offset(target, pc) == S(target - pc - 1, PcBits)

\* marshal finds every label and an encoding of every instruction.
CanMarshal(prog) ==
    \A i \in DOMAIN prog :
        /\ CanEncode(prog[i].ins)
        /\ prog[i].ins.k = "Jmp" => prog[i].ins.target \in DOMAIN get_labels(prog)

\* Mutant: labels are numbered by instructions and not by slots.
EncodeAtIndex(prog, i) ==
    LET ins == prog[i].ins
    IN  Encode(ins, IF ins.k # "Jmp" THEN 0
                    ELSE label_to_offset((CHOOSE j \in DOMAIN prog :
                            prog[j].label = ins.target) - 1, i - 1))

\* The slots of the i-th instruction, a jump by the distance to its label.
EncodeAt(prog, i) ==
    LET ins == prog[i].ins
    IN  Encode(ins, IF ins.k # "Jmp" THEN 0
                    ELSE label_to_offset(get_labels(prog)[ins.target], FirstSlot(prog, i)))

marshal(prog) ==
    LET res[i \in 0 .. Len(prog)] ==
            IF i = 0 THEN << >> ELSE res[i - 1] \o EncodeAt(prog, i)
    IN  res[Len(prog)]

=============================================================================
