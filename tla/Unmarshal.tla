----------------------------- MODULE Unmarshal -----------------------------
(* The translation of eBPF slots to instructions (asm_unmarshal.cpp): a loop *)
(* over the slots, which writes the labelled instructions and the notes.     *)
EXTENDS Marshal, Prototypes, FiniteSets

CONSTANTS
    Raws,       \* the programs to translate, sequences of slots
    StackSize   \* STACK_SIZE

\* ebpf_inst, each field with the width it has there.
Slots == [opcode : 0 .. 255, dst : 0 .. 15, src : 0 .. 15,
          offset : Signed(PcBits), imm : Signed(ImmBits)]

ASSUME RawsAssumption == \A r \in Raws : r \in Seq(Slots)

VARIABLES
    raw,        \* the program; never changes
    pc,
    prog,       \* the instructions, [label, ins], a label being a number
    notes,      \* a set of notes for each slot that was reached
    outcome     \* running, insts, error (a message), uncaught or abort

vars == <<raw, pc, prog, notes, outcome>>

-----------------------------------------------------------------------------
(* The fields of a slot.                                                     *)

Cls(i)   == i.opcode % 8
Op(i)    == i.opcode \div 16
Mode(i)  == i.opcode \div 32
HasSrc(i) == (i.opcode \div 8) % 2 = 1
getMemWidth(i) == <<4, 2, 1, 8>>[((i.opcode \div 8) % 4) + 1]
getMemIsLoad(i) == Cls(i) \in {LD, LDX}
IsLddw(i) == i.opcode = LddwImm
IsMem(i)  == Cls(i) \in {LD, LDX, ST, STX} /\ ~IsLddw(i)
IsAlu(i)  == Cls(i) \in {ALU, ALU64}
IsJump(i) == Cls(i) = JMP /\ Op(i) \notin {8, 9}
U32(n)    == U(n, ImmBits)

-----------------------------------------------------------------------------
(* makeAluOp.                                                                *)

EndianInvalid(i) ==
    Op(i) = 13 /\ \/ i.imm = 32 /\ Cls(i) = ALU64
                  \/ i.imm = 64 /\ Cls(i) = ALU

getAluOp(i) ==
    IF Op(i) = 13
    THEN CASE i.imm = 16 -> "LE16" [] i.imm = 32 -> "LE32" [] OTHER -> "LE64"
    ELSE <<"ADD", "SUB", "MUL", "DIV", "OR", "AND", "LSH", "RSH",
           "NEG", "MOD", "XOR", "MOV", "ARSH">>[Op(i) + 1]

getBinValue(i) == IF HasSrc(i) THEN Reg(i.src) ELSE Imm(U32(i.imm))

makeAluOp(i) ==
    IF Op(i) \in {8, 13} THEN [k |-> "Un", op |-> getAluOp(i), dst |-> i.dst]
    ELSE [k |-> "Bin", op |-> getAluOp(i), is64 |-> Cls(i) = ALU64,
          dst |-> i.dst, v |-> getBinValue(i), lddw |-> FALSE]

AluNotes(i) ==
    LET bin == Op(i) \notin {8, 13}
    IN  {n \in {"Invalid target r10"} : i.dst = 10}
        \cup {n \in {"arsh32 is not allowed"} : Op(i) = 12 /\ Cls(i) = ALU}
        \cup {n \in {"invalid endian immediate"} : Op(i) = 13 /\ i.imm \notin {16, 32, 64}}
        \cup {n \in {"nonzero offset"} : bin /\ i.offset # 0}
        \cup {n \in {"nonzero imm"} : bin /\ HasSrc(i) /\ i.imm # 0}
        \cup {n \in {"nonzero src"} : bin /\ ~HasSrc(i) /\ i.src # 0}
        \cup {n \in {"division by zero"} : Op(i) \in {3, 9} /\ ~HasSrc(i) /\ i.imm = 0}

-----------------------------------------------------------------------------
(* makeMemOp and makeLddw.                                                   *)

Access(i, base) == [width |-> getMemWidth(i), basereg |-> base, offset |-> i.offset]

makeMemOp(i) ==
    CASE Mode(i) = 0 -> [k |-> "Undefined", opcode |-> i.opcode]
      [] Mode(i) \in {ModeAbs, ModeInd} ->
            [k |-> "Packet", width |-> getMemWidth(i), offset |-> i.imm,
             regoffset |-> IF Mode(i) = ModeInd THEN <<i.src>> ELSE << >>]
      [] Mode(i) = ModeMem ->
            [k |-> "Mem", is_load |-> getMemIsLoad(i),
             access |-> Access(i, IF getMemIsLoad(i) THEN i.src ELSE i.dst),
             value |-> IF getMemIsLoad(i) THEN Reg(i.dst)
                       ELSE IF Cls(i) = ST THEN Imm(U32(i.imm)) ELSE Reg(i.src)]
      [] Mode(i) = ModeXadd ->
            [k |-> "LockAdd", access |-> Access(i, i.dst), valreg |-> i.src]

\* Modes that are refused with an exception.
MemUnsupported(i) ==
    \/ Mode(i) \in {4, 5, 7}
    \/ Mode(i) \in {ModeAbs, ModeInd} /\ Cls(i) # LD
    \/ Mode(i) = ModeMem /\ Cls(i) = LD

MemNotes(i) ==
    LET base == IF getMemIsLoad(i) THEN i.src ELSE i.dst
    IN  {n \in {"Bad register"} : i.dst > 10 \/ i.src > 10}
        \cup {n \in {"Bad instruction"} : Mode(i) = 0}
        \cup {n \in {"invalid opcode"} : Mode(i) \in {1, 2} /\ getMemWidth(i) = 8}
        \cup {n \in {"Cannot modify r10"} : Mode(i) = 3 /\ getMemIsLoad(i) /\ i.dst = 10}
        \cup {n \in {"Stack access out of bounds"} :
                /\ Mode(i) = 3 /\ base = 10
                /\ i.offset + getMemWidth(i) > 0 \/ i.offset < -StackSize}

makeLddw(i, next) ==
    IF i.src = 1 THEN [k |-> "LoadMapFd", dst |-> i.dst, mapfd |-> i.imm]
    ELSE [k |-> "Bin", op |-> "MOV", is64 |-> TRUE, dst |-> i.dst,
          v |-> Imm(merge(i.imm, next)), lddw |-> TRUE]

\* The second slot of the last instruction of a program is read beyond the
\* vector: it may be noted as invalid or not.
LddwNotes(i, at) ==
    LET last == at >= Len(raw) - 1
        must == {n \in {"incomplete LDDW"} : last}
                \cup {n \in {"LDDW uses reserved fields"} :
                        i.src > 1 \/ i.dst > 10 \/ i.offset # 0}
                \cup {n \in {"invalid LDDW"} : i.src # 1 /\ ~last
                        /\ [raw[at + 2] EXCEPT !.imm = 0] # Slot(0, 0, 0, 0, 0)}
    IN  {must} \cup {must \cup {n \in {"invalid LDDW"} : i.src # 1 /\ last}}

-----------------------------------------------------------------------------
(* makeJmp and makeCall.                                                     *)

Singles == {Arg, Map, Key, Val, Ctx}
Pairs   == {MemOrNull, Mem, Uninit}
Sizes   == {Size, Size0}

ArgAt(proto, i) == IF i \in DOMAIN proto.args THEN proto.args[i] ELSE "DONTCARE"

\* Mutant: the size of a pair is taken for an argument of its own.
TurnsAll(proto) == {i \in 1 .. 5 : ArgAt(proto, i) # "DONTCARE"}

\* The arguments at which the loop of makeCall starts a turn: a pair takes two,
\* and the loop returns at the first that does not count.
Turns(proto) ==
    LET at[k \in 1 .. 5] ==
            IF k = 1 THEN 1
            ELSE IF ArgAt(proto, at[k - 1]) = "DONTCARE" THEN at[k - 1]
            ELSE IF ArgAt(proto, at[k - 1]) \in Pairs THEN at[k - 1] + 2
            ELSE at[k - 1] + 1
    IN  {i \in 1 .. 5 : ArgAt(proto, i) # "DONTCARE" /\ \E k \in 1 .. 5 : at[k] = i}

CallAborts(n) == \E i \in Turns(get_prototype(n)) : ArgAt(get_prototype(n), i) \in Sizes

toArgSingleKind(t) == IF t = Map THEN "MAP_FD" ELSE t

\* What the turns at arguments of some kinds put into a vector of the call.
Collected(proto, kinds, entry) ==
    LET done[i \in 0 .. 5] ==
            IF i = 0 THEN << >>
            ELSE IF i \in Turns(proto) /\ ArgAt(proto, i) \in kinds
            THEN Append(done[i - 1], entry[i]) ELSE done[i - 1]
    IN  done[5]

makeCall(n) ==
    LET proto   == get_prototype(n)
        kind(i) == ArgAt(proto, i)
    IN  [k |-> "Call", func |-> n, pkt_access |-> proto.pkt_access,
         returns_map |-> proto.ret = "PTR_TO_MAP_VALUE_OR_NULL",
         singles |-> Collected(proto, Singles, [i \in 1 .. 5 |->
            [kind |-> toArgSingleKind(kind(i)), reg |-> i]]),
         pairs |-> Collected(proto, Pairs, [i \in 1 .. 5 |->
            [kind |-> kind(i), mem |-> i, size |-> i + 1,
             can_be_zero |-> kind(i + 1) = Size0]])]

Target(i, at) == U(at + 1 + i.offset, PcBits)

getJmpOp(i) ==
    <<"EQ", "GT", "GE", "SET", "NE", "SGT", "SGE", "-", "-",
      "LT", "LE", "SLT", "SLE">>[Op(i)]

\* Codes of a jump that end in assert(false).
JmpAborts(i) == IsJump(i) /\ i.opcode # JMP /\ Op(i) \in {0, 15}

makeJmp(i, at) ==
    CASE Op(i) = 8 -> makeCall(i.imm)
      [] Op(i) = 9 -> [k |-> "Exit"]
      [] OTHER -> [k |-> "Jmp", target |-> Target(i, at),
                   cond |-> IF i.opcode = JMP THEN << >>
                            ELSE <<[op |-> getJmpOp(i), left |-> i.dst,
                                    right |-> getBinValue(i)]>>]

\* Mutant: the first slot after the program passes for one of it.
JmpNotesBeyond(i, at) ==
    {n \in {"invalid function id"} : Op(i) = 8 /\ ~is_valid_prototype(i.imm)}
    \cup {n \in {"jump out of bounds"} : IsJump(i) /\ Target(i, at) > Len(raw)}
    \cup {n \in {"jump to middle of lddw"} :
            IsJump(i) /\ Target(i, at) < Len(raw) /\ raw[Target(i, at) + 1].opcode = 0}

JmpNotes(i, at) ==
    {n \in {"invalid function id"} : Op(i) = 8 /\ ~is_valid_prototype(i.imm)}
    \cup {n \in {"jump out of bounds"} : IsJump(i) /\ Target(i, at) >= Len(raw)}
    \cup {n \in {"jump to middle of lddw"} :
            IsJump(i) /\ Target(i, at) < Len(raw) /\ raw[Target(i, at) + 1].opcode = 0}

-----------------------------------------------------------------------------
(* unmarshal.                                                                *)

\* Slots for which an exception leaves the loop: only an InvalidInstruction
\* is caught and returned as a message.
Invalid(i) ==
    \/ Cls(i) = 6
    \/ IsAlu(i) /\ (Op(i) \in {14, 15} \/ EndianInvalid(i))
    \/ Cls(i) = JMP /\ Op(i) = 14

Failure(i) ==
    CASE Invalid(i) -> "error"
      [] IsMem(i) /\ MemUnsupported(i) -> "uncaught"
      [] JmpAborts(i) \/ (Cls(i) = JMP /\ Op(i) = 8 /\ CallAborts(i.imm)) -> "abort"
      [] OTHER -> "none"

\* The instruction of the slot with number at; next is the immediate behind it.
Decode(i, next, at) ==
    CASE IsLddw(i) -> makeLddw(i, next)
      [] IsMem(i)  -> makeMemOp(i)
      [] IsAlu(i)  -> makeAluOp(i)
      [] OTHER     -> makeJmp(i, at)

\* The sets of notes that one slot may be given.
SlotNotes(i, at) ==
    CASE IsLddw(i) -> LddwNotes(i, at)
      [] IsMem(i)  -> {MemNotes(i)}
      [] IsAlu(i)  -> {AluNotes(i)}
      [] OTHER     -> {JmpNotes(i, at)}

FallsThrough(ins) == ins.k # "Exit" /\ ~(ins.k = "Jmp" /\ ins.cond = << >>)

Init ==
    /\ raw \in Raws
    /\ pc = 0
    /\ prog = << >>
    /\ notes = <<{}>>
    /\ outcome = "running"

\* next_imm, 0 behind the last slot.
NextImm(at) == IF at < Len(raw) - 1 THEN raw[at + 2].imm ELSE 0

Advance(wide) == U(pc + (IF wide THEN 2 ELSE 1), PcBits)

\* A slot that ends the translation.
Refuse ==
    /\ outcome = "running" /\ pc < Len(raw)
    /\ Failure(raw[pc + 1]) # "none"
    /\ outcome' = Failure(raw[pc + 1])
    /\ UNCHANGED <<raw, pc, prog, notes>>

\* One turn of the loop: an instruction with its label and notes.
Translate ==
    /\ outcome = "running" /\ pc < Len(raw)
    /\ LET i   == raw[pc + 1]
           ins == Decode(i, NextImm(pc), pc)
           falls == {n \in {"fallthrough in last instruction"} :
                        pc = Len(raw) - 1 /\ FallsThrough(ins)}
       IN  /\ Failure(i) = "none"
           /\ prog' = Append(prog, [label |-> pc, ins |-> ins])
           /\ \E said \in SlotNotes(i, pc) :
                notes' = [notes EXCEPT ![Len(notes)] = @ \cup said \cup falls]
                         \o (IF IsLddw(i) THEN <<{}, {}>> ELSE <<{}>>)
           /\ pc' = Advance(IsLddw(i))
    /\ UNCHANGED <<raw, outcome>>

\* The end of the program; an empty one is refused with an exception that is
\* not caught.
Finish ==
    /\ outcome = "running" /\ pc >= Len(raw)
    /\ outcome' = IF raw = << >> THEN "uncaught" ELSE "insts"
    /\ notes' = [notes EXCEPT ![Len(notes)] = @ \cup
                    {n \in {"no exit instruction"} :
                        raw # << >> /\ \A j \in DOMAIN prog : prog[j].ins.k # "Exit"}]
    /\ UNCHANGED <<raw, pc, prog>>

Next == Refuse \/ Translate \/ Finish

Spec == Init /\ [][Next]_vars

-----------------------------------------------------------------------------
(* Properties.                                                               *)

Done  == outcome = "insts"
Quiet == \A j \in DOMAIN notes : notes[j] = {}

\* Every instruction is translated once, in order, under the number of its
\* first slot, the slots between are the second halves of wide ones, and none
\* is left at the end.
EachOnce ==
    /\ \A j \in 1 .. Len(prog) - 1 :
        prog[j + 1].label = prog[j].label + size(prog[j].ins)
    /\ Done => /\ prog # << >> /\ prog[1].label = 0
               /\ Last(prog).label + size(Last(prog).ins) >= Len(raw)

\* What marshal writes for the result translates to the same instruction
\* (test_marshal.cpp:9-14), whatever the original slot looked like.
DecodesBack ==
    \A j \in DOMAIN prog :
        CanEncode(prog[j].ins) /\ prog[j].ins.k # "Jmp" =>
            LET slots == Encode(prog[j].ins, 0)
            IN  /\ Failure(slots[1]) = "none"
                /\ Decode(slots[1], IF Len(slots) = 2 THEN slots[2].imm ELSE 0, 0)
                        = prog[j].ins

\* The fields that the instruction does not use are zero, and it is not one
\* that marshal writes in another form: a 32-bit negation, a conversion to
\* little endian, LockAdd in another class.
Plain(i) ==
    /\ IsMem(i) => /\ Mode(i) = 6 => Cls(i) = STX /\ i.imm = 0
                   /\ Mode(i) = 3 /\ Cls(i) # ST => i.imm = 0
                   /\ Cls(i) = ST => i.src = 0
                   /\ Mode(i) \in {1, 2} => i.dst = 0 /\ i.offset = 0
                   /\ Mode(i) = 1 => i.src = 0
    /\ IsAlu(i) /\ Op(i) = 8 =>
            i.opcode = ALU64 + 128 /\ i.src = 0 /\ i.offset = 0 /\ i.imm = 0
    /\ IsAlu(i) /\ Op(i) = 13 =>
            HasSrc(i) /\ i.src = 0 /\ i.offset = 0
            /\ (Cls(i) = ALU64 => i.imm = 64)
    /\ Cls(i) = JMP /\ Op(i) \in {8, 9} =>
            ~HasSrc(i) /\ i.dst = 0 /\ i.src = 0 /\ i.offset = 0
    /\ Cls(i) = JMP /\ Op(i) = 9 => i.imm = 0
    /\ i.opcode = JMP => i.dst = 0 /\ i.src = 0 /\ i.imm = 0
    /\ IsJump(i) => IF HasSrc(i) THEN i.imm = 0 ELSE i.src = 0
    /\ IsLddw(i) /\ i.src = 1 => i.offset = 0

\* A map is loaded with a second slot of zeros, which no note asks for.
SecondSlotsEmpty ==
    \A j \in DOMAIN prog : prog[j].ins.k = "LoadMapFd" /\ prog[j].label + 2 <= Len(raw)
        => raw[prog[j].label + 2] = Slot(0, 0, 0, 0, 0)

\* A plain program without notes is the one that marshal writes for the
\* result: no bit of it is lost.
RoundTrip ==
    /\ Done /\ Quiet /\ SecondSlotsEmpty
    /\ \A j \in DOMAIN prog : Plain(raw[prog[j].label + 1])
    => CanMarshal(prog) /\ marshal(prog) = raw

\* Without a note, every jump leads to an instruction of the program.  A map
\* load whose second slot is not empty is not noted and can be a target.
JumpsNoted ==
    Done /\ Quiet /\ SecondSlotsEmpty =>
        \A j \in DOMAIN prog : prog[j].ins.k = "Jmp" =>
            \E m \in DOMAIN prog : prog[m].label = prog[j].ins.target

\* The pairs and singles of a call share out the arguments of the prototype,
\* each size follows its pointer, and no assertion fails for a known function.
CallsFormed ==
    /\ outcome = "abort" => ~is_valid_prototype(raw[pc + 1].imm) \/ Op(raw[pc + 1]) # 8
    /\ \A j \in DOMAIN prog :
            LET ins   == prog[j].ins
                proto == get_prototype(ins.func)
                used  == {ins.singles[x].reg : x \in DOMAIN ins.singles}
                         \cup UNION {{ins.pairs[x].mem, ins.pairs[x].size} :
                                        x \in DOMAIN ins.pairs}
            IN  ins.k = "Call" =>
                    /\ used = DOMAIN proto.args
                    /\ \A x \in DOMAIN ins.pairs : ArgAt(proto, ins.pairs[x].size) \in Sizes

-----------------------------------------------------------------------------
(* Why: the invariants that the proofs use.                                  *)

\* A program whose slots, and the one behind a wide last one, have numbers of
\* PcBits bits: pc does not return to 0.
Short(r) == Len(r) + 1 < 2 ^ PcBits

\* Where the instruction after the j-th starts.
After(j) == prog[j].label + size(prog[j].ins)

Walked ==
    /\ raw \in Seq(Slots) /\ Short(raw) /\ pc \in Nat /\ prog \in Seq(ToSet(prog))
    /\ IF prog = << >> THEN pc = 0 ELSE prog[1].label = 0 /\ pc = After(Len(prog))
    /\ \A j \in DOMAIN prog :
        /\ prog[j].label \in 0 .. Len(raw) - 1 /\ prog[j].label < pc
        /\ size(prog[j].ins) = IF IsLddw(raw[prog[j].label + 1]) THEN 2 ELSE 1
    /\ \A j \in 1 .. Len(prog) - 1 : prog[j + 1].label = After(j)
    /\ Done => pc >= Len(raw) /\ prog # << >>

\* Every slot that was passed is the first or the second of an instruction.
Passed ==
    \A n \in 0 .. pc - 1 : \E j \in DOMAIN prog :
        \/ n = prog[j].label
        \/ n = prog[j].label + 1 /\ size(prog[j].ins) = 2

\* What the notes of the j-th instruction say.
Noted(j) ==
    LET ins  == prog[j].ins
        i    == raw[prog[j].label + 1]
        said == notes[prog[j].label + 1]
    IN  /\ ins.k = "Jmp" =>
            /\ ins.target \in Nat
            /\ ins.target >= Len(raw) => "jump out of bounds" \in said
            /\ ins.target < Len(raw) /\ raw[ins.target + 1].opcode = 0
                    => "jump to middle of lddw" \in said
        /\ IsLddw(i) /\ prog[j].label + 2 <= Len(raw) =>
            \/ ins.k = "LoadMapFd"
            \/ raw[prog[j].label + 2].opcode = 0
            \/ "invalid LDDW" \in said

\* The j-th instruction is what its slot was translated to, with its notes.
FromSlot(j) ==
    LET at == prog[j].label
        i  == raw[at + 1]
    IN  /\ Failure(i) = "none"
        /\ prog[j].ins = Decode(i, NextImm(at), at)
        /\ \E said \in SlotNotes(i, at) : said \subseteq notes[at + 1]

Sourced == \A j \in DOMAIN prog : FromSlot(j)

AllNoted ==
    /\ notes \in Seq(ToSet(notes)) /\ Len(notes) = pc + 1
    /\ \A j \in DOMAIN prog : Noted(j)

\* The calls are those that makeCall forms, and a failed assertion is that of
\* the slot where the loop stopped; for programs of every length.
Formed ==
    /\ raw \in Seq(Slots) /\ pc \in Nat /\ prog \in Seq(ToSet(prog))
    /\ outcome = "abort" => pc < Len(raw) /\ Failure(raw[pc + 1]) = "abort"
    /\ \A j \in DOMAIN prog :
        prog[j].ins.k = "Call" => prog[j].ins = makeCall(prog[j].ins.func)

=============================================================================
