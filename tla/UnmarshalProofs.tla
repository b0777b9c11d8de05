-------------------------- MODULE UnmarshalProofs --------------------------
(***************************************************************************)
(* The loop of unmarshal translates every slot of a program once, and a    *)
(* program it has no notes on jumps to its own instructions only and is    *)
(* written back by marshal as it was: for every program short enough for   *)
(* pc_t, and every width of pc_t and of the immediates.  The arguments of  *)
(* every call are those of its prototype.                                  *)
(***************************************************************************)
EXTENDS Unmarshal, Iteration, SequenceTheorems

-----------------------------------------------------------------------------
(* Numbers of pc_t.                                                          *)

LEMMA Wraps ==
  ASSUME NEW n \in Int
  PROVE  /\ U(n, PcBits) \in Nat
         /\ n \in 0 .. 2 ^ PcBits - 1 => U(n, PcBits) = n
<1>1. PICK m \in Nat \ {0} : m = 2 ^ PcBits
  BY PowerOfTwo, WidthAssumption
<1>2. n % m \in Nat /\ (n \in 0 .. m - 1 => n % m = n)
  BY <1>1
<1>3. QED
  BY <1>1, <1>2 DEF U

\* A step from a slot of a short program is not cut.
LEMMA AdvanceExact ==
  ASSUME raw \in Seq(Slots), Short(raw), pc \in Nat, pc < Len(raw), NEW wide \in BOOLEAN
  PROVE  Advance(wide) = pc + (IF wide THEN 2 ELSE 1)
<1> DEFINE n == pc + (IF wide THEN 2 ELSE 1)
<1>1. PICK m \in Nat \ {0} : m = 2 ^ PcBits
  BY PowerOfTwo, WidthAssumption
<1>2. Len(raw) \in Nat
  OBVIOUS
<1>3. n \in Int /\ n \in 0 .. 2 ^ PcBits - 1
  BY <1>1, <1>2 DEF Short
<1>4. U(n, PcBits) = n
  BY <1>3, Wraps
<1>5. QED
  BY <1>4 DEF Advance

-----------------------------------------------------------------------------
(* Fields, signed and unsigned.                                              *)

LEMMA Halves ==
  ASSUME NEW b \in Nat \ {0}
  PROVE  \E h \in Nat \ {0} : 2 ^ (b - 1) = h /\ 2 ^ b = 2 * h
<1>1. b - 1 \in Nat /\ (b - 1) + 1 = b
  OBVIOUS
<1>2. PICK h \in Nat \ {0} : h = 2 ^ (b - 1)
  BY <1>1, PowerOfTwo
<1>3. 2 ^ ((b - 1) + 1) = 2 ^ (b - 1) + 2 ^ (b - 1)
  BY <1>1, PowerDoubles
<1>4. 2 ^ b = h + h
  BY <1>1, <1>2, <1>3, Zenon
<1>5. 2 ^ b = 2 * h
  BY <1>2, <1>4
<1>6. QED
  BY <1>2, <1>5

LEMMA SlotFields ==
  ASSUME NEW i \in Slots
  PROVE  /\ i.opcode \in 0 .. 255 /\ i.dst \in 0 .. 15 /\ i.src \in 0 .. 15
         /\ i.offset \in Signed(PcBits) /\ i.offset \in Int
         /\ i.imm \in Signed(ImmBits) /\ i.imm \in Int
         /\ i = Slot(i.opcode, i.dst, i.src, i.offset, i.imm)
<1>1. /\ i.opcode \in 0 .. 255 /\ i.dst \in 0 .. 15 /\ i.src \in 0 .. 15
      /\ i.offset \in Signed(PcBits) /\ i.imm \in Signed(ImmBits)
      /\ i = Slot(i.opcode, i.dst, i.src, i.offset, i.imm)
  BY DEF Slots, Slot
<1>2. \A b \in Nat \ {0} : Signed(b) \subseteq Int
  <2> TAKE b \in Nat \ {0}
  <2>1. PICK h \in Nat : 2 ^ (b - 1) = h
    BY Halves
  <2>2. QED
    BY <2>1 DEF Signed
<1>3. Signed(PcBits) \subseteq Int /\ Signed(ImmBits) \subseteq Int
  BY <1>2, WidthAssumption
<1>4. QED
  BY <1>1, <1>3

\* A signed number is known from what a field of its width holds of it.
LEMMA SignedUnique ==
  ASSUME NEW b \in Nat \ {0}, NEW n \in Signed(b), NEW p, p = 2 ^ b, NEW q \in Int
  PROVE  S(n + p * q, b) = n
<1>1. PICK h \in Nat \ {0} : 2 ^ (b - 1) = h /\ 2 ^ b = 2 * h
  BY Halves
<1>2. n \in -h .. h - 1 /\ n \in Int
  BY <1>1 DEF Signed
<1>3. PICK m \in Nat \ {0} : m = 2 * h /\ m = p
  BY <1>1
<1>4. (n + m * q) % m = n % m
  BY <1>2, <1>3, RemainderShift
<1>5. n % m = IF n >= 0 THEN n ELSE n + m
  <2>1. CASE n >= 0
    <3>1. n \in 0 .. m - 1 /\ n = m * 0 + n
      BY <1>2, <1>3, <2>1
    <3>2. n % m = n
      BY <3>1, <1>2, RemainderUnique
    <3>3. QED
      BY <2>1, <3>2
  <2>2. CASE n < 0
    <3>1. PICK r \in 0 .. m - 1 : r = n + m
      BY <1>2, <1>3, <2>2
    <3>2. n = m * (-1) + r
      BY <1>2, <1>3, <3>1
    <3>3. n % m = r
      BY <3>1, <3>2, <1>2, RemainderUnique
    <3>4. QED
      BY <1>2, <2>2, <3>1, <3>3
  <2>3. QED
    BY <1>2, <2>1, <2>2
<1>6. U(n + p * q, b) = IF n >= 0 THEN n ELSE n + m
  BY <1>1, <1>3, <1>4, <1>5 DEF U
<1>7. S(n + p * q, b) = IF (IF n >= 0 THEN n ELSE n + m) >= h
                            THEN (IF n >= 0 THEN n ELSE n + m) - m
                            ELSE (IF n >= 0 THEN n ELSE n + m)
  BY <1>1, <1>3, <1>6, Zenon DEF S
<1>8. QED
  BY <1>2, <1>3, <1>7

LEMMA SignedBack ==
  ASSUME NEW b \in Nat \ {0}, NEW n \in Signed(b)
  PROVE  n \in Int /\ U(n, b) \in Nat /\ S(n, b) = n /\ S(U(n, b), b) = n
<1>1. PICK m \in Nat \ {0} : m = 2 ^ b
  BY PowerOfTwo
<1>2. n \in Int
  <2>1. PICK h \in Nat : 2 ^ (b - 1) = h
    BY Halves
  <2>2. QED
    BY <2>1 DEF Signed
<1>3. PICK k \in Int, r \in 0 .. m - 1 : n = m * k + r /\ r = n % m
  BY <1>1, <1>2, Remainder
<1>4. U(n, b) = r
  BY <1>1, <1>3 DEF U
<1>5. r = n + m * (-k)
  BY <1>1, <1>2, <1>3
<1>6. S(n + m * (-k), b) = n /\ S(n + m * 0, b) = n
  <2>1. \A j \in Int : S(n + m * j, b) = n
    BY <1>1, SignedUnique
  <2>2. -k \in Int /\ 0 \in Int
    BY <1>3
  <2>3. QED
    BY <2>1, <2>2
<1>7. n + m * 0 = n
  BY <1>1, <1>2
<1>8. QED
  BY <1>2, <1>4, <1>5, <1>6, <1>7

\* The distance of a jump, from where it leads and where it is.
LEMMA DistanceBack ==
  ASSUME NEW at \in Int, NEW n \in Signed(PcBits)
  PROVE  label_to_offset(U(at + 1 + n, PcBits), at) = n
<1>1. PICK m \in Nat \ {0} : m = 2 ^ PcBits
  BY PowerOfTwo, WidthAssumption
<1>2. n \in Int
  BY SignedBack, WidthAssumption
<1>3. PICK t \in Int : t = at + 1 + n
  BY <1>2
<1>4. PICK k \in Int, r \in 0 .. m - 1 : t = m * k + r /\ r = t % m
  BY <1>1, <1>3, Remainder
<1>5. U(at + 1 + n, PcBits) = r
  BY <1>1, <1>3, <1>4 DEF U
<1>6. r - at - 1 = n + m * (-k)
  BY <1>1, <1>2, <1>3, <1>4
<1>7. S(n + m * (-k), PcBits) = n
  <2>1. -k \in Int
    BY <1>4
  <2>2. QED
    BY <1>1, <2>1, SignedUnique, WidthAssumption
<1>8. QED
  BY <1>5, <1>6, <1>7 DEF label_to_offset

\* A 64-bit immediate keeps both halves.
LEMMA SplitMerged ==
  ASSUME NEW imm \in Signed(ImmBits), NEW next \in Signed(ImmBits)
  PROVE  split(merge(imm, next)) = <<imm, next>>
<1>1. PICK m \in Nat \ {0} : m = 2 ^ ImmBits
  BY PowerOfTwo, WidthAssumption
<1>2. imm \in Int /\ next \in Int
  BY SignedBack, WidthAssumption
<1>3. PICK k \in Int, r \in 0 .. m - 1 : imm = m * k + r /\ r = imm % m
  BY <1>1, <1>2, Remainder
<1>4. PICK u \in Nat : u = U(next, ImmBits) /\ S(u, ImmBits) = next
  BY SignedBack, WidthAssumption
<1>5. PICK v \in Nat : v = u * m + r
  BY <1>1, <1>3, <1>4
<1>6. merge(imm, next) = v
  BY <1>1, <1>3, <1>4, <1>5 DEF merge, U
<1>7. S(v, ImmBits) = imm
  <2>1. v = imm + m * (u - k)
    <3>1. m * (u - k) = u * m - m * k
      BY <1>1, <1>3, <1>4
    <3>2. m * k \in Int /\ u * m \in Int
      BY <1>1, <1>3, <1>4
    <3>3. PICK x \in Int, y \in Int : x = m * k /\ y = u * m
      BY <3>2
    <3>4. QED
      BY <1>2, <1>3, <1>5, <3>1, <3>3
  <2>2. u - k \in Int
    BY <1>3, <1>4
  <2>3. S(imm + m * (u - k), ImmBits) = imm
    BY <1>1, <2>2, SignedUnique, WidthAssumption
  <2>4. QED
    BY <2>1, <2>3
<1>8. v \div m = u
  <2>1. v = m * (v \div m) + (v % m) /\ v \div m \in Int /\ v % m \in 0 .. m - 1
    BY <1>1, <1>5
  <2>2. PICK d \in Int, e \in 0 .. m - 1 : d = v \div m /\ v = m * d + e
    BY <2>1
  <2>3. m * (u - d) = u * m - m * d
    BY <1>1, <1>4, <2>2
  <2>4. m * (u - d) = e - r
    <3>1. m * d \in Int /\ u * m \in Int
      BY <1>1, <1>4, <2>2
    <3>2. PICK x \in Int, y \in Int : x = m * d /\ y = u * m
      BY <3>1
    <3>3. QED
      BY <1>3, <1>5, <2>2, <2>3, <3>2
  <2>5. ~ (u - d >= 1)
    <3>1. \A f \in Int : f >= 1 => m * f >= m
      BY <1>1
    <3>2. u - d \in Int
      BY <1>4, <2>2
    <3>3. QED
      BY <1>1, <1>3, <2>2, <2>4, <3>1, <3>2
  <2>6. ~ (u - d <= -1)
    <3>1. \A f \in Int : f <= -1 => m * f <= -m
      BY <1>1
    <3>2. u - d \in Int
      BY <1>4, <2>2
    <3>3. QED
      BY <1>1, <1>3, <2>2, <2>4, <3>1, <3>2
  <2>7. QED
    BY <1>4, <2>2, <2>5, <2>6
<1>9. QED
  BY <1>1, <1>4, <1>6, <1>7, <1>8 DEF split

-----------------------------------------------------------------------------
(* What one slot becomes.                                                    *)

LEMMA CallIsCall ==
  ASSUME NEW n
  PROVE  makeCall(n).k = "Call" /\ makeCall(n).func = n
BY DEF makeCall

\* The branches of unmarshal exclude one another.
LEMMA OneBranch ==
  ASSUME NEW i \in Slots
  PROVE  /\ IsLddw(i) => ~ IsMem(i) /\ ~ IsAlu(i)
         /\ IsMem(i) => ~ IsAlu(i)
<1>1. IsLddw(i) => Cls(i) = 0
  BY DEF IsLddw, LddwImm, Cls
<1>2. QED
  BY <1>1 DEF IsMem, IsAlu, LD, LDX, ST, STX, ALU, ALU64

\* A wide slot.
LEMMA WideDecodes ==
  ASSUME NEW i \in Slots, NEW next, NEW at, IsLddw(i)
  PROVE  LET ins == Decode(i, next, at) IN
         /\ size(ins) = 2 /\ ins.k # "Jmp"
         /\ i.src = 1 => ins.k = "LoadMapFd"
<1>1. Decode(i, next, at) = makeLddw(i, next)
  BY OneBranch DEF Decode
<1>2. CASE i.src = 1
  BY <1>1, <1>2 DEF makeLddw, size
<1>3. CASE i.src # 1
  BY <1>1, <1>3 DEF makeLddw, size
<1>4. QED
  BY <1>2, <1>3

\* Any other slot, of which only a jump becomes one.
LEMMA OtherDecodes ==
  ASSUME NEW i \in Slots, NEW next, NEW at, ~ IsLddw(i), Failure(i) = "none"
  PROVE  LET ins == Decode(i, next, at) IN
         /\ size(ins) = 1
         /\ ins.k = "Jmp" => /\ ins.target = Target(i, at) /\ IsJump(i)
                             /\ ~ IsMem(i) /\ ~ IsAlu(i)
<1> DEFINE ins == Decode(i, next, at)
<1>1. CASE IsMem(i)
  <2>1. ins = makeMemOp(i)
    BY <1>1, OneBranch DEF Decode
  <2>2. ~ MemUnsupported(i) /\ ~ Invalid(i)
    BY <1>1 DEF Failure
  <2>3. Mode(i) \in {0, 1, 2, 3, 6}
    BY <2>2 DEF Mode, MemUnsupported, Slots
  <2>4. ins.k \in {"Undefined", "Packet", "Mem", "LockAdd"}
    BY <2>1, <2>3 DEF makeMemOp, ModeAbs, ModeInd, ModeMem, ModeXadd
  <2>5. QED
    BY <2>4 DEF size
<1>2. CASE ~ IsMem(i) /\ IsAlu(i)
  <2>1. ins = makeAluOp(i)
    BY <1>2 DEF Decode
  <2>2. ins.k = "Un" \/ (ins.k = "Bin" /\ ins.lddw = FALSE)
    BY <2>1 DEF makeAluOp
  <2>3. QED
    BY <2>2 DEF size
<1>3. CASE ~ IsMem(i) /\ ~ IsAlu(i)
  <2>1. ins = makeJmp(i, at)
    BY <1>3 DEF Decode
  <2>2. Cls(i) = JMP
    <3>1. Cls(i) \in 0 .. 7 /\ Cls(i) # 6
      BY DEF Cls, Slots, Failure, Invalid
    <3>2. QED
      BY <1>3, <3>1 DEF IsMem, IsAlu, JMP, LD, LDX, ST, STX, ALU, ALU64
  <2>3. CASE Op(i) = 8
    BY <2>1, <2>3, CallIsCall DEF makeJmp, size
  <2>4. CASE Op(i) = 9
    BY <2>1, <2>4 DEF makeJmp, size
  <2>5. CASE Op(i) \notin {8, 9}
    BY <2>1, <2>2, <2>5, <1>3 DEF makeJmp, size, IsJump
  <2>6. QED
    BY <2>3, <2>4, <2>5
<1>4. QED
  BY <1>1, <1>2, <1>3

-----------------------------------------------------------------------------
(* What marshal writes for the instruction of one slot.                      *)

SrcBit(i) == IF HasSrc(i) THEN SrcReg ELSE 0
SizeBits(i) == 8 * ((i.opcode \div 8) % 4)

\* The operand: a register or an immediate, the other field is zero.
Right(i, at, off) == Slot(i.opcode, at, IF HasSrc(i) THEN i.src ELSE 0, off,
                          IF HasSrc(i) THEN 0 ELSE i.imm)

\* The slot that marshal writes for a narrow slot, whose fields it does not
\* use are zero; off is the distance of a jump.
WrittenMem(i) ==
    CASE Mode(i) = ModeAbs  -> Slot(i.opcode, 0, 0, 0, i.imm)
      [] Mode(i) = ModeInd  -> Slot(i.opcode, 0, i.src, 0, i.imm)
      [] Mode(i) = ModeMem  -> Slot(i.opcode, i.dst, IF Cls(i) = ST THEN 0 ELSE i.src,
                                    i.offset, IF Cls(i) = ST THEN i.imm ELSE 0)
      [] Mode(i) = ModeXadd -> Slot(STX + 32 * ModeXadd + SizeBits(i), i.dst, i.src,
                                    i.offset, 0)

WrittenAlu(i) ==
    CASE Op(i) = 8  -> Slot(ALU64 + 128, i.dst, 0, 0, 0)
      [] Op(i) = 13 -> Slot((IF i.imm \in {16, 32} THEN ALU ELSE ALU64) + SrcReg + 208,
                            i.dst, 0, 0, IF i.imm \in {16, 32} THEN i.imm ELSE 64)
      [] OTHER      -> Right(i, i.dst, 0)

WrittenJmp(i, off) ==
    CASE Op(i) = 8      -> Slot(JMP + 128, 0, 0, 0, i.imm)
      [] Op(i) = 9      -> Slot(JMP + 144, 0, 0, 0, 0)
      [] i.opcode = JMP -> Slot(JMP, 0, 0, off, 0)
      [] OTHER          -> Right(i, i.dst, off)

LEMMA Opcodes ==
  ASSUME NEW i \in Slots
  PROVE  /\ Cls(i) \in 0 .. 7 /\ Op(i) \in 0 .. 15 /\ Mode(i) \in 0 .. 7
         /\ i.opcode = Cls(i) + SrcBit(i) + 16 * Op(i)
         /\ i.opcode = Cls(i) + SizeBits(i) + 32 * Mode(i)
         /\ getMemWidth(i) \in {1, 2, 4, 8} /\ width_to_opcode(getMemWidth(i)) = SizeBits(i)
<1>1. PICK n \in 0 .. 255 : n = i.opcode
  BY SlotFields
<1>2. /\ n % 8 \in 0 .. 7 /\ n \div 16 \in 0 .. 15 /\ n \div 32 \in 0 .. 7
      /\ (n \div 8) % 2 \in 0 .. 1 /\ (n \div 8) % 4 \in 0 .. 3
      /\ n = (n % 8) + 8 * ((n \div 8) % 2) + 16 * (n \div 16)
      /\ n = (n % 8) + 8 * ((n \div 8) % 4) + 32 * (n \div 32)
  OBVIOUS
<1>3. SrcBit(i) = 8 * ((n \div 8) % 2)
  BY <1>1, <1>2 DEF SrcBit, SrcReg, HasSrc
<1>4. getMemWidth(i) \in {1, 2, 4, 8} /\ width_to_opcode(getMemWidth(i)) = SizeBits(i)
  <2>1. PICK c \in 0 .. 3 : c = (n \div 8) % 4
    BY <1>2
  <2>2. getMemWidth(i) = <<4, 2, 1, 8>>[c + 1] /\ SizeBits(i) = 8 * c
    BY <1>1, <2>1 DEF getMemWidth, SizeBits
  <2>3. CASE c = 0
    BY <2>2, <2>3 DEF width_to_opcode
  <2>4. CASE c = 1
    BY <2>2, <2>4 DEF width_to_opcode
  <2>5. CASE c = 2
    BY <2>2, <2>5 DEF width_to_opcode
  <2>6. CASE c = 3
    BY <2>2, <2>6 DEF width_to_opcode
  <2>7. QED
    BY <2>1, <2>3, <2>4, <2>5, <2>6
<1>5. QED
  BY <1>1, <1>2, <1>3, <1>4 DEF Cls, Op, Mode, SizeBits

LEMMA BinCodes ==
  ASSUME NEW i \in Slots, Op(i) \in 0 .. 12 \ {8}
  PROVE  BinCode[getAluOp(i)] = Op(i)
<1> PICK n \in 0 .. 12 \ {8} : n = Op(i)
  OBVIOUS
<1> PICK a : a = getAluOp(i)
  OBVIOUS
<1>1. a = <<"ADD", "SUB", "MUL", "DIV", "OR", "AND", "LSH", "RSH",
            "NEG", "MOD", "XOR", "MOV", "ARSH">>[n + 1]
  BY DEF getAluOp
<1>2. BinCode[a] = n
  <2>1. n \in {0, 1, 2, 3} => BinCode[a] = n
    BY <1>1 DEF BinCode
  <2>2. n \in {4, 5, 6, 7} => BinCode[a] = n
    BY <1>1 DEF BinCode
  <2>3. n \in {9, 10, 11, 12} => BinCode[a] = n
    BY <1>1 DEF BinCode
  <2>4. QED
    BY <2>1, <2>2, <2>3
<1>3. QED
  BY <1>2

LEMMA ConditionCodes ==
  ASSUME NEW i \in Slots, Op(i) \in 1 .. 13 \ {8, 9}
  PROVE  ConditionCode[getJmpOp(i)] = Op(i)
<1> PICK n \in 1 .. 13 \ {8, 9} : n = Op(i)
  OBVIOUS
<1> PICK a : a = getJmpOp(i)
  OBVIOUS
<1>1. a = <<"EQ", "GT", "GE", "SET", "NE", "SGT", "SGE", "-", "-",
            "LT", "LE", "SLT", "SLE">>[n]
  BY DEF getJmpOp
<1>2. ConditionCode[a] = n
  <2>1. n \in {1, 2, 3, 4} => ConditionCode[a] = n
    BY <1>1 DEF ConditionCode
  <2>2. n \in {5, 6, 7} => ConditionCode[a] = n
    BY <1>1 DEF ConditionCode
  <2>3. n \in {10, 11, 12, 13} => ConditionCode[a] = n
    BY <1>1 DEF ConditionCode
  <2>4. QED
    BY <2>1, <2>2, <2>3
<1>3. QED
  BY <1>2

\* The operand of an operation or of a comparison.
LEMMA OperandBack ==
  ASSUME NEW i \in Slots
  PROVE  LET v == getBinValue(i) IN
         /\ FromReg(v) = SrcBit(i)
         /\ RegOf(v) = IF HasSrc(i) THEN i.src ELSE 0
         /\ ImmOf(v) = IF HasSrc(i) THEN 0 ELSE i.imm
<1>1. S(U32(i.imm), ImmBits) = i.imm
  BY SlotFields, SignedBack, WidthAssumption DEF U32
<1>2. CASE HasSrc(i)
  <2>1. getBinValue(i) = [reg |-> i.src]
    BY <1>2 DEF getBinValue, Reg
  <2>2. DOMAIN [reg |-> i.src] = {"reg"} /\ [reg |-> i.src].reg = i.src
    OBVIOUS
  <2>3. QED
    BY <1>2, <2>1, <2>2 DEF FromReg, RegOf, ImmOf, IsReg, SrcBit
<1>3. CASE ~ HasSrc(i)
  <2>1. getBinValue(i) = [imm |-> U32(i.imm)]
    BY <1>3 DEF getBinValue, Imm
  <2>2. /\ DOMAIN [imm |-> U32(i.imm)] = {"imm"}
        /\ [imm |-> U32(i.imm)].imm = U32(i.imm)
    OBVIOUS
  <2>3. {"imm"} # {"reg"}
    OBVIOUS
  <2>4. QED
    BY <1>1, <1>3, <2>1, <2>2, <2>3 DEF FromReg, RegOf, ImmOf, IsReg, SrcBit
<1>4. QED
  BY <1>2, <1>3

LEMMA MemWritten ==
  ASSUME NEW i \in Slots, NEW off, IsMem(i), ~ MemUnsupported(i), Mode(i) # 0
  PROVE  CanEncode(makeMemOp(i)) /\ Encode(makeMemOp(i), off) = <<WrittenMem(i)>>
<1> PICK ins : ins = makeMemOp(i)
  OBVIOUS
<1>0. /\ width_to_opcode(getMemWidth(i)) = SizeBits(i) /\ SizeBits(i) \in Int
      /\ i.opcode = Cls(i) + SizeBits(i) + 32 * Mode(i) /\ Cls(i) \in Int /\ i.imm \in Int
  BY Opcodes, SlotFields DEF SizeBits
<1>1. Mode(i) \in {1, 2, 3, 6} /\ Cls(i) \in {LD, LDX, ST, STX}
  BY Opcodes DEF MemUnsupported, IsMem
<1>2. CASE Mode(i) \in {1, 2}
  <2>1. ins = [k |-> "Packet", width |-> getMemWidth(i), offset |-> i.imm,
               regoffset |-> IF Mode(i) = ModeInd THEN <<i.src>> ELSE << >>]
    BY <1>2 DEF makeMemOp, ModeAbs, ModeInd, ModeMem, ModeXadd
  <2>2. Cls(i) = LD
    BY <1>2 DEF MemUnsupported, ModeAbs, ModeInd
  <2>3. /\ ins.k = "Packet" /\ ins.offset = i.imm
        /\ width_to_opcode(ins.width) = SizeBits(i)
    BY <1>0, <2>1
  <2>4. Encode(ins, off) = EncodePacket(ins) /\ CanEncode(ins)
    BY <2>3 DEF Encode, CanEncode
  <2>5. CASE Mode(i) = 1
    <3>1. ins.regoffset = << >>
      BY <2>1, <2>5 DEF ModeInd
    <3>2. LD + 32 * ModeAbs + SizeBits(i) = i.opcode
      BY <1>0, <2>2, <2>5 DEF LD, ModeAbs
    <3>3. EncodePacket(ins) = <<Slot(i.opcode, 0, 0, 0, i.imm)>>
      BY <2>3, <3>1, <3>2 DEF EncodePacket
    <3>4. WrittenMem(i) = Slot(i.opcode, 0, 0, 0, i.imm)
      BY <2>5 DEF WrittenMem, ModeAbs, ModeInd, ModeMem, ModeXadd
    <3>5. QED
      BY <2>4, <3>3, <3>4
  <2>6. CASE Mode(i) = 2
    <3>1. ins.regoffset = <<i.src>> /\ ins.regoffset # << >> /\ ins.regoffset[1] = i.src
      BY <2>1, <2>6 DEF ModeInd
    <3>2. LD + 32 * ModeInd + SizeBits(i) = i.opcode
      BY <1>0, <2>2, <2>6 DEF LD, ModeInd
    <3>3. EncodePacket(ins) = <<Slot(i.opcode, 0, i.src, 0, i.imm)>>
      BY <2>3, <3>1, <3>2 DEF EncodePacket
    <3>4. WrittenMem(i) = Slot(i.opcode, 0, i.src, 0, i.imm)
      BY <2>6 DEF WrittenMem, ModeAbs, ModeInd, ModeMem, ModeXadd
    <3>5. QED
      BY <2>4, <3>3, <3>4
  <2>7. QED
    BY <1>2, <2>5, <2>6
<1>3. CASE Mode(i) = 3
  <2>1. ins = [k |-> "Mem", is_load |-> getMemIsLoad(i),
             access |-> Access(i, IF getMemIsLoad(i) THEN i.src ELSE i.dst),
             value |-> IF getMemIsLoad(i) THEN Reg(i.dst)
                       ELSE IF Cls(i) = ST THEN Imm(U32(i.imm)) ELSE Reg(i.src)]
    BY <1>3 DEF makeMemOp, ModeAbs, ModeInd, ModeMem, ModeXadd
  <2>2. Cls(i) \in {LDX, ST, STX} /\ (getMemIsLoad(i) <=> Cls(i) = LDX)
    BY <1>1, <1>3 DEF MemUnsupported, ModeMem, getMemIsLoad, LD, LDX, ST, STX
  <2>3. /\ ins.k = "Mem" /\ (ins.is_load <=> Cls(i) = LDX)
        /\ ins.access = Access(i, IF getMemIsLoad(i) THEN i.src ELSE i.dst)
        /\ ins.access.width = getMemWidth(i) /\ ins.access.offset = i.offset
        /\ ins.access.basereg = IF Cls(i) = LDX THEN i.src ELSE i.dst
    BY <2>1, <2>2 DEF Access
  <2>4. Encode(ins, off) = EncodeMem(ins) /\ CanEncode(ins)
    BY <2>3 DEF Encode, CanEncode
  <2>5. WrittenMem(i) = Slot(i.opcode, i.dst, IF Cls(i) = ST THEN 0 ELSE i.src,
                             i.offset, IF Cls(i) = ST THEN i.imm ELSE 0)
    BY <1>3 DEF WrittenMem, ModeAbs, ModeInd, ModeMem, ModeXadd
  <2>6. width_to_opcode(ins.access.width) = SizeBits(i)
    BY <1>0, <2>3
  <2>7. CASE Cls(i) = LDX
    <3>1. ins.value.reg = i.dst
      BY <2>1, <2>2, <2>7 DEF Reg
    <3>2. LDX + (32 * ModeMem + SizeBits(i)) = i.opcode
      BY <1>0, <1>3, <2>7 DEF ModeMem, LDX
    <3>3. EncodeMem(ins) = <<Slot(i.opcode, i.dst, i.src, i.offset, 0)>>
      BY <2>3, <2>6, <2>7, <3>1, <3>2 DEF EncodeMem
    <3>4. QED
      BY <2>4, <2>5, <2>7, <3>3 DEF LDX, ST
  <2>8. CASE Cls(i) = STX
    <3>1. ins.value = [reg |-> i.src]
      BY <2>1, <2>2, <2>8 DEF Reg, LDX, ST, STX
    <3>2. DOMAIN [reg |-> i.src] = {"reg"} /\ [reg |-> i.src].reg = i.src
      OBVIOUS
    <3>3. IsReg(ins.value) /\ RegOf(ins.value) = i.src /\ ImmOf(ins.value) = 0
      BY <3>1, <3>2 DEF IsReg, RegOf, ImmOf
    <3>4. STX + (32 * ModeMem + SizeBits(i)) = i.opcode
      BY <1>0, <1>3, <2>8 DEF ModeMem, STX
    <3>5. EncodeMem(ins) = <<Slot(i.opcode, i.dst, i.src, i.offset, 0)>>
      BY <2>3, <2>6, <2>8, <3>3, <3>4 DEF EncodeMem, LDX, STX
    <3>6. QED
      BY <2>4, <2>5, <2>8, <3>5 DEF STX, ST
  <2>9. CASE Cls(i) = ST
    <3>1. ins.value = [imm |-> U32(i.imm)]
      BY <2>1, <2>2, <2>9 DEF Imm, LDX, ST, STX
    <3>2. /\ DOMAIN [imm |-> U32(i.imm)] = {"imm"} /\ {"imm"} # {"reg"}
          /\ [imm |-> U32(i.imm)].imm = U32(i.imm)
      OBVIOUS
    <3>3. S(U32(i.imm), ImmBits) = i.imm
      BY SlotFields, SignedBack, WidthAssumption DEF U32
    <3>4. ~ IsReg(ins.value) /\ RegOf(ins.value) = 0 /\ ImmOf(ins.value) = i.imm
      BY <3>1, <3>2, <3>3 DEF IsReg, RegOf, ImmOf
    <3>5. ST + (32 * ModeMem + SizeBits(i)) = i.opcode
      BY <1>0, <1>3, <2>9 DEF ModeMem, ST
    <3>6. EncodeMem(ins) = <<Slot(i.opcode, i.dst, 0, i.offset, i.imm)>>
      BY <2>3, <2>6, <2>9, <3>4, <3>5 DEF EncodeMem, LDX, ST
    <3>7. QED
      BY <2>4, <2>5, <2>9, <3>6
  <2>10. QED
    BY <2>2, <2>7, <2>8, <2>9
<1>4. CASE Mode(i) = 6
  <2>1. ins = [k |-> "LockAdd", access |-> Access(i, i.dst), valreg |-> i.src]
    BY <1>4 DEF makeMemOp, ModeAbs, ModeInd, ModeMem, ModeXadd
  <2>2. /\ ins.k = "LockAdd" /\ ins.access = Access(i, i.dst) /\ ins.valreg = i.src
        /\ ins.access.width = getMemWidth(i) /\ ins.access.offset = i.offset
        /\ ins.access.basereg = i.dst
    BY <2>1 DEF Access
  <2>3. Encode(ins, off) = EncodeLockAdd(ins) /\ CanEncode(ins)
    BY <2>2 DEF Encode, CanEncode
  <2>4. WrittenMem(i) = Slot(STX + 32 * ModeXadd + SizeBits(i), i.dst, i.src, i.offset, 0)
    BY <1>4 DEF WrittenMem, ModeAbs, ModeInd, ModeMem, ModeXadd
  <2>5. QED
    BY <1>0, <2>2, <2>3, <2>4 DEF EncodeLockAdd
<1>5. QED
  BY <1>1, <1>2, <1>3, <1>4

LEMMA AluWritten ==
  ASSUME NEW i \in Slots, NEW off, IsAlu(i), ~ Invalid(i)
  PROVE  CanEncode(makeAluOp(i)) /\ Encode(makeAluOp(i), off) = <<WrittenAlu(i)>>
<1> PICK ins : ins = makeAluOp(i)
  OBVIOUS
<1>1. Cls(i) \in {ALU, ALU64} /\ Op(i) \in 0 .. 13
  <2>1. Op(i) \in 0 .. 15 /\ Op(i) \notin {14, 15}
    BY Opcodes DEF Invalid
  <2>2. QED
    BY <2>1 DEF IsAlu
<1>2. CASE Op(i) = 8
  <2>1. ins = [k |-> "Un", op |-> getAluOp(i), dst |-> i.dst]
    BY <1>2 DEF makeAluOp
  <2>2. getAluOp(i) = "NEG"
    BY <1>2 DEF getAluOp
  <2>3. ins.k = "Un" /\ ins.op = "NEG" /\ ins.dst = i.dst
    BY <2>1, <2>2
  <2>4. Encode(ins, off) = EncodeUn(ins) /\ CanEncode(ins)
    BY <2>3 DEF Encode, CanEncode
  <2>5. QED
    BY <1>2, <2>3, <2>4 DEF EncodeUn, WrittenAlu
<1>3. CASE Op(i) = 13
  <2>1. ins = [k |-> "Un", op |-> getAluOp(i), dst |-> i.dst]
    BY <1>3 DEF makeAluOp
  <2>2. getAluOp(i) = IF i.imm = 16 THEN "LE16" ELSE IF i.imm = 32 THEN "LE32" ELSE "LE64"
    BY <1>3 DEF getAluOp
  <2>3. ins.k = "Un" /\ ins.op = getAluOp(i) /\ ins.dst = i.dst
    BY <2>1
  <2>4. Encode(ins, off) = EncodeUn(ins) /\ CanEncode(ins)
    BY <2>3 DEF Encode, CanEncode
  <2>5. /\ ins.op # "NEG" /\ (ins.op = "LE64" <=> i.imm \notin {16, 32})
        /\ UnImm[ins.op] = IF i.imm \in {16, 32} THEN i.imm ELSE 64
    BY <2>2, <2>3 DEF UnImm
  <2>6. EncodeUn(ins) = <<Slot((IF i.imm \in {16, 32} THEN ALU ELSE ALU64) + SrcReg + 208,
                     i.dst, 0, 0, IF i.imm \in {16, 32} THEN i.imm ELSE 64)>>
    BY <2>3, <2>5 DEF EncodeUn
  <2>7. QED
    BY <1>3, <2>4, <2>6 DEF WrittenAlu
<1>4. CASE Op(i) \notin {8, 13}
  <2>1. ins = [k |-> "Bin", op |-> getAluOp(i), is64 |-> Cls(i) = ALU64,
               dst |-> i.dst, v |-> getBinValue(i), lddw |-> FALSE]
    BY <1>4 DEF makeAluOp
  <2>2. /\ ins.k = "Bin" /\ ins.op = getAluOp(i) /\ ins.dst = i.dst
        /\ ins.v = getBinValue(i) /\ ins.lddw = FALSE
        /\ (ins.is64 <=> Cls(i) = ALU64)
    <3>1. PICK w \in BOOLEAN : w = (Cls(i) = ALU64)
      OBVIOUS
    <3>2. ins = [k |-> "Bin", op |-> getAluOp(i), is64 |-> w,
                 dst |-> i.dst, v |-> getBinValue(i), lddw |-> FALSE]
      BY <2>1, <3>1, Zenon
    <3>3. /\ ins.k = "Bin" /\ ins.op = getAluOp(i) /\ ins.dst = i.dst
          /\ ins.v = getBinValue(i) /\ ins.lddw = FALSE /\ ins.is64 = w
      BY <3>2
    <3>4. QED
      BY <3>1, <3>3, Zenon
  <2>3. Encode(ins, off) = EncodeBin(ins) /\ CanEncode(ins)
    BY <2>2 DEF Encode, CanEncode
  <2>4. BinCode[ins.op] = Op(i)
    BY <1>1, <1>4, <2>2, BinCodes
  <2>5. (IF ins.is64 THEN ALU64 ELSE ALU) = Cls(i)
    BY <1>1, <2>2
  <2>6. Cls(i) + 16 * Op(i) + SrcBit(i) = i.opcode
    <3>1. SrcBit(i) \in Int
      BY DEF SrcBit, SrcReg
    <3>2. QED
      BY <3>1, Opcodes
  <2>7. EncodeBin(ins) = <<Right(i, i.dst, 0)>>
    BY <2>2, <2>4, <2>5, <2>6, OperandBack DEF EncodeBin, Right
  <2>8. QED
    BY <1>4, <2>3, <2>7 DEF WrittenAlu
<1>5. QED
  BY <1>2, <1>3, <1>4

LEMMA JmpWritten ==
  ASSUME NEW i \in Slots, NEW at, NEW off, Cls(i) = JMP, ~ Invalid(i), ~ JmpAborts(i)
  PROVE  CanEncode(makeJmp(i, at)) /\ Encode(makeJmp(i, at), off) = <<WrittenJmp(i, off)>>
<1> PICK ins : ins = makeJmp(i, at)
  OBVIOUS
<1>0. Op(i) \in {8, 9} => i.opcode # JMP
  BY DEF Op, JMP
<1>1. CASE Op(i) = 8
  <2>1. ins.k = "Call" /\ ins.func = i.imm
    BY <1>1, CallIsCall DEF makeJmp
  <2>2. Encode(ins, off) = <<Slot(JMP + 128, 0, 0, 0, i.imm)>> /\ CanEncode(ins)
    BY <2>1 DEF Encode, CanEncode
  <2>3. QED
    BY <1>0, <1>1, <2>2 DEF WrittenJmp
<1>2. CASE Op(i) = 9
  <2>1. ins.k = "Exit"
    BY <1>2 DEF makeJmp
  <2>2. Encode(ins, off) = <<Slot(JMP + 144, 0, 0, 0, 0)>> /\ CanEncode(ins)
    BY <2>1 DEF Encode, CanEncode
  <2>3. QED
    BY <1>0, <1>2, <2>2 DEF WrittenJmp
<1>3. CASE Op(i) \notin {8, 9}
  <2> DEFINE c == [op |-> getJmpOp(i), left |-> i.dst, right |-> getBinValue(i)]
  <2>1. ins = [k |-> "Jmp", target |-> Target(i, at),
               cond |-> IF i.opcode = JMP THEN << >> ELSE <<c>>]
    BY <1>3 DEF makeJmp
  <2>2. Encode(ins, off) = EncodeJmp(ins, off) /\ CanEncode(ins)
    BY <2>1 DEF Encode, CanEncode
  <2>3. CASE i.opcode = JMP
    <3>1. ins.cond = << >>
      BY <2>1, <2>3
    <3>2. QED
      BY <1>3, <2>2, <2>3, <3>1 DEF EncodeJmp, WrittenJmp
  <2>4. CASE i.opcode # JMP
    <3>1. ins.cond # << >> /\ ins.cond[1] = c
      BY <2>1, <2>4
    <3>2. Op(i) \in 1 .. 13 \ {8, 9}
      <4>1. Op(i) \in 0 .. 15 /\ Op(i) \notin {0, 15}
        BY <1>3, <2>4, Opcodes DEF JmpAborts, IsJump
      <4>2. Op(i) # 14
        BY DEF Invalid
      <4>3. QED
        BY <1>3, <4>1, <4>2
    <3>3. ConditionCode[c.op] = Op(i)
      BY <3>2, ConditionCodes
    <3>4. JMP + 16 * Op(i) + SrcBit(i) = i.opcode
      <4>1. SrcBit(i) \in Int
        BY DEF SrcBit, SrcReg
      <4>2. QED
        BY <4>1, Opcodes
    <3>5. c.left = i.dst /\ c.right = getBinValue(i)
      OBVIOUS
    <3> HIDE DEF c
    <3>6. EncodeJmp(ins, off) = <<Right(i, i.dst, off)>>
      BY <3>1, <3>3, <3>4, <3>5, OperandBack DEF EncodeJmp, Right
    <3>7. QED
      BY <1>3, <2>2, <2>4, <3>6 DEF WrittenJmp
  <2>5. QED
    BY <2>3, <2>4
<1>4. QED
  BY <1>1, <1>2, <1>3

-----------------------------------------------------------------------------
(* What marshal writes is read as the same instruction.                      *)

\* Slots of one opcode have the same class, operation, mode and width.
LEMMA SameOpcode ==
  ASSUME NEW i, NEW w, w.opcode = i.opcode
  PROVE  /\ Cls(w) = Cls(i) /\ Op(w) = Op(i) /\ Mode(w) = Mode(i)
         /\ (HasSrc(w) <=> HasSrc(i))
         /\ getMemWidth(w) = getMemWidth(i) /\ (getMemIsLoad(w) <=> getMemIsLoad(i))
         /\ (IsLddw(w) <=> IsLddw(i)) /\ (IsMem(w) <=> IsMem(i)) /\ (IsAlu(w) <=> IsAlu(i))
         /\ (MemUnsupported(w) <=> MemUnsupported(i))
<1>1. /\ Cls(w) = Cls(i) /\ Op(w) = Op(i) /\ Mode(w) = Mode(i)
      /\ (HasSrc(w) <=> HasSrc(i)) /\ (IsLddw(w) <=> IsLddw(i))
      /\ getMemWidth(w) = getMemWidth(i)
  BY DEF Cls, Op, Mode, HasSrc, IsLddw, getMemWidth
<1>2. (getMemIsLoad(w) <=> getMemIsLoad(i))
  BY <1>1 DEF getMemIsLoad
<1>3. (IsMem(w) <=> IsMem(i)) /\ (IsAlu(w) <=> IsAlu(i))
  BY <1>1 DEF IsMem, IsAlu
<1>4. (MemUnsupported(w) <=> MemUnsupported(i))
  BY <1>1 DEF MemUnsupported
<1>5. QED
  BY <1>1, <1>2, <1>3, <1>4

LEMMA SlotHas ==
  ASSUME NEW o, NEW d, NEW s, NEW f, NEW n
  PROVE  LET w == Slot(o, d, s, f, n) IN
         w.opcode = o /\ w.dst = d /\ w.src = s /\ w.offset = f /\ w.imm = n
BY DEF Slot

\* A slot that is a memory access fails only if its mode is not supported.
LEMMA MemFails ==
  ASSUME NEW w, IsMem(w)
  PROVE  Failure(w) = IF MemUnsupported(w) THEN "uncaught" ELSE "none"
<1>1. Cls(w) \in {0, 1, 2, 3}
  BY DEF IsMem, LD, LDX, ST, STX
<1>2. ~ Invalid(w) /\ ~ JmpAborts(w) /\ Cls(w) # JMP
  BY <1>1 DEF Invalid, JmpAborts, IsAlu, IsJump, ALU, ALU64, JMP
<1>3. QED
  BY <1>2, Zenon DEF Failure

LEMMA AluFails ==
  ASSUME NEW w, IsAlu(w)
  PROVE  Failure(w) = IF Invalid(w) THEN "error" ELSE "none"
<1>1. Cls(w) \in {4, 7}
  BY DEF IsAlu, ALU, ALU64
<1>2. ~ IsMem(w) /\ ~ JmpAborts(w) /\ Cls(w) # JMP
  BY <1>1 DEF IsMem, JmpAborts, IsJump, LD, LDX, ST, STX, JMP
<1>3. QED
  BY <1>2 DEF Failure

LEMMA MemBack ==
  ASSUME NEW i \in Slots, IsMem(i), ~ MemUnsupported(i), Mode(i) # 0
  PROVE  LET w == WrittenMem(i) IN
         IsMem(w) /\ Failure(w) = "none" /\ makeMemOp(w) = makeMemOp(i)
<1> PICK w : w = WrittenMem(i)
  OBVIOUS
<1>1. Mode(i) \in {1, 2, 3, 6}
  BY Opcodes DEF MemUnsupported
<1>2. CASE Mode(i) \in {1, 2}
  <2>1. w.opcode = i.opcode /\ w.imm = i.imm /\ (Mode(i) = 2 => w.src = i.src)
    BY <1>2, SlotHas DEF WrittenMem, ModeAbs, ModeInd, ModeMem, ModeXadd
  <2>2. /\ Mode(w) = Mode(i) /\ getMemWidth(w) = getMemWidth(i) /\ IsMem(w)
        /\ ~ MemUnsupported(w)
    BY <2>1, SameOpcode
  <2>3. makeMemOp(w) = [k |-> "Packet", width |-> getMemWidth(w), offset |-> w.imm,
                        regoffset |-> IF Mode(w) = ModeInd THEN <<w.src>> ELSE << >>]
    BY <1>2, <2>2 DEF makeMemOp, ModeAbs, ModeInd, ModeMem, ModeXadd
  <2>4. makeMemOp(i) = [k |-> "Packet", width |-> getMemWidth(i), offset |-> i.imm,
                        regoffset |-> IF Mode(i) = ModeInd THEN <<i.src>> ELSE << >>]
    BY <1>2 DEF makeMemOp, ModeAbs, ModeInd, ModeMem, ModeXadd
  <2>5. (IF Mode(w) = ModeInd THEN <<w.src>> ELSE << >>)
          = (IF Mode(i) = ModeInd THEN <<i.src>> ELSE << >>)
    BY <2>1, <2>2 DEF ModeInd
  <2>6. makeMemOp(w) = makeMemOp(i)
    BY <2>1, <2>2, <2>3, <2>4, <2>5
  <2>7. QED
    BY <2>2, <2>6, MemFails
<1>3. CASE Mode(i) = 3
  <2>1. w = Slot(i.opcode, i.dst, IF Cls(i) = ST THEN 0 ELSE i.src, i.offset,
                 IF Cls(i) = ST THEN i.imm ELSE 0)
    BY <1>3 DEF WrittenMem, ModeAbs, ModeInd, ModeMem, ModeXadd
  <2>2. /\ w.opcode = i.opcode /\ w.dst = i.dst /\ w.offset = i.offset
        /\ (Cls(i) = ST => w.imm = i.imm) /\ (Cls(i) # ST => w.src = i.src)
    BY <2>1, SlotHas
  <2>3. /\ Mode(w) = Mode(i) /\ getMemWidth(w) = getMemWidth(i) /\ IsMem(w)
        /\ Cls(w) = Cls(i) /\ ~ MemUnsupported(w)
    BY <2>2, SameOpcode
  <2>4. /\ getMemIsLoad(i) = (Cls(i) \in {LD, LDX}) /\ getMemIsLoad(w) = (Cls(i) \in {LD, LDX})
    BY <2>3, Zenon DEF getMemIsLoad
  <2>5. PICK b : b = (Cls(i) \in {LD, LDX})
    OBVIOUS
  <2>6. b => w.src = i.src
    <3>1. Cls(i) \in {LD, LDX} => Cls(i) # ST
      BY DEF LD, LDX, ST
    <3>2. QED
      BY <2>2, <2>5, <3>1, Zenon
  <2>7. makeMemOp(w) = [k |-> "Mem", is_load |-> getMemIsLoad(w),
             access |-> Access(w, IF getMemIsLoad(w) THEN w.src ELSE w.dst),
             value |-> IF getMemIsLoad(w) THEN Reg(w.dst)
                       ELSE IF Cls(w) = ST THEN Imm(U32(w.imm)) ELSE Reg(w.src)]
    BY <1>3, <2>3 DEF makeMemOp, ModeAbs, ModeInd, ModeMem, ModeXadd
  <2>8. makeMemOp(i) = [k |-> "Mem", is_load |-> getMemIsLoad(i),
             access |-> Access(i, IF getMemIsLoad(i) THEN i.src ELSE i.dst),
             value |-> IF getMemIsLoad(i) THEN Reg(i.dst)
                       ELSE IF Cls(i) = ST THEN Imm(U32(i.imm)) ELSE Reg(i.src)]
    BY <1>3 DEF makeMemOp, ModeAbs, ModeInd, ModeMem, ModeXadd
  <2>9. (IF b THEN w.src ELSE w.dst) = (IF b THEN i.src ELSE i.dst)
    BY <2>2, <2>6, Zenon
  <2>10. Access(w, IF b THEN w.src ELSE w.dst) = Access(i, IF b THEN i.src ELSE i.dst)
    BY <2>2, <2>3, <2>9, Zenon DEF Access
  <2>11. (IF b THEN Reg(w.dst) ELSE IF Cls(w) = ST THEN Imm(U32(w.imm)) ELSE Reg(w.src))
          = (IF b THEN Reg(i.dst) ELSE IF Cls(i) = ST THEN Imm(U32(i.imm)) ELSE Reg(i.src))
    BY <2>2, <2>3, Zenon
  <2>12. makeMemOp(w) = makeMemOp(i)
    BY <2>4, <2>5, <2>7, <2>8, <2>10, <2>11, Zenon
  <2>13. QED
    BY <2>3, <2>12, MemFails
<1>4. CASE Mode(i) = 6
  <2>1. w = Slot(STX + 32 * ModeXadd + SizeBits(i), i.dst, i.src, i.offset, 0)
    BY <1>4 DEF WrittenMem, ModeAbs, ModeInd, ModeMem, ModeXadd
  <2>2. PICK c \in 0 .. 3 : c = (i.opcode \div 8) % 4 /\ SizeBits(i) = 8 * c
    BY SlotFields DEF SizeBits
  <2>3. /\ w.opcode = 195 + 8 * c
        /\ w.dst = i.dst /\ w.src = i.src /\ w.offset = i.offset
    BY <2>1, <2>2, SlotHas DEF STX, ModeXadd
  <2>4. Cls(w) = 3 /\ Mode(w) = 6 /\ (w.opcode \div 8) % 4 = c /\ w.opcode # 24
    BY <2>2, <2>3 DEF Cls, Mode
  <2>5. getMemWidth(w) = getMemWidth(i)
    BY <2>2, <2>4 DEF getMemWidth
  <2>6. IsMem(w) /\ ~ MemUnsupported(w)
    BY <2>4 DEF IsMem, IsLddw, LddwImm, STX, MemUnsupported, ModeAbs, ModeInd, ModeMem
  <2>7. makeMemOp(w) = [k |-> "LockAdd", access |-> Access(w, w.dst), valreg |-> w.src]
    BY <2>4 DEF makeMemOp, ModeAbs, ModeInd, ModeMem, ModeXadd
  <2>8. makeMemOp(i) = [k |-> "LockAdd", access |-> Access(i, i.dst), valreg |-> i.src]
    BY <1>4 DEF makeMemOp, ModeAbs, ModeInd, ModeMem, ModeXadd
  <2>9. Access(w, w.dst) = Access(i, i.dst)
    BY <2>3, <2>5 DEF Access
  <2>10. QED
    BY <2>3, <2>6, <2>7, <2>8, <2>9, MemFails
<1>5. QED
  BY <1>1, <1>2, <1>3, <1>4

LEMMA AluBack ==
  ASSUME NEW i \in Slots, IsAlu(i), ~ Invalid(i)
  PROVE  LET w == WrittenAlu(i) IN
         IsAlu(w) /\ Failure(w) = "none" /\ makeAluOp(w) = makeAluOp(i)
<1> PICK w : w = WrittenAlu(i)
  OBVIOUS
<1>1. CASE Op(i) = 8
  <2>1. w.opcode = 135 /\ w.dst = i.dst
    BY <1>1, SlotHas DEF WrittenAlu, ALU64
  <2>2. Cls(w) = 7 /\ Op(w) = 8
    BY <2>1 DEF Cls, Op
  <2>3. IsAlu(w) /\ ~ Invalid(w)
    BY <2>2 DEF IsAlu, ALU64, Invalid, EndianInvalid, JMP
  <2>4. makeAluOp(w) = makeAluOp(i)
    BY <1>1, <2>1, <2>2 DEF makeAluOp, getAluOp
  <2>5. QED
    BY <2>3, <2>4, AluFails
<1>2. CASE Op(i) = 13
  <2>1. w = Slot((IF i.imm \in {16, 32} THEN ALU ELSE ALU64) + SrcReg + 208,
                 i.dst, 0, 0, IF i.imm \in {16, 32} THEN i.imm ELSE 64)
    BY <1>2 DEF WrittenAlu
  <2>2. /\ w.dst = i.dst /\ w.imm = IF i.imm \in {16, 32} THEN i.imm ELSE 64
        /\ w.opcode = IF i.imm \in {16, 32} THEN 220 ELSE 223
    BY <2>1, SlotHas DEF ALU, ALU64, SrcReg
  <2>3. Op(w) = 13 /\ Cls(w) = IF i.imm \in {16, 32} THEN 4 ELSE 7
    BY <2>2 DEF Op, Cls
  <2>4. IsAlu(w) /\ ~ Invalid(w)
    BY <2>2, <2>3 DEF IsAlu, ALU, ALU64, Invalid, EndianInvalid, JMP
  <2>5. getAluOp(i) = IF i.imm = 16 THEN "LE16" ELSE IF i.imm = 32 THEN "LE32" ELSE "LE64"
    BY <1>2 DEF getAluOp
  <2>6. getAluOp(w) = IF w.imm = 16 THEN "LE16" ELSE IF w.imm = 32 THEN "LE32" ELSE "LE64"
    BY <2>3 DEF getAluOp
  <2>7. getAluOp(w) = getAluOp(i)
    BY <2>2, <2>5, <2>6
  <2>8. makeAluOp(w) = makeAluOp(i)
    BY <1>2, <2>2, <2>3, <2>7 DEF makeAluOp
  <2>9. QED
    BY <2>4, <2>8, AluFails
<1>3. CASE Op(i) \notin {8, 13}
  <2>1. w = Right(i, i.dst, 0)
    BY <1>3 DEF WrittenAlu
  <2>2. /\ w.opcode = i.opcode /\ w.dst = i.dst
        /\ (HasSrc(i) => w.src = i.src) /\ (~ HasSrc(i) => w.imm = i.imm)
    BY <2>1, SlotHas DEF Right
  <2>3. /\ Cls(w) = Cls(i) /\ Op(w) = Op(i) /\ (HasSrc(w) <=> HasSrc(i)) /\ IsAlu(w)
    BY <2>2, SameOpcode
  <2>4. ~ Invalid(w)
    BY <1>3, <2>3 DEF Invalid, EndianInvalid
  <2>5. getBinValue(w) = getBinValue(i)
    BY <2>2, <2>3, Zenon DEF getBinValue
  <2>6. getAluOp(w) = getAluOp(i)
    BY <1>3, <2>3, Zenon DEF getAluOp
  <2>7. makeAluOp(w) = makeAluOp(i)
    <3>1. makeAluOp(w) = [k |-> "Bin", op |-> getAluOp(w), is64 |-> Cls(w) = ALU64,
                          dst |-> w.dst, v |-> getBinValue(w), lddw |-> FALSE]
      BY <1>3, <2>3 DEF makeAluOp
    <3>2. makeAluOp(i) = [k |-> "Bin", op |-> getAluOp(i), is64 |-> Cls(i) = ALU64,
                          dst |-> i.dst, v |-> getBinValue(i), lddw |-> FALSE]
      BY <1>3 DEF makeAluOp
    <3>3. QED
      BY <2>2, <2>3, <2>5, <2>6, <3>1, <3>2, Zenon
  <2>8. QED
    BY <2>3, <2>4, <2>7, AluFails
<1>4. QED
  BY <1>1, <1>2, <1>3

\* Calls and exits; where a jump leads depends on where it is.
LEMMA JmpBack ==
  ASSUME NEW i \in Slots, NEW at, NEW off, NEW a, Cls(i) = JMP,
         Op(i) \in {8, 9}, Op(i) = 8 => ~ CallAborts(i.imm)
  PROVE  LET w == WrittenJmp(i, off) IN
         Cls(w) = JMP /\ Failure(w) = "none" /\ makeJmp(w, a) = makeJmp(i, at)
<1> PICK w : w = WrittenJmp(i, off)
  OBVIOUS
<1>0. i.opcode # JMP
  BY DEF Op, JMP
<1>1. /\ w.opcode = IF Op(i) = 8 THEN 133 ELSE 149
      /\ Op(i) = 8 => w.imm = i.imm
  BY <1>0, SlotHas DEF WrittenJmp, JMP
<1>2. Cls(w) = 5 /\ Op(w) = Op(i)
  BY <1>1 DEF Cls, Op
<1>3. ~ Invalid(w) /\ ~ IsMem(w) /\ ~ JmpAborts(w)
  BY <1>2 DEF Invalid, IsAlu, ALU, ALU64, JMP, IsMem, LD, LDX, ST, STX, JmpAborts, IsJump
<1>4. Failure(w) = "none"
  BY <1>1, <1>2, <1>3, Zenon DEF Failure
<1>5. makeJmp(w, a) = makeJmp(i, at)
  <2>1. CASE Op(i) = 8
    BY <1>1, <1>2, <2>1 DEF makeJmp
  <2>2. CASE Op(i) = 9
    BY <1>2, <2>2 DEF makeJmp
  <2>3. QED
    BY <2>1, <2>2
<1>6. QED
  BY <1>2, <1>4, <1>5 DEF JMP

\* Slots that are not memory accesses and not operations are jumps.
LEMMA JumpClass ==
  ASSUME NEW i \in Slots, ~ IsLddw(i), ~ IsMem(i), ~ IsAlu(i), ~ Invalid(i)
  PROVE  Cls(i) = JMP
<1>1. Cls(i) \in 0 .. 7 /\ Cls(i) # 6
  BY Opcodes DEF Invalid
<1>2. QED
  BY <1>1 DEF IsMem, IsAlu, LD, LDX, ST, STX, ALU, ALU64, JMP

\* One slot for one slot: what is written for it is read as the same.
LEMMA NarrowBack ==
  ASSUME NEW i \in Slots, NEW next, NEW at, NEW off, NEW n, NEW a,
         ~ IsLddw(i), Failure(i) = "none", CanEncode(Decode(i, next, at)),
         Decode(i, next, at).k # "Jmp"
  PROVE  \E w : /\ Encode(Decode(i, next, at), off) = <<w>>
                /\ Failure(w) = "none" /\ Decode(w, n, a) = Decode(i, next, at)
<1>1. CASE IsMem(i)
  <2>1. ~ MemUnsupported(i)
    BY <1>1, MemFails
  <2>2. Decode(i, next, at) = makeMemOp(i)
    BY <1>1, OneBranch DEF Decode
  <2>3. Mode(i) # 0
    <3>1. SUFFICES ASSUME Mode(i) = 0 PROVE FALSE
      OBVIOUS
    <3>2. makeMemOp(i).k = "Undefined"
      BY <3>1 DEF makeMemOp, ModeAbs, ModeInd, ModeMem, ModeXadd
    <3>3. QED
      BY <2>2, <3>2 DEF CanEncode
  <2>4. PICK w : w = WrittenMem(i)
    OBVIOUS
  <2>5. IsMem(w) /\ Failure(w) = "none" /\ makeMemOp(w) = makeMemOp(i)
    BY <1>1, <2>1, <2>3, <2>4, MemBack
  <2>6. Decode(w, n, a) = makeMemOp(w)
    <3>1. ~ IsLddw(w) /\ ~ IsAlu(w)
      BY <2>5 DEF IsMem, IsAlu, LD, LDX, ST, STX, ALU, ALU64
    <3>2. QED
      BY <2>5, <3>1 DEF Decode
  <2>7. Encode(Decode(i, next, at), off) = <<w>>
    BY <1>1, <2>1, <2>2, <2>3, <2>4, MemWritten
  <2>8. QED
    BY <2>2, <2>5, <2>6, <2>7
<1>2. CASE ~ IsMem(i) /\ IsAlu(i)
  <2>1. ~ Invalid(i)
    BY <1>2, AluFails
  <2>2. Decode(i, next, at) = makeAluOp(i)
    BY <1>2 DEF Decode
  <2>3. PICK w : w = WrittenAlu(i)
    OBVIOUS
  <2>4. IsAlu(w) /\ Failure(w) = "none" /\ makeAluOp(w) = makeAluOp(i)
    BY <1>2, <2>1, <2>3, AluBack
  <2>5. Decode(w, n, a) = makeAluOp(w)
    <3>1. Cls(w) \in {4, 7}
      BY <2>4 DEF IsAlu, ALU, ALU64
    <3>2. ~ IsLddw(w) /\ ~ IsMem(w)
      BY <3>1 DEF IsMem, LD, LDX, ST, STX, IsLddw, LddwImm, Cls
    <3>3. QED
      BY <2>4, <3>2 DEF Decode
  <2>6. Encode(Decode(i, next, at), off) = <<w>>
    BY <1>2, <2>1, <2>2, <2>3, AluWritten
  <2>7. QED
    BY <2>2, <2>4, <2>5, <2>6
<1>3. CASE ~ IsMem(i) /\ ~ IsAlu(i)
  <2>1. Decode(i, next, at) = makeJmp(i, at)
    BY <1>3 DEF Decode
  <2>2. ~ Invalid(i) /\ ~ JmpAborts(i)
    BY <1>3 DEF Failure
  <2>3. Cls(i) = JMP
    BY <1>3, <2>2, JumpClass
  <2>4. Op(i) \in {8, 9}
    <3>1. SUFFICES ASSUME Op(i) \notin {8, 9} PROVE FALSE
      OBVIOUS
    <3>2. makeJmp(i, at).k = "Jmp"
      BY <3>1 DEF makeJmp
    <3>3. QED
      BY <2>1, <3>2
  <2>5. Op(i) = 8 => ~ CallAborts(i.imm)
    BY <1>3, <2>3 DEF Failure
  <2>6. PICK w : w = WrittenJmp(i, off)
    OBVIOUS
  <2>7. Cls(w) = JMP /\ Failure(w) = "none" /\ makeJmp(w, a) = makeJmp(i, at)
    BY <2>3, <2>4, <2>5, <2>6, JmpBack
  <2>8. Decode(w, n, a) = makeJmp(w, a)
    <3>1. ~ IsLddw(w) /\ ~ IsMem(w) /\ ~ IsAlu(w)
      BY <2>7 DEF IsMem, LD, LDX, ST, STX, IsLddw, LddwImm, Cls, JMP, IsAlu, ALU, ALU64
    <3>2. QED
      BY <3>1 DEF Decode
  <2>9. Encode(Decode(i, next, at), off) = <<w>>
    BY <2>1, <2>2, <2>3, <2>6, JmpWritten
  <2>10. QED
    BY <2>1, <2>7, <2>8, <2>9
<1>4. QED
  BY <1>1, <1>2, <1>3

\* The two slots of a wide one.
LEMMA WideWritten ==
  ASSUME NEW i \in Slots, NEW next \in Signed(ImmBits), NEW at, NEW off, IsLddw(i)
  PROVE  Encode(Decode(i, next, at), off) =
           <<Slot(LddwImm, i.dst, IF i.src = 1 THEN 1 ELSE 0, 0, i.imm),
             Slot(0, 0, 0, 0, IF i.src = 1 THEN 0 ELSE next)>>
<1> PICK ins : ins = Decode(i, next, at)
  OBVIOUS
<1>1. ins = makeLddw(i, next)
  BY OneBranch DEF Decode
<1>2. CASE i.src = 1
  <2>1. ins = [k |-> "LoadMapFd", dst |-> i.dst, mapfd |-> i.imm]
    BY <1>1, <1>2 DEF makeLddw
  <2>2. ins.k = "LoadMapFd" /\ ins.dst = i.dst /\ ins.mapfd = i.imm
    BY <2>1
  <2>3. Encode(ins, off) = EncodeLddw(i.dst, TRUE, i.imm, 0)
    BY <2>2 DEF Encode
  <2>4. QED
    BY <1>2, <2>3 DEF EncodeLddw
<1>3. CASE i.src # 1
  <2>1. ins = [k |-> "Bin", op |-> "MOV", is64 |-> TRUE, dst |-> i.dst,
               v |-> Imm(merge(i.imm, next)), lddw |-> TRUE]
    BY <1>1, <1>3 DEF makeLddw
  <2>2. /\ ins.k = "Bin" /\ ins.dst = i.dst /\ ins.lddw = TRUE
        /\ ins.v.imm = merge(i.imm, next)
    BY <2>1 DEF Imm
  <2>3. Encode(ins, off) = EncodeBin(ins)
    BY <2>2 DEF Encode
  <2>4. split(ins.v.imm) = <<i.imm, next>>
    BY <2>2, SlotFields, SplitMerged
  <2>5. EncodeBin(ins) = EncodeLddw(i.dst, FALSE, i.imm, next)
    <3>1. EncodeBin(ins) =
            EncodeLddw(ins.dst, FALSE, split(ins.v.imm)[1], split(ins.v.imm)[2])
      BY <2>2, Zenon DEF EncodeBin
    <3>2. split(ins.v.imm)[1] = i.imm /\ split(ins.v.imm)[2] = next
      BY <2>4
    <3>3. QED
      BY <2>2, <3>1, <3>2
  <2>6. QED
    BY <1>3, <2>3, <2>5 DEF EncodeLddw
<1>4. QED
  BY <1>2, <1>3

LEMMA WideBack ==
  ASSUME NEW i \in Slots, NEW next \in Signed(ImmBits), NEW at, NEW off, NEW a, IsLddw(i)
  PROVE  LET slots == Encode(Decode(i, next, at), off) IN
         /\ Len(slots) = 2 /\ Failure(slots[1]) = "none"
         /\ Decode(slots[1], slots[2].imm, a) = Decode(i, next, at)
<1> PICK slots : slots = Encode(Decode(i, next, at), off)
  OBVIOUS
<1>1. PICK w, x : /\ w = Slot(LddwImm, i.dst, IF i.src = 1 THEN 1 ELSE 0, 0, i.imm)
                  /\ x = Slot(0, 0, 0, 0, IF i.src = 1 THEN 0 ELSE next)
  OBVIOUS
<1>2. slots = <<w, x>>
  BY <1>1, WideWritten
<1>3. /\ w.opcode = 24 /\ w.dst = i.dst /\ w.imm = i.imm /\ (w.src = 1 <=> i.src = 1)
      /\ (i.src # 1 => x.imm = next)
  BY <1>1, SlotHas DEF LddwImm
<1>4. IsLddw(w) /\ Cls(w) = 0
  BY <1>3 DEF IsLddw, LddwImm, Cls
<1>5. Failure(w) = "none"
  <2>1. ~ Invalid(w) /\ ~ IsMem(w) /\ ~ JmpAborts(w) /\ Cls(w) # JMP
    BY <1>4 DEF Invalid, IsMem, IsAlu, ALU, ALU64, JMP, JmpAborts, IsJump
  <2>2. QED
    BY <2>1, Zenon DEF Failure
<1>6. \A m : Decode(w, m, a) = makeLddw(w, m)
  <2>1. ~ IsMem(w) /\ ~ IsAlu(w)
    BY <1>4 DEF IsMem, IsAlu, ALU, ALU64
  <2>2. QED
    BY <1>4, <2>1, Zenon DEF Decode
<1>7. Decode(i, next, at) = makeLddw(i, next)
  BY OneBranch DEF Decode
<1>8. makeLddw(w, x.imm) = makeLddw(i, next)
  <2>1. CASE i.src = 1
    BY <1>3, <2>1 DEF makeLddw
  <2>2. CASE i.src # 1
    BY <1>3, <2>2, Zenon DEF makeLddw
  <2>3. QED
    BY <2>1, <2>2
<1>9. Len(slots) = 2 /\ slots[1] = w /\ slots[2] = x
  BY <1>2
<1>10. QED
  BY <1>5, <1>6, <1>7, <1>8, <1>9

-----------------------------------------------------------------------------
(* The loop.                                                                 *)

LEMMA AppendKeeps ==
  ASSUME NEW s, s \in Seq(ToSet(s)), NEW x
  PROVE  LET t == Append(s, x) IN
         /\ t \in Seq(ToSet(t)) /\ Len(t) = Len(s) + 1 /\ t # << >>
         /\ DOMAIN s = 1 .. Len(s) /\ DOMAIN t = 1 .. Len(s) + 1
         /\ \A j \in 1 .. Len(s) : t[j] = s[j]
         /\ t[Len(s) + 1] = x
<1> DEFINE t == Append(s, x)
<1>1. s \in Seq(ToSet(s) \cup {x})
  OBVIOUS
<1>2. /\ Len(t) = Len(s) + 1 /\ DOMAIN s = 1 .. Len(s) /\ DOMAIN t = 1 .. Len(s) + 1
      /\ \A j \in 1 .. Len(s) : t[j] = s[j]
      /\ t[Len(s) + 1] = x
      /\ t \in Seq(ToSet(s) \cup {x})
  BY <1>1
<1>3. Len(s) \in Nat /\ t # << >>
  BY <1>1, <1>2
<1> HIDE DEF t
<1>4. \A j \in DOMAIN t : t[j] \in ToSet(t)
  BY DEF ToSet
<1>5. t \in Seq(ToSet(t))
  BY <1>2, <1>3, <1>4
<1>6. QED
  BY <1>2, <1>3, <1>5 DEF t

\* What a turn of the loop does to the program it writes.
LEMMA Turn ==
  ASSUME Walked, Translate
  PROVE  LET i == raw[pc + 1] IN
         /\ pc < Len(raw) /\ i \in Slots /\ Failure(i) = "none"
         /\ raw' = raw /\ outcome' = outcome /\ outcome = "running"
         /\ prog' = Append(prog, [label |-> pc, ins |-> Decode(i, NextImm(pc), pc)])
         /\ pc' = pc + (IF IsLddw(i) THEN 2 ELSE 1)
<1> DEFINE i == raw[pc + 1]
<1>1. /\ pc < Len(raw) /\ outcome = "running" /\ raw' = raw /\ outcome' = outcome
      /\ Failure(i) = "none" /\ pc' = Advance(IsLddw(i))
      /\ prog' = Append(prog, [label |-> pc, ins |-> Decode(i, NextImm(pc), pc)])
  BY DEF Translate
<1>2. raw \in Seq(Slots) /\ Short(raw) /\ pc \in Nat
  BY DEF Walked
<1>3. i \in Slots
  BY <1>1, <1>2
<1>5. pc' = pc + (IF IsLddw(i) THEN 2 ELSE 1)
  <2>1. IsLddw(i) \in BOOLEAN
    BY DEF IsLddw
  <2>2. QED
    BY <1>1, <1>2, <2>1, AdvanceExact
<1>6. QED
  BY <1>1, <1>3, <1>5

LEMMA WalkedInit ==
  ASSUME Init, \A r \in Raws : Short(r)
  PROVE  Walked
BY RawsAssumption DEF Init, Walked, Done, ToSet

LEMMA WalkedTranslate ==
  ASSUME Walked, Translate
  PROVE  Walked' /\ (Passed => Passed')
<1> DEFINE i == raw[pc + 1]
<1>1. /\ pc < Len(raw) /\ i \in Slots /\ Failure(i) = "none"
      /\ raw' = raw /\ outcome' = outcome /\ outcome = "running"
      /\ pc' = pc + (IF IsLddw(i) THEN 2 ELSE 1)
  BY Turn
<1>2. prog' = Append(prog, [label |-> pc, ins |-> Decode(i, NextImm(pc), pc)])
  BY Turn
<1>3. PICK ins : ins = Decode(i, NextImm(pc), pc)
  OBVIOUS
<1>4. PICK n : n = Len(prog)
  OBVIOUS
<1>5. size(ins) = IF IsLddw(i) THEN 2 ELSE 1
  BY <1>1, <1>3, WideDecodes, OtherDecodes
<1>6. /\ prog' \in Seq(ToSet(prog')) /\ Len(prog') = n + 1 /\ prog' # << >>
      /\ DOMAIN prog = 1 .. n /\ DOMAIN prog' = 1 .. n + 1
      /\ \A j \in 1 .. n : prog'[j] = prog[j]
      /\ prog'[n + 1] = [label |-> pc, ins |-> ins]
  BY <1>2, <1>3, <1>4, AppendKeeps DEF Walked
<1>7. n \in Nat /\ pc \in Nat /\ Len(raw) \in Nat /\ (prog = << >> <=> n = 0)
  BY <1>4 DEF Walked
<1>8. prog'[n + 1].label = pc /\ prog'[n + 1].ins = ins
  BY <1>6
<1>9. /\ \A j \in 1 .. n : After(j)' = After(j)
      /\ After(n + 1)' = pc + size(ins) /\ pc' = After(n + 1)'
  BY <1>1, <1>5, <1>6, <1>8 DEF After
<1>10. n # 0 => pc = After(n) /\ prog[1].label = 0
  BY <1>4, <1>7 DEF Walked
<1>11. n = 0 => pc = 0
  BY <1>7 DEF Walked
<1>12. prog'[1].label = 0
  <2>1. CASE n = 0
    BY <2>1, <1>8, <1>11
  <2>2. CASE n # 0
    BY <2>2, <1>6, <1>7, <1>10
  <2>3. QED
    BY <2>1, <2>2
<1>13. \A j \in DOMAIN prog' :
        /\ prog'[j].label \in 0 .. Len(raw) - 1 /\ prog'[j].label < pc'
        /\ size(prog'[j].ins) = IF IsLddw(raw[prog'[j].label + 1]) THEN 2 ELSE 1
  <2> SUFFICES ASSUME NEW j \in 1 .. n + 1
      PROVE  /\ prog'[j].label \in 0 .. Len(raw) - 1 /\ prog'[j].label < pc'
             /\ size(prog'[j].ins) = IF IsLddw(raw[prog'[j].label + 1]) THEN 2 ELSE 1
    BY <1>6
  <2>1. CASE j = n + 1
    BY <2>1, <1>1, <1>5, <1>7, <1>8
  <2>2. CASE j \in 1 .. n
    <3>1. prog[j].label \in 0 .. Len(raw) - 1 /\ prog[j].label < pc
      BY <2>2, <1>6 DEF Walked
    <3>2. prog'[j].label < pc'
      BY <2>2, <3>1, <1>1, <1>6, <1>7
    <3>3. QED
      BY <2>2, <3>1, <3>2, <1>6 DEF Walked
  <2>3. QED
    BY <2>1, <2>2, <1>7
<1>14. \A j \in 1 .. Len(prog') - 1 : prog'[j + 1].label = After(j)'
  <2> SUFFICES ASSUME NEW j \in 1 .. n
      PROVE  prog'[j + 1].label = After(j)'
    BY <1>6, <1>7
  <2>1. CASE j = n
    BY <2>1, <1>7, <1>8, <1>9, <1>10
  <2>2. CASE j \in 1 .. n - 1
    <3>1. prog[j + 1].label = After(j) /\ j + 1 \in 1 .. n
      BY <2>2, <1>4, <1>7 DEF Walked
    <3>2. QED
      BY <3>1, <1>6, <1>9
  <2>3. QED
    BY <2>1, <2>2, <1>7
<1>15. Walked'
  <2>1. pc' \in Nat
    BY <1>1, <1>7
  <2>2. ~ Done'
    BY <1>1 DEF Done
  <2>3. raw' \in Seq(Slots) /\ Short(raw)'
    BY <1>1 DEF Walked, Short
  <2>4. pc' = After(Len(prog))'
    BY <1>6, <1>9 DEF After
  <2>5. QED
    BY <2>1, <2>2, <2>3, <2>4, <1>1, <1>6, <1>12, <1>13, <1>14 DEF Walked
<1>16. Passed => Passed'
  <2> SUFFICES ASSUME Passed, NEW k \in 0 .. pc' - 1
      PROVE  \E j \in 1 .. n + 1 :
        \/ k = prog'[j].label
        \/ k = prog'[j].label + 1 /\ size(prog'[j].ins) = 2
    BY <1>6 DEF Passed
  <2>1. CASE k < pc
    <3>1. PICK j \in 1 .. n :
        \/ k = prog[j].label
        \/ k = prog[j].label + 1 /\ size(prog[j].ins) = 2
      <4>1. k \in 0 .. pc - 1
        BY <2>1, <1>6, <1>7
      <4>2. DOMAIN prog = 1 .. n
        BY <1>6, <1>7
      <4>3. QED
        BY <4>1, <4>2 DEF Passed
    <3>2. QED
      BY <3>1, <1>6, <1>7
  <2>2. CASE k >= pc
    <3>1. k = pc \/ (k = pc + 1 /\ size(ins) = 2)
      BY <2>2, <1>1, <1>5, <1>7
    <3>2. n + 1 \in 1 .. n + 1
      BY <1>7
    <3>3. QED
      BY <3>1, <3>2, <1>8
  <2>3. QED
    BY <2>1, <2>2, <1>7
<1>17. QED
  BY <1>15, <1>16

LEMMA WalkedNext ==
  ASSUME Walked, [Next]_vars
  PROVE  Walked' /\ (Passed => Passed')
<1>1. CASE Translate
  BY <1>1, WalkedTranslate
<1>2. CASE Refuse
  <2>1. /\ raw' = raw /\ pc' = pc /\ prog' = prog
        /\ outcome' = Failure(raw[pc + 1]) /\ outcome' # "insts"
    BY <1>2 DEF Refuse, Failure
  <2>2. QED
    BY <2>1 DEF Walked, Passed, Done, After, Short
<1>3. CASE Finish
  <2>1. /\ raw' = raw /\ pc' = pc /\ prog' = prog /\ pc >= Len(raw)
        /\ outcome' = "insts" => raw # << >>
    BY <1>3 DEF Finish
  <2>2. prog = << >> /\ outcome' = "insts" => FALSE
    BY <2>1 DEF Walked
  <2>3. QED
    BY <2>1, <2>2 DEF Walked, Passed, Done, After, Short
<1>4. CASE UNCHANGED vars
  BY <1>4 DEF vars, Walked, Passed, Done, After, Short
<1>5. QED
  BY <1>1, <1>2, <1>3, <1>4 DEF Next

LEMMA WalkedAlways ==
  ASSUME \A r \in Raws : Short(r)
  PROVE  Spec => [](Walked /\ Passed)
<1>1. Init => Walked /\ Passed
  BY WalkedInit DEF Init, Passed
<1>2. (Walked /\ Passed) /\ [Next]_vars => (Walked /\ Passed)'
  BY WalkedNext
<1>3. QED
  BY <1>1, <1>2, PTL DEF Spec

\* Every slot of a program shorter than pc_t is translated once, in order, as
\* an instruction of its own or as the second half of the one before it.
THEOREM TranslatedOnce ==
  ASSUME \A r \in Raws : Short(r)
  PROVE  Spec => []EachOnce
<1>1. Walked => EachOnce
  BY DEF Walked, EachOnce, After, Last
<1>2. QED
  BY <1>1, WalkedAlways, PTL

-----------------------------------------------------------------------------
(* The notes.                                                                *)

\* The notes with x for those of the last slot, and some for the next.
Grown(s, x, tail) == [s EXCEPT ![Len(s)] = x] \o tail

LEMMA OwnElements ==
  ASSUME NEW E, NEW t \in Seq(E)
  PROVE  t \in Seq(ToSet(t))
<1>1. \A k \in 1 .. Len(t) : t[k] \in ToSet(t)
  BY DEF ToSet
<1>2. QED
  BY <1>1

LEMMA NotesGrow ==
  ASSUME NEW s, s \in Seq(ToSet(s)), s # << >>, NEW x, NEW T, NEW tail \in Seq(T)
  PROVE  LET t == Grown(s, x, tail) IN
         /\ t \in Seq(ToSet(t)) /\ Len(t) = Len(s) + Len(tail)
         /\ Len(s) \in Nat \ {0} /\ t[Len(s)] = x
         /\ \A k \in 1 .. Len(s) - 1 : t[k] = s[k]
<1>1. Len(s) \in Nat \ {0} /\ Len(tail) \in Nat
  OBVIOUS
<1>2. PICK E : s \in Seq(E) /\ tail \in Seq(E) /\ x \in E
  <2>1. s \in Seq(ToSet(s) \cup {x} \cup T) /\ tail \in Seq(ToSet(s) \cup {x} \cup T)
    OBVIOUS
  <2>2. QED
    BY <2>1
<1>3. PICK u : u = [s EXCEPT ![Len(s)] = x]
  OBVIOUS
<1>4. /\ u \in Seq(E) /\ Len(u) = Len(s) /\ u[Len(s)] = x
      /\ \A k \in 1 .. Len(s) - 1 : u[k] = s[k]
  BY <1>1, <1>2, <1>3
<1>5. PICK t : t = u \o tail
  OBVIOUS
<1>6. /\ t \in Seq(E) /\ Len(t) = Len(s) + Len(tail)
      /\ \A k \in 1 .. Len(s) : t[k] = u[k]
  <2>1. t \in Seq(E) /\ Len(t) = Len(u) + Len(tail)
    BY <1>2, <1>4, <1>5, ConcatProperties
  <2>2. \A k \in 1 .. Len(u) : t[k] = u[k]
    BY <1>1, <1>2, <1>4, <1>5, ConcatProperties
  <2>3. QED
    BY <1>4, <2>1, <2>2
<1>7. t \in Seq(ToSet(t))
  BY <1>6, OwnElements
<1>8. t = Grown(s, x, tail)
  BY <1>3, <1>5 DEF Grown
<1>9. QED
  BY <1>1, <1>4, <1>6, <1>7, <1>8

\* A turn adds the notes of its slot to those there are.
LEMMA TurnNotes ==
  ASSUME Walked, AllNoted, Translate
  PROVE  /\ notes' \in Seq(ToSet(notes')) /\ Len(notes') = pc' + 1
         /\ \A k \in 1 .. pc : notes'[k] = notes[k]
         /\ \E said \in SlotNotes(raw[pc + 1], pc) : said \subseteq notes'[pc + 1]
<1> DEFINE i == raw[pc + 1]
           tail == IF IsLddw(i) THEN <<{}, {}>> ELSE <<{}>>
<1>1. notes \in Seq(ToSet(notes)) /\ Len(notes) = pc + 1 /\ pc \in Nat /\ notes # << >>
  BY DEF AllNoted, Walked
<1>2. PICK said \in SlotNotes(i, pc) : \E falls :
        notes' = [notes EXCEPT ![Len(notes)] = @ \cup said \cup falls] \o tail
  BY DEF Translate
<1>3. PICK x : /\ said \subseteq x
               /\ notes' = [notes EXCEPT ![Len(notes)] = x] \o tail
  <2>1. PICK falls : notes' = [notes EXCEPT ![Len(notes)] = @ \cup said \cup falls] \o tail
    BY <1>2
  <2>2. PICK x : x = notes[Len(notes)] \cup said \cup falls
    OBVIOUS
  <2>3. [notes EXCEPT ![Len(notes)] = x] = [notes EXCEPT ![Len(notes)] = @ \cup said \cup falls]
    BY <2>2
  <2>4. QED
    BY <2>1, <2>2, <2>3
<1>4. tail \in Seq({{}}) /\ Len(tail) = IF IsLddw(i) THEN 2 ELSE 1
  <2>1. <<{}>> \in Seq({{}}) /\ Len(<<{}>>) = 1
    OBVIOUS
  <2>2. <<{}, {}>> \in Seq({{}}) /\ Len(<<{}, {}>>) = 2
    OBVIOUS
  <2>3. QED
    BY <2>1, <2>2
<1> HIDE DEF tail
<1>5. notes' = Grown(notes, x, tail)
  BY <1>3 DEF Grown
<1>6. /\ notes' \in Seq(ToSet(notes')) /\ Len(notes') = Len(notes) + Len(tail)
      /\ notes'[Len(notes)] = x
      /\ \A k \in 1 .. Len(notes) - 1 : notes'[k] = notes[k]
  <2>1. PICK s, rest : s = notes /\ rest = tail
    OBVIOUS
  <2>2. s \in Seq(ToSet(s)) /\ s # << >> /\ rest \in Seq({{}})
    BY <1>1, <1>4, <2>1
  <2>3. LET t == Grown(s, x, rest) IN
        /\ t \in Seq(ToSet(t)) /\ Len(t) = Len(s) + Len(rest)
        /\ Len(s) \in Nat \ {0} /\ t[Len(s)] = x
        /\ \A k \in 1 .. Len(s) - 1 : t[k] = s[k]
    BY <2>2, NotesGrow
  <2>4. QED
    BY <1>5, <2>1, <2>3
<1>7. pc' = pc + (IF IsLddw(i) THEN 2 ELSE 1)
  BY Turn
<1>8. said \subseteq notes'[pc + 1]
  BY <1>1, <1>3, <1>6
<1>9. QED
  BY <1>1, <1>4, <1>6, <1>7, <1>8

\* What is noted of the instruction that a turn adds.
LEMMA SlotIsNoted ==
  ASSUME Walked, Translate, NEW said \in SlotNotes(raw[pc + 1], pc)
  PROVE  LET i   == raw[pc + 1]
             ins == prog'[Len(prog) + 1].ins
         IN  /\ ins.k = "Jmp" =>
                 /\ ins.target \in Nat
                 /\ ins.target >= Len(raw) => "jump out of bounds" \in said
                 /\ ins.target < Len(raw) /\ raw[ins.target + 1].opcode = 0
                         => "jump to middle of lddw" \in said
             /\ IsLddw(i) /\ pc + 2 <= Len(raw) =>
                 \/ ins.k = "LoadMapFd"
                 \/ raw[pc + 2].opcode = 0
                 \/ "invalid LDDW" \in said
<1> DEFINE i == raw[pc + 1]
           ins == prog'[Len(prog) + 1].ins
<1>1. pc < Len(raw) /\ i \in Slots /\ Failure(i) = "none"
  BY Turn
<1>2. raw \in Seq(Slots) /\ pc \in Nat
  BY DEF Walked
<1>3. ins = Decode(i, NextImm(pc), pc)
  <2>1. prog' = Append(prog, [label |-> pc, ins |-> Decode(i, NextImm(pc), pc)])
    BY Turn
  <2>2. prog'[Len(prog) + 1] = [label |-> pc, ins |-> Decode(i, NextImm(pc), pc)]
    BY <2>1, AppendKeeps DEF Walked
  <2>3. QED
    BY <2>2
<1> HIDE DEF ins
<1>4. CASE IsLddw(i)
  <2>1. ins.k # "Jmp" /\ (i.src = 1 => ins.k = "LoadMapFd")
    BY <1>1, <1>3, <1>4, WideDecodes
  <2>2. ASSUME pc + 2 <= Len(raw), i.src # 1, raw[pc + 2].opcode # 0
        PROVE  "invalid LDDW" \in said
    <3>1. raw[pc + 2] \in Slots
      BY <2>2, <1>2
    <3>2. [raw[pc + 2] EXCEPT !.imm = 0].opcode = raw[pc + 2].opcode
      BY <3>1 DEF Slots
    <3>3. [raw[pc + 2] EXCEPT !.imm = 0] # Slot(0, 0, 0, 0, 0)
      BY <2>2, <3>2 DEF Slot
    <3>4. ~ (pc >= Len(raw) - 1)
      BY <2>2, <1>2
    <3>5. "invalid LDDW" \in {n \in {"invalid LDDW"} : i.src # 1 /\ ~ (pc >= Len(raw) - 1)
                        /\ [raw[pc + 2] EXCEPT !.imm = 0] # Slot(0, 0, 0, 0, 0)}
      BY <2>2, <3>3, <3>4
    <3>6. SlotNotes(i, pc) = LddwNotes(i, pc)
      BY <1>1, <1>4, OneBranch DEF SlotNotes
    <3>7. \A x \in LddwNotes(i, pc) : "invalid LDDW" \in x
      BY <3>5 DEF LddwNotes
    <3>8. QED
      BY <3>6, <3>7
  <2>3. QED
    BY <1>4, <2>1, <2>2 DEF ins
<1>5. CASE ~ IsLddw(i)
  <2> SUFFICES ASSUME ins.k = "Jmp"
      PROVE  /\ ins.target \in Nat
             /\ ins.target >= Len(raw) => "jump out of bounds" \in said
             /\ ins.target < Len(raw) /\ raw[ins.target + 1].opcode = 0
                  => "jump to middle of lddw" \in said
    BY <1>5 DEF ins
  <2>1. ins.target = Target(i, pc) /\ IsJump(i) /\ ~ IsMem(i) /\ ~ IsAlu(i)
    BY <1>1, <1>3, <1>5, OtherDecodes
  <2>2. said = JmpNotes(i, pc)
    BY <1>5, <2>1 DEF SlotNotes
  <2>3. Target(i, pc) \in Nat
    <3>1. pc + 1 + i.offset \in Int
      BY <1>1, <1>2, SlotFields
    <3>2. QED
      BY <3>1, Wraps DEF Target
  <2>4. IsJump(i) /\ Target(i, pc) >= Len(raw) => "jump out of bounds" \in JmpNotes(i, pc)
    BY DEF JmpNotes
  <2>5. IsJump(i) /\ Target(i, pc) < Len(raw) /\ raw[Target(i, pc) + 1].opcode = 0
          => "jump to middle of lddw" \in JmpNotes(i, pc)
    BY DEF JmpNotes
  <2>6. QED
    BY <2>1, <2>2, <2>3, <2>4, <2>5
<1>6. QED
  BY <1>4, <1>5 DEF ins

\* The notes of an instruction that was translated stay with it.
LEMMA NotedStays ==
  ASSUME NEW j, Noted(j), prog'[j] = prog[j], raw' = raw,
         notes[prog[j].label + 1] \subseteq notes'[prog[j].label + 1]
  PROVE  Noted(j)'
BY DEF Noted

LEMMA AllNotedTranslate ==
  ASSUME Walked, AllNoted, Translate
  PROVE  AllNoted'
<1> DEFINE i == raw[pc + 1]
<1>1. PICK n : n = Len(prog)
  OBVIOUS
<1>2. raw' = raw
  BY Turn
<1>3. /\ notes' \in Seq(ToSet(notes')) /\ Len(notes') = pc' + 1
      /\ \A k \in 1 .. pc : notes'[k] = notes[k]
  BY TurnNotes
<1>4. PICK said \in SlotNotes(i, pc) : said \subseteq notes'[pc + 1]
  BY TurnNotes
<1>5. /\ n \in Nat /\ DOMAIN prog = 1 .. n /\ DOMAIN prog' = 1 .. n + 1
      /\ \A j \in 1 .. n : prog'[j] = prog[j]
      /\ prog'[n + 1].label = pc
  <2>1. prog' = Append(prog, [label |-> pc, ins |-> Decode(i, NextImm(pc), pc)])
    BY Turn
  <2>2. n \in Nat
    BY <1>1 DEF Walked
  <2>3. /\ DOMAIN prog = 1 .. n /\ DOMAIN prog' = 1 .. n + 1
        /\ \A j \in 1 .. n : prog'[j] = prog[j]
        /\ prog'[n + 1] = [label |-> pc, ins |-> Decode(i, NextImm(pc), pc)]
    BY <1>1, <2>1, AppendKeeps DEF Walked
  <2>4. QED
    BY <2>2, <2>3
<1>6. ASSUME NEW j \in 1 .. n
      PROVE  Noted(j)'
  <2>1. Noted(j) /\ prog'[j] = prog[j]
    BY <1>5 DEF AllNoted
  <2>2. prog[j].label + 1 \in 1 .. pc
    <3>1. pc \in Nat /\ Len(raw) \in Nat /\ j \in DOMAIN prog
      BY <1>5 DEF Walked
    <3>2. prog[j].label \in 0 .. Len(raw) - 1 /\ prog[j].label < pc
      BY <3>1 DEF Walked
    <3>3. QED
      BY <3>1, <3>2
  <2>3. notes'[prog[j].label + 1] = notes[prog[j].label + 1]
    BY <1>3, <2>2
  <2>4. QED
    BY <1>2, <2>1, <2>3, NotedStays
<1>7. Noted(n + 1)'
  <2> DEFINE ins == prog'[n + 1].ins
  <2>1. /\ ins.k = "Jmp" =>
             /\ ins.target \in Nat
             /\ ins.target >= Len(raw) => "jump out of bounds" \in said
             /\ ins.target < Len(raw) /\ raw[ins.target + 1].opcode = 0
                     => "jump to middle of lddw" \in said
        /\ IsLddw(i) /\ pc + 2 <= Len(raw) =>
             \/ ins.k = "LoadMapFd"
             \/ raw[pc + 2].opcode = 0
             \/ "invalid LDDW" \in said
    BY <1>1, SlotIsNoted
  <2>2. QED
    BY <1>2, <1>4, <1>5, <2>1 DEF Noted
<1>8. QED
  BY <1>3, <1>5, <1>6, <1>7 DEF AllNoted

LEMMA AllNotedNext ==
  ASSUME Walked, AllNoted, [Next]_vars
  PROVE  AllNoted'
<1>1. CASE Translate
  BY <1>1, AllNotedTranslate
<1>2. CASE Refuse
  BY <1>2 DEF Refuse, AllNoted, Noted
<1>3. CASE Finish
  <2>1. PICK said : notes' = [notes EXCEPT ![Len(notes)] = @ \cup said]
    BY <1>3 DEF Finish
  <2>2. raw' = raw /\ prog' = prog /\ pc' = pc
    BY <1>3 DEF Finish
  <2>3. notes \in Seq(ToSet(notes)) /\ Len(notes) = pc + 1 /\ pc \in Nat
    BY DEF AllNoted, Walked
  <2>4. PICK x : x = notes[Len(notes)] \cup said
    OBVIOUS
  <2>5. notes' \in Seq(ToSet(notes) \cup {x}) /\ Len(notes') = Len(notes)
    BY <2>1, <2>3, <2>4
  <2>6. \A k \in 1 .. pc + 1 : notes[k] \subseteq notes'[k]
    BY <2>1, <2>3
  <2>7. notes' \in Seq(ToSet(notes'))
    <3>1. PICK t : t = notes'
      OBVIOUS
    <3>2. t \in Seq(ToSet(t))
      BY <2>5, <3>1, OwnElements
    <3>3. QED
      BY <3>1, <3>2
  <2>8. ASSUME NEW j \in DOMAIN prog
        PROVE  Noted(j)'
    <3>1. Noted(j) /\ prog[j].label + 1 \in 1 .. pc + 1
      BY <2>3 DEF AllNoted, Walked
    <3>2. notes[prog[j].label + 1] \subseteq notes'[prog[j].label + 1]
      BY <2>6, <3>1
    <3>3. QED
      BY <2>2, <3>1, <3>2, NotedStays
  <2>9. QED
    BY <2>2, <2>3, <2>5, <2>7, <2>8 DEF AllNoted
<1>4. CASE UNCHANGED vars
  BY <1>4 DEF vars, AllNoted, Noted
<1>5. QED
  BY <1>1, <1>2, <1>3, <1>4 DEF Next

\* The only slots that are passed and are not the first of an instruction are
\* the second of a wide one, which a jump may not lead to without a note.
LEMMA JumpsLand ==
  ASSUME Walked, Passed, AllNoted
  PROVE  JumpsNoted
<1> SUFFICES ASSUME Done, Quiet, SecondSlotsEmpty,
                    NEW j \in DOMAIN prog, prog[j].ins.k = "Jmp"
             PROVE  \E m \in DOMAIN prog : prog[m].label = prog[j].ins.target
  BY DEF JumpsNoted
<1> PICK t : t = prog[j].ins.target
  OBVIOUS
<1>1. \A m \in DOMAIN prog : /\ prog[m].label \in 0 .. Len(raw) - 1
                             /\ notes[prog[m].label + 1] = {}
  <2> TAKE m \in DOMAIN prog
  <2>1. prog[m].label \in 0 .. pc - 1 /\ prog[m].label \in 0 .. Len(raw) - 1
    BY DEF Walked
  <2>2. DOMAIN notes = 1 .. pc + 1 /\ pc \in Nat
    BY DEF AllNoted, Walked
  <2>3. QED
    BY <2>1, <2>2 DEF Quiet
<1>2. t \in Nat /\ t < Len(raw) /\ raw[t + 1].opcode # 0
  <2>1. Len(raw) \in Nat
    BY DEF Walked
  <2>2. /\ t \in Nat
        /\ t >= Len(raw) => "jump out of bounds" \in notes[prog[j].label + 1]
        /\ t < Len(raw) /\ raw[t + 1].opcode = 0
                => "jump to middle of lddw" \in notes[prog[j].label + 1]
    BY DEF AllNoted, Noted
  <2>3. notes[prog[j].label + 1] = {}
    BY <1>1
  <2>4. QED
    BY <2>1, <2>2, <2>3
<1>3. t \in 0 .. pc - 1
  BY <1>2 DEF Walked
<1>4. PICK m \in DOMAIN prog : t = prog[m].label \/ (t = prog[m].label + 1 /\ size(prog[m].ins) = 2)
  BY <1>3 DEF Passed
<1>5. CASE t = prog[m].label + 1 /\ size(prog[m].ins) = 2
  <2>1. IsLddw(raw[prog[m].label + 1]) /\ prog[m].label + 2 <= Len(raw)
    <3>1. size(prog[m].ins) = IF IsLddw(raw[prog[m].label + 1]) THEN 2 ELSE 1
      BY DEF Walked
    <3>2. IsLddw(raw[prog[m].label + 1])
      BY <1>5, <3>1
    <3>3. Len(raw) \in Nat /\ prog[m].label \in 0 .. Len(raw) - 1
      BY DEF Walked
    <3>4. QED
      BY <1>2, <1>5, <3>2, <3>3
  <2>2. \/ prog[m].ins.k = "LoadMapFd"
        \/ raw[prog[m].label + 2].opcode = 0
    BY <1>1, <2>1 DEF AllNoted, Noted
  <2>3. raw[prog[m].label + 2].opcode = 0
    BY <2>1, <2>2 DEF SecondSlotsEmpty, Slot
  <2>4. prog[m].label + 2 = t + 1
    BY <1>1, <1>5
  <2>5. QED
    BY <1>2, <2>3, <2>4
<1>6. QED
  BY <1>4, <1>5

\* In a program without notes, every jump leads to an instruction: jumps out
\* of the program and into the second slot of a wide instruction are noted.
THEOREM JumpsAlwaysNoted ==
  ASSUME \A r \in Raws : Short(r)
  PROVE  Spec => []JumpsNoted
<1>1. Init => AllNoted
  BY DEF Init, AllNoted, ToSet
<1>2. Walked /\ AllNoted /\ [Next]_vars => AllNoted'
  BY AllNotedNext
<1>3. Walked /\ Passed /\ AllNoted => JumpsNoted
  BY JumpsLand
<1>4. Spec => [](Walked /\ Passed)
  BY WalkedAlways
<1>5. QED
  BY <1>1, <1>2, <1>3, <1>4, PTL DEF Spec

-----------------------------------------------------------------------------
(* What is written back.                                                     *)

LEMMA NextImmSigned ==
  ASSUME raw \in Seq(Slots), NEW at \in Nat
  PROVE  NextImm(at) \in Signed(ImmBits)
<1>1. CASE at < Len(raw) - 1
  <2>1. raw[at + 2] \in Slots
    BY <1>1
  <2>2. QED
    BY <1>1, <2>1, SlotFields DEF NextImm
<1>2. CASE ~ (at < Len(raw) - 1)
  <2>1. PICK h \in Nat \ {0} : h = 2 ^ (ImmBits - 1)
    BY Halves, WidthAssumption
  <2>2. 0 \in Signed(ImmBits)
    BY <2>1 DEF Signed
  <2>3. QED
    BY <1>2, <2>2 DEF NextImm
<1>3. QED
  BY <1>1, <1>2

LEMMA FromSlotStays ==
  ASSUME NEW j, FromSlot(j), prog'[j] = prog[j], raw' = raw,
         notes[prog[j].label + 1] \subseteq notes'[prog[j].label + 1]
  PROVE  FromSlot(j)'
BY DEF FromSlot, NextImm, SlotNotes, LddwNotes, JmpNotes

LEMMA SourcedTranslate ==
  ASSUME Walked, AllNoted, Sourced, Translate
  PROVE  Sourced'
<1> DEFINE i == raw[pc + 1]
<1>1. PICK n : n = Len(prog)
  OBVIOUS
<1>2. raw' = raw /\ Failure(i) = "none"
  BY Turn
<1>3. /\ n \in Nat /\ DOMAIN prog = 1 .. n /\ DOMAIN prog' = 1 .. n + 1
      /\ \A j \in 1 .. n : prog'[j] = prog[j]
      /\ prog'[n + 1] = [label |-> pc, ins |-> Decode(i, NextImm(pc), pc)]
  <2>1. prog' = Append(prog, [label |-> pc, ins |-> Decode(i, NextImm(pc), pc)])
    BY Turn
  <2>2. QED
    BY <1>1, <2>1, AppendKeeps DEF Walked
<1>4. ASSUME NEW j \in 1 .. n PROVE FromSlot(j)'
  <2>1. FromSlot(j) /\ prog'[j] = prog[j]
    BY <1>3 DEF Sourced
  <2>2. prog[j].label + 1 \in 1 .. pc
    <3>1. pc \in Nat /\ Len(raw) \in Nat /\ j \in DOMAIN prog
      BY <1>3 DEF Walked
    <3>2. prog[j].label \in 0 .. Len(raw) - 1 /\ prog[j].label < pc
      BY <3>1 DEF Walked
    <3>3. QED
      BY <3>1, <3>2
  <2>3. notes'[prog[j].label + 1] = notes[prog[j].label + 1]
    BY <2>2, TurnNotes
  <2>4. QED
    BY <1>2, <2>1, <2>3, FromSlotStays
<1>5. FromSlot(n + 1)'
  <2>1. prog'[n + 1].label = pc /\ prog'[n + 1].ins = Decode(i, NextImm(pc), pc)
    BY <1>3
  <2>2. PICK said \in SlotNotes(i, pc) : said \subseteq notes'[pc + 1]
    BY TurnNotes
  <2>3. QED
    BY <1>2, <2>1, <2>2 DEF FromSlot, NextImm, SlotNotes, LddwNotes, JmpNotes
<1>6. QED
  BY <1>3, <1>4, <1>5 DEF Sourced

LEMMA SourcedNext ==
  ASSUME Walked, AllNoted, Sourced, [Next]_vars
  PROVE  Sourced'
<1>1. CASE Translate
  BY <1>1, SourcedTranslate
<1>2. CASE Refuse
  <2>1. raw' = raw /\ prog' = prog /\ notes' = notes
    BY <1>2 DEF Refuse
  <2>2. QED
    BY <2>1, FromSlotStays DEF Sourced
<1>3. CASE Finish
  <2>1. PICK said : notes' = [notes EXCEPT ![Len(notes)] = @ \cup said]
    BY <1>3 DEF Finish
  <2>2. raw' = raw /\ prog' = prog
    BY <1>3 DEF Finish
  <2>3. notes \in Seq(ToSet(notes)) /\ Len(notes) = pc + 1 /\ pc \in Nat
    BY DEF AllNoted, Walked
  <2>4. \A k \in 1 .. pc + 1 : notes[k] \subseteq notes'[k]
    BY <2>1, <2>3
  <2>5. ASSUME NEW j \in DOMAIN prog PROVE FromSlot(j)'
    <3>1. FromSlot(j) /\ prog[j].label + 1 \in 1 .. pc + 1
      BY <2>3 DEF Sourced, Walked
    <3>2. notes[prog[j].label + 1] \subseteq notes'[prog[j].label + 1]
      BY <2>4, <3>1
    <3>3. QED
      BY <2>2, <3>1, <3>2, FromSlotStays
  <2>6. QED
    BY <2>2, <2>5 DEF Sourced
<1>4. CASE UNCHANGED vars
  <2>1. raw' = raw /\ prog' = prog /\ notes' = notes
    BY <1>4 DEF vars
  <2>2. QED
    BY <2>1, FromSlotStays DEF Sourced
<1>5. QED
  BY <1>1, <1>2, <1>3, <1>4 DEF Next

LEMMA SourcedAlways ==
  ASSUME \A r \in Raws : Short(r)
  PROVE  Spec => [](Walked /\ Passed /\ AllNoted /\ Sourced)
<1>1. Init => AllNoted /\ Sourced
  BY DEF Init, AllNoted, Sourced, ToSet
<1>2. Walked /\ AllNoted /\ Sourced /\ [Next]_vars => AllNoted' /\ Sourced'
  BY AllNotedNext, SourcedNext
<1>3. Spec => [](Walked /\ Passed)
  BY WalkedAlways
<1>4. QED
  BY <1>1, <1>2, <1>3, PTL DEF Spec

LEMMA ReadsBack ==
  ASSUME Walked, Sourced
  PROVE  DecodesBack
<1> SUFFICES ASSUME NEW j \in DOMAIN prog,
                    CanEncode(prog[j].ins), prog[j].ins.k # "Jmp"
    PROVE LET slots == Encode(prog[j].ins, 0)
          IN  /\ Failure(slots[1]) = "none"
              /\ Decode(slots[1], IF Len(slots) = 2 THEN slots[2].imm ELSE 0, 0)
                      = prog[j].ins
  BY DEF DecodesBack
<1> PICK at : at = prog[j].label
  OBVIOUS
<1> PICK i : i = raw[at + 1]
  OBVIOUS
<1>1. at \in Nat /\ i \in Slots
  <2>1. raw \in Seq(Slots) /\ at \in 0 .. Len(raw) - 1 /\ Len(raw) \in Nat
    BY DEF Walked
  <2>2. QED
    BY <2>1
<1>2. Failure(i) = "none" /\ prog[j].ins = Decode(i, NextImm(at), at)
  BY DEF Sourced, FromSlot
<1>3. PICK slots : slots = Encode(prog[j].ins, 0)
  OBVIOUS
<1>4. CASE IsLddw(i)
  <2>1. NextImm(at) \in Signed(ImmBits)
    BY <1>1, NextImmSigned DEF Walked
  <2>2. /\ Len(slots) = 2 /\ Failure(slots[1]) = "none"
        /\ Decode(slots[1], slots[2].imm, 0) = prog[j].ins
    BY <1>1, <1>2, <1>3, <1>4, <2>1, WideBack
  <2>3. QED
    BY <1>3, <2>2, Zenon
<1>5. CASE ~ IsLddw(i)
  <2>1. PICK w : /\ slots = <<w>>
                 /\ Failure(w) = "none" /\ Decode(w, 0, 0) = prog[j].ins
    BY <1>1, <1>2, <1>3, <1>5, NarrowBack
  <2>2. Len(slots) = 1 /\ slots[1] = w
    BY <2>1
  <2>3. QED
    BY <1>3, <2>1, <2>2
<1>6. QED
  BY <1>4, <1>5

\* What marshal writes for an instruction that unmarshal made is translated to
\* the same instruction, of every kind, whatever else the first slot held.
THEOREM AlwaysDecodesBack ==
  ASSUME \A r \in Raws : Short(r)
  PROVE  Spec => []DecodesBack
<1>1. Walked /\ Sourced => DecodesBack
  BY ReadsBack
<1>2. Spec => [](Walked /\ Passed /\ AllNoted /\ Sourced)
  BY SourcedAlways
<1>3. QED
  BY <1>1, <1>2, PTL

-----------------------------------------------------------------------------
(* A plain program without notes is written back as it was.                  *)

LEMMA MemPlain ==
  ASSUME NEW i \in Slots, IsMem(i), ~ MemUnsupported(i), Plain(i), MemNotes(i) = {}
  PROVE  Mode(i) # 0 /\ WrittenMem(i) = i
<1>1. Mode(i) # 0
  <2>1. Mode(i) = 0 => "Bad instruction" \in MemNotes(i)
    BY DEF MemNotes
  <2>2. QED
    BY <2>1
<1>2. Mode(i) \in {1, 2, 3, 6}
  BY <1>1, Opcodes DEF MemUnsupported
<1>3. i = Slot(i.opcode, i.dst, i.src, i.offset, i.imm)
  BY SlotFields
<1>4. CASE Mode(i) = 1
  <2>1. i.dst = 0 /\ i.offset = 0 /\ i.src = 0
    BY <1>4 DEF Plain
  <2>2. WrittenMem(i) = Slot(i.opcode, 0, 0, 0, i.imm)
    BY <1>4 DEF WrittenMem, ModeAbs, ModeInd, ModeMem, ModeXadd
  <2>3. QED
    BY <1>1, <1>3, <2>1, <2>2
<1>5. CASE Mode(i) = 2
  <2>1. i.dst = 0 /\ i.offset = 0
    BY <1>5 DEF Plain
  <2>2. WrittenMem(i) = Slot(i.opcode, 0, i.src, 0, i.imm)
    BY <1>5 DEF WrittenMem, ModeAbs, ModeInd, ModeMem, ModeXadd
  <2>3. QED
    BY <1>1, <1>3, <2>1, <2>2
<1>6. CASE Mode(i) = 3
  <2>1. (Cls(i) # ST => i.imm = 0) /\ (Cls(i) = ST => i.src = 0)
    BY <1>6 DEF Plain
  <2>2. WrittenMem(i) = Slot(i.opcode, i.dst, IF Cls(i) = ST THEN 0 ELSE i.src,
                             i.offset, IF Cls(i) = ST THEN i.imm ELSE 0)
    BY <1>6 DEF WrittenMem, ModeAbs, ModeInd, ModeMem, ModeXadd
  <2>3. /\ (IF Cls(i) = ST THEN 0 ELSE i.src) = i.src
        /\ (IF Cls(i) = ST THEN i.imm ELSE 0) = i.imm
    BY <2>1
  <2>4. QED
    BY <1>1, <1>3, <2>2, <2>3, Zenon
<1>7. CASE Mode(i) = 6
  <2>1. Cls(i) = STX /\ i.imm = 0
    BY <1>7 DEF Plain
  <2>2. WrittenMem(i) = Slot(STX + 32 * ModeXadd + SizeBits(i), i.dst, i.src, i.offset, 0)
    BY <1>7 DEF WrittenMem, ModeAbs, ModeInd, ModeMem, ModeXadd
  <2>3. STX + 32 * ModeXadd + SizeBits(i) = i.opcode
    <3>1. SizeBits(i) \in Int
      BY SlotFields DEF SizeBits
    <3>2. QED
      BY <1>7, <2>1, <3>1, Opcodes DEF STX, ModeXadd
  <2>4. QED
    BY <1>1, <1>3, <2>1, <2>2, <2>3
<1>8. QED
  BY <1>2, <1>4, <1>5, <1>6, <1>7

\* The operand of an operation or a comparison that is no other field's.
LEMMA RightPlain ==
  ASSUME NEW i \in Slots, IF HasSrc(i) THEN i.imm = 0 ELSE i.src = 0
  PROVE  Right(i, i.dst, i.offset) = i
<1>1. /\ (IF HasSrc(i) THEN i.src ELSE 0) = i.src
      /\ (IF HasSrc(i) THEN 0 ELSE i.imm) = i.imm
  BY Zenon
<1>2. i = Slot(i.opcode, i.dst, i.src, i.offset, i.imm)
  BY SlotFields
<1>3. QED
  BY <1>1, <1>2, Zenon DEF Right

LEMMA AluPlain ==
  ASSUME NEW i \in Slots, IsAlu(i), ~ Invalid(i), Plain(i), AluNotes(i) = {}
  PROVE  WrittenAlu(i) = i
<1>1. i = Slot(i.opcode, i.dst, i.src, i.offset, i.imm)
  BY SlotFields
<1>2. CASE Op(i) = 8
  <2>1. i.opcode = ALU64 + 128 /\ i.src = 0 /\ i.offset = 0 /\ i.imm = 0
    BY <1>2 DEF Plain
  <2>2. WrittenAlu(i) = Slot(ALU64 + 128, i.dst, 0, 0, 0)
    BY <1>2 DEF WrittenAlu
  <2>3. QED
    BY <1>1, <2>1, <2>2
<1>3. CASE Op(i) = 13
  <2>1. HasSrc(i) /\ i.src = 0 /\ i.offset = 0 /\ (Cls(i) = ALU64 => i.imm = 64)
    BY <1>3 DEF Plain
  <2>2. i.imm \in {16, 32, 64}
    <3>1. i.imm \notin {16, 32, 64} => "invalid endian immediate" \in AluNotes(i)
      BY <1>3 DEF AluNotes
    <3>2. QED
      BY <3>1
  <2>3. Cls(i) = IF i.imm \in {16, 32} THEN ALU ELSE ALU64
    <3>1. i.imm = 64 => Cls(i) # ALU
      BY <1>3 DEF Invalid, EndianInvalid
    <3>2. QED
      BY <2>1, <2>2, <3>1 DEF IsAlu
  <2>4. i.opcode = Cls(i) + SrcReg + 208
    BY <1>3, <2>1, Opcodes DEF SrcBit, SrcReg
  <2>5. WrittenAlu(i) = Slot((IF i.imm \in {16, 32} THEN ALU ELSE ALU64) + SrcReg + 208,
                             i.dst, 0, 0, IF i.imm \in {16, 32} THEN i.imm ELSE 64)
    BY <1>3 DEF WrittenAlu
  <2>6. (IF i.imm \in {16, 32} THEN i.imm ELSE 64) = i.imm
    BY <2>2
  <2>7. QED
    BY <1>1, <2>1, <2>3, <2>4, <2>5, <2>6
<1>4. CASE Op(i) \notin {8, 13}
  <2>1. i.offset = 0
    <3>1. i.offset # 0 => "nonzero offset" \in AluNotes(i)
      BY <1>4 DEF AluNotes
    <3>2. QED
      BY <3>1
  <2>2. HasSrc(i) => i.imm = 0
    <3>1. HasSrc(i) /\ i.imm # 0 => "nonzero imm" \in AluNotes(i)
      BY <1>4 DEF AluNotes
    <3>2. QED
      BY <3>1
  <2>3. ~ HasSrc(i) => i.src = 0
    <3>1. ~ HasSrc(i) /\ i.src # 0 => "nonzero src" \in AluNotes(i)
      BY <1>4 DEF AluNotes
    <3>2. QED
      BY <3>1
  <2>4. Right(i, i.dst, 0) = i
    BY <2>1, <2>2, <2>3, RightPlain
  <2>5. QED
    BY <1>4, <2>4 DEF WrittenAlu
<1>5. QED
  BY <1>2, <1>3, <1>4

LEMMA JmpPlain ==
  ASSUME NEW i \in Slots, NEW off, Cls(i) = JMP, Plain(i), IsJump(i) => off = i.offset
  PROVE  WrittenJmp(i, off) = i
<1>1. i = Slot(i.opcode, i.dst, i.src, i.offset, i.imm)
  BY SlotFields
<1>2. Op(i) \in {8, 9} => i.opcode # JMP
  BY DEF Op, JMP
<1>3. CASE Op(i) \in {8, 9}
  <2>1. ~ HasSrc(i) /\ i.dst = 0 /\ i.src = 0 /\ i.offset = 0 /\ (Op(i) = 9 => i.imm = 0)
    BY <1>3 DEF Plain
  <2>2. i.opcode = JMP + 16 * Op(i)
    BY <2>1, Opcodes DEF SrcBit, JMP
  <2>3. CASE Op(i) = 8
    <3>1. WrittenJmp(i, off) = Slot(JMP + 128, 0, 0, 0, i.imm)
      BY <1>2, <2>3 DEF WrittenJmp
    <3>2. i.opcode = JMP + 128
      BY <2>2, <2>3 DEF JMP
    <3>3. QED
      BY <1>1, <2>1, <3>1, <3>2
  <2>4. CASE Op(i) = 9
    <3>1. WrittenJmp(i, off) = Slot(JMP + 144, 0, 0, 0, 0)
      BY <1>2, <2>4 DEF WrittenJmp
    <3>2. i.opcode = JMP + 144
      BY <2>2, <2>4 DEF JMP
    <3>3. QED
      BY <1>1, <2>1, <2>4, <3>1, <3>2
  <2>5. QED
    BY <1>3, <2>3, <2>4
<1>4. CASE Op(i) \notin {8, 9}
  <2>1. IsJump(i) /\ off = i.offset
    BY <1>4 DEF IsJump
  <2>2. CASE i.opcode = JMP
    <3>1. i.dst = 0 /\ i.src = 0 /\ i.imm = 0
      BY <2>2 DEF Plain
    <3>2. WrittenJmp(i, off) = Slot(JMP, 0, 0, off, 0)
      BY <1>4, <2>2 DEF WrittenJmp
    <3>3. QED
      BY <1>1, <2>1, <2>2, <3>1, <3>2
  <2>3. CASE i.opcode # JMP
    <3>1. IF HasSrc(i) THEN i.imm = 0 ELSE i.src = 0
      BY <2>1 DEF Plain
    <3>2. WrittenJmp(i, off) = Right(i, i.dst, off)
      BY <1>4, <2>3 DEF WrittenJmp
    <3>3. QED
      BY <2>1, <3>1, <3>2, RightPlain
  <2>4. QED
    BY <2>2, <2>3
<1>5. QED
  BY <1>3, <1>4

LEMMA NarrowPlain ==
  ASSUME NEW i \in Slots, NEW next, NEW at, NEW off, ~ IsLddw(i), Failure(i) = "none",
         {} \in SlotNotes(i, at), Plain(i),
         Decode(i, next, at).k = "Jmp" => off = i.offset
  PROVE  /\ CanEncode(Decode(i, next, at))
         /\ Encode(Decode(i, next, at), off) = << i >>
<1>1. CASE IsMem(i)
  <2>1. ~ MemUnsupported(i)
    BY <1>1, MemFails
  <2>2. Decode(i, next, at) = makeMemOp(i)
    BY <1>1, OneBranch DEF Decode
  <2>3. MemNotes(i) = {}
    BY <1>1, OneBranch DEF SlotNotes
  <2>4. Mode(i) # 0 /\ WrittenMem(i) = i
    BY <1>1, <2>1, <2>3, MemPlain
  <2>5. QED
    BY <1>1, <2>1, <2>2, <2>4, MemWritten
<1>2. CASE ~ IsMem(i) /\ IsAlu(i)
  <2>1. ~ Invalid(i)
    BY <1>2, AluFails
  <2>2. Decode(i, next, at) = makeAluOp(i)
    BY <1>2 DEF Decode
  <2>3. AluNotes(i) = {}
    BY <1>2 DEF SlotNotes
  <2>4. WrittenAlu(i) = i
    BY <1>2, <2>1, <2>3, AluPlain
  <2>5. QED
    BY <1>2, <2>1, <2>2, <2>4, AluWritten
<1>3. CASE ~ IsMem(i) /\ ~ IsAlu(i)
  <2>1. Decode(i, next, at) = makeJmp(i, at)
    BY <1>3 DEF Decode
  <2>2. ~ Invalid(i) /\ ~ JmpAborts(i)
    BY <1>3 DEF Failure
  <2>3. Cls(i) = JMP
    BY <1>3, <2>2, JumpClass
  <2>4. IsJump(i) => makeJmp(i, at).k = "Jmp"
    BY DEF makeJmp, IsJump
  <2>5. WrittenJmp(i, off) = i
    BY <2>1, <2>3, <2>4, JmpPlain
  <2>6. QED
    BY <2>1, <2>2, <2>3, <2>5, JmpWritten
<1>4. QED
  BY <1>1, <1>2, <1>3

\* The notes on a wide slot: none, if its fields and the second slot's are 0.
LEMMA WideQuiet ==
  ASSUME NEW i \in Slots, NEW at, {} \in LddwNotes(i, at)
  PROVE  /\ ~ (at >= Len(raw) - 1)
         /\ i.src <= 1 /\ i.offset = 0
         /\ i.src # 1 => [raw[at + 2] EXCEPT !.imm = 0] = Slot(0, 0, 0, 0, 0)
<1> DEFINE last == at >= Len(raw) - 1
           must == {n \in {"incomplete LDDW"} : last}
                \cup {n \in {"LDDW uses reserved fields"} :
                        i.src > 1 \/ i.dst > 10 \/ i.offset # 0}
                \cup {n \in {"invalid LDDW"} : i.src # 1 /\ ~last
                        /\ [raw[at + 2] EXCEPT !.imm = 0] # Slot(0, 0, 0, 0, 0)}
<1>1. must = {}
  <2>1. LddwNotes(i, at) = {must} \cup {must \cup {n \in {"invalid LDDW"} : i.src # 1 /\ last}}
    BY DEF LddwNotes
  <2> HIDE DEF must, last
  <2>2. QED
    BY <2>1
<1>2. ~ last
  <2>1. last => "incomplete LDDW" \in must
    OBVIOUS
  <2> HIDE DEF must, last
  <2>2. QED
    BY <1>1, <2>1
<1>3. ~ (i.src > 1) /\ i.offset = 0
  <2>1. i.src > 1 \/ i.offset # 0 => "LDDW uses reserved fields" \in must
    OBVIOUS
  <2> HIDE DEF must
  <2>2. QED
    BY <1>1, <2>1
<1>4. i.src # 1 => [raw[at + 2] EXCEPT !.imm = 0] = Slot(0, 0, 0, 0, 0)
  <2>1. i.src # 1 /\ ~ last /\ [raw[at + 2] EXCEPT !.imm = 0] # Slot(0, 0, 0, 0, 0)
          => "invalid LDDW" \in must
    OBVIOUS
  <2> HIDE DEF must, last
  <2>2. QED
    BY <1>1, <1>2, <2>1
<1>5. QED
  BY <1>2, <1>3, <1>4, SlotFields

LEMMA WidePlain ==
  ASSUME raw \in Seq(Slots), NEW at \in Nat, at < Len(raw), NEW i, i = raw[at + 1],
         NEW off, IsLddw(i), {} \in SlotNotes(i, at),
         i.src = 1 /\ at + 2 <= Len(raw) => raw[at + 2] = Slot(0, 0, 0, 0, 0)
  PROVE  /\ at + 2 <= Len(raw)
         /\ CanEncode(Decode(i, NextImm(at), at))
         /\ Encode(Decode(i, NextImm(at), at), off) = << i, raw[at + 2] >>
<1>1. Len(raw) \in Nat /\ i \in Slots
  OBVIOUS
<1>2. {} \in LddwNotes(i, at)
  BY <1>1, OneBranch DEF SlotNotes
<1>3. /\ ~ (at >= Len(raw) - 1) /\ i.src <= 1 /\ i.offset = 0
      /\ i.src # 1 => [raw[at + 2] EXCEPT !.imm = 0] = Slot(0, 0, 0, 0, 0)
  BY <1>1, <1>2, WideQuiet
<1>4. at + 2 <= Len(raw)
  BY <1>1, <1>3
<1>5. PICK x \in Slots : x = raw[at + 2]
  BY <1>1, <1>4
<1>6. NextImm(at) = x.imm
  BY <1>1, <1>3, <1>5 DEF NextImm
<1>7. x = Slot(0, 0, 0, 0, IF i.src = 1 THEN 0 ELSE x.imm)
  <2>1. CASE i.src = 1
    BY <1>4, <1>5, <2>1
  <2>2. CASE i.src # 1
    <3>1. [x EXCEPT !.imm = 0] = Slot(0, 0, 0, 0, 0)
      BY <1>3, <1>5, <2>2
    <3>2. PICK o, d, r, f, n : x = Slot(o, d, r, f, n)
      BY SlotFields
    <3>3. [x EXCEPT !.imm = 0] = Slot(o, d, r, f, 0)
      BY <3>2 DEF Slot
    <3>4. o = 0 /\ d = 0 /\ r = 0 /\ f = 0 /\ x.imm = n
      BY <3>1, <3>2, <3>3 DEF Slot
    <3>5. QED
      BY <2>2, <3>2, <3>4
  <2>3. QED
    BY <2>1, <2>2
<1>8. i = Slot(LddwImm, i.dst, IF i.src = 1 THEN 1 ELSE 0, 0, i.imm)
  <2>1. i.opcode = LddwImm /\ i.offset = 0
    BY <1>3 DEF IsLddw
  <2>2. i.src = IF i.src = 1 THEN 1 ELSE 0
    <3>1. PICK n \in 0 .. 15 : n = i.src
      BY <1>1, SlotFields
    <3>2. n <= 1
      BY <1>3, <3>1, Zenon
    <3>3. n = 0 \/ n = 1
      BY <3>1, <3>2
    <3>4. QED
      BY <3>1, <3>3
  <2>3. i = Slot(i.opcode, i.dst, i.src, i.offset, i.imm)
    BY <1>1, SlotFields
  <2>4. QED
    BY <2>1, <2>2, <2>3
<1>9. NextImm(at) \in Signed(ImmBits)
  BY NextImmSigned
<1>10. Encode(Decode(i, NextImm(at), at), off) = << i, x >>
  BY <1>1, <1>6, <1>7, <1>8, <1>9, WideWritten
<1>11. CanEncode(Decode(i, NextImm(at), at))
  <2>1. Decode(i, NextImm(at), at) = makeLddw(i, NextImm(at))
    BY <1>1, OneBranch DEF Decode
  <2>2. makeLddw(i, NextImm(at)).k \in {"LoadMapFd", "Bin"}
    <3>1. CASE i.src = 1
      BY <3>1 DEF makeLddw
    <3>2. CASE i.src # 1
      BY <3>2 DEF makeLddw
    <3>3. QED
      BY <3>1, <3>2
  <2>3. QED
    BY <2>1, <2>2 DEF CanEncode
<1>12. QED
  BY <1>4, <1>5, <1>10, <1>11

\* One element of a sequence, and two.
LEMMA Slices ==
  ASSUME NEW E, NEW s \in Seq(E), NEW a \in Nat
  PROVE  /\ a + 1 <= Len(s) => SubSeq(s, a + 1, a + 1) = << s[a + 1] >>
         /\ a + 2 <= Len(s) => SubSeq(s, a + 1, a + 2) = << s[a + 1], s[a + 2] >>
<1>1. ASSUME a + 1 <= Len(s) PROVE SubSeq(s, a + 1, a + 1) = << s[a + 1] >>
  <2>1. PICK m \in 1 .. Len(s) : m = a + 1
    BY <1>1
  <2>2. SubSeq(s, m, m) = SubSeq(s, m, m - 1) \o << s[m] >>
    BY <2>1, SubSeqRecursiveSecond
  <2>3. SubSeq(s, m, m - 1) = << >>
    BY <2>1, SubSeqEmpty
  <2>4. s[m] \in E
    BY <2>1
  <2>5. << >> \o << s[m] >> = << s[m] >>
    BY <2>4
  <2>6. QED
    BY <2>1, <2>2, <2>3, <2>5
<1>2. ASSUME a + 2 <= Len(s) PROVE SubSeq(s, a + 1, a + 2) = << s[a + 1], s[a + 2] >>
  <2>1. PICK m \in 1 .. Len(s), n \in 1 .. Len(s) : m = a + 1 /\ n = a + 2 /\ n = m + 1
    BY <1>2
  <2>2. PICK x \in E, y \in E : x = s[m] /\ y = s[n]
    BY <2>1
  <2>3. PICK u : u = SubSeq(s, m, n)
    OBVIOUS
  <2>4. \A i \in m .. n : s[i] \in E
    BY <2>1, <2>2
  <2>5. /\ u \in Seq(E) /\ Len(u) = IF m <= n THEN n - m + 1 ELSE 0
        /\ \A i \in 1 .. n - m + 1 : u[i] = s[m + i - 1]
    BY <2>1, <2>3, <2>4, SubSeqProperties
  <2>6. Len(u) = 2 /\ u[1] = x /\ u[2] = y
    BY <2>1, <2>2, <2>5
  <2>7. << x, y >> \in Seq(E) /\ Len(<< x, y >>) = 2 /\ << x, y >>[1] = x /\ << x, y >>[2] = y
    OBVIOUS
  <2>8. u = << x, y >>
    <3>1. PICK v : v = << x, y >>
      OBVIOUS
    <3>2. \A i \in 1 .. Len(u) : u[i] = v[i]
      BY <2>6, <2>7, <3>1
    <3>3. QED
      BY <2>5, <2>6, <2>7, <3>1, <3>2, SeqEqual
  <2>9. QED
    BY <2>1, <2>2, <2>3, <2>8
<1>3. QED
  BY <1>1, <1>2

\* The programs that RoundTrip is about.
PlainProgram ==
    /\ Done /\ Quiet /\ SecondSlotsEmpty
    /\ \A j \in DOMAIN prog : Plain(raw[prog[j].label + 1])

\* The encoding of an instruction is the slots it was made of.
LEMMA OwnSlots ==
  ASSUME Walked, AllNoted, Sourced, PlainProgram, NEW j \in DOMAIN prog, NEW off,
         prog[j].ins.k = "Jmp" => off = raw[prog[j].label + 1].offset
  PROVE  /\ CanEncode(prog[j].ins) /\ After(j) <= Len(raw)
         /\ Encode(prog[j].ins, off) = SubSeq(raw, prog[j].label + 1, After(j))
<1> PICK at : at = prog[j].label
  OBVIOUS
<1> PICK i : i = raw[at + 1]
  OBVIOUS
<1>1. /\ raw \in Seq(Slots) /\ Len(raw) \in Nat /\ at \in 0 .. Len(raw) - 1 /\ at < pc
      /\ pc \in Nat
      /\ size(prog[j].ins) = IF IsLddw(i) THEN 2 ELSE 1
  BY DEF Walked
<1>2. at \in Nat /\ at < Len(raw) /\ i \in Slots
  BY <1>1
<1>3. /\ Failure(i) = "none" /\ prog[j].ins = Decode(i, NextImm(at), at)
      /\ \E said \in SlotNotes(i, at) : said \subseteq notes[at + 1]
  BY DEF Sourced, FromSlot
<1>4. {} \in SlotNotes(i, at)
  <2>1. at + 1 \in DOMAIN notes
    BY <1>1, <1>2 DEF AllNoted
  <2>2. notes[at + 1] = {}
    BY <2>1 DEF PlainProgram, Quiet
  <2>3. QED
    BY <1>3, <2>2
<1>5. Plain(i)
  BY DEF PlainProgram
<1>6. CASE IsLddw(i)
  <2>1. i.src = 1 /\ at + 2 <= Len(raw) => raw[at + 2] = Slot(0, 0, 0, 0, 0)
    <3>1. i.src = 1 => prog[j].ins.k = "LoadMapFd"
      BY <1>2, <1>3, <1>6, WideDecodes
    <3>2. QED
      BY <3>1 DEF PlainProgram, SecondSlotsEmpty
  <2>2. /\ at + 2 <= Len(raw) /\ CanEncode(prog[j].ins)
        /\ Encode(prog[j].ins, off) = << i, raw[at + 2] >>
    BY <1>1, <1>2, <1>3, <1>4, <1>6, <2>1, WidePlain
  <2>3. After(j) = at + 2
    BY <1>1, <1>6 DEF After
  <2>4. SubSeq(raw, at + 1, at + 2) = << i, raw[at + 2] >>
    BY <1>1, <1>2, <2>2, Slices
  <2>5. QED
    BY <2>2, <2>3, <2>4
<1>7. CASE ~ IsLddw(i)
  <2>1. CanEncode(prog[j].ins) /\ Encode(prog[j].ins, off) = << i >>
    BY <1>2, <1>3, <1>4, <1>5, <1>7, NarrowPlain
  <2>2. After(j) = at + 1
    BY <1>1, <1>7 DEF After
  <2>3. SubSeq(raw, at + 1, at + 1) = << i >>
    BY <1>1, <1>2, Slices
  <2>4. After(j) <= Len(raw)
    BY <1>1, <1>2, <2>2
  <2>5. SubSeq(raw, prog[j].label + 1, After(j)) = << i >>
    BY <2>2, <2>3
  <2>6. QED
    BY <2>1, <2>4, <2>5
<1>8. QED
  BY <1>6, <1>7

\* The sizes add up to the labels.
LEMMA FirstSlots ==
  ASSUME Walked, NEW j \in DOMAIN prog
  PROVE  FirstSlot(prog, j) = prog[j].label
<1> DEFINE n == Len(prog)
           next == [k \in 1 .. n |-> [x \in Nat |-> x + size(prog[k].ins)]]
           body(f) == [k \in 0 .. n |-> IF k = 0 THEN 0 ELSE f[k - 1] + size(prog[k].ins)]
           slot == CHOOSE f : f = body(f)
<1>1. n \in Nat /\ n - 1 \in Nat /\ DOMAIN prog = 1 .. n
  <2>1. n \in Nat /\ DOMAIN prog = 1 .. n
    BY DEF Walked
  <2>2. QED
    BY <2>1
<1>2. \A k \in 1 .. n : size(prog[k].ins) \in Nat
  BY DEF size
<1>3. PICK f : Recurs(f, n, Nat, 0, next)
  <2>1. \A k \in 1 .. n : \A x \in Nat : next[k][x] \in Nat
    BY <1>2
  <2> HIDE DEF next, n
  <2>2. QED
    BY <1>1, <2>1, RecursionExists
<1>4. f = body(f)
  <2>1. f \in [0 .. n -> Nat] /\ f[0] = 0
    BY <1>3 DEF Recurs
  <2>2. ASSUME NEW k \in 1 .. n PROVE f[k] = f[k - 1] + size(prog[k].ins)
    <3>1. f[k] = next[k][f[k - 1]]
      <4> HIDE DEF next, n
      <4>1. QED
        BY <1>3 DEF Recurs
    <3>2. f[k - 1] \in Nat
      BY <1>1, <2>1
    <3>3. QED
      BY <3>1, <3>2
  <2>3. \A k \in 0 .. n : k = 0 \/ k \in 1 .. n
    BY <1>1
  <2> HIDE DEF n
  <2>4. QED
    BY <2>1, <2>2, <2>3
<1>5. slot = body(slot)
  <2> HIDE DEF body
  <2>1. QED
    BY <1>4
<1>6. slot[0] = 0 /\ \A k \in 1 .. n : slot[k] = slot[k - 1] + size(prog[k].ins)
  <2> HIDE DEF slot, n
  <2>1. body(slot)[0] = 0 /\ \A k \in 1 .. n : body(slot)[k] = slot[k - 1] + size(prog[k].ins)
    BY <1>1
  <2> HIDE DEF body
  <2>2. QED
    BY <1>5, <2>1
<1>7. FirstSlot(prog, j) = U(slot[j - 1], PcBits)
  BY DEF FirstSlot
<1> HIDE DEF slot
<1> DEFINE G == {k \in 0 .. n - 1 : slot[k] = prog[k + 1].label}
<1>8. 0 \in G
  <2>1. prog # << >>
    BY <1>1
  <2>2. prog[1].label = 0
    BY <2>1 DEF Walked
  <2>3. QED
    BY <1>1, <1>6, <2>2
<1>9. ASSUME NEW k \in 0 .. (n - 1) - 1, k \in G PROVE k + 1 \in G
  <2>1. k + 1 \in 1 .. n - 1 /\ k + 1 \in 1 .. n /\ (k + 1) - 1 = k
    BY <1>1, <1>9
  <2>2. prog[(k + 1) + 1].label = prog[k + 1].label + size(prog[k + 1].ins)
    BY <2>1 DEF Walked, After
  <2>3. slot[k + 1] = slot[k] + size(prog[k + 1].ins)
    BY <1>6, <2>1
  <2>4. QED
    BY <1>9, <2>1, <2>2, <2>3
<1>10. 0 .. n - 1 \subseteq G
  <2> HIDE DEF G, n
  <2>1. QED
    BY <1>1, <1>8, <1>9, IntervalInduction
<1>11. slot[j - 1] = prog[j].label
  <2>1. j - 1 \in 0 .. n - 1 /\ (j - 1) + 1 = j
    BY <1>1
  <2>2. QED
    BY <1>10, <2>1
<1>12. prog[j].label \in 0 .. 2 ^ PcBits - 1
  <2>1. prog[j].label \in 0 .. Len(raw) - 1 /\ Len(raw) + 1 < 2 ^ PcBits /\ Len(raw) \in Nat
    BY DEF Walked, Short
  <2>2. PICK m \in Nat : m = 2 ^ PcBits
    BY PowerOfTwo, WidthAssumption
  <2>3. QED
    BY <2>1, <2>2
<1>13. QED
  BY <1>7, <1>11, <1>12, Wraps

\* The labels of a program are found under their own numbers.
LEMMA LabelsFound ==
  ASSUME Walked, NEW m \in DOMAIN prog
  PROVE  /\ prog[m].label \in DOMAIN get_labels(prog)
         /\ get_labels(prog)[prog[m].label] = prog[m].label
<1> DEFINE l == prog[m].label
           last(i) == /\ prog[i].label = l
                      /\ \A j \in DOMAIN prog : prog[j].label = l => j <= i
           i == CHOOSE i \in DOMAIN prog : last(i)
<1>1. PICK n \in Nat : n = Len(prog) /\ DOMAIN prog = 1 .. n
  BY DEF Walked
<1>2. \E k \in DOMAIN prog : last(k)
  <2> DEFINE behind == {n - k : k \in {j \in 1 .. n : prog[j].label = l}}
  <2>1. n - m \in behind /\ behind \in SUBSET Nat
    BY <1>1
  <2>2. PICK d \in behind : \A e \in behind : d <= e
    <3> HIDE DEF behind
    <3>1. QED
      BY <2>1, LeastElement
  <2>3. PICK k \in 1 .. n : d = n - k /\ prog[k].label = l
    OBVIOUS
  <2>4. ASSUME NEW j \in 1 .. n, prog[j].label = l PROVE j <= k
    <3>1. n - j \in behind
      BY <2>4
    <3>2. n - k <= n - j
      BY <2>2, <2>3, <3>1
    <3>3. QED
      BY <3>2
  <2>5. QED
    BY <1>1, <2>3, <2>4
<1>3. i \in DOMAIN prog /\ prog[i].label = l
  <2>1. i \in DOMAIN prog /\ last(i)
    <3> HIDE DEF last
    <3>1. QED
      BY <1>2
  <2>2. QED
    BY <2>1
<1>4. l \in DOMAIN get_labels(prog) /\ get_labels(prog)[l] = FirstSlot(prog, i)
  BY DEF get_labels
<1>5. FirstSlot(prog, i) = l
  <2> HIDE DEF i
  <2>1. QED
    BY <1>3, FirstSlots
<1>6. QED
  BY <1>4, <1>5

\* The distance that marshal gives a jump is the offset it was read from.
LEMMA JumpDistance ==
  ASSUME Walked, Passed, AllNoted, Sourced, PlainProgram,
         NEW j \in DOMAIN prog, prog[j].ins.k = "Jmp"
  PROVE  LET target == prog[j].ins.target IN
         /\ target \in DOMAIN get_labels(prog)
         /\ label_to_offset(get_labels(prog)[target], FirstSlot(prog, j))
                = raw[prog[j].label + 1].offset
<1> PICK at : at = prog[j].label
  OBVIOUS
<1> PICK i : i = raw[at + 1]
  OBVIOUS
<1> PICK t : t = prog[j].ins.target
  OBVIOUS
<1>1. at \in Nat /\ i \in Slots
  <2>1. raw \in Seq(Slots) /\ at \in 0 .. Len(raw) - 1 /\ Len(raw) \in Nat
    BY DEF Walked
  <2>2. QED
    BY <2>1
<1>2. Failure(i) = "none" /\ prog[j].ins = Decode(i, NextImm(at), at)
  BY DEF Sourced, FromSlot
<1>3. t = Target(i, at)
  <2>1. ~ IsLddw(i)
    BY <1>1, <1>2, WideDecodes
  <2>2. QED
    BY <1>1, <1>2, <2>1, OtherDecodes
<1>4. PICK m \in DOMAIN prog : prog[m].label = t
  <2>1. JumpsNoted
    BY JumpsLand
  <2>2. QED
    BY <2>1 DEF JumpsNoted, PlainProgram
<1>5. t \in DOMAIN get_labels(prog) /\ get_labels(prog)[t] = t
  BY <1>4, LabelsFound
<1>6. FirstSlot(prog, j) = at
  BY FirstSlots
<1>7. i.offset \in Signed(PcBits)
  BY <1>1 DEF Slots
<1>8. label_to_offset(t, at) = i.offset
  BY <1>1, <1>3, <1>7, DistanceBack DEF Target
<1>9. QED
  BY <1>5, <1>6, <1>8

LEMMA WrittenAt ==
  ASSUME Walked, Passed, AllNoted, Sourced, PlainProgram, NEW j \in DOMAIN prog
  PROVE  /\ CanEncode(prog[j].ins) /\ After(j) <= Len(raw)
         /\ EncodeAt(prog, j) = SubSeq(raw, prog[j].label + 1, After(j))
<1> PICK off : off = IF prog[j].ins.k # "Jmp" THEN 0
                     ELSE label_to_offset(get_labels(prog)[prog[j].ins.target],
                                          FirstSlot(prog, j))
  OBVIOUS
<1>1. EncodeAt(prog, j) = Encode(prog[j].ins, off)
  BY DEF EncodeAt
<1>2. prog[j].ins.k = "Jmp" => off = raw[prog[j].label + 1].offset
  BY JumpDistance
<1>3. QED
  BY <1>1, <1>2, OwnSlots

LEMMA WritesBack ==
  ASSUME Walked, Passed, AllNoted, Sourced
  PROVE  RoundTrip
<1> SUFFICES ASSUME PlainProgram PROVE CanMarshal(prog) /\ marshal(prog) = raw
  BY DEF RoundTrip, PlainProgram
<1> DEFINE n == Len(prog)
           next == [k \in 1 .. n |-> [x \in Seq(Slots) |-> x \o EncodeAt(prog, k)]]
           body(f) == [k \in 0 .. n |-> IF k = 0 THEN << >> ELSE f[k - 1] \o EncodeAt(prog, k)]
           res == CHOOSE f : f = body(f)
<1>1. n \in Nat /\ n # 0 /\ DOMAIN prog = 1 .. n /\ raw \in Seq(Slots) /\ Len(raw) \in Nat
  <2>1. prog # << >> /\ prog \in Seq(ToSet(prog)) /\ raw \in Seq(Slots)
    BY DEF Walked, PlainProgram
  <2>2. QED
    BY <2>1
<1>2. ASSUME NEW k \in 1 .. n
      PROVE  /\ prog[k].label \in Nat /\ After(k) \in Nat
             /\ prog[k].label <= After(k) /\ After(k) <= Len(raw)
             /\ EncodeAt(prog, k) = SubSeq(raw, prog[k].label + 1, After(k))
             /\ EncodeAt(prog, k) \in Seq(Slots)
  <2>1. k \in DOMAIN prog
    BY <1>1
  <2>2. prog[k].label \in 0 .. Len(raw) - 1 /\ size(prog[k].ins) \in {1, 2}
    BY <2>1 DEF Walked, size
  <2>3. /\ prog[k].label \in Nat /\ After(k) \in Nat /\ prog[k].label <= After(k)
    BY <1>1, <2>2 DEF After
  <2>4. /\ After(k) <= Len(raw)
        /\ EncodeAt(prog, k) = SubSeq(raw, prog[k].label + 1, After(k))
    BY <2>1, WrittenAt
  <2>5. \A x \in prog[k].label + 1 .. After(k) : raw[x] \in Slots
    BY <1>1, <2>3, <2>4
  <2>6. SubSeq(raw, prog[k].label + 1, After(k)) \in Seq(Slots)
    BY <2>3, <2>5, SubSeqProperties
  <2>7. QED
    BY <2>3, <2>4, <2>6
<1>3. PICK f : Recurs(f, n, Seq(Slots), << >>, next)
  <2>1. \A k \in 1 .. n : \A x \in Seq(Slots) : next[k][x] \in Seq(Slots)
    BY <1>2
  <2>2. << >> \in Seq(Slots)
    OBVIOUS
  <2> HIDE DEF next, n
  <2>3. QED
    BY <1>1, <2>1, <2>2, RecursionExists
<1>4. f = body(f)
  <2>1. f \in [0 .. n -> Seq(Slots)] /\ f[0] = << >>
    BY <1>3 DEF Recurs
  <2>2. ASSUME NEW k \in 1 .. n PROVE f[k] = f[k - 1] \o EncodeAt(prog, k)
    <3>1. f[k] = next[k][f[k - 1]]
      <4> HIDE DEF next, n
      <4>1. QED
        BY <1>3 DEF Recurs
    <3>2. f[k - 1] \in Seq(Slots)
      BY <1>1, <2>1
    <3>3. QED
      BY <3>1, <3>2
  <2>3. \A k \in 0 .. n : k = 0 \/ k \in 1 .. n
    BY <1>1
  <2> HIDE DEF n
  <2>4. QED
    BY <2>1, <2>2, <2>3
<1>5. res = body(res)
  <2> HIDE DEF body
  <2>1. QED
    BY <1>4
<1>6. res[0] = << >> /\ \A k \in 1 .. n : res[k] = res[k - 1] \o EncodeAt(prog, k)
  <2> HIDE DEF res, n
  <2>1. /\ 0 \in 0 .. n /\ \A k \in 1 .. n : k \in 0 .. n /\ k # 0
    BY <1>1
  <2>2. body(res)[0] = << >>
    BY <2>1, Zenon
  <2>3. \A k \in 1 .. n : body(res)[k] = res[k - 1] \o EncodeAt(prog, k)
    BY <2>1, Zenon
  <2> HIDE DEF body
  <2>4. QED
    BY <1>5, <2>2, <2>3
<1>7. marshal(prog) = res[n]
  BY DEF marshal
<1> HIDE DEF res
<1> DEFINE G == {k \in 0 .. n : k # 0 => res[k] = SubSeq(raw, 1, After(k))}
<1>8. 0 \in G
  BY <1>1
<1>9. ASSUME NEW k \in 0 .. n - 1, k \in G PROVE k + 1 \in G
  <2>1. k + 1 \in 1 .. n /\ (k + 1) - 1 = k
    BY <1>1, <1>9
  <2>2. PICK a, b : a = prog[k + 1].label /\ b = After(k + 1)
    OBVIOUS
  <2>3. /\ a \in Nat /\ b \in Nat /\ a <= b /\ b <= Len(raw)
        /\ EncodeAt(prog, k + 1) = SubSeq(raw, a + 1, b)
    BY <1>2, <2>1, <2>2
  <2>4. res[k] = SubSeq(raw, 1, a)
    <3>1. CASE k = 0
      <4>1. prog # << >>
        BY <1>1
      <4>2. a = 0
        BY <2>2, <3>1, <4>1 DEF Walked
      <4>3. SubSeq(raw, 1, a) = << >>
        BY <4>2, SubSeqEmpty
      <4>4. QED
        BY <1>6, <3>1, <4>3
    <3>2. CASE k # 0
      <4>1. k \in 1 .. n - 1
        BY <1>9, <3>2
      <4>2. a = After(k)
        BY <2>2, <4>1 DEF Walked
      <4>3. QED
        BY <1>9, <3>2, <4>2
    <3>3. QED
      BY <3>1, <3>2
  <2>5. SubSeq(raw, 1, a) \o SubSeq(raw, a + 1, b) = SubSeq(raw, 1, b)
    <3>1. 1 \in 1 .. Len(raw) + 1 /\ a \in 1 - 1 .. Len(raw) /\ b \in a .. Len(raw)
      BY <1>1, <2>3
    <3>2. QED
      BY <1>1, <3>1, ConcatAdjacentSubSeq
  <2>6. res[k + 1] = res[k] \o EncodeAt(prog, k + 1)
    BY <1>6, <2>1
  <2>7. res[k + 1] = SubSeq(raw, 1, After(k + 1))
    BY <2>2, <2>3, <2>4, <2>5, <2>6
  <2>8. QED
    BY <2>1, <2>7
<1>10. res[n] = SubSeq(raw, 1, After(n))
  <2>1. 0 .. n \subseteq G
    <3> HIDE DEF G, n
    <3>1. QED
      BY <1>1, <1>8, <1>9, IntervalInduction
  <2>2. QED
    BY <1>1, <2>1
<1>11. After(n) = Len(raw)
  <2>1. prog # << >>
    BY <1>1
  <2>2. pc = After(n) /\ pc >= Len(raw)
    BY <2>1 DEF Walked, PlainProgram
  <2>3. n \in 1 .. n
    BY <1>1
  <2>4. After(n) \in Nat /\ After(n) <= Len(raw)
    BY <1>2, <2>3
  <2>5. QED
    BY <1>1, <2>2, <2>4
<1>12. CanMarshal(prog)
  <2>1. ASSUME NEW j \in DOMAIN prog
        PROVE  /\ CanEncode(prog[j].ins)
               /\ prog[j].ins.k = "Jmp" => prog[j].ins.target \in DOMAIN get_labels(prog)
    BY WrittenAt, JumpDistance
  <2>2. QED
    BY <2>1 DEF CanMarshal
<1>13. QED
  BY <1>1, <1>7, <1>10, <1>11, <1>12, SubSeqFull

\* The slots that marshal writes for the instructions of a plain program
\* without notes are the slots that unmarshal read, every jump by the distance
\* it had.
THEOREM AlwaysRoundTrip ==
  ASSUME \A r \in Raws : Short(r)
  PROVE  Spec => []RoundTrip
<1>1. Walked /\ Passed /\ AllNoted /\ Sourced => RoundTrip
  BY WritesBack
<1>2. Spec => [](Walked /\ Passed /\ AllNoted /\ Sourced)
  BY SourcedAlways
<1>3. QED
  BY <1>1, <1>2, PTL

-----------------------------------------------------------------------------
(* The arguments of a call.                                                  *)

\* Every pointer with a size is followed by one, and every size follows one.
Paired(s) ==
    \E n \in 0 .. 5 :
        /\ DOMAIN s = 1 .. n
        /\ \A i \in 1 .. n :
            /\ s[i] \in Singles \cup Pairs \cup Sizes
            /\ s[i] \in Sizes <=> i > 1 /\ s[i - 1] \in Pairs
            /\ s[i] \in Pairs => i < n /\ s[i + 1] \in Sizes

Sound(p) == Paired(p.args)
SoundTable(T) == \A x \in DOMAIN T : Sound(T[x])

LEMMA SoundProtos ==
  ASSUME NEW s, Paired(s)
  PROVE  /\ Sound(Proto(s)) /\ Sound(PktProto(s))
         /\ \A v : Sound([Proto(s) EXCEPT !.ret = v]) /\ Sound([PktProto(s) EXCEPT !.ret = v])
BY DEF Sound, Proto, PktProto

\* The lists of arguments that the table has, by their length.
LEMMA PairedNone ==
  /\ Paired(<< >>)
<1>1. Paired(<< >>)
  BY DEF Paired, Singles, Pairs, Sizes, Arg, Map, Key, Val, Ctx, MemOrNull, Mem, Uninit, Size, Size0
<1>2. QED
  BY <1>1

LEMMA PairedOne ==
  /\ Paired(<<Ctx>>)
<1>1. Paired(<<Ctx>>)
  BY DEF Paired, Singles, Pairs, Sizes, Arg, Map, Key, Val, Ctx, MemOrNull, Mem, Uninit, Size, Size0
<1>2. QED
  BY <1>1

LEMMA PairedTwo ==
  /\ Paired(<<Ctx, Arg>>)
  /\ Paired(<<Mem, Size>>)
  /\ Paired(<<Map, Arg>>)
  /\ Paired(<<Map, Key>>)
  /\ Paired(<<Uninit, Size>>)
  /\ Paired(<<Arg, Arg>>)
<1>1. Paired(<<Ctx, Arg>>)
  BY DEF Paired, Singles, Pairs, Sizes, Arg, Map, Key, Val, Ctx, MemOrNull, Mem, Uninit, Size, Size0
<1>2. Paired(<<Mem, Size>>)
  BY DEF Paired, Singles, Pairs, Sizes, Arg, Map, Key, Val, Ctx, MemOrNull, Mem, Uninit, Size, Size0
<1>3. Paired(<<Map, Arg>>)
  BY DEF Paired, Singles, Pairs, Sizes, Arg, Map, Key, Val, Ctx, MemOrNull, Mem, Uninit, Size, Size0
<1>4. Paired(<<Map, Key>>)
  BY DEF Paired, Singles, Pairs, Sizes, Arg, Map, Key, Val, Ctx, MemOrNull, Mem, Uninit, Size, Size0
<1>5. Paired(<<Uninit, Size>>)
  BY DEF Paired, Singles, Pairs, Sizes, Arg, Map, Key, Val, Ctx, MemOrNull, Mem, Uninit, Size, Size0
<1>6. Paired(<<Arg, Arg>>)
  BY DEF Paired, Singles, Pairs, Sizes, Arg, Map, Key, Val, Ctx, MemOrNull, Mem, Uninit, Size, Size0
<1>7. QED
  BY <1>1, <1>2, <1>3, <1>4, <1>5, <1>6

LEMMA PairedThree ==
  /\ Paired(<<Ctx, Map, Arg>>)
  /\ Paired(<<Uninit, Size0, Arg>>)
  /\ Paired(<<Arg, Mem, Size>>)
  /\ Paired(<<Ctx, Uninit, Size>>)
  /\ Paired(<<Ctx, Arg, Arg>>)
  /\ Paired(<<Ctx, Mem, Size>>)
  /\ Paired(<<Map, Arg, Arg>>)
<1>1. Paired(<<Ctx, Map, Arg>>)
  BY DEF Paired, Singles, Pairs, Sizes, Arg, Map, Key, Val, Ctx, MemOrNull, Mem, Uninit, Size, Size0
<1>2. Paired(<<Uninit, Size0, Arg>>)
  BY DEF Paired, Singles, Pairs, Sizes, Arg, Map, Key, Val, Ctx, MemOrNull, Mem, Uninit, Size, Size0
<1>3. Paired(<<Arg, Mem, Size>>)
  BY DEF Paired, Singles, Pairs, Sizes, Arg, Map, Key, Val, Ctx, MemOrNull, Mem, Uninit, Size, Size0
<1>4. Paired(<<Ctx, Uninit, Size>>)
  BY DEF Paired, Singles, Pairs, Sizes, Arg, Map, Key, Val, Ctx, MemOrNull, Mem, Uninit, Size, Size0
<1>5. Paired(<<Ctx, Arg, Arg>>)
  BY DEF Paired, Singles, Pairs, Sizes, Arg, Map, Key, Val, Ctx, MemOrNull, Mem, Uninit, Size, Size0
<1>6. Paired(<<Ctx, Mem, Size>>)
  BY DEF Paired, Singles, Pairs, Sizes, Arg, Map, Key, Val, Ctx, MemOrNull, Mem, Uninit, Size, Size0
<1>7. Paired(<<Map, Arg, Arg>>)
  BY DEF Paired, Singles, Pairs, Sizes, Arg, Map, Key, Val, Ctx, MemOrNull, Mem, Uninit, Size, Size0
<1>8. QED
  BY <1>1, <1>2, <1>3, <1>4, <1>5, <1>6, <1>7

LEMMA PairedFour ==
  /\ Paired(<<Map, Arg, Uninit, Size>>)
  /\ Paired(<<Map, Key, Val, Arg>>)
  /\ Paired(<<Ctx, Map, Key, Arg>>)
  /\ Paired(<<Ctx, Uninit, Size0, Arg>>)
  /\ Paired(<<Ctx, Arg, Uninit, Size>>)
  /\ Paired(<<Ctx, Map, Arg, Arg>>)
  /\ Paired(<<Ctx, Arg, Arg, Arg>>)
  /\ Paired(<<Ctx, Uninit, Size, Arg>>)
  /\ Paired(<<Ctx, Mem, Size, Arg>>)
  /\ Paired(<<Ctx, Arg, Mem, Size>>)
<1>1. Paired(<<Map, Arg, Uninit, Size>>)
  BY DEF Paired, Singles, Pairs, Sizes, Arg, Map, Key, Val, Ctx, MemOrNull, Mem, Uninit, Size, Size0
<1>2. Paired(<<Map, Key, Val, Arg>>)
  BY DEF Paired, Singles, Pairs, Sizes, Arg, Map, Key, Val, Ctx, MemOrNull, Mem, Uninit, Size, Size0
<1>3. Paired(<<Ctx, Map, Key, Arg>>)
  BY DEF Paired, Singles, Pairs, Sizes, Arg, Map, Key, Val, Ctx, MemOrNull, Mem, Uninit, Size, Size0
<1>4. Paired(<<Ctx, Uninit, Size0, Arg>>)
  BY DEF Paired, Singles, Pairs, Sizes, Arg, Map, Key, Val, Ctx, MemOrNull, Mem, Uninit, Size, Size0
<1>5. Paired(<<Ctx, Arg, Uninit, Size>>)
  BY DEF Paired, Singles, Pairs, Sizes, Arg, Map, Key, Val, Ctx, MemOrNull, Mem, Uninit, Size, Size0
<1>6. Paired(<<Ctx, Map, Arg, Arg>>)
  BY DEF Paired, Singles, Pairs, Sizes, Arg, Map, Key, Val, Ctx, MemOrNull, Mem, Uninit, Size, Size0
<1>7. Paired(<<Ctx, Arg, Arg, Arg>>)
  BY DEF Paired, Singles, Pairs, Sizes, Arg, Map, Key, Val, Ctx, MemOrNull, Mem, Uninit, Size, Size0
<1>8. Paired(<<Ctx, Uninit, Size, Arg>>)
  BY DEF Paired, Singles, Pairs, Sizes, Arg, Map, Key, Val, Ctx, MemOrNull, Mem, Uninit, Size, Size0
<1>9. Paired(<<Ctx, Mem, Size, Arg>>)
  BY DEF Paired, Singles, Pairs, Sizes, Arg, Map, Key, Val, Ctx, MemOrNull, Mem, Uninit, Size, Size0
<1>10. Paired(<<Ctx, Arg, Mem, Size>>)
  BY DEF Paired, Singles, Pairs, Sizes, Arg, Map, Key, Val, Ctx, MemOrNull, Mem, Uninit, Size, Size0
<1>11. QED
  BY <1>1, <1>2, <1>3, <1>4, <1>5, <1>6, <1>7, <1>8, <1>9, <1>10

LEMMA PairedFive ==
  /\ Paired(<<Ctx, Map, Arg, Mem, Size0>>)
  /\ Paired(<<Ctx, Arg, Mem, Size, Arg>>)
  /\ Paired(<<Ctx, Arg, Uninit, Size, Arg>>)
  /\ Paired(<<Ctx, Arg, Arg, Arg, Arg>>)
  /\ Paired(<<MemOrNull, Size0, MemOrNull, Size0, Arg>>)
  /\ Paired(<<Ctx, Arg, Arg, Mem, Size>>)
  /\ Paired(<<Ctx, Arg, Arg, Uninit, Size>>)
<1>1. Paired(<<Ctx, Map, Arg, Mem, Size0>>)
  BY DEF Paired, Singles, Pairs, Sizes, Arg, Map, Key, Val, Ctx, MemOrNull, Mem, Uninit, Size, Size0
<1>2. Paired(<<Ctx, Arg, Mem, Size, Arg>>)
  BY DEF Paired, Singles, Pairs, Sizes, Arg, Map, Key, Val, Ctx, MemOrNull, Mem, Uninit, Size, Size0
<1>3. Paired(<<Ctx, Arg, Uninit, Size, Arg>>)
  BY DEF Paired, Singles, Pairs, Sizes, Arg, Map, Key, Val, Ctx, MemOrNull, Mem, Uninit, Size, Size0
<1>4. Paired(<<Ctx, Arg, Arg, Arg, Arg>>)
  BY DEF Paired, Singles, Pairs, Sizes, Arg, Map, Key, Val, Ctx, MemOrNull, Mem, Uninit, Size, Size0
<1>5. Paired(<<MemOrNull, Size0, MemOrNull, Size0, Arg>>)
  BY DEF Paired, Singles, Pairs, Sizes, Arg, Map, Key, Val, Ctx, MemOrNull, Mem, Uninit, Size, Size0
<1>6. Paired(<<Ctx, Arg, Arg, Mem, Size>>)
  BY DEF Paired, Singles, Pairs, Sizes, Arg, Map, Key, Val, Ctx, MemOrNull, Mem, Uninit, Size, Size0
<1>7. Paired(<<Ctx, Arg, Arg, Uninit, Size>>)
  BY DEF Paired, Singles, Pairs, Sizes, Arg, Map, Key, Val, Ctx, MemOrNull, Mem, Uninit, Size, Size0
<1>8. QED
  BY <1>1, <1>2, <1>3, <1>4, <1>5, <1>6, <1>7

\* Each part of the table has no other.
LEMMA SoundTables ==
  /\ Sound(Unspec)
  /\ SoundTable(Tracing)
  /\ SoundTable(PerfEvents)
  /\ SoundTable(PerfPrograms)
  /\ SoundTable(MapAccess)
  /\ SoundTable(Environment)
  /\ SoundTable(SockMaps)
  /\ SoundTable(SkbBytes)
  /\ SoundTable(Checksums)
  /\ SoundTable(Redirects)
  /\ SoundTable(SkbFields)
  /\ SoundTable(SkbShape)
  /\ SoundTable(Xdp)
  /\ SoundTable(Tunnels)
  /\ SoundTable(Sockets)
  /\ SoundTable(Tails)
  /\ SoundTable(HomeBrewed)
<1>1. Sound(Unspec)
  BY PairedNone, SoundProtos DEF Unspec
<1>2. SoundTable(Tracing)
  <2>1. PICK p : p = [Proto(<<Ctx, Map, Arg>>) EXCEPT !.ret = "VOID"]
    OBVIOUS
  <2>2. Sound(p)
    BY <2>1, PairedTwo, PairedThree, SoundProtos
  <2>3. QED
    BY <2>1, <2>2, PairedTwo, PairedThree, SoundProtos DEF SoundTable, Tracing
<1>3. SoundTable(PerfEvents)
  BY PairedNone, PairedTwo, PairedFour, PairedFive, SoundProtos DEF SoundTable, PerfEvents
<1>4. SoundTable(PerfPrograms)
  BY PairedThree, SoundProtos DEF SoundTable, PerfPrograms
<1>5. SoundTable(MapAccess)
  <2>1. PICK p : p = [PktProto(<<Map, Key>>) EXCEPT !.ret = "PTR_TO_MAP_VALUE_OR_NULL"]
    OBVIOUS
  <2>2. Sound(p)
    BY <2>1, PairedTwo, PairedFour, SoundProtos
  <2>3. QED
    BY <2>1, <2>2, PairedTwo, PairedFour, SoundProtos DEF SoundTable, MapAccess
<1>6. SoundTable(Environment)
  BY PairedNone, PairedTwo, SoundProtos DEF SoundTable, Environment
<1>7. SoundTable(SockMaps)
  BY PairedThree, PairedFour, SoundProtos DEF SoundTable, SockMaps
<1>8. SoundTable(SkbBytes)
  BY PairedTwo, PairedFour, PairedFive, SoundProtos DEF SoundTable, SkbBytes
<1>9. SoundTable(Checksums)
  BY PairedTwo, PairedFive, SoundProtos DEF SoundTable, Checksums
<1>10. SoundTable(Redirects)
  BY PairedTwo, PairedThree, PairedFour, SoundProtos DEF SoundTable, Redirects
<1>11. SoundTable(SkbFields)
  BY PairedOne, PairedTwo, PairedThree, SoundProtos DEF SoundTable, SkbFields
<1>12. SoundTable(SkbShape)
  BY PairedTwo, PairedThree, PairedFour, SoundProtos DEF SoundTable, SkbShape
<1>13. SoundTable(Xdp)
  BY PairedTwo, SoundProtos DEF SoundTable, Xdp
<1>14. SoundTable(Tunnels)
  BY PairedOne, PairedThree, PairedFour, SoundProtos DEF SoundTable, Tunnels
<1>15. SoundTable(Sockets)
  BY PairedOne, PairedTwo, PairedThree, PairedFive, SoundProtos DEF SoundTable, Sockets
<1>16. SoundTable(Tails)
  BY PairedOne, PairedThree, PairedFour, SoundProtos DEF SoundTable, Tails
<1>17. SoundTable(HomeBrewed)
  BY PairedThree, SoundProtos DEF SoundTable, HomeBrewed
<1>18. QED
  BY <1>1, <1>2, <1>3, <1>4, <1>5, <1>6, <1>7, <1>8, <1>9, <1>10, <1>11, <1>12,
     <1>13, <1>14, <1>15, <1>16, <1>17

LEMMA AllDefined ==
  ASSUME NEW n \in DOMAIN prototypes
  PROVE  prototypes[n] \in UNION {DOMAIN Tracing, DOMAIN PerfEvents,
             DOMAIN PerfPrograms, DOMAIN MapAccess, DOMAIN Environment,
             DOMAIN SockMaps, DOMAIN SkbBytes, DOMAIN Checksums,
             DOMAIN Redirects, DOMAIN SkbFields, DOMAIN SkbShape, DOMAIN Xdp,
             DOMAIN Tunnels, DOMAIN Sockets, DOMAIN Tails, DOMAIN HomeBrewed}
BY DEF prototypes, Tracing, PerfEvents, PerfPrograms, MapAccess, Environment,
       SockMaps, SkbBytes, Checksums, Redirects, SkbFields, SkbShape, Xdp,
       Tunnels, Sockets, Tails, HomeBrewed

\* Every function of the table has such arguments; a number that is none of
\* the table has the prototype without any.
LEMMA SoundPrototype ==
  ASSUME NEW n
  PROVE  Sound(get_prototype(n))
<1> DEFINE tables == {Tracing, PerfEvents, PerfPrograms, MapAccess, Environment,
                      SockMaps, SkbBytes, Checksums, Redirects, SkbFields,
                      SkbShape, Xdp, Tunnels, Sockets, Tails, HomeBrewed}
           names  == UNION {DOMAIN T : T \in tables}
<1>1. \A T \in tables : SoundTable(T)
  BY SoundTables
<1>2. n \in DOMAIN prototypes => prototypes[n] \in names
  BY AllDefined
<1>3. Defined = [name \in names |-> (CHOOSE T \in tables : name \in DOMAIN T)[name]]
  BY DEF Defined
<1> HIDE DEF tables
<1>4. ASSUME NEW name \in names PROVE Sound(Defined[name])
  <2>1. PICK T : T = CHOOSE V \in tables : name \in DOMAIN V
    OBVIOUS
  <2>2. T \in tables /\ name \in DOMAIN T
    BY <2>1
  <2>3. Defined[name] = T[name]
    BY <1>3, <2>1
  <2>4. QED
    BY <1>1, <2>2, <2>3 DEF SoundTable
<1>5. CASE n \in DOMAIN prototypes
  BY <1>2, <1>4, <1>5 DEF get_prototype, is_valid_prototype
<1>6. CASE n \notin DOMAIN prototypes
  BY <1>6, SoundTables DEF get_prototype, is_valid_prototype
<1>7. QED
  BY <1>5, <1>6

\* The loop starts a turn at each argument that is no size.
LEMMA TurnsAre ==
  ASSUME NEW p, Sound(p)
  PROVE  Turns(p) = {i \in DOMAIN p.args : p.args[i] \notin Sizes}
<1>1. PICK s : s = p.args
  OBVIOUS
<1>2. PICK n \in 0 .. 5 :
        /\ DOMAIN s = 1 .. n
        /\ \A i \in 1 .. n : /\ s[i] \in Singles \cup Pairs \cup Sizes
                             /\ s[i] \in Sizes <=> i > 1 /\ s[i - 1] \in Pairs
                             /\ s[i] \in Pairs => i < n /\ s[i + 1] \in Sizes
  BY <1>1 DEF Sound, Paired
<1>3. /\ \A i : ArgAt(p, i) = IF i \in 1 .. n THEN s[i] ELSE "DONTCARE"
      /\ \A i \in 1 .. n : s[i] # "DONTCARE" /\ (s[i] \in Sizes => s[i] \notin Pairs)
  <2>1. \A x \in Singles \cup Pairs \cup Sizes : x # "DONTCARE" /\ (x \in Sizes => x \notin Pairs)
    BY DEF Singles, Pairs, Sizes, Arg, Map, Key, Val, Ctx, MemOrNull, Mem, Uninit, Size, Size0
  <2>2. QED
    BY <1>1, <1>2, <2>1 DEF ArgAt
<1> DEFINE next(x) == IF ArgAt(p, x) = "DONTCARE" THEN x
                      ELSE IF ArgAt(p, x) \in Pairs THEN x + 2
                      ELSE x + 1
           body(f) == [k \in 1 .. 5 |-> IF k = 1 THEN 1
                         ELSE IF ArgAt(p, f[k - 1]) = "DONTCARE" THEN f[k - 1]
                         ELSE IF ArgAt(p, f[k - 1]) \in Pairs THEN f[k - 1] + 2
                         ELSE f[k - 1] + 1]
           Eq(f)   == f = body(f)
           at      == CHOOSE f : Eq(f)
<1>4. Eq(at)
  <2>1. PICK x1, x2, x3, x4, x5 : /\ x1 = 1 /\ x2 = next(x1) /\ x3 = next(x2)
                                  /\ x4 = next(x3) /\ x5 = next(x4)
    OBVIOUS
  <2>2. PICK f : f = [k \in 1 .. 5 |-> IF k = 1 THEN x1 ELSE IF k = 2 THEN x2
                                       ELSE IF k = 3 THEN x3 ELSE IF k = 4 THEN x4 ELSE x5]
    OBVIOUS
  <2>3. f = [k \in 1 .. 5 |-> IF k = 1 THEN 1 ELSE next(f[k - 1])]
    <3> HIDE DEF next
    <3>1. QED
      BY <2>1, <2>2
  <2>4. Eq(f)
    BY <2>3
  <2> HIDE DEF Eq
  <2>5. QED
    BY <2>4
<1> HIDE DEF at
<1>5. PICK a : a = at
  OBVIOUS
<1>6. Turns(p) = {i \in 1 .. 5 : ArgAt(p, i) # "DONTCARE" /\ \E k \in 1 .. 5 : a[k] = i}
  BY <1>5 DEF Turns, at
<1>7. a[1] = 1 /\ \A k \in 1 .. 4 : a[k + 1] = next(a[k])
  <2>1. a = [k \in 1 .. 5 |-> IF k = 1 THEN 1 ELSE next(a[k - 1])]
    BY <1>4, <1>5
  <2> HIDE DEF next
  <2>2. QED
    BY <2>1
<1> DEFINE Met(k) ==
      /\ a[k] \in Nat \ {0} /\ (a[k] \in 1 .. n => s[a[k]] \notin Sizes /\ a[k] >= k)
      /\ \A i \in 1 .. n : i <= a[k] /\ s[i] \notin Sizes => \E j \in 1 .. k : a[j] = i
<1>8. Met(1)
  BY <1>2, <1>7
<1>9. ASSUME NEW k \in 1 .. 4, Met(k) PROVE Met(k + 1)
  <2>1. PICK x, y : x = a[k] /\ y = a[k + 1] /\ y = next(x)
    BY <1>7
  <2>2. x \in Nat \ {0} /\ (x \in 1 .. n => s[x] \notin Sizes /\ x >= k)
    BY <1>9, <2>1
  <2>3. ASSUME y \in Nat \ {0},
               y \in 1 .. n => s[y] \notin Sizes /\ y >= k + 1,
               \A i \in 1 .. n : i <= y /\ s[i] \notin Sizes => i <= x \/ i = y
        PROVE  Met(k + 1)
    <3>1. ASSUME NEW i \in 1 .. n, i <= y, s[i] \notin Sizes
          PROVE  \E j \in 1 .. k + 1 : a[j] = i
      <4>1. CASE i = y
        <5>1. k + 1 \in 1 .. k + 1
          OBVIOUS
        <5>2. QED
          BY <2>1, <4>1, <5>1
      <4>2. CASE i <= x
        <5>1. PICK j \in 1 .. k : a[j] = i
          BY <1>9, <2>1, <3>1, <4>2
        <5>2. j \in 1 .. k + 1
          OBVIOUS
        <5>3. QED
          BY <5>1, <5>2
      <4>3. QED
        BY <2>3, <3>1, <4>1, <4>2
    <3>2. QED
      BY <2>1, <2>3, <3>1
  <2>4. CASE x \notin 1 .. n
    <3>1. y = x
      BY <1>3, <2>1, <2>4
    <3>2. QED
      BY <2>2, <2>3, <2>4, <3>1
  <2>5. CASE x \in 1 .. n /\ s[x] \in Pairs
    <3>1. y = x + 2
      BY <1>3, <2>1, <2>5
    <3>2. x + 1 \in 1 .. n /\ s[x + 1] \in Sizes
      BY <1>2, <2>2, <2>5
    <3>3. y \in 1 .. n => s[y] \notin Sizes
      <4>1. s[x + 1] \notin Pairs
        BY <1>3, <3>2
      <4>2. y - 1 = x + 1
        BY <2>2, <3>1
      <4>3. QED
        BY <1>2, <4>1, <4>2
    <3>4. \A i \in 1 .. n : i <= y /\ s[i] \notin Sizes => i <= x \/ i = y
      BY <2>2, <3>1, <3>2
    <3>5. y \in Nat \ {0} /\ y >= k + 1
      BY <2>2, <2>5, <3>1
    <3> HIDE DEF Met
    <3>6. QED
      BY <2>3, <3>3, <3>4, <3>5
  <2>6. CASE x \in 1 .. n /\ s[x] \notin Pairs
    <3>1. y = x + 1
      BY <1>3, <2>1, <2>6
    <3>2. y \in 1 .. n => s[y] \notin Sizes
      <4>1. y - 1 = x
        BY <2>2, <3>1
      <4>2. QED
        BY <1>2, <2>6, <4>1
    <3>3. \A i \in 1 .. n : i <= y /\ s[i] \notin Sizes => i <= x \/ i = y
      BY <2>2, <3>1
    <3>4. y \in Nat \ {0} /\ y >= k + 1
      BY <2>2, <2>6, <3>1
    <3> HIDE DEF Met
    <3>5. QED
      BY <2>3, <3>2, <3>3, <3>4
  <2>7. QED
    BY <2>4, <2>5, <2>6
<1>10. Met(1) /\ Met(2) /\ Met(3) /\ Met(4) /\ Met(5)
  <2> HIDE DEF Met
  <2>1. Met(2)
    BY <1>8, <1>9, 1 + 1 = 2
  <2>2. Met(3)
    BY <2>1, <1>9, 2 + 1 = 3
  <2>3. Met(4)
    BY <2>2, <1>9, 3 + 1 = 4
  <2>4. Met(5)
    BY <2>3, <1>9, 4 + 1 = 5
  <2>5. QED
    BY <1>8, <2>1, <2>2, <2>3, <2>4
<1>11. ASSUME NEW i \in Turns(p) PROVE i \in 1 .. n /\ s[i] \notin Sizes
  <2>1. ArgAt(p, i) # "DONTCARE" /\ \E k \in 1 .. 5 : a[k] = i
    BY <1>6, <1>11
  <2>2. i \in 1 .. n
    BY <1>3, <2>1
  <2>3. PICK k \in 1 .. 5 : a[k] = i
    BY <2>1
  <2>4. Met(k)
    <3> HIDE DEF Met
    <3>1. k \in {1, 2, 3, 4, 5}
      OBVIOUS
    <3>2. QED
      BY <1>10, <3>1
  <2>5. QED
    BY <2>2, <2>3, <2>4
<1>12. ASSUME NEW i \in 1 .. n, s[i] \notin Sizes PROVE i \in Turns(p)
  <2>1. i <= a[5]
    BY <1>10, <1>2
  <2>2. \E k \in 1 .. 5 : a[k] = i
    BY <1>10, <1>12, <2>1
  <2>3. i \in 1 .. 5 /\ ArgAt(p, i) # "DONTCARE"
    BY <1>2, <1>3
  <2>4. QED
    BY <1>6, <2>2, <2>3
<1>13. QED
  BY <1>1, <1>2, <1>11, <1>12

LEMMA ElementsAppend ==
  ASSUME NEW E, NEW s \in Seq(E), NEW x \in E
  PROVE  Append(s, x) \in Seq(E) /\ ToSet(Append(s, x)) = ToSet(s) \cup {x}
<1>1. PICK u : u = Append(s, x)
  OBVIOUS
<1>2. /\ u \in Seq(E) /\ DOMAIN u = 1 .. Len(s) + 1 /\ DOMAIN s = 1 .. Len(s) /\ Len(s) \in Nat
      /\ \A i \in 1 .. Len(s) : u[i] = s[i]
      /\ u[Len(s) + 1] = x
  BY <1>1
<1>3. ToSet(u) = ToSet(s) \cup {x}
  BY <1>2 DEF ToSet
<1>4. QED
  BY <1>1, <1>2, <1>3

\* What the loop puts into a vector of the call.
LEMMA CollectedAre ==
  ASSUME NEW p, NEW K, NEW e, NEW c, c = Collected(p, K, e)
  PROVE  ToSet(c) = {e[i] : i \in {j \in Turns(p) : ArgAt(p, j) \in K}}
<1>1. PICK T, E : T = {j \in Turns(p) : ArgAt(p, j) \in K} /\ E = {e[i] : i \in 1 .. 5}
  OBVIOUS
<1>2. T \subseteq 1 .. 5
  BY <1>1 DEF Turns
<1> DEFINE body(f) == [i \in 0 .. 5 |-> IF i = 0 THEN << >>
                         ELSE IF i \in Turns(p) /\ ArgAt(p, i) \in K
                         THEN Append(f[i - 1], e[i]) ELSE f[i - 1]]
           Eq(f)   == f = body(f)
           done    == CHOOSE f : Eq(f)
           D       == Seq(E)
           next    == [k \in 1 .. 5 |-> [x \in D |-> IF k \in T THEN Append(x, e[k]) ELSE x]]
<1>3. << >> \in D /\ \A k \in 1 .. 5 : \A x \in D : next[k][x] \in D
  BY <1>1
<1>4. PICK f : Recurs(f, 5, D, << >>, next)
  <2>1. 5 \in Nat
    OBVIOUS
  <2> HIDE DEF next, D
  <2>2. QED
    BY <1>3, <2>1, RecursionExists
<1>5. f \in [0 .. 5 -> D] /\ f[0] = << >> /\ \A k \in 1 .. 5 : f[k] = next[k][f[k - 1]]
  BY <1>4 DEF Recurs
<1>6. \A i \in 1 .. 5 : f[i] = IF i \in Turns(p) /\ ArgAt(p, i) \in K
                               THEN Append(f[i - 1], e[i]) ELSE f[i - 1]
  <2>1. ASSUME NEW i \in 1 .. 5 PROVE f[i] = IF i \in T THEN Append(f[i - 1], e[i]) ELSE f[i - 1]
    <3>1. i - 1 \in 0 .. 5
      OBVIOUS
    <3>2. f[i - 1] \in D
      <4> HIDE DEF D
      <4>1. QED
        BY <1>5, <3>1
    <3>3. next[i][f[i - 1]] = IF i \in T THEN Append(f[i - 1], e[i]) ELSE f[i - 1]
      <4> HIDE DEF D
      <4>1. QED
        BY <3>2
    <3>4. QED
      BY <1>5, <3>3
  <2>2. \A i \in 1 .. 5 : i \in T <=> i \in Turns(p) /\ ArgAt(p, i) \in K
    BY <1>1
  <2>3. QED
    BY <2>1, <2>2
<1>7. Eq(f)
  <2>1. f = [i \in 0 .. 5 |-> f[i]]
    <3> HIDE DEF D
    <3>1. QED
      BY <1>5
  <2>2. \A i \in 0 .. 5 : f[i] = IF i = 0 THEN << >>
                          ELSE IF i \in Turns(p) /\ ArgAt(p, i) \in K
                          THEN Append(f[i - 1], e[i]) ELSE f[i - 1]
    <3>1. f[0] = << >> /\ \A i \in 0 .. 5 : i = 0 \/ i \in 1 .. 5
      BY <1>5
    <3>2. QED
      BY <1>6, <3>1
  <2>3. [i \in 0 .. 5 |-> f[i]] = body(f)
    BY <2>2
  <2>4. QED
    BY <2>1, <2>3
<1>8. Eq(done)
  <2> HIDE DEF Eq
  <2>1. QED
    BY <1>7
<1> HIDE DEF done
<1>9. PICK g : g = done
  OBVIOUS
<1>10. c = g[5]
  BY <1>9 DEF Collected, done
<1>11. /\ g[0] = << >>
       /\ \A k \in 0 .. 4 : g[k + 1] = IF k + 1 \in T THEN Append(g[k], e[k + 1]) ELSE g[k]
  <2>1. g = body(g)
    BY <1>8, <1>9
  <2>2. \A i \in 0 .. 5 : g[i] = IF i = 0 THEN << >>
                          ELSE IF i \in T THEN Append(g[i - 1], e[i]) ELSE g[i - 1]
    BY <1>1, <2>1
  <2>3. QED
    BY <2>2
<1> DEFINE Part(k)  == {e[i] : i \in T \cap (1 .. k)}
           Holds(k) == g[k] \in Seq(E) /\ ToSet(g[k]) = Part(k)
           I        == {k \in 0 .. 5 : Holds(k)}
<1>12. 0 \in I
  <2>1. Part(0) = {}
    OBVIOUS
  <2>2. << >> \in Seq(E) /\ ToSet(<< >>) = {}
    BY DEF ToSet
  <2> HIDE DEF Part
  <2>3. Holds(0)
    BY <1>11, <2>1, <2>2
  <2> HIDE DEF Holds
  <2>4. QED
    BY <2>3
<1>13. ASSUME NEW k \in 0 .. 5 - 1, k \in I PROVE k + 1 \in I
  <2>1. PICK x, y, z : x = g[k] /\ y = g[k + 1] /\ z = e[k + 1]
    OBVIOUS
  <2>2. x \in Seq(E) /\ ToSet(x) = Part(k)
    BY <1>13, <2>1
  <2>3. y = IF k + 1 \in T THEN Append(x, z) ELSE x
    BY <1>11, <2>1
  <2>4. ASSUME y \in Seq(E), ToSet(y) = Part(k + 1) PROVE k + 1 \in I
    <3>1. k + 1 \in 0 .. 5
      OBVIOUS
    <3> HIDE DEF Part
    <3>2. Holds(k + 1)
      BY <2>1, <2>4
    <3> HIDE DEF Holds
    <3>3. QED
      BY <3>1, <3>2
  <2>5. CASE k + 1 \in T
    <3>1. z \in E
      <4>1. k + 1 \in 1 .. 5
        OBVIOUS
      <4>2. QED
        BY <1>1, <2>1, <4>1
    <3>2. Append(x, z) \in Seq(E) /\ ToSet(Append(x, z)) = ToSet(x) \cup {z}
      BY <2>2, <3>1, ElementsAppend
    <3>3. Part(k + 1) = Part(k) \cup {z}
      <4>1. T \cap (1 .. k + 1) = (T \cap (1 .. k)) \cup {k + 1}
        BY <2>5
      <4>2. PICK V, W : V = T \cap (1 .. k) /\ W = T \cap (1 .. k + 1)
        OBVIOUS
      <4>3. {e[i] : i \in W} = {e[i] : i \in V} \cup {z}
        BY <2>1, <4>1, <4>2
      <4>4. QED
        BY <4>2, <4>3
    <3>4. y \in Seq(E) /\ ToSet(y) = Part(k + 1)
      <4> HIDE DEF Part
      <4>1. QED
        BY <2>2, <2>3, <2>5, <3>2, <3>3
    <3> HIDE DEF Part, I
    <3>5. QED
      BY <2>4, <3>4
  <2>6. CASE k + 1 \notin T
    <3>1. Part(k + 1) = Part(k)
      <4>1. T \cap (1 .. k + 1) = T \cap (1 .. k)
        BY <2>6
      <4>2. QED
        BY <4>1
    <3>2. y \in Seq(E) /\ ToSet(y) = Part(k + 1)
      <4> HIDE DEF Part
      <4>1. QED
        BY <2>2, <2>3, <2>6, <3>1
    <3> HIDE DEF Part, I
    <3>3. QED
      BY <2>4, <3>2
  <2>7. QED
    BY <2>5, <2>6
<1>14. 5 \in I
  <2> HIDE DEF I
  <2>1. 0 .. 5 \subseteq I
    BY <1>12, <1>13, IntervalInduction
  <2>2. QED
    BY <2>1
<1>15. T \cap (1 .. 5) = T
  BY <1>2
<1>16. QED
  BY <1>1, <1>10, <1>14, <1>15

-----------------------------------------------------------------------------
(* The calls of a program.                                                   *)

\* What the vectors of a call hold: each argument that is no size, once at
\* least, by its kind.
LEMMA CallVectors ==
  ASSUME NEW n
  PROVE  LET p == get_prototype(n) IN
         /\ ToSet(makeCall(n).singles) =
                {[kind |-> toArgSingleKind(ArgAt(p, i)), reg |-> i] :
                    i \in {j \in DOMAIN p.args : p.args[j] \in Singles}}
         /\ ToSet(makeCall(n).pairs) =
                {[kind |-> ArgAt(p, i), mem |-> i, size |-> i + 1,
                  can_be_zero |-> ArgAt(p, i + 1) = Size0] :
                    i \in {j \in DOMAIN p.args : p.args[j] \in Pairs}}
<1>1. PICK p : p = get_prototype(n)
  OBVIOUS
<1>2. PICK e, f :
        /\ e = [i \in 1 .. 5 |-> [kind |-> toArgSingleKind(ArgAt(p, i)), reg |-> i]]
        /\ f = [i \in 1 .. 5 |-> [kind |-> ArgAt(p, i), mem |-> i, size |-> i + 1,
                                  can_be_zero |-> ArgAt(p, i + 1) = Size0]]
  OBVIOUS
<1>3. PICK c, d : c = Collected(p, Singles, e) /\ d = Collected(p, Pairs, f)
  OBVIOUS
<1>4. makeCall(n).singles = c /\ makeCall(n).pairs = d
  BY <1>1, <1>2, <1>3 DEF makeCall
<1>5. /\ ToSet(c) = {e[i] : i \in {j \in Turns(p) : ArgAt(p, j) \in Singles}}
      /\ ToSet(d) = {f[i] : i \in {j \in Turns(p) : ArgAt(p, j) \in Pairs}}
  BY <1>3, CollectedAre
<1>6. Sound(p)
  BY <1>1, SoundPrototype
<1>7. Turns(p) = {i \in DOMAIN p.args : p.args[i] \notin Sizes} /\ DOMAIN p.args \subseteq 1 .. 5
  BY <1>6, TurnsAre DEF Sound, Paired
<1>8. PICK X, Y : /\ X = {j \in DOMAIN p.args : p.args[j] \in Singles}
                  /\ Y = {j \in DOMAIN p.args : p.args[j] \in Pairs}
  OBVIOUS
<1>9. /\ X = {j \in Turns(p) : ArgAt(p, j) \in Singles} /\ X \subseteq 1 .. 5
      /\ Y = {j \in Turns(p) : ArgAt(p, j) \in Pairs} /\ Y \subseteq 1 .. 5
  <2>1. (Singles \cup Pairs) \cap Sizes = {}
    BY DEF Singles, Pairs, Sizes, Arg, Map, Key, Val, Ctx, MemOrNull, Mem, Uninit, Size, Size0
  <2>2. \A j \in DOMAIN p.args : ArgAt(p, j) = p.args[j]
    BY DEF ArgAt
  <2>3. QED
    BY <1>7, <1>8, <2>1, <2>2
<1>10. /\ \A i \in X : e[i] = [kind |-> toArgSingleKind(ArgAt(p, i)), reg |-> i]
       /\ \A i \in Y : f[i] = [kind |-> ArgAt(p, i), mem |-> i, size |-> i + 1,
                               can_be_zero |-> ArgAt(p, i + 1) = Size0]
  BY <1>2, <1>9
<1>11. ToSet(c) = {e[i] : i \in X} /\ ToSet(d) = {f[i] : i \in Y}
  BY <1>5, <1>9
<1>12. /\ ToSet(c) = {[kind |-> toArgSingleKind(ArgAt(p, i)), reg |-> i] : i \in X}
       /\ ToSet(d) = {[kind |-> ArgAt(p, i), mem |-> i, size |-> i + 1,
                       can_be_zero |-> ArgAt(p, i + 1) = Size0] : i \in Y}
  <2> DEFINE single(i) == [kind |-> toArgSingleKind(ArgAt(p, i)), reg |-> i]
             pair(i)   == [kind |-> ArgAt(p, i), mem |-> i, size |-> i + 1,
                           can_be_zero |-> ArgAt(p, i + 1) = Size0]
  <2>1. (\A i \in X : e[i] = single(i)) /\ \A i \in Y : f[i] = pair(i)
    BY <1>10
  <2> HIDE DEF single, pair
  <2>2. ToSet(c) = {single(i) : i \in X} /\ ToSet(d) = {pair(i) : i \in Y}
    BY <1>11, <2>1
  <2>3. QED
    BY <2>2 DEF single, pair
<1>13. QED
  BY <1>1, <1>4, <1>8, <1>12

\* The arguments are shared out, and each pair takes its size.
LEMMA CallForm ==
  ASSUME NEW n, NEW ins, ins = makeCall(n)
  PROVE  LET proto == get_prototype(n)
             used  == {ins.singles[x].reg : x \in DOMAIN ins.singles}
                      \cup UNION {{ins.pairs[x].mem, ins.pairs[x].size} :
                                     x \in DOMAIN ins.pairs}
         IN  /\ used = DOMAIN proto.args
             /\ \A x \in DOMAIN ins.pairs : ArgAt(proto, ins.pairs[x].size) \in Sizes
<1>1. PICK p, s, c, d : /\ p = get_prototype(n) /\ s = p.args
                        /\ c = ins.singles /\ d = ins.pairs
  OBVIOUS
<1>2. PICK m \in 0 .. 5 :
        /\ DOMAIN s = 1 .. m
        /\ \A i \in 1 .. m : /\ s[i] \in Singles \cup Pairs \cup Sizes
                             /\ s[i] \in Sizes <=> i > 1 /\ s[i - 1] \in Pairs
                             /\ s[i] \in Pairs => i < m /\ s[i + 1] \in Sizes
  BY <1>1, SoundPrototype DEF Sound, Paired
<1> DEFINE single(i) == [kind |-> toArgSingleKind(ArgAt(p, i)), reg |-> i]
           pair(i)   == [kind |-> ArgAt(p, i), mem |-> i, size |-> i + 1,
                         can_be_zero |-> ArgAt(p, i + 1) = Size0]
<1>3. /\ ToSet(c) = {single(i) : i \in {j \in DOMAIN s : s[j] \in Singles}}
      /\ ToSet(d) = {pair(i) : i \in {j \in DOMAIN s : s[j] \in Pairs}}
  BY <1>1, CallVectors
<1>4. \A i : single(i).reg = i /\ pair(i).mem = i /\ pair(i).size = i + 1
  OBVIOUS
<1> HIDE DEF single, pair
<1>5. /\ \A x \in DOMAIN c : c[x] \in ToSet(c)
      /\ \A x \in DOMAIN d : d[x] \in ToSet(d)
      /\ \A y \in ToSet(c) : \E x \in DOMAIN c : c[x] = y
      /\ \A y \in ToSet(d) : \E x \in DOMAIN d : d[x] = y
  BY DEF ToSet
<1>6. /\ \A y \in ToSet(c) : \E i \in 1 .. m : s[i] \in Singles /\ y = single(i)
      /\ \A y \in ToSet(d) : \E i \in 1 .. m : s[i] \in Pairs /\ y = pair(i)
      /\ \A i \in 1 .. m : s[i] \in Singles => single(i) \in ToSet(c)
      /\ \A i \in 1 .. m : s[i] \in Pairs => pair(i) \in ToSet(d)
  BY <1>2, <1>3
<1>7. /\ \A x \in DOMAIN c : \E i \in 1 .. m : s[i] \in Singles /\ c[x].reg = i
      /\ \A x \in DOMAIN d : \E i \in 1 .. m :
            s[i] \in Pairs /\ d[x].mem = i /\ d[x].size = i + 1
  BY <1>4, <1>5, <1>6
<1>8. /\ \A i \in 1 .. m : s[i] \in Singles => \E x \in DOMAIN c : c[x].reg = i
      /\ \A i \in 1 .. m : s[i] \in Pairs =>
            \E x \in DOMAIN d : d[x].mem = i /\ d[x].size = i + 1
  BY <1>4, <1>5, <1>6
<1> DEFINE used == {c[x].reg : x \in DOMAIN c} \cup UNION {{d[x].mem, d[x].size} : x \in DOMAIN d}
<1>9. ASSUME NEW i \in 1 .. m PROVE i \in used
  <2>1. CASE s[i] \in Singles
    BY <1>8, <2>1
  <2>2. CASE s[i] \in Pairs
    BY <1>8, <2>2
  <2>3. CASE s[i] \in Sizes
    <3>1. i - 1 \in 1 .. m /\ s[i - 1] \in Pairs /\ (i - 1) + 1 = i
      BY <1>2, <2>3
    <3>2. PICK x \in DOMAIN d : d[x].size = i
      BY <1>8, <3>1
    <3>3. QED
      BY <3>2
  <2>4. QED
    BY <1>2, <2>1, <2>2, <2>3
<1>10. ASSUME NEW i \in used PROVE i \in 1 .. m
  <2>1. CASE \E x \in DOMAIN c : i = c[x].reg
    BY <1>7, <2>1
  <2>2. CASE \E x \in DOMAIN d : i = d[x].mem \/ i = d[x].size
    <3>1. PICK k \in 1 .. m : s[k] \in Pairs /\ (i = k \/ i = k + 1)
      BY <1>7, <2>2
    <3>2. QED
      BY <1>2, <3>1
  <2>3. QED
    BY <1>10, <2>1, <2>2
<1>11. used = DOMAIN s
  BY <1>2, <1>9, <1>10
<1>12. ASSUME NEW x \in DOMAIN d PROVE ArgAt(p, d[x].size) \in Sizes
  <2>1. PICK i \in 1 .. m : s[i] \in Pairs /\ d[x].size = i + 1
    BY <1>7
  <2>2. i + 1 \in 1 .. m /\ s[i + 1] \in Sizes
    BY <1>2, <2>1
  <2>3. QED
    BY <1>1, <1>2, <2>1, <2>2 DEF ArgAt
<1> HIDE DEF used
<1>13. QED
  BY <1>1, <1>11, <1>12 DEF used

\* No turn starts at a size.
LEMMA NoCallAborts ==
  ASSUME NEW n
  PROVE  ~ CallAborts(n)
<1>1. PICK p : p = get_prototype(n)
  OBVIOUS
<1>2. Sound(p)
  BY <1>1, SoundPrototype
<1>3. \A i \in Turns(p) : ArgAt(p, i) \notin Sizes
  BY <1>2, TurnsAre DEF ArgAt
<1>4. QED
  BY <1>1, <1>3 DEF CallAborts

\* Only makeCall makes a call.
LEMMA CallDecodes ==
  ASSUME NEW i \in Slots, NEW next, NEW at, Failure(i) = "none",
         Decode(i, next, at).k = "Call"
  PROVE  Decode(i, next, at) = makeCall(Decode(i, next, at).func)
<1>1. PICK ins : ins = Decode(i, next, at)
  OBVIOUS
<1>2. ~ IsLddw(i)
  <2>1. CASE IsLddw(i)
    <3>1. ins = makeLddw(i, next)
      BY <1>1, <2>1, OneBranch DEF Decode
    <3>2. ins.k \in {"LoadMapFd", "Bin"}
      BY <3>1 DEF makeLddw
    <3>3. QED
      BY <1>1, <3>2
  <2>2. QED
    BY <2>1
<1>3. ~ IsMem(i)
  <2>1. CASE IsMem(i)
    <3>1. ins = makeMemOp(i)
      BY <1>1, <2>1, OneBranch DEF Decode
    <3>2. ~ MemUnsupported(i)
      BY <2>1 DEF Failure
    <3>3. Mode(i) \in {0, 1, 2, 3, 6}
      BY <3>2 DEF Mode, MemUnsupported, Slots
    <3>4. ins.k \in {"Undefined", "Packet", "Mem", "LockAdd"}
      BY <3>1, <3>3 DEF makeMemOp, ModeAbs, ModeInd, ModeMem, ModeXadd
    <3>5. QED
      BY <1>1, <3>4
  <2>2. QED
    BY <2>1
<1>4. ~ IsAlu(i)
  <2>1. CASE IsAlu(i)
    <3>1. ins = makeAluOp(i)
      BY <1>1, <1>2, <1>3, <2>1 DEF Decode
    <3>2. ins.k \in {"Un", "Bin"}
      BY <3>1 DEF makeAluOp
    <3>3. QED
      BY <1>1, <3>2
  <2>2. QED
    BY <2>1
<1>5. ins = makeJmp(i, at)
  BY <1>1, <1>2, <1>3, <1>4 DEF Decode
<1>6. Op(i) = 8
  BY <1>1, <1>5 DEF makeJmp
<1>7. ins = makeCall(i.imm)
  BY <1>5, <1>6 DEF makeJmp
<1>8. QED
  BY <1>1, <1>7, CallIsCall

LEMMA FormedInit ==
  ASSUME Init
  PROVE  Formed
BY RawsAssumption DEF Init, Formed, ToSet

LEMMA FormedTranslate ==
  ASSUME Formed, Translate
  PROVE  Formed'
<1> DEFINE i == raw[pc + 1]
<1>1. /\ pc < Len(raw) /\ outcome = "running" /\ raw' = raw /\ outcome' = outcome
      /\ Failure(i) = "none" /\ pc' = Advance(IsLddw(i))
      /\ prog' = Append(prog, [label |-> pc, ins |-> Decode(i, NextImm(pc), pc)])
  BY DEF Translate
<1>2. raw \in Seq(Slots) /\ pc \in Nat /\ prog \in Seq(ToSet(prog))
  BY DEF Formed
<1>3. i \in Slots
  BY <1>1, <1>2
<1>4. pc' \in Nat
  <2>1. pc + 1 \in Int /\ pc + 2 \in Int
    BY <1>2
  <2>2. QED
    BY <1>1, <2>1, Wraps DEF Advance
<1>5. PICK x, n, ins : /\ x = [label |-> pc, ins |-> ins] /\ n = Len(prog)
                       /\ ins = Decode(i, NextImm(pc), pc)
  OBVIOUS
<1>6. /\ prog' \in Seq(ToSet(prog')) /\ DOMAIN prog = 1 .. n /\ DOMAIN prog' = 1 .. n + 1
      /\ \A j \in 1 .. n : prog'[j] = prog[j]
      /\ prog'[n + 1] = x
  BY <1>1, <1>2, <1>5, AppendKeeps
<1>7. ins.k = "Call" => ins = makeCall(ins.func)
  BY <1>1, <1>3, <1>5, CallDecodes
<1>8. n \in Nat
  BY <1>2, <1>5
<1>9. \A j \in DOMAIN prog' :
        prog'[j].ins.k = "Call" => prog'[j].ins = makeCall(prog'[j].ins.func)
  <2>1. ASSUME NEW j \in 1 .. n + 1, prog'[j].ins.k = "Call"
        PROVE  prog'[j].ins = makeCall(prog'[j].ins.func)
    <3>1. CASE j \in 1 .. n
      BY <1>6, <2>1, <3>1 DEF Formed
    <3>2. CASE j = n + 1
      <4>1. prog'[j].ins = ins
        BY <1>5, <1>6, <3>2
      <4>2. QED
        BY <1>7, <2>1, <4>1
    <3>3. QED
      BY <1>8, <3>1, <3>2
  <2>2. QED
    BY <1>6, <2>1
<1>10. QED
  BY <1>1, <1>2, <1>4, <1>6, <1>9 DEF Formed

LEMMA FormedNext ==
  ASSUME Formed, [Next]_vars
  PROVE  Formed'
<1>1. CASE Translate
  BY <1>1, FormedTranslate
<1>2. CASE Refuse
  BY <1>2 DEF Refuse, Formed
<1>3. CASE Finish
  <2>1. raw' = raw /\ pc' = pc /\ prog' = prog /\ outcome' # "abort"
    BY <1>3 DEF Finish
  <2>2. QED
    BY <2>1 DEF Formed
<1>4. CASE UNCHANGED vars
  BY <1>4 DEF vars, Formed
<1>5. QED
  BY <1>1, <1>2, <1>3, <1>4 DEF Next

\* The singles and pairs of every call share out the arguments of its
\* prototype, each size after its pointer, and no assertion of makeCall fails
\* for a function of the table: for every program, however long.
THEOREM AlwaysFormed ==
  Spec => []CallsFormed
<1>1. Formed => CallsFormed
  <2> SUFFICES ASSUME Formed PROVE CallsFormed
    OBVIOUS
  <2>1. ASSUME outcome = "abort" PROVE Op(raw[pc + 1]) # 8
    <3>1. PICK i : i = raw[pc + 1] /\ Failure(i) = "abort"
      BY <2>1 DEF Formed
    <3>2. JmpAborts(i) \/ (Cls(i) = JMP /\ Op(i) = 8 /\ CallAborts(i.imm))
      BY <3>1 DEF Failure
    <3>3. JmpAborts(i)
      BY <3>2, NoCallAborts
    <3>4. QED
      BY <3>1, <3>3 DEF JmpAborts, IsJump
  <2>2. ASSUME NEW j \in DOMAIN prog, prog[j].ins.k = "Call"
        PROVE  prog[j].ins = makeCall(prog[j].ins.func)
    BY <2>2 DEF Formed
  <2>3. QED
    BY <2>1, <2>2, CallForm DEF CallsFormed
<1>2. Init => Formed
  BY FormedInit
<1>3. Formed /\ [Next]_vars => Formed'
  BY FormedNext
<1>4. QED
  BY <1>1, <1>2, <1>3, PTL DEF Spec

=============================================================================
