----------------------------- MODULE RcpMachine -----------------------------
(* Machine of ai.cpp, which runs instructions on registers of RCP_domain,    *)
(* and tests and assumes the assertions of Extractor.                        *)
(*                                                                           *)
(* The stack is MemDom, and MemPair shows what it remembers; here a load     *)
(* from the stack knows nothing, as after a store at an unknown offset.      *)
EXTENDS Extractor

\* Machine::init: the context, the end of the stack, and two numbers for the
\* size of the packet and of what is before it.
Entry ==
    [r \in {1, 10, 13, 14} |->
        CASE r = 1  -> With(BotVal, T_CTX, Of(<<0>>))
          [] r = 10 -> With(BotVal, T_STACK, Of(<<StackSize>>))
          [] OTHER  -> NumTop]

-----------------------------------------------------------------------------
(* Assertions: Machine::operator()(Assert) and Machine::satisfied.           *)

Eval(f, v) == IF v.reg THEN f[v.n] ELSE OnlyNum(ToWord(v.n))

\* What reg is compared with: v - width - offset, in each of its types.
RightOf(f, a) ==
    AddVal(Zero(f[a.reg]),
           SubVal(SubVal(Eval(f, a.v), Eval(f, a.width)), Eval(f, Imm(a.offset))))

\* Mutant: an assertion is assumed with the opposite order.
AssertedBelow(f, a) ==
    IF a.kind = "type"
    THEN [f EXCEPT ![a.reg] = AssumeTypeWhen(@, a.types, f[a.given], a.when)]
    ELSE [f EXCEPT ![a.reg] = AssumeValIn(IF a.op = "GE" THEN "LE" ELSE a.op,
                                          a.types, @, RightOf(f, a))]

Asserted(f, a) ==
    IF a.kind = "type"
    THEN [f EXCEPT ![a.reg] = AssumeTypeWhen(@, a.types, f[a.given], a.when)]
    ELSE [f EXCEPT ![a.reg] = AssumeValIn(a.op, a.types, @, RightOf(f, a))]

\* The assertions as, one after the other.
AssertedAll(f, as) ==
    LET after[k \in 0 .. Len(as)] ==
            IF k = 0 THEN f ELSE LET prior == after[k - 1] IN Asserted(prior, as[k])
    IN  after[Len(as)]

\* Mutant: the width of the access is left out of the comparison.
SatisfiedShort(f, a) ==
    IF a.kind = "type"
    THEN SatisfiedTypeWhen(f[a.reg], a.types, f[a.given], a.when)
    ELSE SatisfiedVal(a.op, a.types, f[a.reg], RightOf(f, [a EXCEPT !.width = Imm(0)]))

Satisfied(f, a) ==
    IF a.kind = "type"
    THEN SatisfiedTypeWhen(f[a.reg], a.types, f[a.given], a.when)
    ELSE SatisfiedVal(a.op, a.types, f[a.reg], RightOf(f, a))

\* RegsDom::at throws for a register without a value.
ReadsOf(a) ==
    {a.reg} \cup (IF a.kind = "type" THEN {a.given}
                  ELSE {v.n : v \in {w \in {a.width, a.v} : w.reg}})

-----------------------------------------------------------------------------
(* Instructions.                                                             *)

\* RegsDom::assign.
Assign(f, r, v) == [q \in DOMAIN f \cup {r} |-> IF q = r THEN v ELSE f[q]]

\* Mutant: the arguments of the call keep their values.
ReturningAll(f, v) == [r \in DOMAIN f \cup {0} |-> IF r = 0 THEN v ELSE f[r]]

\* RegsDom::scratch_regs, after the result is in register 0.
Returning(f, v) == [r \in (DOMAIN f \ 1 .. 5) \cup {0} |-> IF r = 0 THEN v ELSE f[r]]

\* The pointers to the packet are fields of the context.  The sum for meta is
\* one of two pointers, which is no value.
LoadCtx(f, O) ==
    LET data_start == With(BotVal, T_DATA, Of(<<3>>))
        Is(field) == field > -1 /\ Contains(O, field)
    IN  IF IsBot(O) THEN BotVal
        ELSE IF ~IsSingle(O) THEN TopVal
        ELSE IF Is(Descriptor.data) THEN data_start
        ELSE IF Is(Descriptor.end) THEN AddVal(data_start, f[DATA_END_REG])
        ELSE IF Is(Descriptor.meta)
        THEN AddVal(data_start, With(BotVal, T_DATA, Of(<<0>>)))
        ELSE NumTop

LoadOther(addr) ==
    IF \E t \in Maps \cup {T_DATA} : ~BotAt(addr, t) THEN NumTop ELSE BotVal

LoadStack(O) == IF IsBot(O) THEN BotVal ELSE TopVal

Load(f, addr) ==
    JoinVal(JoinVal(LoadStack(addr[T_STACK]), LoadCtx(f, addr[T_CTX])), LoadOther(addr))

BinVal(f, ins) ==
    CASE ins.op = "MOV" -> Eval(f, ins.v)
      [] ins.op = "ADD" -> AddVal(f[ins.dst], Eval(f, ins.v))
      [] ins.op = "SUB" -> SubVal(f[ins.dst], Eval(f, ins.v))
      [] OTHER -> ExecVal(ins.op, f[ins.dst], Eval(f, ins.v))

\* Un, LockAdd, Exit and stores leave the registers as they are; the width
\* of a Bin is ignored.
Run(f, ins) ==
    CASE ins.kind = "LoadMapFd" ->
            Assign(f, ins.dst, With(BotVal, T_FD, {ins.mapfd}))
      [] ins.kind = "Bin" -> Assign(f, ins.dst, BinVal(f, ins))
      [] ins.kind = "Assume" ->
            [f EXCEPT ![ins.left] = AssumeVal(ins.op, @, Eval(f, ins.right))]
      [] ins.kind = "Call" ->
            Returning(f, IF ins.returns_map THEN MapLookup(f[1]) ELSE NumTop)
      [] ins.kind = "Packet" -> Returning(f, NumTop)
      [] ins.kind = "Mem" /\ ins.load ->
            Assign(f, ins.value.n, Load(f, AddVal(f[ins.base], Eval(f, Imm(ins.offset)))))
      [] OTHER -> f

\* The registers Run reads.
Reads(ins) ==
    LET Of1(v) == IF v.reg THEN {v.n} ELSE {}
    IN  CASE ins.kind = "Bin" -> Of1(ins.v) \cup (IF ins.op = "MOV" THEN {} ELSE {ins.dst})
          [] ins.kind = "Assume" -> Of1(ins.right) \cup {ins.left}
          [] ins.kind = "Call" -> {ins.pairs[i].mem : i \in DOMAIN ins.pairs}
                                  \cup {ins.pairs[i].size : i \in DOMAIN ins.pairs}
                                  \cup (IF ins.returns_map THEN {1} ELSE {})
          [] ins.kind = "Mem" -> {ins.base} \cup (IF ins.load THEN {} ELSE Of1(ins.value))
          [] OTHER -> {}

=============================================================================
