--------------------------- MODULE MCMachinePair ---------------------------
(* Maps of two bytes and of one, a map of each, a stack of two bytes, and a  *)
(* context of four with the pointers to the packet in its first three; a     *)
(* pointer takes one byte.  Words have five bits, ints four.                 *)
EXTENDS MachinePair, TLC

MCMaps == 0 .. 3
MCInner == (0 :> -1) @@ (1 :> 0) @@ (2 :> -1) @@ (3 :> 2)
MCValueSize == (0 :> 2) @@ (1 :> 1) @@ (2 :> 1) @@ (3 :> 1)
MCDescriptor == [size |-> 4, data |-> 0, end |-> 1, meta |-> 2]
MCPackets == {[meta |-> 0, end |-> 4], [meta |-> 2, end |-> 3]}
MCSamples == {0, 9}

Bin(op, dst, v) == [kind |-> "Bin", op |-> op, is64 |-> TRUE, dst |-> dst, v |-> v]
Bin32(op, dst, v) == [Bin(op, dst, v) EXCEPT !.is64 = FALSE]
Load8(dst, base, offset, width) ==
    [kind |-> "Mem", load |-> TRUE, base |-> base, offset |-> offset,
     width |-> width, value |-> Reg(dst)]
Store8(base, offset, width, v) ==
    [kind |-> "Mem", load |-> FALSE, base |-> base, offset |-> offset,
     width |-> width, value |-> v]
If(left, op, right) == [kind |-> "Assume", op |-> op, left |-> left, right |-> right]
Calling(singles, pairs, map) ==
    [kind |-> "Call", singles |-> singles, pairs |-> pairs, returns_map |-> map]
Arg(kind, r) == [kind |-> kind, reg |-> r]
Pair(kind, mem, size, zero) ==
    [kind |-> kind, mem |-> mem, size |-> size, can_be_zero |-> zero]

MCInstructions ==
    {Bin("MOV", 2, Imm(1)), Bin("MOV", 2, Reg(10)), Bin("MOV", 0, Reg(2)),
     Bin("ADD", 2, Imm(1)), Bin("ADD", 2, Imm(31)), Bin("ADD", 1, Reg(2)),
     Bin("SUB", 1, Reg(2)), Bin("SUB", 2, Imm(1)),
     Bin("AND", 2, Imm(3)), Bin("AND", 2, Reg(1)),
     Bin32("MOV", 2, Imm(31)), Bin32("ADD", 2, Imm(1))}
    \cup {[kind |-> "LoadMapFd", dst |-> 1, mapfd |-> m] : m \in {0, 1}}
    \cup {Load8(2, 1, o, w) : o \in 0 .. 2, w \in 1 .. 2}
    \cup {Load8(1, 10, -1, 1), Load8(2, 10, -2, 2), Load8(2, 10, -3, 1)}
    \cup {Store8(1, 0, 1, Reg(2)), Store8(1, 1, 1, Imm(1)), Store8(10, -1, 1, Reg(1))}
    \cup {If(1, "NE", Imm(0)), If(1, "EQ", Imm(0)), If(2, "LE", Imm(2)),
          If(1, "EQ", Reg(2)), If(1, "LT", Reg(2)), If(2, "SGT", Reg(1)),
          If(1, "GT", Imm(0)), If(1, "EQ", Imm(1)), If(1, "NE", Reg(2))}
    \cup {Calling(<<Arg("MAP_FD", 1), Arg("PTR_TO_MAP_KEY", 2)>>, << >>, TRUE),
          Calling(<<Arg("PTR_TO_CTX", 1), Arg("ANYTHING", 2)>>, << >>, FALSE),
          Calling(<< >>, <<Pair("PTR_TO_MEM", 1, 2, FALSE)>>, FALSE),
          Calling(<< >>, <<Pair("PTR_TO_MEM_OR_NULL", 1, 2, TRUE)>>, FALSE),
          Calling(<< >>, <<Pair("PTR_TO_UNINIT_MEM", 1, 2, FALSE),
                           Pair("PTR_TO_MEM", 10, 2, FALSE)>>, FALSE)}
    \cup {[kind |-> "Packet"], [kind |-> "Exit"], [kind |-> "Un", dst |-> 2],
          [kind |-> "LockAdd", base |-> 1, offset |-> 0, width |-> 1, value |-> Reg(2)]}

\* Register 1 after a lookup, a load or a join, and register 2 as an offset,
\* a size or a second pointer.
One(t, n)     == [val |-> With(BotVal, t, Of(<<n>>)), v |-> [t |-> t, n |-> n]]
Either(s, t, n) == [val |-> With(BotVal, t, Of(s)), v |-> [t |-> t, n |-> n]]
OrNull(t)     == [val |-> With(With(BotVal, t, Of(<<0>>)), T_NUM, Of(<<0>>)),
                  v |-> [t |-> t, n |-> 0]]

Firsts  == {One(T_CTX, 0), OrNull(0), One(T_STACK, 0), One(T_DATA, 3),
            [val |-> TopVal, v |-> Num(0)], Either(<<0, 1>>, 0, 1),
            One(T_NUM, 0), Either(<<0, 2>>, T_STACK, 2),
            [val |-> With(BotVal, T_FD, {1, 3}), v |-> [t |-> T_FD, n |-> 1]]}
Seconds == {One(T_NUM, 1), Either(<<0, 2>>, T_NUM, 2), One(T_NUM, 31), One(T_NUM, 9),
            One(T_STACK, 1), One(0, 1),
            [val |-> NumTop, v |-> Num(16)],
            [val |-> With(With(BotVal, T_STACK, Of(<<1>>)), T_NUM, Of(<<0>>)), v |-> Ptr(T_STACK, 1)],
            [val |-> With(BotVal, T_FD, {0, 2}), v |-> Ptr(T_FD, 0)]}

MCPoints ==
    {[regs |-> (1 :> f.val) @@ (2 :> s.val), real |-> (1 :> f.v) @@ (2 :> s.v)] :
        f \in Firsts, s \in Seconds}
    \cup {[regs |-> << >>, real |-> << >>]}

=============================================================================
