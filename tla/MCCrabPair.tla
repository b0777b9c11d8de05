----------------------------- MODULE MCCrabPair -----------------------------
(* Two maps, a stack of four bytes, a pointer of two, and a context of four  *)
(* fields of two bytes, three of which point to the packet.  Words have 16   *)
(* bits and ints 8, so that a byte is an int.                                *)
EXTENDS CrabPair

MCMaps == {1, 2}
MCValueSize == <<2, 4>>
MCKeySize == <<1, 2>>
MCDescriptor == [size |-> 8, data |-> 0, end |-> 2, meta |-> 4]

Imm(n) == [reg |-> FALSE, n |-> n]
Reg(n) == [reg |-> TRUE, n |-> n]

Op(op, dst, v) == [kind |-> "Bin", op |-> op, is64 |-> TRUE, dst |-> dst, v |-> v, lddw |-> FALSE]
Op32(op, dst, v) == [Op(op, dst, v) EXCEPT !.is64 = FALSE]
Lddw(dst, n) == [Op("MOV", dst, Imm(n)) EXCEPT !.lddw = TRUE]
Load(dst, base, offset, width) ==
    [kind |-> "Mem", load |-> TRUE, base |-> base, offset |-> offset,
     width |-> width, value |-> Reg(dst)]
Store(base, offset, width, v) ==
    [kind |-> "Mem", load |-> FALSE, base |-> base, offset |-> offset,
     width |-> width, value |-> v]
If(left, op, right) == [kind |-> "Assume", op |-> op, left |-> left, right |-> right]
Calling(singles, pairs, map) ==
    [kind |-> "Call", singles |-> singles, pairs |-> pairs, returns_map |-> map]
Arg(kind, r) == [kind |-> kind, reg |-> r]
Mem2(kind, mem, size, zero) ==
    [kind |-> kind, mem |-> mem, size |-> size, can_be_zero |-> zero]

Arithmetics ==
    {Op("MOV", 2, Reg(1)), Op("MOV", 0, Reg(2)), Op("MOV", 2, Imm(255)), Op("MOV", 1, Reg(10)),
     Op("ADD", 1, Imm(2)), Op("ADD", 2, Imm(255)), Op("ADD", 1, Reg(2)), Op("ADD", 2, Reg(1)),
     Op("SUB", 1, Imm(4)), Op("SUB", 1, Reg(2)), Op("SUB", 2, Reg(1)),
     Op("MUL", 2, Imm(3)), Op("DIV", 2, Imm(2)), Op("MOD", 2, Imm(255)), Op("AND", 2, Imm(3)),
     Op("OR", 2, Reg(1)), Op("RSH", 2, Imm(12)), Op("RSH", 2, Imm(4)), Op("ARSH", 2, Imm(9)), Op("LSH", 2, Imm(1)),
     Op32("MOV", 2, Imm(255)), Op32("MOV", 2, Reg(2)), Op32("ADD", 2, Imm(1)),
     Op32("AND", 2, Imm(255)), Lddw(2, 300), Lddw(2, 7)}
    \cup {[kind |-> "Un", op |-> o, dst |-> 2] : o \in {"NEG", "LE16"}}

Accesses ==
    {Load(2, 1, 0, 2), Load(2, 1, 2, 2), Load(1, 1, 4, 2), Load(2, 1, 6, 2), Load(2, 1, -1, 1),
     Load(1, 1, 1, 2), Store(1, 0, 2, Reg(2)), Store(1, 6, 2, Reg(2)), Store(1, 0, 1, Reg(2)),
     Store(1, 1, 1, Imm(1)), Store(1, 6, 2, Imm(200)),
     Load(2, 10, -2, 2), Load(2, 10, -4, 2), Load(2, 10, -3, 2), Load(2, 10, -4, 1), Load(2, 10, -6, 2),
     Store(10, -4, 2, Reg(1)), Store(10, -3, 2, Reg(2)), Store(10, -2, 1, Reg(2)),
     Store(10, -3, 1, Imm(7)), Store(10, -2, 2, Imm(7)), Store(10, -2, 2, Imm(200)),
     [kind |-> "LockAdd", base |-> 1, offset |-> 0, width |-> 2, value |-> Reg(2)]}

Conditions ==
    {If(1, "NE", Imm(0)), If(1, "EQ", Imm(0)), If(1, "GT", Imm(3)), If(2, "GE", Imm(2)),
     If(2, "LE", Imm(2)), If(2, "SLT", Imm(255)), If(2, "LT", Imm(0)), If(2, "GT", Imm(255)),
     If(1, "EQ", Reg(2)), If(1, "LT", Reg(2)), If(2, "NE", Reg(1)), If(2, "SGE", Reg(1))}

Calls ==
    {[kind |-> "LoadMapFd", dst |-> 1, mapfd |-> FdOf(m), map |-> m] : m \in Maps}
    \cup {Calling(<<Arg("MAP_FD", 1), Arg("PTR_TO_MAP_KEY", 2)>>, << >>, TRUE),
          Calling(<<Arg("MAP_FD", 1), Arg("PTR_TO_MAP_KEY", 10)>>, << >>, TRUE),
          Calling(<<Arg("MAP_FD", 1), Arg("PTR_TO_MAP_VALUE", 2), Arg("ANYTHING", 6)>>, << >>, FALSE),
          Calling(<<Arg("PTR_TO_CTX", 1), Arg("ANYTHING", 2)>>, << >>, FALSE),
          Calling(<< >>, <<Mem2("PTR_TO_MEM", 1, 2, FALSE)>>, FALSE),
          Calling(<< >>, <<Mem2("PTR_TO_MEM_OR_NULL", 1, 2, TRUE)>>, FALSE),
          Calling(<< >>, <<Mem2("PTR_TO_UNINIT_MEM", 1, 2, FALSE)>>, FALSE),
          [kind |-> "Packet"], [kind |-> "Exit"]}

MCInstructions == Arithmetics \cup Accesses \cup Conditions \cup Calls

\* Registers of a program: known ones, and what a lookup returned as null.
Known(v) == [v |-> v, d |-> DomOf(v)]
OrNull(m) == [v |-> Num(0), d |-> Dom(0, 0, ValueSize[m])]

Firsts == {Known(Ptr(T_CTX, 0)), Known(Ptr(T_STACK, -2)), Known(Ptr(T_STACK, -4)),
           Known(Ptr(1, 0)), OrNull(1), Known(Ptr(T_DATA, 0)), Known(Ptr(T_MAP, 1))}
Seconds == {Known(Num(n)) : n \in {0, 2, -1, 300, -4096}}
           \cup {Known(Ptr(T_STACK, -3)), Known(Ptr(T_DATA, 3)), Known(Ptr(2, 0)), OrNull(2)}

\* The stack as it is, or after a store.
NoStore == [v |-> Num(0), at |-> -1, width |-> 0, number |-> TRUE]
Empty == [stack |-> [i \in 0 .. StackSize - 1 |-> NoStore],
          cells |-> [regions |-> << >>, values |-> {}, offsets |-> {}]]
Having(k, at) ==
    [stack |-> [i \in 0 .. StackSize - 1 |->
                    IF i \notin Bytes(at, Word) THEN NoStore
                    ELSE [v |-> k.v, at |-> at, width |-> Word, number |-> k.d.region = T_NUM]],
     cells |-> [regions |-> [i \in Bytes(at, Word) |-> k.d.region],
                values |-> {[at |-> at, width |-> Word, v |-> k.d.value]},
                offsets |-> {[at |-> at, width |-> Word, v |-> k.d.offset]}]]

Start(f, s, more, st, packet) ==
    [real |-> (1 :> f.v) @@ (2 :> s.v) @@ (10 :> Ptr(T_STACK, 0)) @@ more,
     crab |-> (1 :> f.d) @@ (2 :> s.d) @@ [r \in DOMAIN more |-> DomOf(more[r])],
     stack |-> st.stack, cells |-> st.cells, packet |-> packet]

MCStarts ==
    {Start(f, s, << >>, Empty, [size |-> 4, meta |-> -1]) : f \in Firsts, s \in Seconds}
    \cup {Start(f, Known(Num(1)), (6 :> Ptr(T_CTX, 0)), Having(k, at), [size |-> 0, meta |-> 0]) :
            f \in {Known(Ptr(T_CTX, 0)), Known(Ptr(T_STACK, -4))},
            k \in {Known(Ptr(T_CTX, 0)), OrNull(1), Known(Num(5))}, at \in 0 .. 2}
    \cup {[real |-> (1 :> Ptr(T_CTX, 0)) @@ (10 :> Ptr(T_STACK, 0)), crab |-> << >>,
           stack |-> Empty.stack, cells |-> Empty.cells, packet |-> [size |-> 1, meta |-> 0]]}

=============================================================================
