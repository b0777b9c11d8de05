---------------------------- MODULE MCUnmarshal ----------------------------
(* Every opcode with a few values for the other fields, alone and before an  *)
(* exit; every function number; and programs of up to four slots of those    *)
(* that wide instructions and jumps are made of.                             *)
EXTENDS Unmarshal

Exit == Slot(149, 0, 0, 0, 0)

AnySlot == {Slot(o, d, s, f, n) : o \in 0 .. 255, d \in {1, 10}, s \in {0, 1, 10},
                              f \in {-1, 0, 1}, n \in {0, 16, 32, 64}}

Calls == {Slot(133, 0, 0, 0, n) : n \in -1 .. 82}

Few == {Exit,
        Slot(24, 1, 0, 0, 16), Slot(24, 1, 1, 0, 16),     \* wide, and of a map
        Slot(0, 0, 0, 0, 0), Slot(0, 0, 0, 0, -1),        \* second slots
        Slot(5, 0, 0, 1, 0), Slot(5, 0, 0, -2, 0),        \* goto
        Slot(21, 1, 0, 1, -1), Slot(29, 1, 2, -3, 0),     \* if r1 == ...
        Slot(7, 1, 0, 0, -128)}                           \* r1 += imm

MCRaws ==
    {<<i>> : i \in AnySlot} \cup {<<i, Exit>> : i \in AnySlot \cup Calls}
    \cup UNION {[1 .. n -> Few] : n \in 0 .. 3}
    \cup {<<i, j, k, Exit>> : i \in Few, j \in Few, k \in Few}

=============================================================================
