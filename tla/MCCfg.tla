------------------------------- MODULE MCCfg -------------------------------
(***************************************************************************)
(* The programs on which TLC checks Cfg: every program of up to Size       *)
(* instructions, and every one of Size + 1 that ends with exit and has no  *)
(* undefined instruction; and those of Size of this kind behind Lead       *)
(* others.                                                                 *)
(***************************************************************************)
EXTENDS CfgProperties

CONSTANTS
  Size,
  Lead      (* The instructions that some programs begin with.             *)

Ins(op, pc, arg) == [op |-> op, at |-> <<pc>>, arg |-> arg]

\* The instructions that can stand at pc in a program of n instructions.
Simple(pc, ops) == {Ins(op, pc, <<>>) : op \in ops}
Jumps(pc, n)    == {Ins(op, pc, <<t>>) : op \in {"goto", "if"}, t \in 0..(n - 1)}

\* Sequences of which the element at k is one of the set choice[k].
Sequences(choice) ==
  {s \in [DOMAIN choice -> UNION {choice[k] : k \in DOMAIN choice}] :
     \A k \in DOMAIN choice : s[k] \in choice[k]}

Full(n) ==
  Sequences([k \in 1..n |->
    Simple(k - 1, {"plain", "lock", "exit"} \cup (IF k > 1 THEN {"undef"} ELSE {}))
      \cup Jumps(k - 1, n)])

Terse(n) ==
  Sequences([k \in 1..n |->
    IF k = n THEN Simple(k - 1, {"exit"})
             ELSE Simple(k - 1, {"plain"}) \cup Jumps(k - 1, n)])

\* The program p behind Lead instructions: with eight of them labels of one
\* digit and of two meet, and their order is not that of the program.
Led(p) ==
  [k \in 1..Lead |-> Ins("plain", k - 1, <<>>)] \o
  [k \in DOMAIN p |-> Ins(p[k].op, Lead + p[k].at[1],
                          IF p[k].arg = <<>> THEN <<>> ELSE <<Lead + p[k].arg[1]>>)]

MCProgs ==
  UNION {Full(n) : n \in 1..Size} \cup Terse(Size + 1) \cup {Led(p) : p \in Terse(Size)}

=============================================================================
