----------------------------- MODULE MCRcpPair -----------------------------
(* Four descriptors: two of ordinary maps, two of maps of maps; words of     *)
(* four bits, ints of three.                                                 *)
EXTENDS RcpPair, TLC

MCMaps == 0 .. 3
MCInner == (0 :> -1) @@ (1 :> -1) @@ (2 :> 0) @@ (3 :> 1)

Start(t, n) == [val |-> With(BotVal, t, Of(<<n>>)), real |-> [t |-> t, n |-> n]]

Descriptors(S, m) == [val |-> With(BotVal, T_FD, S), real |-> [t |-> T_FD, n |-> m]]

MCStarts ==
    {Start(T_NUM, w) : w \in {0, 1, 12}}
    \cup {[val |-> NumTop, real |-> Num(9)]}
    \cup {Start(T_STACK, 1)}
    \cup {[val |-> With(BotVal, T_STACK, Of(<<-1, 1>>)), real |-> [t |-> T_STACK, n |-> -1]]}
    \cup {[val |-> With(BotVal, T_DATA, Top), real |-> [t |-> T_DATA, n |-> 2]]}
    \cup {Descriptors({0}, 0), Descriptors({2, 3}, 2)}
    \cup {[val |-> TopVal, real |-> [t |-> T_CTX, n |-> 0]]}

=============================================================================
