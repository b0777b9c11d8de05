-------------------------------- MODULE Rcp --------------------------------
(* RCP_domain of ai_dom_rcp.hpp and ai_dom_rcp.cpp: what a register may hold *)
(* is one set of offsets for each kind of memory, a set of numbers, and a    *)
(* set of map descriptors.  Types are the integers of spec_assertions.hpp:   *)
(* a map is its descriptor, the other types are negative.                    *)
EXTENDS SetDomains

CONSTANTS
    Maps,       \* the descriptors 0 .. NMAPS - 1
    Inner       \* map_defs: descriptor -> inner_map_fd, -1 when it has none

ASSUME MapAssumption ==
    /\ IsFiniteSet(Maps) /\ Maps = 0 .. Cardinality(Maps) - 1
    /\ DOMAIN Inner \subseteq Maps
    /\ \A m \in DOMAIN Inner : Inner[m] \in Maps \cup {-1}

T_CTX   == -5
T_STACK == -4
T_DATA  == -3
T_NUM   == -2
T_FD    == -1

AllTypes == Maps \cup {T_CTX, T_STACK, T_DATA, T_NUM, T_FD}
MemTypes == Maps \cup {T_STACK, T_DATA}
PtrTypes == MemTypes \cup {T_CTX}
NonFd    == PtrTypes \cup {T_NUM}

-----------------------------------------------------------------------------
(* Values.                                                                   *)

BotVal == [t \in AllTypes |-> IF t = T_FD THEN {} ELSE Bot]
TopVal == [t \in AllTypes |-> IF t = T_FD THEN Maps ELSE Top]

\* with_map, with_ctx, with_stack, with_packet, with_num and with_fd.
With(d, t, c)  == [d EXCEPT ![t] = c]
OnlyNum(w)     == With(BotVal, T_NUM, Of(<<w>>))
NumTop         == With(BotVal, T_NUM, Top)

BotAt(d, t)      == IF t = T_FD THEN d[t] = {} ELSE IsBot(d[t])
IsOfType(d, T)   == \A t \in AllTypes \ T : BotAt(d, t)
IsBotVal(d)      == IsOfType(d, {})
TypesOf(d)       == {t \in AllTypes : ~BotAt(d, t)}
MustBeNum(d)     == IsBotVal(With(d, T_NUM, Bot))

JoinVal(a, b) ==
    [t \in AllTypes |-> IF t = T_FD THEN a[t] \cup b[t] ELSE Join(a[t], b[t])]
MeetVal(a, b) ==
    [t \in AllTypes |-> IF t = T_FD THEN a[t] \cap b[t] ELSE Meet(a[t], b[t])]

\* zero(): the number 0 converts to an empty set of descriptors.
Zero(d) == [t \in AllTypes |-> IF t = T_FD THEN {}
                              ELSE IF IsBot(d[t]) THEN Bot ELSE Of(<<0>>)]

\* What a value stands for: a type and an offset, number or descriptor.
Holds(d, v) == IF v.t = T_FD THEN v.n \in d[T_FD] ELSE Contains(d[v.t], v.n)

-----------------------------------------------------------------------------
(* Arithmetic.                                                               *)

ExecVal(op, a, b) == [a EXCEPT ![T_NUM] = Exec(op, @, b[T_NUM])]

AddVal(a, b) ==
    [t \in AllTypes |->
        IF t = T_FD THEN a[t]
        ELSE IF t = T_NUM THEN Exec("ADD", a[t], b[t])
        ELSE Join(OffsetExec(TRUE, b[t], a[T_NUM]),
                  OffsetExec(TRUE, a[t], b[T_NUM]))]

\* num collects the differences of pointers, in the order of the source.
SubNum(a, b) ==
    LET Minus(t) == OffsetMinus(a[t], b[t])
        grow[m \in 0 .. Cardinality(Maps)] ==
            IF m = 0 THEN Exec("SUB", a[T_NUM], b[T_NUM])
            ELSE LET prior == grow[m - 1] IN Join(prior, Minus(m - 1))
    IN  Join(Join(Join(grow[Cardinality(Maps)], Minus(T_CTX)), Minus(T_STACK)),
             Minus(T_DATA))

\* The case of a value subtracted from itself tests the identity of the two
\* operands; the only caller passes a copy, so it is never taken.
SubVal(a, b) ==
    [t \in AllTypes |->
        IF t = T_FD THEN a[t]
        ELSE IF t = T_NUM THEN SubNum(a, b)
        ELSE OffsetExec(FALSE, a[t], b[T_NUM])]

-----------------------------------------------------------------------------
(* map_lookup_elem: a map of maps yields a descriptor, any other map a       *)
(* pointer to its value; the result may also be null.                        *)

\* with_fd assigns, so the last map of maps in the loop decides.
MapLookup(d) ==
    LET found == d[T_FD] \cap DOMAIN Inner
        nested == {m \in found : Inner[m] # -1}
    IN  [t \in AllTypes |->
            IF t = T_NUM THEN Of(<<0>>)
            ELSE IF t = T_FD
                 THEN IF nested = {} THEN {}
                      ELSE {Inner[CHOOSE m \in nested : \A k \in nested : k <= m]}
            ELSE IF t \in found \ nested THEN Of(<<0>>) ELSE Bot]

-----------------------------------------------------------------------------
(* Assumptions and verdicts.                                                 *)

\* assume(reg, types) and its conditional form.
AssumeType(d, T) == [t \in AllTypes |->
                        IF t \in T THEN d[t] ELSE IF t = T_FD THEN {} ELSE Bot]

AssumeTypeWhen(d, T, w, when) == IF IsOfType(w, when) THEN AssumeType(d, T) ELSE d

AssumeValIn(op, T, a, b) ==
    [t \in AllTypes |->
        IF t \notin T THEN a[t]
        ELSE IF t = T_FD THEN AssumeFd(op, a[t], b[t])
        ELSE IF t = T_NUM THEN AssumeNum(op, a[t], b[t])
        ELSE AssumeOffset(op, a[t], b[t])]

AssumeVal(op, a, b) ==
    AssumeValIn(op, IF op \in {"EQ", "NE"} THEN AllTypes ELSE NonFd, a, b)

SatisfiedTypeWhen(d, T, w, when) == IsOfType(w, when) => IsOfType(d, T)

\* A left operand that may be of another type satisfies the comparison: a
\* constraint on types is the business of another assertion.
SatisfiedVal(op, T, a, b) ==
    \/ ~IsOfType(a, T)
    \/ /\ IsOfType(b, T)
       /\ \A t \in T : IF t = T_FD THEN SatisfiedFd(op, a[t], b[t], Maps)
                       ELSE IF t = T_NUM THEN SatisfiedNum(op, a[t], b[t])
                       ELSE SatisfiedOffset(op, a[t], b[t])

=============================================================================
