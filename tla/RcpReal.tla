------------------------------ MODULE RcpReal ------------------------------
(* The value a register really has, beside the value RCP_domain has of it,   *)
(* and what the machine makes of real values.  RcpPair and MachinePair share *)
(* these definitions and the variables they both keep.                       *)
EXTENDS Rcp

CONSTANT MaxSteps   \* bound on the number of steps

ASSUME StepsAssumption == MaxSteps \in Nat

VARIABLES
    real,           \* register -> [t, n], a type and a number in it
    exact,          \* no step was one of those listed under Inexact
    steps

\* The abstract values and the real ones that there can be.  The vectors of
\* numbers need not be in order (OffsetMinus), those of offsets are.
IsValue(d) ==
    /\ d = [t \in AllTypes |-> d[t]]
    /\ d[T_FD] \in SUBSET Maps
    /\ d[T_NUM] \in [top : BOOLEAN, elems : Seq(Words)]
    /\ \A t \in PtrTypes : d[t] \in [top : BOOLEAN, elems : Seq(Int)] /\ InOrder(d[t])

\* havoc() and to_bot() leave no elements.
IsTidy(d) == \A t \in NonFd : d[t].top => d[t].elems = << >>

IsReal(x) ==
    /\ x \in [t : AllTypes, n : Int]
    /\ x.t = T_NUM => x.n \in Words

-----------------------------------------------------------------------------
(* The machine.                                                              *)

Num(w) == [t |-> T_NUM, n |-> ToWord(w)]

\* What the instruction computes: BPF's RSH shifts zeros in, ARSH the sign.
Compute(op, k, n) ==
    CASE op = "RSH"  -> k \div 2^n
      [] op = "ARSH" -> ToWord(Signed(k) \div 2^n)
      [] OTHER -> Apply(op, k, n)

Added(x, y) ==
    IF x.t = T_NUM /\ y.t = T_NUM THEN Num(x.n + y.n)
    ELSE IF x.t = T_NUM THEN [y EXCEPT !.n = @ + Signed(x.n)]
    ELSE [x EXCEPT !.n = @ + Signed(y.n)]

\* Two pointers into one memory give a number.
Subtracted(x, y) ==
    IF y.t = x.t THEN Num(x.n - y.n) ELSE [x EXCEPT !.n = @ - Signed(y.n)]

\* Null, a value of the map m or an inner map.
Found(m) ==
    {Num(0)} \cup (IF m \notin DOMAIN Inner THEN {}
                  ELSE IF Inner[m] = -1 THEN {[t |-> m, n |-> 0]}
                  ELSE {[t |-> T_FD, n |-> Inner[m]]})

\* The comparison of two values.  Values of different types are different;
\* a pointer is above the number 0; of two pointers into the values of a map
\* nothing is known, they may point into different values.
MayCompare(op, x, y) ==
    IF x.t = y.t /\ x.t \notin Maps
    THEN IF op = "SET" \/ op = "NSET" THEN TRUE
         ELSE IF x.t = T_NUM /\ op \in SignedOps
         THEN Compare(op, Signed(x.n), Signed(y.n))
         ELSE Compare(op, x.n, y.n)
    ELSE IF x.t # y.t
    THEN CASE op = "EQ" -> FALSE
           [] op = "NE" -> TRUE
           [] y.t = T_NUM /\ y.n = 0 -> op \in {"GT", "GE"}
           [] OTHER -> FALSE
    ELSE TRUE

-----------------------------------------------------------------------------
(* Inexact: the steps that may lose the real value, each for its own reason. *)

ShiftsSignBit(op, x, y) ==
    op \in {"RSH", "ARSH"} /\ x.n >= 2^(Bits - 1) /\ y.n > 0
CutsOffset(x, y) == x.t # T_NUM /\ y.t = T_NUM /\ Signed(y.n) # AsInt(y.n)
SeveralOnRight(op, b) ==
    op = "NE" /\ (\/ Cardinality(b[T_FD]) > 1
                  \/ \E t \in NonFd : Len(b[t].elems) > 1)
OutOfOrder(a, b) == ~InOrder(a[T_NUM]) \/ ~InOrder(b[T_NUM])
AcrossTypes(op, x, y, b) ==
    x.t # y.t /\ (op \notin {"EQ", "NE"} \/ (op = "NE" /\ Cardinality(TypesOf(b)) > 1))
SeveralNested(d) ==
    Cardinality({Inner[m] : m \in {k \in d[T_FD] \cap DOMAIN Inner : Inner[k] # -1}}) > 1

LosesCompared(op, a, b, x, y) ==
    SeveralOnRight(op, b) \/ OutOfOrder(a, b) \/ AcrossTypes(op, x, y, b) \/ x.t \in Maps

\* Every step is counted and remembers whether it was one of them.
Count(inexact) ==
    /\ steps' = steps + 1
    /\ exact' = (exact /\ ~inexact)

=============================================================================
