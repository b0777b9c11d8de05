------------------------------ MODULE RcpPair ------------------------------
(* Two registers of the RCP analyser, each beside the value the program      *)
(* really has there.  Every step does to the pair of abstract values what    *)
(* RCP_domain does and to the pair of real values what the machine does.     *)
EXTENDS RcpReal

CONSTANT Starts     \* what a register may hold at first: records [val, real]

VARIABLE reg        \* the abstract values

pairVars == <<reg, real, exact, steps>>

Regs == {1, 2}

\* A register holds at first what the abstract value beside it allows.
ASSUME StartsAssumption ==
    \A s \in Starts : IsValue(s.val) /\ IsReal(s.real) /\ Holds(s.val, s.real)

PairInit ==
    /\ \E f \in [Regs -> Starts] :
            /\ reg = [r \in Regs |-> f[r].val]
            /\ real = [r \in Regs |-> f[r].real]
    /\ exact = TRUE
    /\ steps = 0

-----------------------------------------------------------------------------
(* The steps.                                                                *)

Set(d, val, value) ==
    /\ reg' = [reg EXCEPT ![d] = val]
    /\ real' = [real EXCEPT ![d] = value]

\* exec on numbers; no element on the right leaves the result undefined.
ExecStep(d, s, op) ==
    /\ real[d].t = T_NUM /\ real[s].t = T_NUM
    /\ op \notin {"ADD", "SUB"}
    /\ ~ \E n \in Elems(reg[s][T_NUM]) \cup {real[s].n} : Undefined(op, n)
    /\ Set(d, ExecVal(op, reg[d], reg[s]), Num(Compute(op, real[d].n, real[s].n)))
    /\ Count(ShiftsSignBit(op, real[d], real[s]))

AddStep(d, s) ==
    LET x == real[d]
        y == real[s]
    IN  /\ T_FD \notin {x.t, y.t} /\ T_NUM \in {x.t, y.t}
        /\ Set(d, AddVal(reg[d], reg[s]), Added(x, y))
        /\ Count(CutsOffset(x, y) \/ CutsOffset(y, x))

SubStep(d, s) ==
    LET x == real[d]
        y == real[s]
    IN  /\ T_FD \notin {x.t, y.t}
        /\ y.t = T_NUM \/ (y.t = x.t /\ x.t \notin Maps)
        /\ Set(d, SubVal(reg[d], reg[s]), Subtracted(x, y))
        /\ Count(CutsOffset(x, y))

\* Two paths meet: the register comes from either.
JoinStep(d, s) ==
    \E value \in {real[d], real[s]} :
        Set(d, JoinVal(reg[d], reg[s]), value) /\ Count(FALSE)

\* The result of a lookup is null, a value of the map or an inner map.
LookupStep(d) ==
    /\ real[d].t = T_FD
    /\ real[d].n \in DOMAIN Inner
    /\ \E value \in Found(real[d].n) : Set(d, MapLookup(reg[d]), value)
    /\ Count(SeveralNested(reg[d]))

\* The program took the branch on which the comparison holds.
AssumeStep(d, s, op) ==
    /\ MayCompare(op, real[d], real[s])
    /\ ~ \E t \in NonFd \ {T_NUM} : AbortsOffset(op, reg[d][t], reg[s][t])
    /\ Set(d, AssumeVal(op, reg[d], reg[s]), real[d])
    /\ Count(LosesCompared(op, reg[d], reg[s], real[d], real[s]))

\* An assertion on types that holds in the program.
AssumeTypeStep(d, T) ==
    /\ real[d].t \in T
    /\ Set(d, AssumeType(reg[d], T), real[d])
    /\ Count(FALSE)

PairNext ==
    /\ steps < MaxSteps
    /\ \E d \in Regs :
        \/ \E s \in Regs :
            \/ \E op \in BinOps : ExecStep(d, s, op)
            \/ AddStep(d, s)
            \/ SubStep(d, s)
            \/ JoinStep(d, s)
            \/ \E op \in CmpOps : AssumeStep(d, s, op)
        \/ LookupStep(d)
        \/ \E T \in {{T_NUM}, PtrTypes, NonFd} : AssumeTypeStep(d, T)

PairSpec == PairInit /\ [][PairNext]_pairVars

-----------------------------------------------------------------------------
(* Properties.                                                               *)

\* An abstract value covers the real one (RCP_domain, all operations) unless
\* a step was one of the inexact ones: a shift of a number with its top bit
\* set, an offset cut to int, an inequality against several values, the
\* algorithms on vectors out of order, an order between different types or
\* between values of a map, a lookup among several maps of maps.
Covered == exact => \A r \in Regs : Holds(reg[r], real[r])

\* A comparison that satisfied() accepts holds of the real values, when the
\* set on the right has one element: the constraint an assertion states.
SatisfiedIsTrue ==
    \A d, s \in Regs, op \in CmpOps \ {"SET", "NSET"} :
        LET x == real[d]
            y == real[s]
            b == reg[s]
        IN  (/\ exact
             /\ x.t = y.t /\ x.t # T_FD
             /\ IsOfType(reg[d], {x.t}) /\ ~OutOfOrder(reg[d], b)
             /\ op \notin SignedOps \/ x.t = T_NUM
             /\ \A t \in NonFd : Len(b[t].elems) <= 1
             /\ SatisfiedVal(op, {x.t}, reg[d], b))
            => IF op \in SignedOps THEN Compare(op, Signed(x.n), Signed(y.n))
               ELSE Compare(op, x.n, y.n)

-----------------------------------------------------------------------------
(* Why: the invariant that the proofs use.                                   *)

\* Every register holds an abstract value and a real one, and as long as no
\* step was inexact the first holds the second.
Held ==
    /\ DOMAIN reg = Regs /\ DOMAIN real = Regs /\ exact \in BOOLEAN
    /\ \A r \in Regs : IsValue(reg[r]) /\ IsReal(real[r])
    /\ Covered

=============================================================================
