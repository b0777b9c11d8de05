-------------------------------- MODULE Cfg --------------------------------
(***************************************************************************)
(* The control-flow graph of an eBPF program, as src/src/asm_cfg.cpp       *)
(* builds it before every analysis (main_check.cpp):                       *)
(*                                                                         *)
(*   Cfg::make       one basic block per instruction, linked both ways     *)
(*   Cfg::to_nondet  jumps become nondeterministic edges, with the         *)
(*                   condition assumed in a block of its own on each edge  *)
(*   Cfg::simplify   chains of blocks are merged                           *)
(*                                                                         *)
(* One action is one iteration of the loop of the function that runs.      *)
(* A label is the string "i" of an instruction, or "i:j" of the block      *)
(* between i and j; here it is the tuple <<i>> or <<i, j>>, and "+" on     *)
(* labels is \o.                                                           *)
(***************************************************************************)
EXTENDS Integers, FiniteSets, SequencesExt

CONSTANTS
  Progs,        (* The instruction sequences that Init chooses from.       *)
  ExpandLocks   (* The argument expand_locks of to_nondet.                 *)

Ops == {"plain", "lock", "exit", "undef", "goto", "if"}

IsProgram(p) ==
  /\ p \in Seq([op : Ops, at : Seq(Nat), arg : Seq(Nat)])
  /\ \A k \in DOMAIN p :
       Len(p[k].at) = 1 /\ (p[k].op \in {"goto", "if"} => Len(p[k].arg) = 1)
  /\ \A k, m \in DOMAIN p : k < m => p[k].at[1] < p[m].at[1]

ASSUME ProgsAssumption ==
  /\ \A p \in Progs : IsProgram(p) /\ p # <<>> /\ p[1].op # "undef"
  /\ ExpandLocks \in BOOLEAN

VARIABLES
  prog,     (* the labelled instructions, never changed                    *)
  phase,    (* "make", "nondet", "simplify", "done", or "throw"            *)
  idx,      (* instructions (make) or labels (to_nondet) already handled   *)
  falling,  (* falling_from of make: <<>> or a label                       *)
  src,      (* the Cfg that to_nondet reads: its graph and ordered labels  *)
  graph,    (* the graph under construction                                *)
  keys,     (* its ordered_labels                                          *)
  work,     (* the worklist of simplify                                    *)
  label     (* the block simplify is extending: <<>> or a label            *)

vars == <<prog, phase, idx, falling, src, graph, keys, work, label>>

NoLabel == <<>>
NoBlock == [insts |-> <<>>, nextlist |-> <<>>, prevlist |-> <<>>]

(***************************************************************************)
(* std::map::operator[] creates a missing block.                           *)
(***************************************************************************)
TouchAll(g, S) == [x \in DOMAIN g \cup S |-> IF x \in DOMAIN g THEN g[x] ELSE NoBlock]
Touch(g, l) == TouchAll(g, {l})

Link(g, from, to) ==
  LET out == [Touch(g, from) EXCEPT ![from].nextlist = Append(@, to)]
  IN  [Touch(out, to) EXCEPT ![to].prevlist = Append(@, from)]

HasFall(ins) == ins.op \notin {"exit", "goto"}
IsJump(ins)  == ins.op \in {"goto", "if"}

\* std::unique_copy, of the successors of a block: make gives it one at most
\* for a jump and one for the fall, which can be the same.
Unique(s) == IF Len(s) = 2 /\ s[1] = s[2] THEN <<s[1]>> ELSE s

(***************************************************************************)
(* Cfg::make                                                               *)
(***************************************************************************)
SkipUndefined ==
  /\ phase = "make" /\ idx < Len(prog)
  /\ prog[idx + 1].op = "undef"
  /\ idx' = idx + 1
  /\ UNCHANGED <<prog, phase, falling, src, graph, keys, work, label>>

AddInstruction(ins) ==
  LET block  == [Touch(graph, ins.at) EXCEPT ![ins.at].insts = <<ins>>]
      fallen == IF falling = NoLabel THEN block ELSE Link(block, falling, ins.at)
  IN  IF IsJump(ins) THEN Link(fallen, ins.at, ins.arg) ELSE fallen

MakeInstruction ==
  /\ phase = "make" /\ idx < Len(prog)
  /\ LET ins == prog[idx + 1] IN
       /\ ins.op # "undef"
       /\ graph' = AddInstruction(ins)
       /\ keys' = Append(keys, ins.at)
       /\ falling' = IF HasFall(ins) THEN ins.at ELSE NoLabel
  /\ idx' = idx + 1
  /\ UNCHANGED <<prog, phase, src, work, label>>

\* throw std::invalid_argument{"fallthrough in last instruction"}
MakeThrows ==
  /\ phase = "make" /\ idx = Len(prog)
  /\ falling # NoLabel
  /\ phase' = "throw"
  /\ UNCHANGED <<prog, idx, falling, src, graph, keys, work, label>>

MakeReturns ==
  /\ phase = "make" /\ idx = Len(prog)
  /\ falling = NoLabel
  /\ phase' = "nondet"
  /\ src' = [graph |-> graph, keys |-> keys]
  /\ graph' = [l \in {} |-> NoBlock]
  /\ keys' = <<>>
  /\ idx' = 0
  /\ UNCHANGED <<prog, falling, work, label>>

(***************************************************************************)
(* Cfg::to_nondet                                                          *)
(***************************************************************************)
ExpandLockAdd(ins) ==
  IF ins.op = "lock" /\ ExpandLocks
  THEN << [ins EXCEPT !.op = "load"], [ins EXCEPT !.op = "add"], [ins EXCEPT !.op = "store"] >>
  ELSE <<ins>>

\* Each instruction expanded, without the jumps (expanded ones are none).
NondetInsts(insts) ==
  LET done[k \in 0..Len(insts)] ==
        IF k = 0 THEN <<>>
        ELSE IF IsJump(insts[k]) THEN done[k - 1]
        ELSE done[k - 1] \o ExpandLockAdd(insts[k])
  IN  done[Len(insts)]

\* Mutant: a predecessor that branches stays one, beside the block on its edge.
NondetPrevPlain(prev, this) == prev

\* Where an edge of the source graph arrives from, in the new graph.
NondetPrev(prev, this) ==
  IF Len(Unique(src.graph[prev].nextlist)) > 1 THEN prev \o this ELSE prev

Assume(this, negated) ==
  [op |-> IF negated THEN "assume_not" ELSE "assume", at |-> this, arg |-> NoLabel]

\* Mutant: the condition is assumed on the wrong branch.
MidBlockSwapped(this, next, negated) ==
  [insts |-> <<Assume(this, ~ negated)>>, nextlist |-> <<next>>, prevlist |-> <<this>>]

MidBlock(this, next, negated) ==
  [insts |-> <<Assume(this, negated)>>, nextlist |-> <<next>>, prevlist |-> <<this>>]

\* Mutant: the blocks on the edges are listed before the block they leave.
NewLabelsReversed(this, nexts) ==
  IF Len(nexts) = 2 THEN << this \o nexts[1], this \o nexts[2], this >> ELSE <<this>>

\* The labels that are encountered while this is handled, in their order.
NewLabels(this, nexts) ==
  IF Len(nexts) = 2 THEN << this, this \o nexts[1], this \o nexts[2] >> ELSE <<this>>

NondetLabel ==
  /\ phase = "nondet" /\ idx < Len(src.keys)
  /\ LET this  == src.keys[idx + 1]
         bb    == src.graph[this]
         nexts == Unique(bb.nextlist)
         split == Len(nexts) = 2
         new   == [insts    |-> NondetInsts(bb.insts),
                   prevlist |-> [k \in DOMAIN bb.prevlist |-> NondetPrev(bb.prevlist[k], this)],
                   nextlist |-> IF split THEN << this \o nexts[1], this \o nexts[2] >> ELSE nexts]
     IN  /\ graph' = [l \in DOMAIN graph \cup ToSet(NewLabels(this, nexts)) |->
                       CASE l = this -> new
                         [] split /\ l = this \o nexts[1] -> MidBlock(this, nexts[1], FALSE)
                         [] split /\ l = this \o nexts[2] -> MidBlock(this, nexts[2], TRUE)
                         [] OTHER -> graph[l]]
         /\ keys' = keys \o NewLabels(this, nexts)
  /\ idx' = idx + 1
  /\ UNCHANGED <<prog, phase, falling, src, work, label>>

NondetReturns ==
  /\ phase = "nondet" /\ idx = Len(src.keys)
  /\ phase' = "simplify"
  /\ work' = ToSet(keys)
  /\ label' = NoLabel
  /\ UNCHANGED <<prog, idx, falling, src, graph, keys>>

(***************************************************************************)
(* Cfg::simplify                                                           *)
(***************************************************************************)
\* The string of a label, character by character: the decimal digits, and the
\* colon, which comes after 9.
digits[n \in Nat] == IF n < 10 THEN <<n>> ELSE Append(digits[n \div 10], n % 10)

Colon == 10

LabelString(l) ==
  IF Len(l) = 1 THEN digits[l[1]] ELSE digits[l[1]] \o <<Colon>> \o digits[l[2]]

\* The order of strings, in which 10 is before 2.
LabelLess(a, b) ==
  LET s == LabelString(a)
      t == LabelString(b)
  IN  \/ IsStrictPrefix(s, t)
      \/ \E k \in DOMAIN s \cap DOMAIN t :
           s[k] < t[k] /\ \A j \in 1..(k - 1) : s[j] = t[j]

\* Mutant: the label stays in the set.
PopKeeps ==
  /\ phase = "simplify" /\ label = NoLabel
  /\ \E l \in work : label' = l /\ \A m \in work \ {l} : LabelLess(l, m)
  /\ UNCHANGED <<prog, phase, idx, falling, src, graph, keys, work>>

\* pop takes the least label of the std::set.
Pop ==
  /\ phase = "simplify" /\ label = NoLabel
  /\ \E l \in work :
       /\ \A m \in work \ {l} : LabelLess(l, m)
       /\ label' = l
       /\ work' = work \ {l}
  /\ UNCHANGED <<prog, phase, idx, falling, src, graph, keys>>

\* The block that can be appended to graph[l] in g, which already holds it.
CanAbsorb(g, l) ==
  /\ Len(g[l].nextlist) = 1
  /\ g[l].nextlist[1] # l
  /\ Len(g[g[l].nextlist[1]].prevlist) = 1

\* operator[] on the only successor creates it when a jump has no target.
TouchNext(g, l) ==
  IF Len(g[l].nextlist) = 1 THEN Touch(g, g[l].nextlist[1]) ELSE g

\* Mutant: the successors of an absorbed block still name it.
ReconnectedNot(block, from, to) == block

Reconnected(block, from, to) ==
  [block EXCEPT !.prevlist = ReplaceAll(@, from, to)]

\* Mutant: the absorbed block is not erased.
AbsorbedTwice(g, l) ==
  LET next   == g[l].nextlist[1]
      merged == [g EXCEPT ![l].nextlist = g[next].nextlist,
                          ![l].insts    = @ \o g[next].insts]
  IN  [x \in DOMAIN merged |->
         IF Contains(g[next].nextlist, x) THEN Reconnected(merged[x], next, l)
                                          ELSE merged[x]]

Absorbed(g, l) ==
  LET next    == g[l].nextlist[1]
      succs   == ToSet(g[next].nextlist)
      merged  == [g EXCEPT ![l].nextlist = g[next].nextlist,
                           ![l].insts    = @ \o g[next].insts]
      touched == TouchAll(Restrict(merged, DOMAIN g \ {next}), succs)
  IN  [x \in DOMAIN touched |->
         IF x \in succs THEN Reconnected(touched[x], next, l) ELSE touched[x]]

\* Mutant: an if in the place of the inner loop.
AbsorbOnce ==
  /\ phase = "simplify" /\ label # NoLabel
  /\ CanAbsorb(TouchNext(graph, label), label)
  /\ graph' = Absorbed(TouchNext(graph, label), label)
  /\ work' = work \ {graph[label].nextlist[1]}
  /\ label' = NoLabel
  /\ UNCHANGED <<prog, phase, idx, falling, src, keys>>

Absorb ==
  /\ phase = "simplify" /\ label # NoLabel
  /\ CanAbsorb(TouchNext(graph, label), label)
  /\ graph' = Absorbed(TouchNext(graph, label), label)
  /\ work' = work \ {graph[label].nextlist[1]}
  /\ UNCHANGED <<prog, phase, idx, falling, src, keys, label>>

StopAbsorbing ==
  /\ phase = "simplify" /\ label # NoLabel
  /\ ~ CanAbsorb(TouchNext(graph, label), label)
  /\ graph' = TouchNext(graph, label)
  /\ label' = NoLabel
  /\ UNCHANGED <<prog, phase, idx, falling, src, keys, work>>

\* The elements of S that s lists, in their order (std::remove_if).
Remaining(s, S) ==
  LET kept[k \in 0..Len(s)] ==
        IF k = 0 THEN <<>>
        ELSE IF s[k] \in S THEN Append(kept[k - 1], s[k]) ELSE kept[k - 1]
  IN  kept[Len(s)]

SimplifyReturns ==
  /\ phase = "simplify" /\ label = NoLabel /\ work = {}
  /\ phase' = "done"
  /\ keys' = Remaining(keys, DOMAIN graph)
  /\ UNCHANGED <<prog, idx, falling, src, graph, work, label>>

-----------------------------------------------------------------------------
Init ==
  /\ prog \in Progs
  /\ phase = "make"
  /\ idx = 0
  /\ falling = NoLabel
  /\ graph = [l \in {} |-> NoBlock]
  /\ keys = <<>>
  /\ src = [graph |-> graph, keys |-> keys]
  /\ work = {}
  /\ label = NoLabel

Next ==
  \/ SkipUndefined \/ MakeInstruction \/ MakeThrows \/ MakeReturns
  \/ NondetLabel \/ NondetReturns
  \/ Pop \/ Absorb \/ StopAbsorbing \/ SimplifyReturns

\* One thread runs the three functions to their end.
Fairness == WF_vars(Next)

Spec == Init /\ [][Next]_vars /\ Fairness

=============================================================================
