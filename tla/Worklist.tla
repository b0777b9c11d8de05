------------------------------ MODULE Worklist ------------------------------
(***************************************************************************)
(* The fixpoint computation and the assertion check of the RCP analysis:   *)
(* Analyzer, worklist and analyze_rcp of src/src/ai.cpp.                   *)
(*                                                                         *)
(* The abstract values (Machine) are replaced by the most precise ones     *)
(* there can be: a value is the set of machine states it stands for, and   *)
(* bot tells a default-constructed Machine (its stack is bottom) from one  *)
(* that was computed.  A block carries the effect of its instructions as a *)
(* relation on states, and the states that satisfy the assertion at its    *)
(* start.  What goes wrong here goes wrong with every abstract domain.     *)
(*                                                                         *)
(* worklist is one loop with a loop inside; its steps are:                 *)
(*                                                                         *)
(*   Start      the Analyzer's constructor and the initial list            *)
(*   Visit      pop a label, join its predecessors, recompute the block    *)
(*   Arrive     count one successor, and push it when it is due            *)
(*   Dedup, EndVisit    w.erase(unique(w)), and back to the loop           *)
(*   EndSolve   the list is empty                                          *)
(*   Check      one iteration of the loop of analyze_rcp                   *)
(***************************************************************************)
EXTENDS Integers, FiniteSets, Sequences

CONSTANTS
  Label,        (* The names of basic blocks.                              *)
  State,        (* The states of the machine the program runs on.          *)
  Entries,      (* Those in which the program may start.                   *)
  Cfgs          (* The control-flow graphs that Init chooses from.         *)

KeysOf(c) == {c.keys[i] : i \in DOMAIN c.keys}

\* A graph as the analysis finds it.  A label listed as a successor has a
\* block: cfg.at throws otherwise, and the analysis has no result.
IsCfg(c) ==
  /\ c.keys \in Seq(Label) /\ c.keys # <<>>
  /\ c.nextlist \in [KeysOf(c) -> Seq(KeysOf(c))]
  /\ c.prevlist \in [KeysOf(c) -> Seq(KeysOf(c))]
  /\ c.effect \in [KeysOf(c) -> SUBSET (State \X State)]
  /\ c.asserted \in [KeysOf(c) -> SUBSET State]

ASSUME WorklistAssumption ==
  /\ Entries \subseteq State /\ IsFiniteSet(State)
  /\ \A c \in Cfgs : IsCfg(c)

VARIABLES
  cfg,        (* the graph that is analysed, never changed                 *)
  pc,         (* "start", "pop", "push", "erase", "check" or "done"        *)
  w,          (* the worklist                                              *)
  count,      (* per label, the arrivals so far                            *)
  pre, post,  (* the Analyzer's maps                                       *)
  cur,        (* the label being processed: valid in "push" and "erase"    *)
  pos,        (* its successors handled, or the keys checked               *)
  satisfied   (* the labels whose assertion is marked satisfied            *)

vars == <<cfg, pc, w, count, pre, post, cur, pos, satisfied>>

Keys == KeysOf(cfg)
EntryLabel == cfg.keys[1]

Value == [bot : BOOLEAN, states : SUBSET State]
Bot   == [bot |-> TRUE, states |-> {}]

\* The assertion at the start of l is assumed, then its instructions run.
Run(l, S) ==
  {p[2] : p \in {q \in cfg.effect[l] : q[1] \in S \cap cfg.asserted[l]}}

Transfer(l, v) == [bot |-> v.bot, states |-> Run(l, v.states)]

\* Mutant: the meet in place of the join.
JoinedMeet(v, values) ==
  [bot    |-> v.bot /\ \A u \in values : u.bot,
   states |-> {s \in v.states \cup UNION {u.states : u \in values} :
                 \A u \in values : s \in u.states}]

Joined(v, values) ==
  [bot    |-> v.bot /\ \A u \in values : u.bot,
   states |-> v.states \cup UNION {u.states : u \in values}]

Preds(l) == {cfg.prevlist[l][i] : i \in DOMAIN cfg.prevlist[l]}
Succs(l) == {cfg.nextlist[l][i] : i \in DOMAIN cfg.nextlist[l]}

\* The labels that recompute has run: a computed post differs from Bot.
Visited == {l \in DOMAIN post : ~ post[l].bot}

-----------------------------------------------------------------------------
\* Mutant: only the entry gets a post.
StartPartly ==
  /\ pc = "start"
  /\ pc' = "pop"
  /\ w' = <<EntryLabel>>
  /\ count' = [l \in Keys |-> 0]
  /\ pre' = [l \in Keys |-> IF l = EntryLabel THEN [bot |-> FALSE, states |-> Entries] ELSE Bot]
  /\ post' = [l \in {EntryLabel} |-> Bot]
  /\ UNCHANGED <<cfg, cur, pos, satisfied>>

Start ==
  /\ pc = "start"
  /\ pc' = "pop"
  /\ w' = <<EntryLabel>>
  /\ count' = [l \in Keys |-> 0]
  /\ pre' = [l \in Keys |-> IF l = EntryLabel THEN [bot |-> FALSE, states |-> Entries] ELSE Bot]
  /\ post' = [l \in Keys |-> Bot]
  /\ UNCHANGED <<cfg, cur, pos, satisfied>>

\* Mutant: a block counts as changed the first time only.
ChangedOnce(old, new) == old.bot /\ ~ new.bot

Changed(old, new) == old # new

Recompute(l) ==
  LET newpre == Joined(pre[l], {post[p] : p \in Preds(l)})
      dom    == Transfer(l, newpre)
  IN  /\ pre' = [pre EXCEPT ![l] = newpre]
      /\ post' = [post EXCEPT ![l] = dom]
      /\ pc' = IF Changed(post[l], dom) THEN "push" ELSE "pop"

\* Mutant: the label stays in the list.
VisitKeeps ==
  /\ pc = "pop" /\ w # <<>>
  /\ Recompute(Head(w))
  /\ cur' = Head(w)
  /\ pos' = 0
  /\ UNCHANGED <<cfg, w, count, satisfied>>

Visit ==
  /\ pc = "pop" /\ w # <<>>
  /\ Recompute(Head(w))
  /\ cur' = Head(w)
  /\ w' = Tail(w)
  /\ pos' = 0
  /\ UNCHANGED <<cfg, count, satisfied>>

\* Mutants: the comparison is off by one.
DueEarly(l, arrivals) == arrivals + 1 >= Len(cfg.prevlist[l])
DueLate(l, arrivals)  == arrivals > Len(cfg.prevlist[l])

Due(l, arrivals) == arrivals >= Len(cfg.prevlist[l])

\* Mutant: a label that is queued starts counting anew.
ArriveAnew ==
  /\ pc = "push" /\ pos < Len(cfg.nextlist[cur])
  /\ LET next == cfg.nextlist[cur][pos + 1]
         due  == Due(next, count[next] + 1)
     IN  /\ count' = [count EXCEPT ![next] = IF due THEN 0 ELSE @ + 1]
         /\ w' = IF due THEN Append(w, next) ELSE w
  /\ pos' = pos + 1
  /\ UNCHANGED <<cfg, pc, pre, post, cur, satisfied>>

Arrive ==
  /\ pc = "push" /\ pos < Len(cfg.nextlist[cur])
  /\ LET next == cfg.nextlist[cur][pos + 1] IN
       /\ count' = [count EXCEPT ![next] = @ + 1]
       /\ w' = IF Due(next, count[next] + 1) THEN Append(w, next) ELSE w
  /\ pos' = pos + 1
  /\ UNCHANGED <<cfg, pc, pre, post, cur, satisfied>>

EndArrive ==
  /\ pc = "push" /\ pos = Len(cfg.nextlist[cur])
  /\ pc' = "erase"
  /\ UNCHANGED <<cfg, w, count, pre, post, cur, pos, satisfied>>

\* std::unique keeps the first of a run of equal neighbours.
Repeats == {i \in 1..(Len(w) - 1) : w[i] = w[i + 1]}

Dedup ==
  /\ pc = "erase"
  /\ \E i \in Repeats :
       /\ \A j \in Repeats : i <= j
       /\ w' = SubSeq(w, 1, i) \o SubSeq(w, i + 2, Len(w))
  /\ UNCHANGED <<cfg, pc, count, pre, post, cur, pos, satisfied>>

EndVisit ==
  /\ pc = "erase" /\ Repeats = {}
  /\ pc' = "pop"
  /\ UNCHANGED <<cfg, w, count, pre, post, cur, pos, satisfied>>

EndSolve ==
  /\ pc = "pop" /\ w = <<>>
  /\ pc' = "check"
  /\ pos' = 0
  /\ UNCHANGED <<cfg, w, count, pre, post, cur, satisfied>>

\* Mutant: it is enough that the assertion may hold.
HoldsPerhaps(l) == pre[l].states = {} \/ pre[l].states \cap cfg.asserted[l] # {}

Holds(l) == pre[l].states \subseteq cfg.asserted[l]

Check ==
  /\ pc = "check" /\ pos < Len(cfg.keys)
  /\ LET l == cfg.keys[pos + 1] IN
       satisfied' = IF Holds(l) THEN satisfied \cup {l} ELSE satisfied
  /\ pos' = pos + 1
  /\ UNCHANGED <<cfg, pc, w, pre, post, count, cur>>

EndCheck ==
  /\ pc = "check" /\ pos = Len(cfg.keys)
  /\ pc' = "done"
  /\ UNCHANGED <<cfg, w, count, pre, post, cur, pos, satisfied>>

-----------------------------------------------------------------------------
Init ==
  /\ cfg \in Cfgs
  /\ pc = "start"
  /\ w = <<>>
  /\ count = [l \in Keys |-> 0]
  /\ pre = [l \in Keys |-> Bot]
  /\ post = [l \in Keys |-> Bot]
  /\ cur = EntryLabel
  /\ pos = 0
  /\ satisfied = {}

Solve == Start \/ Visit \/ Arrive \/ EndArrive \/ Dedup \/ EndVisit \/ EndSolve
Next  == Solve \/ Check \/ EndCheck

\* The analysis is one thread that runs until it returns.
Fairness == WF_vars(Next)

Spec == Init /\ [][Next]_vars /\ Fairness

=============================================================================
