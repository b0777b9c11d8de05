--------------------------- MODULE CfgProperties ---------------------------
(***************************************************************************)
(* What the three passes of Cfg promise.  The reference is the program:    *)
(* its executions are sequences of moves from instruction to instruction,  *)
(* and a graph is right when the same instructions and assumptions follow  *)
(* one another along its edges.                                            *)
(***************************************************************************)
EXTENDS Cfg

\* The order of the program's own labels.
Before(a, b) == a[1] < b[1]

Defined == {prog[k] : k \in {m \in DOMAIN prog : prog[m].op # "undef"}}

\* The instruction that runs after l when l does not jump.
FallLabel(l) ==
  LET later == {ins.at : ins \in {d \in Defined : Before(l, d.at)}}
  IN  IF later = {} THEN NoLabel
      ELSE CHOOSE m \in later : \A n \in later \ {m} : Before(m, n)

\* A conditional jump to the instruction that follows it decides nothing.
Decides(ins) == ins.op = "if" /\ ins.arg # FallLabel(ins.at)

\* The moves of an instruction: what it shows of itself and where it goes.
Moves(ins) ==
  CASE ins.op = "exit" -> {[items |-> <<ins>>, from |-> ins.at, to |-> NoLabel]}
    [] ins.op = "goto" -> {[items |-> <<>>, from |-> ins.at, to |-> ins.arg]}
    [] Decides(ins) ->
         {[items |-> <<Assume(ins.at, FALSE)>>, from |-> ins.at, to |-> ins.arg],
          [items |-> <<Assume(ins.at, TRUE)>>, from |-> ins.at, to |-> FallLabel(ins.at)]}
    [] ins.op = "if" /\ ~ Decides(ins) ->
         {[items |-> <<>>, from |-> ins.at, to |-> ins.arg]}
    [] OTHER -> {[items |-> ExpandLockAdd(ins), from |-> ins.at, to |-> FallLabel(ins.at)]}

ProgramGraph ==
  LET moves == UNION {Moves(ins) : ins \in Defined}
  IN  [items |-> [m \in moves |-> m.items],
       succ  |-> [m \in moves |-> {n \in moves : n.from = m.to}],
       start |-> {m \in moves : m.from = prog[1].at}]

\* The graph of the blocks of g, which starts at S.
GraphOf(g, S) ==
  [items |-> [l \in DOMAIN g |-> g[l].insts],
   succ  |-> [l \in DOMAIN g |-> ToSet(g[l].nextlist) \cap DOMAIN g],
   start |-> S \cap DOMAIN g]

BlockGraph == GraphOf(graph, IF keys = <<>> THEN {} ELSE {keys[1]})

\* The nodes of G reached from the nodes of S through nodes with no item.
Through(G, S) ==
  LET grow[k \in 0..Cardinality(DOMAIN G.items)] ==
        IF k = 0 THEN S
        ELSE LET prior == grow[k - 1]
             IN  prior \cup UNION {G.succ[n] : n \in {m \in prior : G.items[m] = <<>>}}
  IN  grow[Cardinality(DOMAIN G.items)]

FirstItems(G, S) == {Head(G.items[n]) : n \in {m \in Through(G, S) : G.items[m] # <<>>}}

\* Which item can follow which in an execution of G.
Flow(G) ==
  UNION {
    {<<G.items[n][k], G.items[n][k + 1]>> : k \in 1..(Len(G.items[n]) - 1)}
      \cup (IF G.items[n] = <<>> THEN {}
            ELSE {<<Last(G.items[n]), y>> : y \in FirstItems(G, G.succ[n])})
    : n \in DOMAIN G.items }

Occurrences(s, x) == Cardinality({k \in DOMAIN s : s[k] = x})

\* Some conditional jump has the same target whether it is taken or not.
JumpsToFallthrough ==
  \E ins \in Defined : ins.op = "if" /\ ins.arg = FallLabel(ins.at)

\* Some jump of the program goes back to its first instruction.
JumpsToEntry == \E ins \in Defined : IsJump(ins) /\ ins.arg = prog[1].at

\* The moves that executions of the program make.
LiveMoves ==
  LET G == ProgramGraph
      grow[k \in 0..Cardinality(DOMAIN G.items)] ==
        IF k = 0 THEN G.start
        ELSE LET prior == grow[k - 1] IN prior \cup UNION {G.succ[m] : m \in prior}
  IN  grow[Cardinality(DOMAIN G.items)]

\* All jumps go forward, to instructions other than the next one, and every
\* instruction is reached.
Tame ==
  /\ ~ JumpsToFallthrough
  /\ \A ins \in Defined : IsJump(ins) =>
       Before(ins.at, ins.arg) /\ ins.arg \in {d.at : d \in Defined}
  /\ LiveMoves = DOMAIN ProgramGraph.items

\* The graph as the RCP analysis takes it from simplify (main_check.cpp);
\* what the blocks do is of no account for its shape.
Analysis ==
  INSTANCE WorklistProperties WITH
    Label <- {}, State <- {}, Entries <- {}, Cfgs <- {},
    cfg <- [keys     |-> keys,
            nextlist |-> [l \in DOMAIN graph |-> graph[l].nextlist],
            prevlist |-> [l \in DOMAIN graph |-> graph[l].prevlist]],
    pc <- "start", w <- <<>>, count <- <<>>, pre <- <<>>, post <- <<>>,
    cur <- <<>>, pos <- 0, satisfied <- {}

\* The analysis that starts at keys[1] meets first what the program runs first.
StartsAtEntry ==
  FirstItems(BlockGraph, BlockGraph.start) = FirstItems(ProgramGraph, ProgramGraph.start)

\* No block is followed only by a block that nothing else goes to.
NoChainLeft ==
  phase = "done" =>
    ~ \E a, b \in ToSet(keys) :
        /\ a # b
        /\ ToSet(graph[a].nextlist) = {b}
        /\ {c \in ToSet(keys) : Contains(graph[c].nextlist, b)} = {a}

-----------------------------------------------------------------------------
\* nextlist and prevlist describe the same edges, with the same multiplicity,
\* while make adds them and through every merge of simplify, although each
\* pass updates the two lists in different places.  The analyser counts on
\* it: it waits for prevlist.size() arrivals along nextlists.  A conditional
\* jump to its own fallthrough is the exception: Unique drops the second
\* successor and leaves the second predecessor.
EdgesAgree ==
  phase \in {"make", "simplify", "done"} /\ ~ JumpsToFallthrough =>
    \A a \in DOMAIN graph : \A b \in DOMAIN graph \cap ToSet(keys) :
      Occurrences(graph[a].nextlist, b) = Occurrences(graph[b].prevlist, a)

\* Along the edges of the graph the instructions and assumptions follow one
\* another exactly as in the program, after to_nondet and after every merge:
\* no path is lost, none is invented, no branch is swapped with the other.
FlowPreserved ==
  phase \in {"simplify", "done"} => Flow(BlockGraph) = Flow(ProgramGraph)

\* Every instruction except the jumps, and every assumption, is in exactly
\* one place of the graph, also while blocks are being moved and erased.
ItemsOnce ==
  phase \in {"simplify", "done"} =>
    LET P == ProgramGraph
        places == UNION {{<<l, k>> : k \in DOMAIN graph[l].insts} : l \in DOMAIN graph}
        at(p)  == graph[p[1]].insts[p[2]]
    IN  /\ {at(p) : p \in places} = UNION {ToSet(P.items[m]) : m \in DOMAIN P.items}
        /\ \A p, q \in places : at(p) = at(q) => p = q

\* The first of the ordered labels is where the program starts: the analyses
\* give it the initial state (asm_cfg.hpp:20 says labels are "ordered similarly
\* to the original program").  Holds when no jump goes back to the first
\* instruction: its block could be absorbed by the one it is reached from.
EntryFirst ==
  phase \in {"simplify", "done"} /\ ~ JumpsToEntry => StartsAtEntry

\* When simplify returns no block has one successor whose one predecessor it
\* is.  Holds when no jump goes to its own fallthrough.
ChainsReplaced == ~ JumpsToFallthrough => NoChainLeft

\* What simplify leaves of a program without loops, dead code and jumps to a
\* fallthrough is a graph that worklist covers whole: its keys all have blocks,
\* each edge is listed once on both sides, and the first key is the only
\* source, from which all is reached (WorklistProperties!Analysable).
HandsOver ==
  phase = "done" /\ Tame =>
    /\ ToSet(keys) = DOMAIN graph
    /\ Analysis!Analysable
    /\ Analysis!Live = DOMAIN graph

\* The three loops end: make and to_nondet run off the end of their input,
\* and simplify, whose inner loop follows edges that may form cycles, runs out
\* of labels.
Termination == <>(phase \in {"done", "throw"})

-----------------------------------------------------------------------------
(***************************************************************************)
(* Why: the invariants that the proofs use, one for each pass.             *)
(***************************************************************************)
Labels == Seq(Nat)

IsBlock(b) ==
  /\ b = [insts |-> b.insts, nextlist |-> b.nextlist, prevlist |-> b.prevlist]
  /\ b.nextlist \in Seq(Labels) /\ b.prevlist \in Seq(Labels)

IsGraphOf(g) == \A l \in DOMAIN g : l \in Labels /\ IsBlock(g[l])

\* The two lists name the edges to the blocks in K equally often.
Agree(g, K) ==
  \A a \in DOMAIN g : \A b \in DOMAIN g \cap K :
    Occurrences(g[a].nextlist, b) = Occurrences(g[b].prevlist, a)

\* The labels among the first n instructions.
Seen(n) == {prog[m].at : m \in {k \in 1..n : prog[k].op # "undef"}}

\* What make may have given an instruction for successors.
Shapes(ins) ==
  {<<>>} \cup (IF IsJump(ins) THEN {<<ins.arg>>} ELSE {<<FallLabel(ins.at)>>})
         \cup (IF ins.op = "if" THEN {<<ins.arg, FallLabel(ins.at)>>} ELSE {})

\* The graph that make has after n instructions.  A jump to what is no
\* instruction leaves a block without one, from which nothing leads on.
Made(g, n) ==
  /\ IsGraphOf(g) /\ \A a \in DOMAIN g : Len(a) = 1
  /\ Agree(g, DOMAIN g)
  /\ Seen(n) \subseteq DOMAIN g
  /\ \A a \in DOMAIN g :
       /\ ToSet(g[a].nextlist) \subseteq DOMAIN g /\ ToSet(g[a].prevlist) \subseteq Seen(n)
       /\ \/ g[a].nextlist = <<>>
          \/ \E m \in 1..n : prog[m].op # "undef" /\ prog[m].at = a
                             /\ g[a].nextlist \in Shapes(prog[m])

MakeInv ==
  phase = "make" =>
    /\ idx \in 0..Len(prog) /\ keys \in Seq(Labels) /\ ToSet(keys) = Seen(idx)
    /\ Made(graph, idx)
    /\ falling # NoLabel => \E m \in 1..idx :
         /\ prog[m].op # "undef" /\ HasFall(prog[m]) /\ prog[m].at = falling
         /\ \A k \in (m + 1)..idx : prog[k].op = "undef"
         /\ graph[falling].nextlist = IF IsJump(prog[m]) THEN <<prog[m].arg>> ELSE <<>>

NextsOf(a) == Unique(src.graph[a].nextlist)
Split(a)   == Len(NextsOf(a)) = 2
Handled    == {src.keys[k] : k \in 1..idx}
Mids(a)    == IF Split(a) THEN {a \o NextsOf(a)[1], a \o NextsOf(a)[2]} ELSE {}

\* In g are the blocks that to_nondet makes of the block of a.
Converted(a, g) ==
  /\ g[a].nextlist = IF Split(a) THEN <<a \o NextsOf(a)[1], a \o NextsOf(a)[2]>> ELSE NextsOf(a)
  /\ g[a].prevlist = [k \in DOMAIN src.graph[a].prevlist |->
                        NondetPrev(src.graph[a].prevlist[k], a)]
  /\ Split(a) => \A n \in ToSet(NextsOf(a)) :
                   g[a \o n].nextlist = <<n>> /\ g[a \o n].prevlist = <<a>>

NondetInv ==
  phase = "nondet" =>
    /\ Made(src.graph, Len(prog))
    /\ src.keys \in Seq(Labels) /\ ToSet(src.keys) = Seen(Len(prog))
    /\ idx \in 0..Len(src.keys)
    /\ keys \in Seq(Labels) /\ ToSet(keys) = DOMAIN graph
    /\ DOMAIN graph = Handled \cup UNION {Mids(a) : a \in Handled}
    /\ IsGraphOf(graph)
    /\ \A a \in Handled : Converted(a, graph)

NoRepeats(s) == \A i, j \in DOMAIN s : s[i] = s[j] => i = j

\* The blocks of the labels K and the edges between them are whole; a label
\* that is not in K has an empty block or none.
Linked(g, K) ==
  /\ IsGraphOf(g) /\ Agree(g, K)
  /\ \A a \in DOMAIN g :
       /\ ToSet(g[a].nextlist) \cap K \subseteq DOMAIN g
       /\ ToSet(g[a].prevlist) \subseteq DOMAIN g \cap K
       /\ NoRepeats(g[a].nextlist)
       /\ a \notin K => g[a] = NoBlock

\* What is behind the worklist has nothing left to absorb.
SimplifyInv ==
  phase = "simplify" /\ ~ JumpsToFallthrough =>
    /\ Linked(graph, ToSet(keys)) /\ keys \in Seq(Labels) /\ NoLabel \notin ToSet(keys)
    /\ work \subseteq DOMAIN graph \cap ToSet(keys)
    /\ label # NoLabel => label \in DOMAIN graph \cap ToSet(keys)
    /\ \A a \in (DOMAIN graph \cap ToSet(keys)) \ (work \cup {label}) :
         ~ CanAbsorb(TouchNext(graph, a), a)

\* What a block can list.
Acts ==
  [op  : Ops \cup {"load", "add", "store", "assume", "assume_not"},
   at  : Labels,
   arg : Labels]

\* The successors that make gives an instruction.
Successors(ins) ==
  CASE ins.op = "exit" -> <<>>
    [] ins.op = "goto" -> <<ins.arg>>
    [] ins.op = "if"   -> <<ins.arg, FallLabel(ins.at)>>
    [] OTHER           -> <<FallLabel(ins.at)>>

\* Each of the first n instructions is alone in its block, and has all of its
\* successors, but for the one that make may still fall from.
Written(g, n, from) ==
  \A m \in 1..n : prog[m].op # "undef" =>
    /\ g[prog[m].at].insts = <<prog[m]>>
    /\ prog[m].at # from => g[prog[m].at].nextlist = Successors(prog[m])

FirstKey(s) == s # <<>> /\ s[1] = prog[1].at

MakeExact ==
  phase = "make" => Written(graph, idx, falling) /\ (idx > 0 => FirstKey(keys))

\* In g are the instructions that to_nondet makes of the block of a.
Copied(a, g) ==
  /\ g[a].insts = NondetInsts(src.graph[a].insts)
  /\ Split(a) => /\ g[a \o NextsOf(a)[1]].insts = <<Assume(a, FALSE)>>
                 /\ g[a \o NextsOf(a)[2]].insts = <<Assume(a, TRUE)>>

NondetExact ==
  phase = "nondet" =>
    /\ Written(src.graph, Len(prog), NoLabel) /\ FirstKey(src.keys)
    /\ idx > 0 => FirstKey(keys)
    /\ \A a \in Handled : Copied(a, graph)

\* A block that is named as a successor knows, unless it is an empty one that
\* simplify has made by looking at it.
Named(g) ==
  \A a, b \in DOMAIN g : b \in ToSet(g[a].nextlist) =>
    a \in ToSet(g[b].prevlist) \/ g[b] = NoBlock

Bodied(g) == IsFiniteSet(DOMAIN g) /\ \A l \in DOMAIN g : g[l].insts \in Seq(Acts)

SimplifyExact ==
  phase = "simplify" =>
    /\ IsGraphOf(graph) /\ Bodied(graph) /\ Named(graph) /\ keys \in Seq(Labels)
    /\ work \subseteq DOMAIN graph /\ (label # NoLabel => label \in DOMAIN graph)
    /\ ~ JumpsToEntry => /\ FirstKey(keys) /\ keys[1] \in DOMAIN graph
                         /\ graph[keys[1]].prevlist = <<>>

\* An order of the labels in which i:j is between i and j.
Place(l) == 2 * l[1] + Len(l)

\* The edges lead to blocks that lie ahead, and no block but that of the first
\* instruction is without a predecessor.
Forward(g, K) ==
  /\ DOMAIN g \subseteq K
  /\ \A a \in DOMAIN g : \A b \in ToSet(g[a].nextlist) : b \in DOMAIN g /\ Place(a) < Place(b)
  /\ \A a \in DOMAIN g : g[a].prevlist = <<>> => a = prog[1].at

TameInv ==
  Tame =>
    /\ phase = "simplify" => Forward(graph, ToSet(keys))
    /\ phase = "done" =>
         /\ Forward(graph, ToSet(keys)) /\ Linked(graph, ToSet(keys))
         /\ keys \in Seq(Labels) /\ ToSet(keys) = DOMAIN graph /\ NoLabel \notin DOMAIN graph
         /\ IsFiniteSet(DOMAIN graph) /\ FirstKey(keys) /\ graph[keys[1]].prevlist = <<>>

=============================================================================
