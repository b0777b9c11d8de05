------------------------------ MODULE MCGraphs ------------------------------
(***************************************************************************)
(* The graphs on which TLC checks Worklist and DataFlow.  The blocks are   *)
(* 1, 2, ... and block 1 is the entry; a block has at most two successors, *)
(* as after Cfg::to_nondet.                                                *)
(***************************************************************************)
EXTENDS Integers, FiniteSets, Sequences

CONSTANTS
  Cyclic,     (* The number of blocks of graphs with any edges.            *)
  Dag         (* The number of blocks of graphs with forward edges only.   *)

MCLabel   == 1..5
MCState   == {"a", "b", "c"}
MCEntries == {"a"}

\* Block 1 reads an input, 2 and 4 assume, 3 rotates, 5 does nothing.
Effect(l) ==
  CASE l = 1 -> {<<"a", "a">>, <<"a", "b">>, <<"b", "b">>, <<"c", "c">>}
    [] l = 2 -> {<<"a", "a">>, <<"c", "c">>}
    [] l = 3 -> {<<"a", "b">>, <<"b", "c">>, <<"c", "a">>}
    [] l = 4 -> {<<"b", "b">>}
    [] OTHER -> {<<s, s>> : s \in MCState}

\* Blocks 2, 4 and 5 start with an assertion that some executions may break.
Asserted(l) ==
  CASE l = 2 -> {"a", "b"} [] l = 4 -> {"b", "c"} [] l = 5 -> {"b"} [] OTHER -> MCState

\* The elements of a set of numbers, least first.
Ascending(S) ==
  [k \in 1..Cardinality(S) |-> CHOOSE x \in S : Cardinality({y \in S : y < x}) = k - 1]

\* The blocks 1..n with these nextlists; prevlists are in the order of the keys.
Graph(n, next) ==
  [keys     |-> [k \in 1..n |-> k],
   nextlist |-> next,
   prevlist |-> [l \in 1..n |-> Ascending({p \in 1..n : \E i \in DOMAIN next[p] : next[p][i] = l})],
   effect   |-> [l \in 1..n |-> Effect(l)],
   asserted |-> [l \in 1..n |-> Asserted(l)]]

\* No, one or two successors from S, the target of the jump first.
NextLists(S) == {<<>>} \cup {<<l>> : l \in S} \cup {s \in S \X S : s[1] # s[2]}

\* Any edges; the last block ends the program.
CyclicGraphs(n) ==
  {Graph(n, [l \in 1..n |-> IF l = n THEN <<>> ELSE next[l]]) :
     next \in [1..(n - 1) -> NextLists(1..n)]}

\* Edges to later blocks only.
Succ(edges, l) == Ascending({e[2] : e \in {d \in edges : d[1] = l}})

DagGraphs(n) ==
  {Graph(n, [l \in 1..n |-> Succ(edges, l)]) :
     edges \in {D \in SUBSET {e \in (1..n) \X (1..n) : e[1] < e[2]} :
                  \A l \in 1..n : Len(Succ(D, l)) <= 2}}

AllGraphs == UNION {CyclicGraphs(n) : n \in 1..Cyclic} \cup DagGraphs(Dag)

\* The graphs in which no edge, and those in which no path, goes back to the
\* entry; both may have other blocks without predecessors.
EntrySourceGraphs == {g \in AllGraphs : g.prevlist[1] = <<>>}

NoReturnGraphs ==
  LET Forward(g) == \E S \in SUBSET (2..Len(g.keys)) :
                      \A l \in S \cup {1} : \A i \in DOMAIN g.nextlist[l] : g.nextlist[l][i] \in S
  IN  {g \in AllGraphs : Forward(g)}

=============================================================================
