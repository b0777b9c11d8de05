# TLA+ models of the eBPF verifier

This directory models the program in `src/src/`: a static analyser that decides
whether an eBPF program is safe to run. The modules are checked with TLC on
small instances and, where it says so below, proved with TLAPS for all
instances. `PROJECT.json` lists the runs, the source lines of every definition,
the hazards of the code and the theorems.

## The system

One thread, no persistence, no concurrency: `main_check.cpp` reads a program,
turns it into a control-flow graph, and hands that graph to one of three
verifiers.

    read_elf / create_blowup -> unmarshal -> Cfg::make -> Cfg::to_nondet
        -> Cfg::simplify -> analyze_rcp                (domain "rcp")
                          | abs_validate               (the Crab domains)
        raw program       -> bpf_verify_program        (domain "linux")

What is hard here is therefore not interleaving but order and agreement: which
block is analysed when, from values that are final or not; two lists that
describe one graph; a graph that is rewritten while it is walked; states of an
analysis that share one map; abstract operations that must cover every concrete
one at the edges of their range; assertions that must be enough for safety; and
a verdict that is drawn from what was, or was not, computed.

| Component | State | Operations | Talks to | What makes it correct |
|---|---|---|---|---|
| `Cfg` (`asm_cfg.cpp/.hpp`) | `graph` (label to block: instructions, `nextlist`, `prevlist`), `ordered_labels` | `make`, `to_nondet`, `simplify`, `collect_stats` | takes the instruction sequence, is read by every verifier | same executions as the program; `nextlist` and `prevlist` agree; the first label is the entry; it ends |
| `Analyzer`, `worklist`, `analyze_rcp` (`ai.cpp`) | `pre`, `post`, `count`, the list `w`, `satisfied` marks | constructor, `join`, `recompute`, `worklist`, the check of assertions | reads `Cfg`, calls `Machine` | predecessors first; one pass; nothing due is forgotten; the result proves the marked assertions; it ends |
| `Machine`, `RegsDom` (`ai.cpp`) | registers, abstract stack | a transfer function per instruction, `satisfied` | uses the RCP domain and `MemDom` | covers every concrete step |
| `AssertionExtractor` (`ai.cpp`) | none | the assertions an instruction needs | writes `Assert`s into the graph; `main` never calls it | every unsafe access has an assertion before it |
| `NumDomSet`, `OffsetDomSet`, `FdSetDom` (`ai_dom_set`) | a set of words, offsets or descriptors, or top | `|=`, `&=`, `exec`, `assume`, `satisfied` | parts of the RCP domain | covers every concrete result on 64-bit words |
| `RCP_domain` (`ai_dom_rcp`) | one set per kind of value | join, meet, arithmetic, `assume` by type | used by `Machine`, `MemDom` | the same, for typed values |
| `MemDom` (`ai_dom_mem`) | sorted cells | `store`, `store_dynamic`, `load`, `|=`, `&=` | used by `Machine` | a load covers what was last stored in each byte |
| Crab translation (`crab_constraints`) | Crab blocks, one variable per register and stack array | one statement list per instruction, `build_crab_cfg`, `setup_entry` | reads `Cfg`, writes Crab's graph | each instruction's safety check and effect are all there, on every path |
| Crab front end (`crab_verifier`, `crab_domains`) | the table of checks | choose a domain, run, count warnings | the Crab library, not in this repository | TRUE only with no warning and no error |
| Array expansion (`array_expansion.hpp`) | per array, a map from offset to cells; one for all states | insert, overlap search, join, meet, store, load | a Crab domain | a store invalidates every overlapping cell |
| Unmarshal, marshal (`asm_unmarshal`, `asm_marshal`) | none | bytes to instructions and back | before `Cfg::make` | round trip; jump targets and two-slot instructions |
| Parser, printer (`asm_parse`, `asm_ostream`) | none | text to instructions and back | tests, output | round trip of text |
| Loading (`asm_files`) | maps found in the ELF file | `read_elf`, `create_blowup` | ELFIO | map references resolved; descriptors tell the sizes of maps |
| Prototypes (`spec_prototypes`) | a constant table | lookup | unmarshal, extractor, translation | agrees with the kernel |
| Linux verifier (`linux_verifier`) | none | two system calls | the kernel | none of its own |

## Modules

| Module | Models | Properties and state machine | Instance |
|---|---|---|---|
| `Cfg` | `make`, `to_nondet`, `simplify` | `CfgProperties`, proofs in `CfgProofs` | `MCCfg` |
| `Worklist` | `Analyzer`, `worklist`, `analyze_rcp` | `WorklistProperties`, proofs in `WorklistProofs` | `MCGraphs`, `MCWorklist` |
| `DataFlow` | what the RCP analysis promises, without list and counters | `DataFlowProperties`, proofs in `DataFlowProofs`; `WorklistRefinement`, proofs in `WorklistProofs` | `MCGraphs`, `MCDataFlow` |
| `SetDomains` | `NumDomSet`, `OffsetDomSet`, `FdSetDom` | in `RcpPair`, proofs in `RcpProofs` | |
| `Rcp` | `RCP_domain` | `RcpPair`, proofs in `RcpProofs` | `MCRcpPair` |
| `RcpReal` | nothing: the real values beside those of `RCP_domain` | in `RcpPair` and `MachinePair` | |
| `MemDom` | the abstract stack | `MemPair` | `MCMemPair` |
| `Extractor` | `AssertionExtractor`, `explicate_assertions` | in `MachinePair`, proofs in `MachineProofs` | |
| `RcpMachine` | `Machine`, `RegsDom` | `MachinePair`, proofs in `MachineProofs` | `MCMachinePair` |
| `Crab` | `instruction_builder_t`, `array_dom_t`, `setup_entry` | `CrabPair` | `MCCrabPair` |
| `ArrayExpansion` | `cell`, `offset_map`, `array_expansion_domain` | `ArrayPair`, proofs in `ArrayProofs` | `MCArrayPair` |
| `Prototypes` | the table of helper functions | in `Unmarshal` | |
| `Marshal` | instructions to slots | in `Unmarshal` | |
| `Unmarshal` | slots to instructions | `Unmarshal`, proofs in `UnmarshalProofs` | `MCUnmarshal` |
| `Iteration` | nothing: induction over numbers, powers and remainders, for the proofs | | |

They are composed as the program composes its parts: `Rcp` extends `SetDomains`,
`Extractor` extends `Rcp`, `RcpMachine` extends `Extractor`, `MachinePair` extends
`RcpMachine` and `RcpReal`; `Crab` takes its
64-bit words from `SetDomains`; `Unmarshal` extends `Marshal` and `Prototypes`.
`CfgProperties` instantiates `WorklistProperties` on the graph that `simplify`
leaves: `HandsOver` is the contract between the two halves of the RCP analysis.

The modules whose name ends in `Pair` have one shape. Beside each abstract value
stands the real one, of a machine that the module defines from what eBPF means;
each step does to the abstract value what the code does and to the real one what
the machine does; the main property says that the abstract value covers the real
one. Where the code is known not to, the step is named by an operator
(`Inexact`, `Unguarded`, `Scattered`, `Absent`, ...) that says exactly when, and
the property is claimed for everything else. Each of these exceptions was
checked to be needed: without it TLC finds a counterexample. They are listed
under "What the runs found".

### Cfg

`graph` and `keys` are `graph` and `ordered_labels`; `src` is the graph that
`to_nondet` reads while it builds the next one. `phase` says which function
runs, and an action is one iteration of its loop:

- `make`: `SkipUndefined`, `MakeInstruction`, then `MakeReturns` or `MakeThrows`
  ("fallthrough in last instruction");
- `to_nondet`: `NondetLabel` writes a block and, if it has two successors, the
  two blocks on its edges that assume the condition or its negation;
  `NondetReturns`;
- `simplify`: `Pop` the least label of the set, `Absorb` while the only
  successor has no other predecessor, `StopAbsorbing`, and `SimplifyReturns`,
  which drops erased labels from `ordered_labels`.

`std::map::operator[]` creates missing blocks, and so does the model (`Touch`).
A label is a tuple of one or two numbers in place of the strings `"i"` and
`"i:j"`. `make` and `to_nondet` go through `ordered_labels`, in the order of the
program; `simplify` takes the least of a `std::set` of strings, in which `"10"`
is before `"2"`: `LabelString` writes a label digit by digit and `LabelLess` is
the order of strings. A program is any sequence of instructions with ascending
labels (`IsProgram`), as `unmarshal` numbers them, a wide one taking two.
An instruction is its kind, its label and its target; registers and operands
play no part in this code. `pres`, `posts` and statistics are left out.

### Worklist

`pre`, `post`, `count` and `w` are the variables of the code; `cur` and `pos`
say where the loops are. `Start` is the constructor and the initial list,
`Visit` pops, joins and recomputes, `Arrive` counts one successor and pushes it
if due, `Dedup` removes one repeated neighbour, `Check` judges one block.

The abstract values are replaced by the most precise ones: the set of states a
value stands for, and a flag for a `Machine` that is still as its constructor
left it (bottom). A block is a relation on states and an assertion at its start,
assumed by the block as `Machine::operator()(Assert)` does. Any other domain can
only be less precise; order, counting and the treatment of blocks that are never
reached do not depend on it. A graph in which `cfg.at` throws is not an
instance (`IsCfg`).

In the code assertions are put into the graph by `explicate_assertions`, which
`main` does not call at this commit; the model takes the graph with its
assertions as given, as `analyze_rcp` does. A block with several assertions is,
for order and verdicts, a chain of blocks with one each.

### DataFlow

The entry is given its value first, which starts the list in the code, and every
other block once, when its predecessors have theirs (`Solve`), in any order; a
block without predecessors other than the entry is never given one, nor is
anything behind it, as nobody pushes them (`Solvable`). When no block can be
given a value any more, assertions are judged in any order (`Judge`), those of a
block without a value as if it were never reached. Where a path leads back to
the entry the code runs blocks again; such graphs are left out (`NoReturn`).
`WorklistRefinement` maps the value of a block to its `pre`, for the
blocks `recompute` has run.

### SetDomains, Rcp, RcpReal and RcpPair

A set is a flag and a sequence, because the code keeps a `vector` and uses
algorithms of the standard library that are right only on sorted ones. A
`uint64_t` is a word of `Bits` bits, an `int` one of `IntBits`; casts are
`Signed`, `ToWord` and `AsInt`. `Walk` is the loop of `std::set_union`,
`std::set_intersection` and `std::set_difference`: it compares only the heads of
the two vectors, and its result on vectors out of order is what the loop makes
of them. A value of `RCP_domain` is a function from types
(maps, context, stack, packet, number, descriptor) to sets. `RcpReal` defines the
real value of a register (a type and a number in it), what the machine computes
of two of them, and the parts of `Inexact`; `RcpPair` and `MachinePair` extend it
and count their steps with `Count`. `RcpPair` runs
`ExecStep`, `AddStep`, `SubStep`, `JoinStep`, `AssumeStep`, `LookupStep` and
`AssumeTypeStep` on two registers.

### MemDom and MemPair

`cells` is the sorted vector of cells; `Store`, `StoreDynamic`, `Load`, `Joins`
and `Meet` are the functions of `MemDom`, with their splits (`SplitTwo`,
`Pieces`). `std::sort` does not say in which order it leaves equal offsets, so
`Joins` is a set of results. `MemPair` has two stacks and remembers of each byte
which value it is part of; a store at an address that may be elsewhere is a
store at an unknown offset, as in `Machine::store`. An `assert` that fails sets
`aborted`.

### Extractor, RcpMachine and MachinePair

`Extract` gives the assertions of an instruction, `Satisfied` and `Asserted` are
`Machine::satisfied` and `operator()(Assert)`, and `Run` runs an instruction.
`Execute`, the step of `MachinePair`, is one instruction: its assertions, which
end a program that breaks one (`Demanded`, `AssertedAll`), then the instruction,
on `regs` and on `real`. A load from the
stack knows nothing here; what the stack remembers is in `MemPair`. `Legal` is
what safety asks of a real machine: accesses in bounds, no pointer written where
it can be read from outside, comparisons and arithmetic that have a meaning,
arguments of the kinds a helper wants.

`MachineAssumption` says what a program is made of: `IsInstruction` gives the
fields each kind of instruction has, as `asm_unmarshal.cpp` makes them. It notes
a write to register 10, so no instruction has it for a destination
(`Writeable`); only a call of a helper that wants a map in register 1 returns a
value of a map. At a point in the middle of a program (`Points`) the abstract
values are well formed and hold the real ones; no packet, context, stack or map
is larger than the cap of 2^30 that the code has for offsets. In a context the
fields `data`, `end` and `meta` are different, unless the context has none
(`DescriptorAssumption`, from `spec_type_descriptors.hpp:109`).

### Crab and CrabPair

An instruction becomes a tree of blocks for Crab; `Exec(c, ins)` is the set of
its paths from a state `c` of the Crab program, each of which ends in a state or
at an assertion that fails. A register is `[value, offset, region]`, as in the
code (`dom_t`); the three arrays of the stack are `regions`, by bytes, and
`values` and `offsets`, by cells; `havoc` leaves `Unknown`. `CrabPair` runs the
paths beside a machine with registers and a stack of bytes (`real`, `stack`).
`Followed` says that each safe step has its path, `StackAgrees` that the arrays
hold what the stack does, and `VerifiedIsSafe` that an instruction none of whose
assertions can fail is safe: the claim behind the answer of `abs_validate`. The
values are exact ones, so what a Crab domain loses is left out; it can only make
more assertions fail.

### ArrayExpansion and ArrayPair

`cells` is the map that all abstract states share, `inv[p]` what the state `p`
knows of the scalar variables of the cells: a set of values for each, or none for
any of them, since they are variables of one domain whose bottom is for all
(`Reduced`). Going back over a store, `V` has the values that the state knows
the stored expression to have; if the cell can have none of them, the state
becomes bottom, and else the cell is forgotten. The search
`get_overlap_cells` walks from an offset down and up and stops where the code
does. `ArrayPair` lets two states store, load, store ranges, initialise, join,
meet, copy, and go backwards over each of these, in any order: an analysis
interleaves the states of its blocks like this. The loop over a range is one
`Element` after another. `real` remembers for each byte the store it is from.
Only constant indexes and intervals occur, as the code asks its scalar domain
for an interval.

### Prototypes, Marshal and Unmarshal

`raw` is the program, `pc` the slot, `prog` the instructions with the numbers of
their slots for labels, `notes` the notes of each slot, and `outcome` how the
loop ended: with instructions, with an error message, with an exception nobody
catches, or in `assert(false)`. The steps are `Translate` for one slot and the
ways out. Registers, immediates and offsets are numbers of their widths;
`ImmBits` and `PcBits` scale them. `marshal` is the way back, with the table
from labels to slots.

## Runs

| Run | Shows | Bounds |
|---|---|---|
| `cfg` | `EdgesAgree`, `FlowPreserved`, `ItemsOnce`, `EntryFirst`, `ChainsReplaced`, `HandsOver`, `Termination` of the three passes | all programs of up to 3 instructions (6 kinds, any targets); of 4 without locks and undefined slots; of 3 of this kind behind 8 other instructions; locks as `main_check.cpp:138` asks, not expanded |
| `worklist` | order, one pass, nothing forgotten, certified result, safe verdict, termination | all graphs of up to 4 blocks with one or two successors each and loops; acyclic ones of 5 |
| `worklist_refines` | `Worklist` implements `DataFlow`, fairness included | as `worklist`, without edges to the entry; dead code and cycles included |
| `dataflow` | values are the reachable states in every order; verdicts exact for the blocks that have one, and in a DAG exactly those behind dead code have none | as `worklist`, without paths back to the entry |
| `rcp` | `Covered`, `SatisfiedIsTrue` | 2 registers from 10 values each, words of 4 bits, ints of 3, 3 steps |
| `mem` | `LoadCovers`, `TypeOK` (order of the cells), `AssertsHold` | 2 stacks of 3 bytes, accesses of 1 and 2, 4 steps |
| `machine` | `RegistersCovered`, `AssertionsSuffice`, `SatisfiedHolds`, `TypeOK` (which registers have a value) | 82 register files, 44 instructions, words of 5 bits, 2 packets, 2 steps |
| `crab` | `Followed`, `StackAgrees`, `VerifiedIsSafe`, `TypeOK` (which registers are initialised) | register files and stacks of a program's middle, 73 instructions, words of 16 bits, 3 steps |
| `crab_packet` | a pointer can be stored in the packet, against `crab_constraints.cpp:617` | as `crab`, fewer steps |
| `array` | `CellsApart`, `SearchFinds`, `LoadCovers` | 2 states, an array of 4 bytes, accesses of 1, 2 and 4, 4 operations |
| `unmarshal` | `EachOnce`, `DecodesBack`, `RoundTrip`, `JumpsNoted`, `CallsFormed` | every opcode with a few fields, every function, programs of up to 4 slots |

The properties in words, and the code each is about, stand before their
definitions in the modules. Every passing property has a mutant (marked
`Mutant:` in the modules): a plausible mistake that breaks it.

Why the bounds are enough: every case of `Cfg` is about a block, its successors
and their predecessors; with three instructions there are self loops, cycles of
two and three, diamonds, jumps to the fallthrough, to undefined slots and to the
entry, and with four a chain behind each of these. Eight instructions before
them make labels from 8 to 10, and `simplify` then meets the last block before
its predecessors. In `Worklist` four blocks
give every shape of a loop with an entry and an exit, a loop that shares its
exit, and dead predecessors; five acyclic blocks give a diamond followed by a
join, where a block waits for paths of different length. Three states are enough
for a block to receive different states on different paths and for an assertion
to fail on one of them only.

The `Pair` modules start from values of the middle of a program, so that few
steps reach every case: a sum that leaves an `int`, a difference of pointers
that turns negative, a set of several elements that is compared, a null or a
pointer. Their words are as short as they can be with every cast still losing
something. On the stack, three bytes and accesses of two give cells that are cut
on the left, on the right and in the middle, and a second pointer tells what is
left of one pointer from the pointer; in the array, four bytes give a cell
of four with one of its bytes stored, and an offset behind it from which the
search starts. In `Unmarshal` wide instructions and jumps over them meet in four
slots; opcodes and functions are enumerated without exception. Words are scaled:
the casts between widths are in the model, the constants 64 and 32 are not.

`CHECK_DEADLOCK FALSE` is set in every run because the program ends: `done` and
`throw` have no successor, and the `Pair` modules stop after `MaxSteps`.

Fairness: each function is one sequential loop, so `WF_vars(Next)` says only
that the thread goes on while it can. `Cfg`, `Worklist` and `DataFlow` state it;
the `Pair` modules have only safety properties.

## What the runs found

One run ends in a violation, where the code and a comment in it disagree
(`findings` in `PROJECT.json`): `crab_packet`, a store to the packet is checked
for its bounds and not for what is stored.

The others are the exceptions that the passing properties name. In the graph:

- `JumpsToFallthrough`: `to_nondet` removes the double successor of a conditional
  jump to its own fallthrough and leaves the double predecessor. `simplify` then
  does not merge the two blocks (`asm_cfg.hpp:49` speaks of chains being
  replaced), and `worklist` waits for two arrivals where one comes: the code
  behind such a jump is never analysed.
- `JumpsToEntry`: a jump back to the first instruction can make that
  instruction's block part of the block on the jump's edge. The entry label
  disappears, against `asm_cfg.hpp:20`; the RCP analysis then starts at another
  block, and `build_crab_cfg` inserts an empty block in place of label 0.
- `Orderly`, `Analysable`: `worklist` counts predecessors that are never
  analysed. Its comment (`ai.cpp:398`) asks for a DAG; it needs one in which
  every block can be reached from the entry and each edge is listed once. `Tame`
  programs have such graphs (`HandsOver`). Of other graphs `VerdictExact` says
  which blocks get no value; their assertions are marked satisfied, since they
  are tested on bottom (`ai.cpp:429`).

In the domains (`RcpPair`, `MachinePair`):

- `RSH` shifts in the sign and `ARSH` zeros (`ai_dom_set.cpp:69`); a number is
  cut to `int` when it is added to an offset (`:118`); differences of pointers
  leave a vector out of order (`:150`); `NE` against several values removes them
  all (`:165`); an order against another type empties a value (`:261`).
- a comparison is satisfied as soon as a register may be of another type
  (`ai_dom_rcp.cpp:73`); of several maps of maps only one inner map is kept.
- the width of a 32-bit operation is ignored (`ai.cpp:177`); the pointer to the
  metadata gets no value (`:315`); the width of an access is cut to `int` (`:198`).
- no assertion guards the second pair of arguments of a call (`:551`) and the
  right operand of most operations (`:646`).

On the stack (`MemPair`): a narrow store keeps the whole value of the register
(`ai.cpp:343`), a store of several widths at several offsets does not forget
all it may touch (`ai_dom_mem.cpp:55`, `Scattered`), and a helper's write of part
of a cell that may hold a pointer leaves that pointer, beside a number, as the
value of the whole cell (`:57`, `Torn`). `LoadCovers` stops at these steps.

In the translation (`CrabPair`): `Inexact` and `Unguarded` list the steps. Among
the first: 32-bit results that are not wrapped, `LSH` as `lshr`, constants cut to
`int`, arithmetic on a pointer that may be null, the direct store of a constant
that runs one byte too far (`:745`), the comparison of a negative number with a
constant. Among the second: operands that are map descriptors, stores over the
packet fields of the context, loads of bytes of several stores, direct accesses
out of bounds, arguments below the stack, negations of pointers.

In the array domain (`ArrayPair`): a scalar stays when its cell is not in the
map, because another state removed it (`Absent`), when the search stops before
it (`Hidden`, after a backward load, which makes a cell without a search), when
a range of indexes lies strictly inside a cell (`Inside`), when a backward store
finds overlapping cells (`Kept`), and when a range of stores is not constant or
too long (it is ignored with a warning, as the comment there says). When such a
scalar loses its last value in a meet, all of the state is bottom, and none of
its scalars covers any more (`Spread`).

In `Unmarshal`: an exception other than `InvalidInstruction`, or `assert(false)`,
ends the process where `asm_unmarshal.hpp:17` has an error message in mind; a
wide instruction at the end of the program is not noted as falling through
(`asm_unmarshal.cpp:406`); with 65536 slots the counter of 16 bits never reaches
the end (`:353`). `Plain` lists the forms that `marshal` writes differently, and
`SecondSlotsEmpty` the second slot of a map load that nothing checks.

## Proofs

Eight modules hold proofs; each extends the module with the properties, and
`Iteration` holds what several of them need: induction over an interval of
numbers, what follows for sequences of sets that are defined by iteration, and
that a function defined by recursion on a number exists (`RecursionExists`),
powers of two and remainders.
The induction theorems of the library take an operator as a parameter, which
the provers cannot instantiate; `IntervalInduction` takes a set instead and
follows from the fact that the subsets of a finite set are well founded.

Every invariant below is stated in the module of the properties, under "Why",
and TLC has checked it on the instances of the runs.

### Worklist (`WorklistProofs`)

For every set of labels, states and graphs that satisfies `WorklistAssumption`
(each graph satisfies `IsCfg`, entry states are states, the states are finitely
many).

- `TypeCorrect`: the invariant `TypeOK`, one step per action.
- `OrderCorrect`: `OrderInv` is inductive in `Orderly` graphs. `PredecessorsFirst`
  is not inductive by itself, because the code never looks at the posts of
  predecessors, only at a counter. `OrderInv` says what the counter means: it is
  the number of predecessors that were analysed and have been counted
  (`Arrived`), the current block's remaining successors (`Coming`) being those
  not yet counted. The step for `Arrive` is where `>=` on the counter becomes
  "all predecessors", by the cardinality of a subset; it needs that neither list
  names an edge twice. `PredecessorsAlwaysFirst` and `EachAnalysedOnce` follow:
  the popped label has not been visited, so `Visit` overwrites nothing.
- `SolutionCorrect`: `SolutionInv`, given `OrderInv`: each computed post is the
  effect of its pre, each pre covers the posts of its predecessors, a block whose
  predecessors have all arrived is queued or analysed, and a block not yet
  analysed still has the pre that the constructor gave it.
- `ResultAlwaysCertified`: when the analysis of an `Analysable` graph is done
  every block has been analysed (`AllAnalysed`: among those that were not, an
  acyclic graph has one without a predecessor among them, which would have been
  due), so the solution is a solution everywhere.
- `SatisfiedAlwaysSafe`: the certificate is carried along every execution.
  `Reachable` is a recursive function; that it is closed under the steps of the
  program follows from `Iteration`, for it can grow only as often as there are
  states of blocks.
- `InputsAlwaysFresh`: without `Orderly`, in every graph in which the two lists
  of edges agree, loops through the entry included. `RerunInv` replaces
  `OrderInv`: the counter is at least the number of arrivals, and a block whose
  predecessors were all analysed either covers their posts or is queued or about
  to be.
- `ImplementsDataFlow`: in an `Orderly` graph, in which the lists agree and no edge
  leads to the entry, every step is a `Solve`, a `Judge`, or stutters. That the
  list is empty only when nothing is solvable (`NoneLeft`) is `SolutionInv`: a
  block whose predecessors were all analysed is queued or analysed, and one
  without predecessors is neither.

### DataFlow (`DataFlowProofs`)

- `ValuesAlwaysExact`: `SolvedInv` says that the blocks that have a value are
  the entry and others with predecessors, all of which have values, that each
  has the value its predecessors give it, and that it holds only states an
  execution can be in. That it holds all of them is an induction over the
  executions, again by `Iteration`: nothing leads back to the entry, so an
  execution comes to a block only from one with a value.
- `VerdictsAlwaysExact`: from the same invariant. "The judging is over" is `Over`,
  a state predicate, and not `~ENABLED Next`, which the prover cannot expand. Of
  the blocks without a value, each but a dead source has a predecessor without
  one; in an acyclic graph such a chain ends, and it ends in a dead source
  (`DeadSources`, `BehindDead`), which is where the second half comes from.

### Cfg (`CfgProofs`)

For every set of programs of any length whose labels are ascending numbers
(`ProgsAssumption`). That `simplify` goes by the order of the strings makes no
difference to the invariants: each holds whichever label is next. The first two are
about the lists of edges, the next three about what the graph shows, the last about
what the analysis is given.

- `EdgesAlwaysAgree`: one invariant for each pass. `MakeInv` says of the graph
  under construction that an edge is as often in one list as in the other, and
  which lists of successors an instruction can have so far (`Shapes`): this is
  what shows that two equal successors are a jump to the fallthrough, the case
  the property leaves out. `NondetInv` says that each label already handled has
  the blocks `to_nondet` makes of it (`Converted`); edges between handled and
  unhandled labels do not agree in that pass, and that they do in the end
  (`NondetLinks`) is a case for each pair of an instruction or an edge with
  another. `SimplifyInv` says that the lists agree on the labels of the graph,
  that a block which is not among them is empty, and that no list names a label
  twice; `AbsorbLinked` shows that a merge keeps this, whatever the successors of
  the two blocks are, the blocks themselves included.
- `ChainsAlwaysReplaced`: `SimplifyInv` also says that no block which is behind
  the worklist could absorb its successor. A merge elsewhere changes neither the
  number of successors of such a block nor the number of predecessors of the next
  (`AbsorbChains`).
- `FlowAlwaysPreserved`, `ItemsAlwaysOnce` and `EntryAlwaysFirst`, for all
  programs, those with jumps to their own fallthrough included (the last for those
  without jumps to the first instruction): by
  `ExactInv`, which stands on the invariants above and adds the instructions.
  `MakeExact` says that `make` leaves each instruction alone in its block with all
  of its `Successors`, but for the one that the next instruction will add;
  `NondetExact` that `to_nondet` copies what is in the blocks (`Copied`) and keeps
  the first label first. After that the graph is compared with the moves of the
  program: `Home` is the block of a move, and `FinishedConnects` shows that the
  blocks lead from one to another as the moves do, through blocks with nothing in
  them. For simplify the invariant (`FlowInv`) is the properties themselves with
  `SimplifyExact`, which they need to be inductive: a successor must know its
  predecessor (`Named`), or the only predecessor that a merge removes could be one
  of several, and without jumps to the first instruction the block of the first
  label must have none, or it could be absorbed. `MergeAbsorbs` shows that a merge
  of two blocks is `Absorbs` of the graphs, and `AbsorbsFlow`, `AbsorbsFirst` and
  `AbsorbsHolds` that this keeps what follows what, what comes first and what is
  where.
- `AlwaysHandsOver`, for `Tame` programs, by `TameInv`, given the invariants above.
  `Forward` says that every edge leads to a label with a greater `Place`, an order
  in which the label `i:j` is between `i` and `j`, and that only the first block
  has no predecessor. It holds when `to_nondet` is done (`FinishedForward`),
  because jumps go forward and each instruction is reached by a move from another
  (`LiveArrives`), and a merge keeps it (`ForwardAbsorbed`): what follows the
  absorbed block is ahead of the other one too. When simplify is done `Linked`
  and `Forward` are all that `Analysable` needs: that `prevlist` repeats nothing
  follows from the agreement of the lists, and of any set of blocks the one with
  the least place comes after none of the others (`LeastFirst`). So there is no
  cycle, and every block is `Live`, for the least that is not would come after a
  block that is.
- `Flow` walks through blocks with nothing in them, a bounded iteration;
  `ThroughIsLeast` shows that the bound reaches every node, so that the proofs
  use the least set instead, by `Iteration`.

### SetDomains and Rcp (`RcpProofs`)

For all widths of words and ints (`WidthAssumption`), any number of maps
(`MapAssumption`) and any set of starting pairs in which the abstract value is
well formed and holds the real one (`StartsAssumption`).

- `ValuesAlwaysCovered`: by the invariant `Held`. `Covered` alone is not
  inductive: that a meet loses nothing needs sets of offsets in order
  (`IsValue`), which every operation keeps, and a real number must be a word
  (`IsReal`) for the casts to mean what the machine does. Sets of numbers may be
  out of order, since `OffsetMinus` sorts differences as signed and keeps them as
  words; the steps that would then go wrong are those that make `exact` false.
- What the loop of the three algorithms returns (`WalkEnds`) rests on an invariant
  of its turns: `Midway`, the positions and what is already out, and for vectors
  in order `Sorted`, `Meets` and `Misses`, that the heads are beyond everything
  put out. A union loses nothing in any order (`UnionFacts`), nor does a
  difference (`DifferenceFacts`); an intersection needs order for what it keeps
  (`IntersectionFacts`), a difference for what it leaves out.
- `JoinFacts`, `MeetFacts`, `ExecFacts`, `OffsetExecFacts`, `OffsetMinusFacts`
  and the `AssumeNum` lemmas say what each operation of a set domain gives;
  `JoinValue` to `AssumeValCovers` the same of `RCP_domain`; and one lemma for
  each action (`ExecKeeps` to `AssumeTypeKeeps`) that it keeps `Held`.
- `VerdictsAlwaysTrue`: from the same invariant. Nothing is taken away by the
  assumption that `satisfied` makes (`SatisfiedCompares`), so every element on the left
  compares with the one on the right; this needs both vectors in order.

### Machine and Extractor (`MachineProofs`)

For all of these again, and for every set of instructions, points, packets and
samples that `MachineAssumption` allows, every context and every size of the
stack. The module rests on the lemmas of `RcpProofs`.

- `RegistersAlwaysTyped`, `RegistersAlwaysCovered`: by the invariant `Tracked`.
  `RegistersCovered` alone is not inductive, for three reasons. A load of the
  field `end` of the context adds register 13 to the start of the packet, which
  covers the real end only if nothing is known of that register, and a bound
  against the end of the packet is assumed with it: `Tracked` says that no
  instruction writes it. Nor does one write register 10, the end of the stack.
  And a set that is marked top must have no elements (`IsTidy`), or a later
  operation on both parts contradicts itself.
- The assertions of an instruction are a list, made of lists by conditions and
  loops; `ExtractListed` says which set they are (`Asked`), kind by kind, and
  everything else is about the members of that set. `Means` says of an assertion
  what it demands of the real registers.
- `AssertionsAlwaysSuffice` (`TrackedSuffices`): one lemma for each kind of
  instruction (`ExitSuffices` to `CallSuffices`). `AccessIsSafe` is the heart:
  for each type that the pointer may have, the two bounds of `check_access` give
  an access within the memory of that type.
- An assertion that holds loses no execution when it is assumed (`AssertedGood`,
  `AssertedAllGood`): the value keeps the real one and its form, and the register
  of the packet's size is not changed. For a bound this is a fact about numbers
  that wrap around: what the code computes is `v - width - offset` in words, for
  a pointer cut to an `int`, and `GoodRight` shows it covers the true bound
  whenever that fits. `AskedSound` shows that it fits for every assertion the
  extractor makes.
- `ExecuteKeeps`: one lemma for each instruction (`BinKeeps` to `ReturnedKeeps`),
  after which one register has a new value that covers the real one, all those
  left are as they were after the assertions, and none else is left.
- `SatisfiedAlwaysHolds` (`TrackedSatisfied`): a bound of one number, compared
  with every element on the left, gives the comparison of the real numbers, if
  neither was changed when it was cut (`Fitting`).

Attempts that failed showed where the model said less than the code or too
much: two fields of a context at one offset (`DescriptorAssumption`), an
assertion against null on a vector of differences out of order (`NullInexact`),
an access below `meta` that the lower bound 0 lets through (`BelowMeta`), and an
operand that makes the code's arithmetic undefined where the machine's is not
(`BinUndefined`).

### ArrayExpansion (`ArrayProofs`)

For every size of the array, set of accesses and number of states, under
`ArrayAssumption` and `PairAssumption`.

- `CellsAlwaysApart`, `SearchAlwaysFinds`: the search walks from an offset up
  and down and stops at the first cell that does not overlap; that it misses
  none needs that the cells do not overlap each other, and this in turn that the
  search misses none when a cell is added. The two are one induction.
- `LoadsAlwaysCovered`: `Covering` says of every state and every possible cell,
  in the map or not, that its scalar covers what the bytes hold, unless the cell
  is on the list `stale` of those that an operation did not come to. Only with
  the cells that are not in the map is it inductive: an operation on another
  state can put a cell back. A meet that leaves a scalar without a value makes
  the state bottom; as something is always in the bytes, that scalar was on the
  list, and then all are (`SpreadCovers`). The proof attempt showed an error of the model: an
  operation on a state that is bottom returns at once (`is_bottom` in
  `array_expansion.hpp`), which `ArrayPair` now does too.

### Unmarshal (`UnmarshalProofs`)

For every width of `pc_t` and of immediates, and all programs whose slots a
`pc_t` can number, the one behind a wide last slot included (`Short`); with
more, the loop starts again at slot 0. `AlwaysFormed` needs no such bound.

- `TranslatedOnce`: `Walked` says that the labels follow one another by the size
  of their instructions and that the program counter is behind the last one.
- `JumpsAlwaysNoted`: `Passed` says that every slot behind the counter is the
  first or the second of an instruction, and `AllNoted` that the notes say what
  they should about each. A jump to a slot that is no label is then one to the
  second slot of a wide instruction, which must be a zero slot or be noted.
- `AlwaysDecodesBack`: `Sourced` says that every instruction of the program is
  what its slot is decoded to, and that the slot was not refused. `Written...`
  are the slots that `marshal` makes of each kind, as functions of the slot
  read; one lemma per kind shows that they are (`MemWritten`, `AluWritten`,
  `JmpWritten`, `WideWritten`) and one that decoding them gives the same
  instruction (`MemBack` to `WideBack`). A signed immediate comes back from its
  unsigned value (`SignedBack`) and a 64-bit one from its halves (`SplitMerged`).
- `AlwaysRoundTrip`: for a plain slot without notes the written slots are the
  slots read (`MemPlain` to `WidePlain`, one lemma per kind). The sizes that
  `get_labels` adds up are the labels (`FirstSlots`, by recursion on the number
  of instructions), the target of a jump is one of them by `JumpsLand`, and the
  distance to it is the offset it had (`DistanceBack`); the slots of the
  instructions then join to the program (`WritesBack`).
- `AlwaysFormed`: in every prototype of the table each pointer with a size is
  followed by the size, and no size stands alone (`SoundPrototype`, by the
  lists of arguments the table has). The loop of `makeCall` then starts a turn
  at every argument that is no size (`TurnsAre`), so that none of its assertions
  fails, and its vectors hold each argument once (`CollectedAre`, `CallForm`).
  `Formed` says that the calls of the program are those that `makeCall` makes.

### What stays with TLC

Liveness (`Termination` of `Cfg` and `Worklist`, the fairness half of the
refinement) and `ENABLED` are outside the prover's reach, and so is everything
about a RECURSIVE operator or one that takes an operator (`SelectSeq`, the folds);
recursive functions are not, as the theorems on `Reachable` and `Remaining` show.
Left to the model checker are also the invariants of `MemPair` and `CrabPair`,
whose models sort and fold lists as the code does, with operators that take an
operator.

Worth proving next: `TypeOK` of `MemPair` (the order of the cells), after its
lists are sorted by a recursive function, and then the type invariant of
`CrabPair`.

## Not modelled

- `asm_parse`, `asm_ostream`: regular expressions and wording. The parser tests a
  set of labels seen that nothing fills (`asm_parse.cpp:196`).
- `asm_files`: file formats through ELFIO. The number that stands for a map is
  made of its sizes (`asm_files.cpp:116`); `CrabPair` assumes sizes that fit.
- `linux_verifier`: two system calls. `main`: options and output.
- The Crab library, whose fixpoint and domains decide which assertions can fail:
  it is not in the repository. `crab_verifier.cpp` beyond its verdict prints.
- In `Crab`, the temporary of the width of the access through which a narrow load
  goes, and its sign extension (`crab_constraints.cpp:135`): what the extension
  does to a value that is outside the width is up to the domain of the library.
- In `Cfg`, which operator the opposite of a comparison is (`reverse`): an
  assumption is the condition or its negation.
- Privileged programs in `Crab`; `backward_array_store_range`, which meets the
  invariant of the point before the loop after each element, and the operations
  of `array_expansion_domain` that say "not implemented". That file is compiled
  only without `USE_ARRAY_ADAPTIVE` (`crab_domains.hpp:24`).
- `collect_stats` and other statistics; `spec_type_descriptors.hpp`, whose
  contexts are constants of the machine modules.
- `external/` is vendored; `counter/`, `scripts/` and `docker/` are samples and
  tools around the program.
- Several parts in one state space: the machine and its stack, and a whole
  program through graph, list and machine. `MachinePair` and `MemPair` divide the
  first where the code does (`Machine::load` asks `MemDom` and takes its answer);
  `Worklist` is right for every effect of a block, so the second adds nothing to
  `HandsOver` and `RegistersCovered` but size.
