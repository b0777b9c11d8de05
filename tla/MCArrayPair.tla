---------------------------- MODULE MCArrayPair ----------------------------
(* An array of four bytes, with accesses of one, two and four.               *)
EXTENDS ArrayPair, TLC

At(lo, hi) == [lo |-> lo, hi |-> hi]

MCSymmetry == Permutations(States) \cup Permutations(Values)

MCIndexes == {At(o, o) : o \in 0 .. 2} \cup {At(1, 2)}

MCRanges == {<<At(0, 0), At(1, 1)>>, <<At(0, 0), At(3, 3)>>, <<At(0, 0), At(1, 2)>>}

=============================================================================
