------------------------- MODULE MCBufferedStorage -------------------------
(* BufferedStorage with small constants. *)
EXTENDS BufferedStorage, TLC

CONSTANTS w1, w2

\* An aligned bounded range, one below it, and an unbounded one in between.
MCRanges == {[from |-> 4, to |-> 6, bounded |-> TRUE],
             [from |-> 2, to |-> 3, bounded |-> TRUE],
             [from |-> 3, to |-> 3, bounded |-> FALSE]}
\* One range for the temporal properties.
MCUnbounded == {[from |-> 3, to |-> 3, bounded |-> FALSE]}
MCBounded == {[from |-> 3, to |-> 5, bounded |-> TRUE]}
MCTwo == MCUnbounded \cup MCBounded
Symmetry == Permutations(Workers)
=============================================================================
