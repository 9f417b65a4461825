--------------------------- MODULE MCLedgerBuffer ---------------------------
(* LedgerBuffer with small constants: a bounded range that is not aligned with *)
(* the objects, and an unbounded one.                                          *)
EXTENDS LedgerBuffer, TLC

CONSTANTS w1, w2, w3

MCRanges == {[from |-> 3, to |-> 8, bounded |-> TRUE],
             [from |-> 4, to |-> 4, bounded |-> TRUE],
             [from |-> 2, to |-> 2, bounded |-> FALSE]}
Symmetry == Permutations(Workers)
=============================================================================
