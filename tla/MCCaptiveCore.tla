--------------------------- MODULE MCCaptiveCore ---------------------------
(* CaptiveCore with small constants: checkpoints every four ledgers. *)
EXTENDS CaptiveCore

Bounded(a, b) == [from |-> a, to |-> b, bounded |-> TRUE]
Unbounded(a) == [from |-> a, to |-> a, bounded |-> FALSE]

MCRanges == {Bounded(5, 6), Unbounded(5)}
MCLive == {Bounded(2, 3), Unbounded(2)}
=============================================================================
