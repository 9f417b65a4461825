------------------------ MODULE MCCheckpointReader ------------------------
(* CheckpointReader with a trustline-like key and an offer-like key. *)
EXTENDS CheckpointReader

MCKeys == {1, 2}
MCUniqueKeys == {2}
\* The live list, and the hot archive with a filter.
MCReaders == {[hot |-> FALSE, wanted |-> {1, 2}], [hot |-> TRUE, wanted |-> {1}]}
=============================================================================
