---------------------------- MODULE MCRPCBackend ----------------------------
(* The RPC backend, with clients of its own or under a stream. *)
EXTENDS LedgerStream

\* A bounded range, and an unbounded one that starts late.
MCRanges == {[from |-> 2, to |-> 5, bounded |-> TRUE],
             [from |-> 3, to |-> 3, bounded |-> FALSE]}
=============================================================================
