--------------------------- MODULE MCArchiveTools ---------------------------
(* ArchiveTools for an archive of two checkpoints that share a bucket. *)
EXTENDS ArchiveTools, TLC

CONSTANTS w1, w2

MCChks == {63, 127, 191}
MCBucketsOf == (63 :> <<1, 2>>) @@ (127 :> <<2>>) @@ (191 :> <<>>)
MCSrcGaps == {{}, {<<"ledger", 127>>}, {<<"bucket", 2>>, <<"scp", 63>>}}
\* A HAS and a bucket only it refers to, a bucket, an optional file.
MCDstGaps == {{<<"history", 63>>, <<"bucket", 1>>}, {<<"bucket", 2>>, <<"scp", 63>>}}
Option(low, high, names) ==
    [Concurrency |-> IF "idle" \in names THEN {} ELSE Workers, Range |-> [Low |-> low, High |-> high],
     DryRun |-> "dry-run" \in names, Force |-> "force" \in names, Verify |-> "verify" \in names,
     Thorough |-> "thorough" \in names, SkipOptional |-> "skip-optional" \in names]
MCOptions == {Option(63, 191, {}), Option(127, 191, {"force", "skip-optional"}),
              Option(63, 63, {"verify", "skip-optional"}),
              Option(63, 63, {"verify", "thorough", "skip-optional"}),
              Option(63, 191, {"dry-run", "skip-optional"}), Option(63, 127, {"idle", "skip-optional"})}
Symmetry == Permutations(Workers)
=============================================================================
