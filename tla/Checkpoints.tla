---------------------------- MODULE Checkpoints ----------------------------
(***************************************************************************)
(* CheckpointManager (historyarchive/range.go): history archives publish a  *)
(* checkpoint every CheckpointFrequency ledgers; the checkpoints are the    *)
(* ledgers one before a multiple of the frequency.                          *)
(***************************************************************************)
EXTENDS Integers

CONSTANT CheckpointFrequency   \* checkpointFreq, 64 on the public networks

ASSUME CheckpointAssumption == CheckpointFrequency \in Nat \ {0}

\* The checkpoint at or after ledger i.
NextCheckpoint(i) ==
    IF i = 0 THEN CheckpointFrequency - 1
    ELSE ((i + CheckpointFrequency) \div CheckpointFrequency) * CheckpointFrequency - 1

\* The checkpoint at or before ledger i, or else the first.
PrevCheckpoint(i) ==
    IF i < CheckpointFrequency THEN CheckpointFrequency - 1
    ELSE ((i + 1) \div CheckpointFrequency) * CheckpointFrequency - 1

GetCheckpoint(i) == NextCheckpoint(i)

\* The ledgers of the checkpoint of i; ledger 0 does not exist.
GetCheckpointRange(i) ==
    LET low == GetCheckpoint(i) - CheckpointFrequency + 1
    IN  [Low |-> IF low = 0 THEN 1 ELSE low, High |-> GetCheckpoint(i)]

MakeRange(low, high) ==
    [Low |-> PrevCheckpoint(low), High |-> NextCheckpoint(IF high < low THEN low ELSE high)]

\* A range that lies past the other one stays past it, with one checkpoint.
clamp(r, other) ==
    MakeRange(IF r.Low < other.Low THEN other.Low ELSE r.Low,
              IF r.High > other.High THEN other.High ELSE r.High)

GenerateCheckpoints(r) == {i \in r.Low..r.High : (i - r.Low) % CheckpointFrequency = 0}

SizeInCheckPoints(r) == 1 + (r.High - r.Low) \div CheckpointFrequency
=============================================================================
