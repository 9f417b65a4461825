--------------------------- MODULE DataStoreSchema ---------------------------
(***************************************************************************)
(* The layout of a ledger data store (support/datastore/schema.go): which  *)
(* ledgers share an object.  Sequence numbers are uint32; MaxUint32 is a    *)
(* constant so that TLC can use a small word.                               *)
(***************************************************************************)
EXTENDS Integers

CONSTANTS
    LedgersPerFile,   \* DataStoreSchema.LedgersPerFile
    MaxUint32         \* the largest sequence number, math.MaxUint32

ASSUME SchemaAssumption ==
    /\ LedgersPerFile \in Nat \ {0}
    /\ MaxUint32 \in Nat

Sequence == 0 .. MaxUint32

\* The first ledger of the object that holds ledgerSeq.
GetSequenceNumberStartBoundary(ledgerSeq) ==
    (ledgerSeq \div LedgersPerFile) * LedgersPerFile

\* The last ledger of the object that holds ledgerSeq, with a ceiling of MaxUint32.
GetSequenceNumberEndBoundary(ledgerSeq) ==
    LET end64 == GetSequenceNumberStartBoundary(ledgerSeq) + LedgersPerFile - 1
    IN  IF end64 > MaxUint32 THEN MaxUint32 ELSE end64

\* uint32 subtraction wraps around.
Sub32(a, b) == (a - b) % (MaxUint32 + 1)
==============================================================================
