--------------------------- MODULE OrderedLedgers ---------------------------
(***************************************************************************)
(* What a LedgerBackend promises its one reader                            *)
(* (ingest/ledgerbackend/ledger_backend.go): after PrepareRange the ledgers *)
(* of the range come one by one, starting with the first, none left out and *)
(* none out of turn; the ledger read last may be read again; a backend that *)
(* is closed is not prepared again.                                         *)
(***************************************************************************)
EXTENDS Integers

CONSTANTS
    Ranges,     \* the ranges a reader may ask for
    NoRange,    \* no range is prepared
    NoLedger    \* no ledger has been read since the last PrepareRange

VARIABLES
    range,      \* the prepared range
    last,       \* the ledger read last, or whose bytes could not be unmarshalled
    closed      \* Close has returned

abstractVars == <<range, last, closed>>

AbstractInit ==
    /\ range = NoRange
    /\ last = NoLedger
    /\ closed = FALSE

\* A new range; the ledgers of the old one are forgotten.
Prepare ==
    /\ ~closed
    /\ range' \in Ranges
    /\ last' = NoLedger
    /\ UNCHANGED closed

InRange(s) ==
    /\ s >= range.from
    /\ range.bounded => s <= range.to

\* The next ledger of the range.
Read ==
    /\ range # NoRange
    /\ last' = IF last = NoLedger THEN range.from ELSE last + 1
    /\ InRange(last')
    /\ UNCHANGED <<range, closed>>

Close ==
    /\ closed' = TRUE
    /\ UNCHANGED <<range, last>>

AbstractNext == Prepare \/ Read \/ Close

AbstractSpec == AbstractInit /\ [][AbstractNext]_abstractVars
=============================================================================
