---------------------------- MODULE ChangeReader ----------------------------
(***************************************************************************)
(* ingest/ledger_change_reader.go and ledger_transaction_reader.go: the    *)
(* LedgerChangeReader walks through the transactions of a ledger three     *)
(* times, for the fees, the transactions' own changes and the refunds, and *)
(* then through the upgrades.  It is the input of the compacting reader of *)
(* ChangeCompactor.                                                        *)
(*                                                                         *)
(* A ledger is given by how many changes it has where; what the changes    *)
(* are, ChangeCompactor chooses when they are read.  Read is recursive; a  *)
(* step here is one turn of it.                                            *)
(***************************************************************************)
EXTENDS ChangeCompactor, Sequences, SequencesExt

CONSTANTS
    Ledgers   \* the ledgers: for each state of the reader, the numbers of changes of
              \* the transactions or upgrades; unknown, the transactions without an
              \* envelope; unsupported, the ones with meta that cannot be read

TransactionStates == {"feeChanges", "metaChanges", "postTxApply"}

ASSUME LedgersAssumption ==
    \A l \in Ledgers :
       /\ \A s \in TransactionStates :
             l[s] \in Seq(Nat) /\ Len(l[s]) = Len(l.feeChanges)
       /\ l.upgradeChanges \in Seq(Nat)
       /\ l.unknown \cup l.unsupported \subseteq DOMAIN l.feeChanges

VARIABLES
    lcm,            \* the ledger
    state,          \* r.state
    readIdx,        \* LedgerTransactionReader.readIdx
    upgradeIndex,   \* r.upgradeIndex
    pending,        \* r.pending
    pendingIndex,   \* r.pendingIndex
    readerClosed,   \* Close was called: there are no envelopes any more
    returned        \* history: the changes Read has returned

walkVars == <<state, readIdx, upgradeIndex>>
readerVars == <<lcm, walkVars, pending, pendingIndex, readerClosed, returned>>

ReaderInit ==
    /\ Init
    /\ lcm \in Ledgers
    /\ state = "feeChanges" /\ readIdx = 0 /\ upgradeIndex = 0
    /\ pending = <<>> /\ pendingIndex = 0
    /\ readerClosed = FALSE /\ returned = <<>>

CountTransactions == Len(lcm.feeChanges)

\* The changes of transaction or upgrade i.
ChangesOf(s, i) == [j \in 1 .. lcm[s][i] |-> <<s, i, j>>]
-----------------------------------------------------------------------------
\* Pending changes are returned first, here to the compactor.
ReadPending ==
    /\ ~compacted /\ pendingIndex < Len(pending)
    /\ returned' = Append(returned, pending[pendingIndex + 1])
    /\ IF pendingIndex + 1 = Len(pending)
       THEN pendingIndex' = 0 /\ pending' = <<>>
       ELSE pendingIndex' = pendingIndex + 1 /\ UNCHANGED pending
    /\ \E k \in Keys, t \in ChangeTypes, v \in Values :
          ReadChange(k, t, v) \/ ReadCorruptChange(k, t, v)
    /\ UNCHANGED <<lcm, walkVars, readerClosed>>

NothingPending == ~compacted /\ pendingIndex >= Len(pending)

\* A transaction is read, or an error is returned in its place.
ReadTransaction ==
    /\ NothingPending /\ state # "upgradeChanges" /\ readIdx < CountTransactions
    /\ readIdx' = readIdx + 1
    /\ IF \/ readerClosed \/ readIdx' \in lcm.unknown
          \/ state = "metaChanges" /\ readIdx' \in lcm.unsupported
       THEN CompactFails /\ UNCHANGED <<now, count, pending>>
       ELSE pending' = pending \o ChangesOf(state, readIdx') /\ UNCHANGED vars
    /\ UNCHANGED <<lcm, state, upgradeIndex, pendingIndex, readerClosed, returned>>

\* Mutant: the transactions are not rewound for the refunds.
EndOfTransactions_OneRewind ==
    /\ NothingPending /\ state # "upgradeChanges" /\ readIdx >= CountTransactions
    /\ IF state = "feeChanges" THEN readIdx' = 0 ELSE UNCHANGED readIdx
    /\ state' = CASE state = "feeChanges" -> "metaChanges"
                  [] state = "metaChanges" -> "postTxApply"
                  [] state = "postTxApply" -> "upgradeChanges"
    /\ UNCHANGED <<vars, lcm, upgradeIndex, pending, pendingIndex, readerClosed, returned>>

\* The transactions are rewound for the next state.
EndOfTransactions ==
    /\ NothingPending /\ state # "upgradeChanges" /\ readIdx >= CountTransactions
    /\ IF state # "postTxApply" THEN readIdx' = 0 ELSE UNCHANGED readIdx
    /\ state' = CASE state = "feeChanges" -> "metaChanges"
                  [] state = "metaChanges" -> "postTxApply"
                  [] state = "postTxApply" -> "upgradeChanges"
    /\ UNCHANGED <<vars, lcm, upgradeIndex, pending, pendingIndex, readerClosed, returned>>

ReadUpgrade ==
    /\ NothingPending /\ state = "upgradeChanges" /\ upgradeIndex < Len(lcm.upgradeChanges)
    /\ upgradeIndex' = upgradeIndex + 1
    /\ pending' = pending \o ChangesOf(state, upgradeIndex')
    /\ UNCHANGED <<vars, lcm, state, readIdx, pendingIndex, readerClosed, returned>>

\* io.EOF
EndOfLedger ==
    /\ NothingPending /\ state = "upgradeChanges" /\ upgradeIndex >= Len(lcm.upgradeChanges)
    /\ EndOfInput
    /\ UNCHANGED readerVars

\* Close, for once too early: compact goes on if Read is called again.
CloseReader ==
    /\ ~readerClosed
    /\ readerClosed' = TRUE /\ pending' = <<>>
    /\ UNCHANGED <<vars, lcm, walkVars, pendingIndex, returned>>

\* The compacted changes are read.
ReadCompacted == (\E k \in Keys : Read(k)) /\ UNCHANGED readerVars

ReaderNext ==
    \/ ReadPending \/ ReadTransaction \/ EndOfTransactions \/ ReadUpgrade \/ EndOfLedger
    \/ CloseReader \/ ReadCompacted

ReaderSpec == ReaderInit /\ [][ReaderNext]_<<vars, readerVars>>
-----------------------------------------------------------------------------
(* Properties. *)

States == TransactionStates \cup {"upgradeChanges"}
Rank == [feeChanges |-> 1, metaChanges |-> 2, postTxApply |-> 3, upgradeChanges |-> 4]

\* A transaction that fails in a state contributes nothing in it.
Fails(s, i) ==
    s # "upgradeChanges" /\ (i \in lcm.unknown \/ (s = "metaChanges" /\ i \in lcm.unsupported))

\* All changes of the ledger, and the order the comment of Read gives them.
LedgerChanges ==
    UNION {UNION {IF Fails(s, i) THEN {} ELSE {<<s, i, j>> : j \in 1 .. lcm[s][i]} :
                    i \in DOMAIN lcm[s]} : s \in States}

Before(c, d) ==
    \/ Rank[c[1]] < Rank[d[1]]
    \/ c[1] = d[1] /\ (c[2] < d[2] \/ (c[2] = d[2] /\ c[3] < d[3]))

(***************************************************************************)
(* "fee changes of all transactions, transaction meta changes of all       *)
(* transactions, post tx apply fee changes for all transactions, upgrade   *)
(* changes": the reader returns every change of the ledger once and in     *)
(* this order, passing none over, through all rewinds, also for ledgers    *)
(* without transactions and transactions without changes.  A Read that     *)
(* fails costs the changes of the one transaction it failed at, and no     *)
(* other.                                                                  *)
(***************************************************************************)
ReadsEachChangeOnce ==
    ~readerClosed =>
        /\ \A a, b \in DOMAIN returned : a < b => Before(returned[a], returned[b])
        /\ ToSet(returned) \subseteq LedgerChanges
        /\ \A c \in LedgerChanges :
              compacted \/ (\E d \in ToSet(returned) : Before(c, d)) => c \in ToSet(returned)

\* Where the reader is, and that it has returned what lies before that place.
Position == IF state = "upgradeChanges" THEN upgradeIndex ELSE readIdx
Passed(c) ==
    \/ Rank[c[1]] < Rank[state]
    \/ c[1] = state /\ (c[2] < Position \/ (c[2] = Position /\ (pending = <<>> \/ c[3] <= pendingIndex)))

PlaceInv ==
    /\ state \in States /\ upgradeIndex \in Nat /\ readIdx \in Nat /\ pendingIndex \in Nat
    /\ Position \in 0 .. Len(lcm[state])
    /\ state # "upgradeChanges" => upgradeIndex = 0
    /\ \/ pending = <<>> /\ pendingIndex = 0
       \/ /\ Position # 0 /\ ~Fails(state, Position)
          /\ pending = ChangesOf(state, Position) /\ pendingIndex < Len(pending)
    /\ compacted => state = "upgradeChanges" /\ Position = Len(lcm[state]) /\ pending = <<>>

ReturnedInv ==
    /\ returned \in Seq(LedgerChanges)
    /\ \A a, b \in DOMAIN returned : a < b => Before(returned[a], returned[b])
    /\ ToSet(returned) = {c \in LedgerChanges : Passed(c)}

ReaderInv == lcm \in Ledgers /\ (~readerClosed => PlaceInv /\ ReturnedInv)
=============================================================================
