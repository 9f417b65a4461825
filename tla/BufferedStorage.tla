--------------------------- MODULE BufferedStorage ---------------------------
(***************************************************************************)
(* ingest/ledgerbackend/buffered_storage_backend.go: the backend that reads *)
(* ledgers out of a data store through a ledgerBuffer.  One client          *)
(* goroutine calls PrepareRange and GetLedger; a second one may call Close  *)
(* at any time.  bsBackendLock is what keeps Close out of PrepareRange and  *)
(* lets it run beside GetLedger.                                            *)
(*                                                                          *)
(* GetLedger unmarshals a ledger after getLedgerRaw has moved the cursor;   *)
(* if that fails it returns an error and leaves the same state.  A ledger   *)
(* is therefore served here when getLedgerRaw has it: the caller has the    *)
(* ledger or the error, and may ask for the same sequence again.            *)
(***************************************************************************)
EXTENDS LedgerBuffer

CONSTANTS
    NoRange,     \* bsb.prepared is nil
    NoBatch,     \* bsb.batchBytes is nil
    NoLedger     \* no ledger was served since PrepareRange

ASSUME BackendAssumption ==
    /\ Ranges # {} /\ NoRange \notin Ranges
    /\ NoBatch \notin [start : Nat, end : Nat]
    /\ NoLedger \notin Nat

VARIABLES
    prepared,      \* bsb.prepared
    closed,        \* bsb.closed
    nextLedger,    \* bsb.nextLedger
    lastLedger,    \* bsb.lastLedger
    batch,         \* the loaded batch: batchStart and batchEnd, or NoBatch
    batchIndex,    \* bsb.batchIndex
    decoder,       \* the zstd decoder of the buffer: d.decoders is open, shut or nil
    stage,         \* where the client's call is
    target,        \* the range of the PrepareRange call
    request,       \* the sequence of the GetLedger call
    fetched,       \* the object GetLedger took from the queue
    closing,       \* where the call of Close is
    served         \* history: the ledger getLedgerRaw served last since PrepareRange

backendVars == <<prepared, closed, nextLedger, lastLedger, batch, batchIndex, decoder,
                 stage, target, request, fetched, closing, served>>
cursorVars == <<nextLedger, lastLedger, batchIndex, served>>
vars == <<bufferVars, backendVars>>

\* "idle": no call in progress; "release", "opening": in PrepareRange; "wait",
\* "refill", "decode": in GetLedger; "hung": in GetLedger for ever; "panic": the
\* process has crashed.
Stages == {"idle", "release", "opening", "wait", "refill", "decode", "hung", "panic"}
PrepareStages == {"release", "opening"}
Closing == {"off", "waiting", "draining", "decoderClosed", "done"}

AllExited == \A w \in Workers : pc[w] = "exited"
HasBuffer == prepared # NoRange
Running == stage # "panic"
-----------------------------------------------------------------------------
nextExpectedSequence ==
    IF nextLedger = 0 /\ prepared # NoRange THEN prepared.from ELSE nextLedger

\* Mutant: a request past the next ledger is not rejected.
ValidSequence_AnyLater(sequence) ==
    /\ ~closed
    /\ prepared # NoRange
    /\ sequence >= ledgerRange.from
    /\ ledgerRange.bounded => sequence <= ledgerRange.to
    /\ sequence >= lastLedger

\* validateSequence returns nil.
ValidSequence(sequence) ==
    /\ ~closed
    /\ prepared # NoRange
    /\ sequence >= ledgerRange.from
    /\ ledgerRange.bounded => sequence <= ledgerRange.to
    /\ sequence >= lastLedger
    /\ sequence <= nextExpectedSequence

isPrepared(r) ==
    /\ ~closed
    /\ prepared # NoRange
    /\ ledgerRange.from <= r.from
    /\ \/ ~ledgerRange.bounded
       \/ ledgerRange.bounded /\ r.bounded /\ ledgerRange.to >= r.to

\* The batch that object s decodes to.
BatchOf(s) == [start |-> GetSequenceNumberStartBoundary(s),
               end |-> GetSequenceNumberEndBoundary(s)]

\* A new backend: no buffer, so no worker runs.
Init ==
    /\ ledgerRange = CHOOSE r \in Ranges : TRUE
    /\ taskQueue = <<>> /\ ledgerQueue = <<>> /\ ledgerPriorityQueue = {}
    /\ currentLedger = 0 /\ nextTaskLedger = 0 /\ outstanding = 0
    /\ cause = "canceled"
    /\ pc = [w \in Workers |-> "exited"]
    /\ task = [w \in Workers |-> 0]
    /\ attempt = [w \in Workers |-> 0]
    /\ lastSize = 0 /\ filling = FALSE /\ nextDelivery = 0
    /\ published \in 0 .. LastPublished
    /\ prepared = NoRange /\ closed = FALSE
    /\ nextLedger = 0 /\ lastLedger = 0
    /\ batch = NoBatch /\ batchIndex = 0
    /\ decoder = "nil"
    /\ stage = "idle" /\ target = ledgerRange /\ request = 0 /\ fetched = 0
    /\ closing = "off"
    /\ served = NoLedger
-----------------------------------------------------------------------------
(* PrepareRange. *)

\* A range that is not prepared yet: drop the batch and close the old buffer.
PrepareRange(r) ==
    /\ stage = "idle"
    /\ closing \in {"off", "done"}
    /\ ~closed
    /\ ~isPrepared(r)
    /\ batch' = NoBatch
    /\ target' = r
    /\ stage' = "release"
    /\ CancelBuffer
    /\ UNCHANGED <<prepared, closed, cursorVars, decoder, request, fetched, closing>>

\* The old workers are gone (close waits for them): open the buffer for the range.
OpenNewBuffer ==
    /\ stage = "release"
    /\ AllExited
    /\ OpenBuffer(target)
    /\ decoder' = "open"
    /\ stage' = "opening"
    /\ UNCHANGED <<prepared, closed, cursorVars, batch, target, request, fetched, closing>>

\* The first replenish has returned, and so does PrepareRange.
RangePrepared ==
    /\ stage = "opening"
    /\ ~filling
    /\ prepared' = target
    /\ nextLedger' = target.from
    /\ served' = NoLedger
    /\ stage' = "idle"
    /\ UNCHANGED <<bufferVars, closed, lastLedger, batch, batchIndex, decoder, target, request,
                   fetched, closing>>
-----------------------------------------------------------------------------
(* GetLedger: getLedgerRaw and loadBatchForSequence.                        *)

\* Mutant: the index is not checked against the batch.
ServeFrom_NoIndexCheck(b, index, sequence) ==
    LET targetIndex == Sub32(sequence, b.start)
    IN  /\ served' = b.start + targetIndex
        /\ batchIndex' = Max(index, targetIndex + 1)
        /\ lastLedger' = nextLedger
        /\ nextLedger' = nextLedger + 1

\* Mutant: a repeated request advances the cursor too.
ServeFrom_AlwaysAdvance(b, index, sequence) ==
    LET targetIndex == Sub32(sequence, b.start)
    IN  IF targetIndex >= b.end - b.start + 1
        THEN batchIndex' = index /\ UNCHANGED <<nextLedger, lastLedger, served>>
        ELSE /\ served' = b.start + targetIndex
             /\ batchIndex' = targetIndex + 1
             /\ lastLedger' = nextLedger
             /\ nextLedger' = nextLedger + 1

\* The rest of getLedgerRaw once batch b is loaded and index ledgers of it are
\* consumed: the ledger is served, or its index is out of range.
ServeFrom(b, index, sequence) ==
    LET targetIndex == Sub32(sequence, b.start)
    IN  IF targetIndex >= b.end - b.start + 1
        THEN batchIndex' = index /\ UNCHANGED <<nextLedger, lastLedger, served>>
        ELSE /\ served' = b.start + targetIndex
             /\ IF targetIndex >= index
                THEN /\ batchIndex' = targetIndex + 1
                     /\ lastLedger' = nextLedger
                     /\ nextLedger' = nextLedger + 1
                ELSE batchIndex' = index /\ UNCHANGED <<nextLedger, lastLedger>>

\* The ledger is in the loaded batch.
GetLoadedLedger(sequence) ==
    /\ stage = "idle"
    /\ ValidSequence(sequence)
    /\ batch # NoBatch
    /\ sequence \in batch.start .. batch.end
    /\ ServeFrom(batch, batchIndex, sequence)
    /\ UNCHANGED <<bufferVars, prepared, closed, batch, decoder, stage, target, request, fetched,
                   closing>>

\* It is not, and not in an earlier one: the loaded batch goes back to the pool
\* and the call waits for the next object.
AwaitBatch(sequence) ==
    /\ stage = "idle"
    /\ ValidSequence(sequence)
    /\ batch # NoBatch => sequence > batch.end
    /\ batch' = NoBatch
    /\ request' = sequence
    /\ stage' = "wait"
    /\ UNCHANGED <<bufferVars, prepared, closed, cursorVars, decoder, target, fetched, closing>>

\* getFromLedgerQueue takes an object.
ReceiveBatch(size) ==
    /\ stage = "wait"
    /\ getFromLedgerQueue(size)
    /\ fetched' = Head(ledgerQueue)
    /\ stage' = "refill"
    /\ UNCHANGED <<prepared, closed, cursorVars, batch, decoder, target, request, closing>>

\* getFromLedgerQueue fails: the buffer is canceled, or the caller's context ends.
GiveUp ==
    /\ stage = "wait"
    /\ stage' = "idle"
    /\ UNCHANGED <<bufferVars, prepared, closed, cursorVars, batch, decoder, target, request,
                   fetched, closing>>

ReceiveCanceled == Canceled /\ GiveUp
ContextDone == ~Canceled /\ GiveUp

\* replenish has returned: DecodeAll takes a block, unless the decoder is closed.
StartDecode ==
    /\ stage = "refill"
    /\ ~filling
    /\ stage' = IF decoder # "nil" THEN "decode" ELSE "idle"
    /\ UNCHANGED <<bufferVars, prepared, closed, cursorVars, batch, decoder, target, request,
                   fetched, closing>>

\* DecodeAll gives its block back; the batch is decoded and installed, and the
\* ledger served from it.
DecodeBatch ==
    /\ stage = "decode"
    /\ decoder = "open"
    /\ batch' = BatchOf(fetched)
    /\ ServeFrom(BatchOf(fetched), 0, request)
    /\ stage' = "idle"
    /\ UNCHANGED <<bufferVars, prepared, closed, decoder, target, request, fetched, closing>>

\* The object is corrupt: no batch is installed.
DecodeError ==
    /\ stage = "decode"
    /\ decoder = "open"
    /\ stage' = "idle"
    /\ UNCHANGED <<bufferVars, prepared, closed, cursorVars, batch, decoder, target, request,
                   fetched, closing>>

\* The decoder is being closed while DecodeAll runs: taking or giving back a block
\* on the channel that is already closed panics.
DecodePanic ==
    /\ stage = "decode"
    /\ decoder = "shut"
    /\ stage' = "panic"
    /\ UNCHANGED <<bufferVars, prepared, closed, cursorVars, batch, decoder, target, request,
                   fetched, closing>>

\* The decoder was closed: DecodeAll gives its block back to a nil channel, which
\* blocks for ever, with the read lock held.
DecodeHang ==
    /\ stage = "decode"
    /\ decoder = "nil"
    /\ stage' = "hung"
    /\ UNCHANGED <<bufferVars, prepared, closed, cursorVars, batch, decoder, target, request,
                   fetched, closing>>
-----------------------------------------------------------------------------
(* Close, from another goroutine. *)

\* The read lock is free of PrepareRange; ledgerBuffer.close cancels the workers.
Close ==
    /\ closing = "off"
    /\ Running /\ stage \notin PrepareStages
    /\ IF HasBuffer
       THEN CancelBuffer /\ closing' = "waiting"
       ELSE UNCHANGED bufferVars /\ closing' = "decoderClosed"
    /\ UNCHANGED <<prepared, closed, cursorVars, batch, decoder, stage, target, request, fetched>>

\* The workers have exited: zstd.Decoder.Close closes the channel of its blocks,
CloseDecoder ==
    /\ Running /\ closing = "waiting"
    /\ AllExited
    /\ decoder' = "shut"
    /\ closing' = "draining"
    /\ UNCHANGED <<bufferVars, prepared, closed, cursorVars, batch, stage, target, request, fetched>>

\* drains it and sets it to nil.
DropDecoder ==
    /\ Running /\ closing = "draining"
    /\ decoder' = "nil"
    /\ closing' = "decoderClosed"
    /\ UNCHANGED <<bufferVars, prepared, closed, cursorVars, batch, stage, target, request, fetched>>

CloseReturns ==
    /\ Running /\ closing = "decoderClosed"
    /\ closed' = TRUE
    /\ closing' = "done"
    /\ UNCHANGED <<bufferVars, prepared, cursorVars, batch, decoder, stage, target, request, fetched>>
-----------------------------------------------------------------------------
ClientStep ==
    \/ OpenNewBuffer \/ RangePrepared
    \/ \E size \in BatchSizes : ReceiveBatch(size)
    \/ ReceiveCanceled
    \/ StartDecode \/ DecodeBatch \/ DecodeError \/ DecodePanic \/ DecodeHang

BackendCall ==
    \/ \E r \in Ranges : PrepareRange(r)
    \/ \E s \in Sequence : GetLoadedLedger(s) \/ AwaitBatch(s)
    \/ ContextDone
    \/ Close

\* The steps of the buffer's goroutines, and of the client inside replenish.
WorkerRuns(w) == Running /\ WorkerStep(w) /\ UNCHANGED backendVars
Replenish == Running /\ (PushTask \/ StopFilling) /\ UNCHANGED backendVars
ExporterRuns == Running /\ Publish /\ UNCHANGED backendVars

Next ==
    \/ ClientStep
    \/ BackendCall
    \/ CloseDecoder \/ DropDecoder \/ CloseReturns
    \/ Replenish
    \/ \E w \in Workers : WorkerRuns(w)
    \/ ExporterRuns

Spec == Init /\ [][Next]_vars

(* Fairness.  The Go scheduler runs every goroutine that can run, so a worker, *)
(* the client inside a call and a Close in progress do not stop where they can *)
(* go on.  A select that comes back to a ready case again and again picks it in *)
(* the end (it chooses at random), and sync.Mutex hands the lock to a waiting   *)
(* worker (starvation mode): strong fairness on SeeCancel and StoreObject.      *)
(* Nothing makes the client call again, the caller's context end, the exporter  *)
(* publish, or anybody call Close.                                              *)
Fairness ==
    /\ \A w \in Workers :
          /\ WF_vars(WorkerRuns(w))
          /\ SF_vars(Running /\ StoreObject(w) /\ UNCHANGED backendVars)
          /\ SF_vars(Running /\ SeeCancel(w) /\ UNCHANGED backendVars)
    /\ WF_vars(Replenish)
    /\ WF_vars(ClientStep)
    /\ WF_vars(CloseDecoder \/ DropDecoder \/ CloseReturns)

FairSpec == Spec /\ Fairness
-----------------------------------------------------------------------------
(* Properties. *)

\* Type invariant of the backend's own state (struct BufferedStorageBackend).
TypeOK ==
    /\ BufferTypeOK
    /\ prepared \in Ranges \cup {NoRange}
    /\ closed \in BOOLEAN
    /\ nextLedger \in Nat
    /\ lastLedger \in Nat
    /\ batch \in [start : Nat, end : Nat] \cup {NoBatch}
    /\ batchIndex \in 0 .. LedgersPerFile
    /\ decoder \in {"open", "shut", "nil"}
    /\ stage \in Stages
    /\ target \in Ranges
    /\ request \in Sequence
    /\ fetched \in Nat
    /\ closing \in Closing
    /\ served \in Nat \cup {NoLedger}

\* getLedgerRaw moves its cursor by lastLedger = nextLedger; nextLedger++, without
\* looking at the sequence it serves.  The cursor is still right: lastLedger is the
\* ledger served last and nextLedger the one after it, whatever calls failed,
\* timed out or were repeated before.
CursorFollowsServed ==
    served # NoLedger => lastLedger = served /\ nextLedger = served + 1

\* The backend gives its reader the ledgers of the prepared range in order, each
\* once (or the last one again): it implements the contract in OrderedLedgers.
Contract == INSTANCE OrderedLedgers WITH range <- prepared, last <- served
ServesInOrder == Contract!AbstractSpec

\* Why the two hold.  The cursor is the ledger after the one served last, or the
\* first of the prepared range.
CursorInv ==
    IF prepared = NoRange THEN served = NoLedger
    ELSE /\ nextLedger = IF served = NoLedger THEN prepared.from ELSE served + 1
         /\ served # NoLedger => lastLedger = served /\ served >= prepared.from

\* A call of PrepareRange and one of Close do not overlap, and between the calls the
\* buffer is the one of the prepared range.
CallInv ==
    /\ closed <=> closing = "done"
    /\ stage \in PrepareStages => closing = "off" /\ batch = NoBatch
    /\ prepared # NoRange /\ stage \notin PrepareStages => ledgerRange = prepared
    /\ stage = "opening" => ledgerRange = target
    /\ stage \in {"wait", "refill", "decode"} =>
         /\ prepared # NoRange /\ batch = NoBatch
         /\ request >= prepared.from /\ (prepared.bounded => request <= prepared.to)
         /\ request >= lastLedger /\ request <= nextLedger

\* The object that holds the ledger served last is not delivered again: a batch that
\* is fetched to serve it is refused, because its first ledger is a later one.
BatchInv ==
    /\ stage \in {"idle", "wait"} /\ served # NoLedger =>
         served < GetSequenceNumberStartBoundary(nextDelivery)
    /\ stage \in {"refill", "decode"} =>
         /\ nextDelivery = fetched + LedgersPerFile
         /\ served # NoLedger => served < GetSequenceNumberStartBoundary(fetched)
    /\ batch # NoBatch =>
         /\ batch.end <= MaxUint32
         /\ batch.end < batch.start + LedgersPerFile
         /\ batch.end < GetSequenceNumberStartBoundary(nextDelivery)
         /\ batchIndex = IF served # NoLedger /\ served >= batch.start
                         THEN served - batch.start + 1 ELSE 0

BackendInv == TypeOK /\ CursorInv /\ CallInv /\ BatchInv

\* Every call of GetLedger that waits for an object the data store has, and that
\* was not taken from the queue before, returns: the depth limit and the retries
\* never leave the dispatcher, the workers and the client waiting for each other.
GetLedgerReturns ==
    (/\ stage = "wait"
     /\ GetSequenceNumberStartBoundary(nextDelivery) <= request
     /\ Exists(nextDelivery)) ~> stage # "wait"

\* Close waits for the workers with the read lock held; they always exit.
CloseFinishes == closing = "waiting" ~> closing # "waiting"

\* Once Close is called it interrupts a GetLedger that waits for an object or
\* dispatches tasks to workers that are gone.  One that has begun to decompress is
\* what CloseIsThreadSafe is about.
CloseInterrupts ==
    (closing # "off" /\ stage \in {"wait", "refill"}) ~> stage \notin {"wait", "refill"}

\* What the comment of Close says ("Close is thread-safe and can be called from
\* another go routine"): a Close beside a GetLedger neither crashes the process nor
\* leaves the call blocked for ever.
CloseIsThreadSafe == stage \notin {"panic", "hung"}
=============================================================================
