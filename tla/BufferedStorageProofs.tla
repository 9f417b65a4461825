------------------------ MODULE BufferedStorageProofs ------------------------
(***************************************************************************)
(* Proofs about BufferedStorage, for every number of workers, buffer size,  *)
(* object size and set of ranges: the buffer's guarantees survive a new     *)
(* PrepareRange and a Close, and the backend implements OrderedLedgers.     *)
(***************************************************************************)
EXTENDS BufferedStorage, LedgerBufferProofs

(* The buffer under the backend. *)

(* A buffer that has dispatched nothing: a new one, or none at all. *)
EmptyBuffer ==
    /\ BufferTypeOK
    /\ taskQueue = <<>> /\ ledgerQueue = <<>> /\ ledgerPriorityQueue = {}
    /\ nextTaskLedger = nextDelivery /\ currentLedger = nextDelivery
    /\ outstanding = 0
    /\ \A w \in Workers : pc[w] \in {"idle", "exited"}

(* The invariants of the buffer. *)
PipelineInv == BufferTypeOK /\ OrderInv /\ HeldInv /\ DepthInv

(* They hold of an empty buffer. *)
LEMMA EmptyPipeline == EmptyBuffer => PipelineInv
<1> SUFFICES ASSUME EmptyBuffer PROVE PipelineInv
  OBVIOUS
<1>1. \A w \in Workers : pc[w] \notin Carrying /\ pc[w] \notin Locking /\ pc[w] # "advance"
  BY DEF EmptyBuffer, Carrying, Locking
<1>2. OrderInv
  BY <1>1 DEF EmptyBuffer, OrderInv, MutualExclusion, DeliveredInOrder, AwaitedNext, SomeoneAdvances,
              Locking
<1>3. HeldInv
  BY <1>1, HeldInitially DEF EmptyBuffer, BufferTypeOK
<1>4. DepthInv
  <2>1. Busy = {} /\ Len(taskQueue) = 0 /\ Len(ledgerQueue) = 0
    BY <1>1 DEF EmptyBuffer, Busy
  <2>2. LocalBufferSize(ledgerRange) \in Nat
    BY BufferSizeIsNat DEF EmptyBuffer, BufferTypeOK
  <2> QED
    BY <2>1, <2>2, FS_EmptySet DEF EmptyBuffer, DepthInv, DepthBounded
<1> QED
  BY <1>2, <1>3, <1>4 DEF PipelineInv, EmptyBuffer

(* newLedgerBuffer makes an empty buffer. *)
LEMMA OpenedEmpty ==
    ASSUME BufferTypeOK, NEW r \in Ranges, OpenBuffer(r)
    PROVE  EmptyBuffer'
<1>1. r.from \in Nat
  BY RangeIsNat
<1>2. /\ pc' \in [Workers -> PCs] /\ task' \in [Workers -> Nat]
      /\ attempt' \in [Workers -> 0 .. RetryLimit]
      /\ \A w \in Workers : pc'[w] \in {"idle", "exited"}
  BY <1>1, BufferAssumption DEF OpenBuffer, PCs
<1>3. /\ taskQueue' \in Seq(Nat) /\ ledgerQueue' \in Seq(Nat) /\ ledgerPriorityQueue' \in SUBSET Nat
      /\ filling' \in BOOLEAN /\ cause' \in Causes
  BY DEF OpenBuffer, Causes
<1>4. BufferTypeOK'
  BY <1>1, <1>2, <1>3 DEF OpenBuffer, BufferTypeOK
<1> QED
  BY <1>2, <1>4 DEF OpenBuffer, EmptyBuffer

(* What a step of the backend is for the buffer: a step of its own, or a new buffer. *)
LEMMA BufferUnderBackend ==
    ASSUME TypeOK, [Next]_vars
    PROVE  [BufferNext]_bufferVars \/ OpenBuffer(target)
<1>1. CASE ClientStep
  <2>1. CASE OpenNewBuffer
    BY <2>1 DEF OpenNewBuffer
  <2>2. ASSUME NEW size \in BatchSizes, ReceiveBatch(size) PROVE BufferNext
    BY <2>2 DEF ReceiveBatch, BufferNext
  <2>3. CASE \/ RangePrepared \/ ReceiveCanceled \/ StartDecode
             \/ DecodeBatch \/ DecodeError \/ DecodePanic \/ DecodeHang
    BY <2>3 DEF RangePrepared, ReceiveCanceled, GiveUp, StartDecode, DecodeBatch, DecodeError,
                DecodePanic, DecodeHang
  <2> QED
    BY <1>1, <2>1, <2>2, <2>3 DEF ClientStep
<1>2. CASE BackendCall
  BY <1>2 DEF BackendCall, PrepareRange, GetLoadedLedger, AwaitBatch, ContextDone, GiveUp, Close,
              BufferNext
<1>3. CASE CloseDecoder \/ DropDecoder \/ CloseReturns
  BY <1>3 DEF CloseDecoder, DropDecoder, CloseReturns
<1>4. CASE Replenish \/ (\E w \in Workers : WorkerRuns(w)) \/ ExporterRuns
  BY <1>4 DEF Replenish, WorkerRuns, ExporterRuns, BufferNext
<1>5. CASE UNCHANGED vars
  BY <1>5 DEF vars
<1> QED
  BY <1>1, <1>2, <1>3, <1>4, <1>5 DEF Next

(* So the buffer's invariants hold through every call of the backend. *)
LEMMA PipelineStep == TypeOK /\ PipelineInv /\ [Next]_vars => PipelineInv'
<1>1. EmptyBuffer' => PipelineInv'
  BY EmptyPipeline, PTL
<1> SUFFICES ASSUME TypeOK, PipelineInv, [Next]_vars PROVE PipelineInv'
  OBVIOUS
<1>2. CASE [BufferNext]_bufferVars
  BY <1>2, TypeStep, OrderStep, HeldStep, DepthStep DEF PipelineInv
<1>3. CASE OpenBuffer(target)
  BY <1>1, <1>3, OpenedEmpty DEF PipelineInv, TypeOK
<1> QED
  BY <1>2, <1>3, BufferUnderBackend
-----------------------------------------------------------------------------
(* Objects and the ledgers in them. *)

(* The quotient of a division is unique. *)
LEMMA QuotientUnique ==
    ASSUME NEW n \in Nat \ {0}, NEW p \in Int, NEW q \in Int, NEW r \in 0 .. n - 1,
           NEW t \in 0 .. n - 1, n * p + r = n * q + t
    PROVE  p = q
<1>1. /\ n * p \in Int /\ n * q \in Int
      /\ n * (p - q) = n * p - n * q /\ n * (q - p) = n * q - n * p
  BY Distribute
<1>2. CASE p - q >= 1
  <2>1. n * (p - q) >= n
    BY <1>2, MultipleIsFar
  <2> QED
    BY <1>1, <2>1
<1>3. CASE q - p >= 1
  <2>1. n * (q - p) >= n
    BY <1>3, MultipleIsFar
  <2> QED
    BY <1>1, <2>1
<1> QED
  BY <1>2, <1>3

(* The objects follow one another: the next one starts LedgersPerFile later. *)
LEMMA NextObject ==
    ASSUME NEW s \in Nat
    PROVE  /\ GetSequenceNumberStartBoundary(s) \in Nat
           /\ GetSequenceNumberStartBoundary(s + LedgersPerFile)
                = GetSequenceNumberStartBoundary(s) + LedgersPerFile
<1> DEFINE n == LedgersPerFile
<1>0. n \in Nat \ {0}
  BY SchemaAssumption
<1> HIDE DEF n
<1>1. /\ s = n * (s \div n) + (s % n) /\ s % n \in 0 .. n - 1 /\ s \div n \in Int
      /\ s + n = n * ((s + n) \div n) + ((s + n) % n) /\ (s + n) % n \in 0 .. n - 1
      /\ (s + n) \div n \in Int
  <2>1. s \in Int /\ s + n \in Int
    BY <1>0
  <2> QED
    BY <1>0, <2>1, DivMod
<1>2. n * ((s \div n) + 1) = n * (s \div n) + n
  BY <1>0, <1>1, Distribute
<1>3. n * ((s \div n) + 1) + (s % n) = n * ((s + n) \div n) + ((s + n) % n)
  BY <1>0, <1>1, <1>2
<1>4. (s + n) \div n = (s \div n) + 1
  <2>1. (s \div n) + 1 \in Int
    BY <1>1
  <2> QED
    BY <1>0, <1>1, <1>3, <2>1, QuotientUnique
<1>5. ((s \div n) + 1) * n = (s \div n) * n + n
  BY <1>0, <1>1
<1>6. (s \div n) * n \in Nat
  <2>1. s \div n \in Nat
    BY <1>0
  <2> QED
    BY <1>0, <2>1
<1> QED
  BY <1>4, <1>5, <1>6 DEF GetSequenceNumberStartBoundary, n

(* A batch is one object: at most LedgersPerFile ledgers, none past the last one *)
(* there is.                                                                     *)
LEMMA BatchParts ==
    ASSUME NEW s \in Nat
    PROVE  /\ BatchOf(s) \in [start : Nat, end : Nat]
           /\ BatchOf(s).start = GetSequenceNumberStartBoundary(s)
           /\ BatchOf(s).end <= MaxUint32
           /\ BatchOf(s).end < BatchOf(s).start + LedgersPerFile
           /\ BatchOf(s).end < GetSequenceNumberStartBoundary(s + LedgersPerFile)
<1>1. /\ GetSequenceNumberStartBoundary(s) \in Nat
      /\ GetSequenceNumberStartBoundary(s + LedgersPerFile)
           = GetSequenceNumberStartBoundary(s) + LedgersPerFile
  BY NextObject
<1>2. /\ GetSequenceNumberEndBoundary(s) \in Nat
      /\ GetSequenceNumberEndBoundary(s) <= MaxUint32
      /\ GetSequenceNumberEndBoundary(s) < GetSequenceNumberStartBoundary(s) + LedgersPerFile
  BY <1>1, BoundaryIsNat, SchemaAssumption DEF GetSequenceNumberEndBoundary
<1> QED
  BY <1>1, <1>2 DEF BatchOf

(* uint32 subtraction: where the index of a ledger is inside the batch, the ledger *)
(* is; a ledger before the batch wraps around to an index past its end.            *)
LEMMA IndexInBatch ==
    ASSUME NEW b \in [start : Nat, end : Nat], b.end <= MaxUint32,
           NEW s \in Sequence, ~(Sub32(s, b.start) >= b.end - b.start + 1)
    PROVE  /\ s >= b.start /\ s <= b.end
           /\ Sub32(s, b.start) = s - b.start
<1> DEFINE n == MaxUint32 + 1
           d == s - b.start
<1>1. n \in Nat \ {0} /\ d \in Int /\ s \in Nat /\ s < n
  BY SchemaAssumption DEF Sequence
<1>2. Sub32(s, b.start) = d % n
  BY DEF Sub32
<1> HIDE DEF n, d
<1>3. d = n * (d \div n) + (d % n) /\ d % n \in 0 .. n - 1 /\ d \div n \in Int
  BY <1>1, DivMod
<1>4. d % n < b.end - b.start + 1
  BY <1>1, <1>2, <1>3
<1>5. b.start < n /\ b.end < n /\ b.start \in Nat /\ b.end \in Nat
  <2>1. b.start \in Nat /\ b.end \in Nat /\ b.end < n
    BY SchemaAssumption DEF n
  <2> QED
    BY <1>1, <1>3, <1>4, <2>1
<1>d. d = s - b.start
  BY DEF d
<1>6. CASE d >= 0
  <2>1. d % n = d
    <3>1. d \in Nat /\ d < n
      BY <1>1, <1>5, <1>6, <1>d
    <3> QED
      BY <1>1, <3>1
  <2> QED
    BY <1>1, <1>2, <1>4, <1>5, <1>6, <1>d, <2>1
<1>7. CASE d < 0
  <2>1. PICK m \in Int : m = 0 - 1
    OBVIOUS
  <2>2. d + n \in 0 .. n - 1 /\ n * (d \div n) + (d % n) = n * m + (d + n)
    <3>1. n * m = 0 - n
      BY <1>1, <2>1
    <3>2. d = n * m + (d + n)
      BY <1>1, <3>1
    <3>3. d + n \in 0 .. n - 1
      BY <1>1, <1>5, <1>7, <1>d
    <3> QED
      BY <1>3, <3>2, <3>3
  <2>3. d \div n = m
    BY <1>1, <1>3, <2>2, QuotientUnique
  <2>4. d % n = d + n
    <3>1. n * m \in Int /\ n * m + (d % n) = n * m + (d + n)
      BY <1>1, <2>2, <2>3
    <3>2. d % n \in Int /\ d + n \in Int
      BY <1>1, <1>3
    <3>3. \A k, x, y \in Int : k + x = k + y => x = y
      OBVIOUS
    <3> QED
      BY <3>1, <3>2, <3>3
  <2> QED
    BY <1>1, <1>4, <1>5, <1>d, <2>4
<1> QED
  BY <1>1, <1>6, <1>7
-----------------------------------------------------------------------------
(* The backend's own invariant. *)

(* A new backend satisfies it, and has no buffer. *)
LEMMA BackendInitially == Init => BackendInv /\ EmptyBuffer
<1> SUFFICES ASSUME Init PROVE BackendInv /\ EmptyBuffer
  OBVIOUS
<1> USE DEF Init
<1>1. ledgerRange \in Ranges
  BY BackendAssumption
<1>2. BufferTypeOK
  <2>1. /\ pc \in [Workers -> PCs] /\ task \in [Workers -> Nat]
        /\ attempt \in [Workers -> 0 .. RetryLimit]
    BY BufferAssumption DEF PCs
  <2>2. /\ taskQueue \in Seq(Nat) /\ ledgerQueue \in Seq(Nat) /\ ledgerPriorityQueue \in SUBSET Nat
        /\ cause \in Causes
    BY DEF Causes
  <2>3. filling \in BOOLEAN
    OBVIOUS
  <2>4. published \in Nat
    <3>1. LastPublished \in Nat
      BY BufferAssumption
    <3> QED
      BY <3>1
  <2> QED
    BY <1>1, <2>1, <2>2, <2>3, <2>4 DEF BufferTypeOK
<1>3. EmptyBuffer
  BY <1>2 DEF EmptyBuffer
<1>4. TypeOK
  <2>1. 0 \in Sequence /\ 0 \in 0 .. LedgersPerFile
    BY SchemaAssumption DEF Sequence
  <2>2. closed \in BOOLEAN /\ decoder \in {"open", "shut", "nil"}
    OBVIOUS
  <2> QED
    BY <1>1, <1>2, <2>1, <2>2 DEF TypeOK, Stages, Closing
<1>5. CursorInv /\ CallInv /\ BatchInv
  BY DEF CursorInv, CallInv, BatchInv, PrepareStages
<1> QED
  BY <1>3, <1>4, <1>5 DEF BackendInv

(* Steps of the buffer's goroutines, of replenish and of the exporter leave alone *)
(* all that the backend's invariant speaks of.                                    *)
LEMMA GoroutinesFrame ==
    ASSUME PushTask \/ StopFilling \/ Publish \/ \E w \in Workers : WorkerStep(w)
    PROVE  UNCHANGED <<ledgerRange, nextDelivery>>
<1>1. ASSUME NEW w \in Workers, WorkerStep(w) PROVE UNCHANGED <<ledgerRange, nextDelivery>>
  BY <1>1 DEF WorkerStep, TakeTask, DownloadOk, DownloadNotFound, DownloadError, WakeUp, SeeCancel,
              StoreObject, SendObject, AdvanceCurrent, Goto
<1> QED
  BY <1>1 DEF PushTask, StopFilling, Publish

(* What getLedgerRaw does once a batch is there: it refuses the ledger, serves a *)
(* new one, or serves one of the batch again.                                    *)
LEMMA ServeCases ==
    ASSUME TypeOK, NEW b \in [start : Nat, end : Nat], NEW index, NEW s \in Sequence,
           b.end <= MaxUint32, ServeFrom(b, index, s)
    PROVE  \/ batchIndex' = index /\ UNCHANGED <<nextLedger, lastLedger, served>>
           \/ /\ s >= b.start /\ s <= b.end /\ served' = s
              /\ s - b.start >= index /\ batchIndex' = s - b.start + 1
              /\ lastLedger' = nextLedger /\ nextLedger' = nextLedger + 1
           \/ /\ s >= b.start /\ s <= b.end /\ served' = s
              /\ ~(s - b.start >= index) /\ batchIndex' = index
              /\ UNCHANGED <<nextLedger, lastLedger>>
<1>1. CASE Sub32(s, b.start) >= b.end - b.start + 1
  BY <1>1 DEF ServeFrom
<1>2. CASE ~(Sub32(s, b.start) >= b.end - b.start + 1)
  <2>1. s >= b.start /\ s <= b.end /\ Sub32(s, b.start) = s - b.start
    BY <1>2, IndexInBatch
  <2>2. b.start + (s - b.start) = s /\ b.start \in Nat /\ s \in Nat
    BY SchemaAssumption DEF Sequence
  <2> QED
    BY <1>2, <2>1, <2>2 DEF ServeFrom
<1> QED
  BY <1>1, <1>2

(* The ledgers a valid request can be for: the next one, or the one served last. *)
LEMMA ValidIsNextOrLast ==
    ASSUME TypeOK, CursorInv, prepared # NoRange, NEW s \in Sequence,
           s >= prepared.from, s >= lastLedger, s <= nextLedger
    PROVE  s = nextLedger \/ (served # NoLedger /\ s = served)
<1>1. s \in Nat /\ nextLedger \in Nat /\ lastLedger \in Nat /\ prepared \in Ranges
  BY SchemaAssumption DEF TypeOK, Sequence
<1>2. prepared.from \in Nat
  BY <1>1, RangeIsNat
<1>3. CASE served = NoLedger
  BY <1>1, <1>2, <1>3 DEF CursorInv
<1>4. CASE served # NoLedger
  BY <1>1, <1>2, <1>4 DEF CursorInv, TypeOK
<1> QED
  BY <1>3, <1>4

(* validateSequence accepts only such a request. *)
LEMMA ValidRequest ==
    ASSUME TypeOK, CursorInv, CallInv, stage = "idle", NEW s \in Sequence, ValidSequence(s)
    PROVE  /\ prepared # NoRange /\ ledgerRange = prepared
           /\ s >= prepared.from /\ (prepared.bounded => s <= prepared.to)
           /\ s >= lastLedger /\ s <= nextLedger
<1>1. prepared # NoRange /\ ledgerRange = prepared
  BY DEF ValidSequence, CallInv, PrepareStages
<1>2. nextExpectedSequence = nextLedger
  <2>1. served # NoLedger => served \in Nat
    BY DEF TypeOK
  <2> QED
    BY <1>1, <2>1 DEF nextExpectedSequence, CursorInv
<1> QED
  BY <1>1, <1>2 DEF ValidSequence

(* The ledger of a request is served from batch b, of which index ledgers are      *)
(* consumed: the next ledger is new to the batch, the one served last is not.      *)
LEMMA ServeStep ==
    ASSUME BackendInv, NEW b \in [start : Nat, end : Nat], NEW index \in 0 .. LedgersPerFile,
           NEW s \in Sequence, ServeFrom(b, index, s),
           b.end <= MaxUint32, b.end < b.start + LedgersPerFile,
           index = IF served # NoLedger /\ served >= b.start THEN served - b.start + 1 ELSE 0,
           prepared # NoRange, s >= prepared.from, s >= lastLedger, s <= nextLedger,
           prepared.bounded => s <= prepared.to, prepared' = prepared
    PROVE  /\ nextLedger' \in Nat /\ lastLedger' \in Nat /\ batchIndex' \in 0 .. LedgersPerFile
           /\ served' \in Nat \cup {NoLedger}
           /\ CursorInv'
           /\ batchIndex' = IF served' # NoLedger /\ served' >= b.start
                            THEN served' - b.start + 1 ELSE 0
           /\ served' = served \/ (served' = s /\ s = nextLedger /\ s <= b.end)
<1>1. /\ s \in Nat /\ nextLedger \in Nat /\ lastLedger \in Nat /\ prepared \in Ranges
      /\ b.start \in Nat /\ b.end \in Nat /\ LedgersPerFile \in Nat
      /\ served # NoLedger => served \in Nat
  BY SchemaAssumption DEF BackendInv, TypeOK, Sequence
<1>2. s = nextLedger \/ (served # NoLedger /\ s = served)
  BY ValidIsNextOrLast DEF BackendInv
<1>3. NoLedger \notin Nat
  BY BackendAssumption
<1>4. CASE batchIndex' = index /\ UNCHANGED <<nextLedger, lastLedger, served>>
  BY <1>1, <1>4 DEF BackendInv, TypeOK, CursorInv
<1>5. CASE /\ s >= b.start /\ s <= b.end /\ served' = s
           /\ s - b.start >= index /\ batchIndex' = s - b.start + 1
           /\ lastLedger' = nextLedger /\ nextLedger' = nextLedger + 1
  <2>1. s = nextLedger
    BY <1>1, <1>2, <1>5
  <2>2. batchIndex' \in 0 .. LedgersPerFile
    BY <1>1, <1>5
  <2>3. CursorInv'
    BY <1>1, <1>3, <1>5, <2>1 DEF CursorInv
  <2> QED
    BY <1>1, <1>3, <1>5, <2>1, <2>2, <2>3
<1>6. CASE /\ s >= b.start /\ s <= b.end /\ served' = s
           /\ ~(s - b.start >= index) /\ batchIndex' = index
           /\ UNCHANGED <<nextLedger, lastLedger>>
  <2>1. served # NoLedger /\ served >= b.start /\ index = served - b.start + 1
    BY <1>1, <1>6
  <2>2. s = served
    <3>1. CASE s = nextLedger
      BY <1>1, <1>6, <2>1, <3>1 DEF BackendInv, CursorInv
    <3> QED
      BY <1>2, <3>1
  <2> QED
    BY <1>1, <1>6, <2>1, <2>2 DEF BackendInv, TypeOK, CursorInv
<1> QED
  BY <1>4, <1>5, <1>6, ServeCases DEF BackendInv

(* PrepareRange. *)
LEMMA PrepareKeeps ==
    ASSUME BackendInv, BufferTypeOK',
           (\E r \in Ranges : PrepareRange(r)) \/ OpenNewBuffer \/ RangePrepared
    PROVE  BackendInv'
<1>1. ASSUME NEW r \in Ranges, PrepareRange(r) PROVE BackendInv'
  <2> USE <1>1 DEF PrepareRange, cursorVars
  <2>1. TypeOK'
    BY DEF BackendInv, TypeOK, Stages
  <2>2. CursorInv'
    BY DEF BackendInv, CursorInv
  <2>3. CallInv'
    BY DEF BackendInv, CallInv, PrepareStages
  <2>4. BatchInv'
    BY DEF BatchInv
  <2> QED
    BY <2>1, <2>2, <2>3, <2>4 DEF BackendInv
<1>2. CASE OpenNewBuffer
  <2> USE <1>2 DEF OpenNewBuffer, OpenBuffer, cursorVars
  <2>1. TypeOK'
    BY DEF BackendInv, TypeOK, Stages
  <2>2. CursorInv'
    BY DEF BackendInv, CursorInv
  <2>3. CallInv'
    BY DEF BackendInv, CallInv, PrepareStages
  <2>4. BatchInv'
    BY DEF BackendInv, CallInv, PrepareStages, BatchInv
  <2> QED
    BY <2>1, <2>2, <2>3, <2>4 DEF BackendInv
<1>3. CASE RangePrepared
  <2> USE <1>3 DEF RangePrepared
  <2>0. target \in Ranges /\ target # NoRange /\ target.from \in Nat /\ prepared' = target
    BY BackendAssumption, RangeIsNat DEF BackendInv, TypeOK
  <2>1. TypeOK'
    BY <2>0 DEF BackendInv, TypeOK, Stages
  <2>2. CursorInv'
    BY <2>0 DEF CursorInv
  <2>3. CallInv'
    BY <2>0 DEF BackendInv, CallInv, PrepareStages, bufferVars
  <2>4. BatchInv'
    BY DEF BackendInv, CallInv, PrepareStages, BatchInv
  <2> QED
    BY <2>1, <2>2, <2>3, <2>4 DEF BackendInv
<1> QED
  BY <1>1, <1>2, <1>3

(* GetLedger, from the loaded batch. *)
LEMMA LoadedKeeps ==
    ASSUME BackendInv, NEW s \in Sequence, GetLoadedLedger(s)
    PROVE  BackendInv'
<1>1. /\ stage = "idle" /\ ValidSequence(s) /\ batch # NoBatch
      /\ ServeFrom(batch, batchIndex, s)
      /\ UNCHANGED <<bufferVars, prepared, closed, batch, decoder, stage, target, request,
                     fetched, closing>>
  BY DEF GetLoadedLedger
<1>2. /\ prepared # NoRange /\ ledgerRange = prepared
      /\ s >= prepared.from /\ (prepared.bounded => s <= prepared.to)
      /\ s >= lastLedger /\ s <= nextLedger
  BY <1>1, ValidRequest DEF BackendInv
<1>3. /\ batch \in [start : Nat, end : Nat] /\ batchIndex \in 0 .. LedgersPerFile
      /\ batch.end <= MaxUint32 /\ batch.end < batch.start + LedgersPerFile
      /\ batch.end < GetSequenceNumberStartBoundary(nextDelivery)
      /\ batchIndex = IF served # NoLedger /\ served >= batch.start
                      THEN served - batch.start + 1 ELSE 0
  BY <1>1 DEF BackendInv, TypeOK, BatchInv
<1>4. /\ nextLedger' \in Nat /\ lastLedger' \in Nat /\ batchIndex' \in 0 .. LedgersPerFile
      /\ served' \in Nat \cup {NoLedger}
      /\ CursorInv'
      /\ batchIndex' = IF served' # NoLedger /\ served' >= batch.start
                       THEN served' - batch.start + 1 ELSE 0
      /\ served' = served \/ (served' = s /\ s = nextLedger /\ s <= batch.end)
  BY <1>1, <1>2, <1>3, ServeStep
<1>5. UNCHANGED <<ledgerRange, nextDelivery>> /\ BufferTypeOK'
  BY <1>1, TypeStep DEF BackendInv, TypeOK, bufferVars
<1>6. TypeOK'
  BY <1>1, <1>4, <1>5 DEF BackendInv, TypeOK
<1>7. CallInv'
  BY <1>1, <1>5 DEF BackendInv, CallInv, PrepareStages
<1>8. BatchInv'
  <2>1. served' # NoLedger => served' < GetSequenceNumberStartBoundary(nextDelivery)
    <3>1. CASE served' = served
      BY <1>1, <3>1 DEF BackendInv, BatchInv
    <3>2. CASE served' = s /\ s <= batch.end
      <4>1. s \in Nat /\ batch.end \in Nat /\ GetSequenceNumberStartBoundary(nextDelivery) \in Nat
        BY <1>3, NextObject, SchemaAssumption DEF BackendInv, TypeOK, BufferTypeOK, Sequence
      <4> QED
        BY <1>3, <3>2, <4>1
    <3> QED
      BY <1>4, <3>1, <3>2
  <2> QED
    BY <1>1, <1>3, <1>4, <1>5, <2>1 DEF BatchInv
<1> QED
  BY <1>4, <1>6, <1>7, <1>8 DEF BackendInv

(* GetLedger, from the next object: up to the decoder. *)
LEMMA FetchKeeps ==
    ASSUME BackendInv, OrderInv, BufferTypeOK',
           \/ \E s \in Sequence : AwaitBatch(s)
           \/ \E size \in BatchSizes : ReceiveBatch(size)
           \/ ReceiveCanceled \/ ContextDone \/ StartDecode \/ DecodeError \/ DecodePanic \/ DecodeHang
    PROVE  BackendInv'
<1>1. ASSUME NEW s \in Sequence, AwaitBatch(s) PROVE BackendInv'
  <2>1. /\ stage = "idle" /\ ValidSequence(s) /\ batch' = NoBatch /\ request' = s /\ stage' = "wait"
        /\ UNCHANGED <<ledgerRange, nextDelivery, prepared, closed, nextLedger, lastLedger,
                       batchIndex, served, decoder, target, fetched, closing>>
    BY <1>1 DEF AwaitBatch, bufferVars, cursorVars
  <2>2. /\ prepared # NoRange /\ ledgerRange = prepared
        /\ s >= prepared.from /\ (prepared.bounded => s <= prepared.to)
        /\ s >= lastLedger /\ s <= nextLedger
    BY <2>1, ValidRequest DEF BackendInv
  <2>3. TypeOK'
    BY <2>1 DEF BackendInv, TypeOK, Stages
  <2>4. CursorInv'
    BY <2>1 DEF BackendInv, CursorInv
  <2>5. CallInv'
    BY <2>1, <2>2 DEF BackendInv, CallInv, PrepareStages
  <2>6. BatchInv'
    BY <2>1 DEF BackendInv, BatchInv
  <2> QED
    BY <2>3, <2>4, <2>5, <2>6 DEF BackendInv
<1>2. ASSUME NEW size \in BatchSizes, ReceiveBatch(size) PROVE BackendInv'
  <2>1. /\ stage = "wait" /\ stage' = "refill" /\ ledgerQueue # <<>> /\ fetched' = Head(ledgerQueue)
        /\ nextDelivery' = Head(ledgerQueue) + LedgersPerFile
        /\ UNCHANGED <<ledgerRange, prepared, closed, nextLedger, lastLedger, batch,
                       batchIndex, served, decoder, target, request, closing>>
    BY <1>2 DEF ReceiveBatch, getFromLedgerQueue, cursorVars
  <2>2. fetched' = nextDelivery /\ nextDelivery \in Nat
    BY <2>1 DEF OrderInv, DeliveredInOrder, BackendInv, TypeOK, BufferTypeOK
  <2>3. TypeOK'
    BY <2>1, <2>2 DEF BackendInv, TypeOK, Stages
  <2>4. CursorInv'
    BY <2>1 DEF BackendInv, CursorInv
  <2>5. CallInv'
    BY <2>1 DEF BackendInv, CallInv, PrepareStages
  <2>6. BatchInv'
    BY <2>1, <2>2 DEF BackendInv, BatchInv, CallInv
  <2> QED
    BY <2>3, <2>4, <2>5, <2>6 DEF BackendInv
<1>3. CASE ReceiveCanceled \/ ContextDone \/ StartDecode \/ DecodeError \/ DecodePanic \/ DecodeHang
  <2>1. /\ \/ stage = "wait" /\ stage' = "idle"
           \/ stage = "refill" /\ stage' \in {"decode", "idle"}
           \/ stage = "decode" /\ stage' \in {"idle", "hung", "panic"}
        /\ UNCHANGED <<ledgerRange, nextDelivery, prepared, closed, nextLedger, lastLedger, batch,
                       batchIndex, served, decoder, target, request, fetched, closing>>
    BY <1>3 DEF ReceiveCanceled, ContextDone, GiveUp, StartDecode, DecodeError, DecodePanic, DecodeHang,
                bufferVars, cursorVars
  <2>2. TypeOK'
    BY <2>1 DEF BackendInv, TypeOK, Stages
  <2>3. CursorInv'
    BY <2>1 DEF BackendInv, CursorInv
  <2>4. CallInv'
    BY <2>1 DEF BackendInv, CallInv, PrepareStages
  <2>5. BatchInv'
    <3>1. CASE stage \in {"refill", "decode"} /\ stage' = "idle"
      <4>1. fetched \in Nat /\ nextDelivery = fetched + LedgersPerFile
        BY <3>1 DEF BackendInv, TypeOK, BatchInv
      <4>2. /\ GetSequenceNumberStartBoundary(fetched) \in Nat
            /\ GetSequenceNumberStartBoundary(nextDelivery)
                 = GetSequenceNumberStartBoundary(fetched) + LedgersPerFile
        BY <4>1, NextObject
      <4>3. served # NoLedger => served < GetSequenceNumberStartBoundary(nextDelivery)
        BY <3>1, <4>2, SchemaAssumption DEF BackendInv, TypeOK, BatchInv
      <4> QED
        BY <2>1, <3>1, <4>3 DEF BackendInv, CallInv, BatchInv
    <3>2. CASE ~(stage \in {"refill", "decode"} /\ stage' = "idle")
      BY <2>1, <3>2 DEF BackendInv, BatchInv
    <3> QED
      BY <3>1, <3>2
  <2> QED
    BY <2>2, <2>3, <2>4, <2>5 DEF BackendInv
<1> QED
  BY <1>1, <1>2, <1>3

(* GetLedger, from the next object: the batch is decoded, and serves the ledger if *)
(* it holds it.                                                                    *)
LEMMA DecodeKeeps ==
    ASSUME BackendInv, BufferTypeOK', DecodeBatch
    PROVE  BackendInv'
<1> DEFINE b == BatchOf(fetched)
<1>1. /\ stage = "decode" /\ stage' = "idle" /\ batch' = b /\ ServeFrom(b, 0, request)
      /\ UNCHANGED <<ledgerRange, nextDelivery, prepared, closed, decoder, target, request,
                     fetched, closing>>
  BY DEF DecodeBatch, bufferVars
<1>2. /\ fetched \in Nat /\ request \in Sequence /\ nextDelivery = fetched + LedgersPerFile
      /\ served # NoLedger => served < GetSequenceNumberStartBoundary(fetched)
      /\ prepared # NoRange
      /\ request >= prepared.from /\ (prepared.bounded => request <= prepared.to)
      /\ request >= lastLedger /\ request <= nextLedger
  BY <1>1 DEF BackendInv, TypeOK, BatchInv, CallInv
<1>3. /\ b \in [start : Nat, end : Nat] /\ b.start = GetSequenceNumberStartBoundary(fetched)
      /\ b.end <= MaxUint32 /\ b.end < b.start + LedgersPerFile
      /\ b.end < GetSequenceNumberStartBoundary(nextDelivery)
  BY <1>2, BatchParts
<1> HIDE DEF b
<1>4. 0 \in 0 .. LedgersPerFile
      /\ 0 = IF served # NoLedger /\ served >= b.start THEN served - b.start + 1 ELSE 0
  BY <1>2, <1>3, SchemaAssumption DEF BackendInv, TypeOK
<1>5. /\ nextLedger' \in Nat /\ lastLedger' \in Nat /\ batchIndex' \in 0 .. LedgersPerFile
      /\ served' \in Nat \cup {NoLedger}
      /\ CursorInv'
      /\ batchIndex' = IF served' # NoLedger /\ served' >= b.start
                       THEN served' - b.start + 1 ELSE 0
      /\ served' = served \/ (served' = request /\ request = nextLedger /\ request <= b.end)
  BY <1>1, <1>2, <1>3, <1>4, ServeStep
<1>6. TypeOK'
  BY <1>1, <1>3, <1>5 DEF BackendInv, TypeOK, Stages
<1>7. CallInv'
  BY <1>1 DEF BackendInv, CallInv, PrepareStages
<1>8. served' # NoLedger => served' < GetSequenceNumberStartBoundary(nextDelivery)
  <2>1. /\ GetSequenceNumberStartBoundary(fetched) \in Nat
        /\ GetSequenceNumberStartBoundary(nextDelivery)
             = GetSequenceNumberStartBoundary(fetched) + LedgersPerFile
    BY <1>2, NextObject
  <2>2. CASE served' = served
    BY <1>2, <2>1, <2>2, SchemaAssumption DEF BackendInv, TypeOK
  <2>3. CASE served' = request /\ request <= b.end
    <3>1. request \in Nat /\ b.end \in Nat
      BY <1>2, <1>3, SchemaAssumption DEF Sequence
    <3>2. GetSequenceNumberStartBoundary(nextDelivery) \in Nat
      BY <2>1, SchemaAssumption
    <3> QED
      BY <1>3, <2>3, <3>1, <3>2
  <2> QED
    BY <1>5, <2>2, <2>3
<1>9. BatchInv'
  BY <1>1, <1>3, <1>5, <1>8 DEF BatchInv
<1> QED
  BY <1>5, <1>6, <1>7, <1>9 DEF BackendInv

(* Close. *)
LEMMA CloseKeeps ==
    ASSUME BackendInv, BufferTypeOK', Close \/ CloseDecoder \/ DropDecoder \/ CloseReturns
    PROVE  BackendInv'
<1>1. /\ UNCHANGED <<ledgerRange, nextDelivery, prepared, nextLedger, lastLedger, batch, batchIndex,
                     served, stage, target, request, fetched>>
      /\ decoder' \in {"open", "shut", "nil"}
      /\ \/ /\ closing = "off" /\ stage \notin PrepareStages
            /\ closing' \in {"waiting", "decoderClosed"} /\ closed' = closed
         \/ closing = "waiting" /\ closing' = "draining" /\ closed' = closed
         \/ closing = "draining" /\ closing' = "decoderClosed" /\ closed' = closed
         \/ closing = "decoderClosed" /\ closing' = "done" /\ closed' = TRUE
  BY DEF BackendInv, TypeOK, Close, CloseDecoder, DropDecoder, CloseReturns, CancelBuffer,
         bufferVars, cursorVars
<1>2. TypeOK'
  BY <1>1 DEF BackendInv, TypeOK, Closing
<1>3. CursorInv'
  BY <1>1 DEF BackendInv, CursorInv
<1>4. CallInv'
  BY <1>1 DEF BackendInv, CallInv
<1>5. BatchInv'
  BY <1>1 DEF BackendInv, BatchInv
<1> QED
  BY <1>2, <1>3, <1>4, <1>5 DEF BackendInv

(* Every step keeps the backend's invariant. *)
LEMMA BackendStep == BackendInv /\ OrderInv /\ BufferTypeOK' /\ [Next]_vars => BackendInv'
<1> SUFFICES ASSUME BackendInv, OrderInv, BufferTypeOK', [Next]_vars PROVE BackendInv'
  OBVIOUS
<1>1. CASE ClientStep
  BY <1>1, PrepareKeeps, FetchKeeps, DecodeKeeps DEF ClientStep
<1>2. CASE BackendCall
  BY <1>2, PrepareKeeps, LoadedKeeps, FetchKeeps, CloseKeeps DEF BackendCall
<1>3. CASE CloseDecoder \/ DropDecoder \/ CloseReturns
  BY <1>3, CloseKeeps
<1>4. ASSUME UNCHANGED <<ledgerRange, nextDelivery, backendVars>> PROVE BackendInv'
  <2> USE <1>4 DEF backendVars
  <2>1. TypeOK'
    BY DEF BackendInv, TypeOK
  <2>2. CursorInv'
    BY DEF BackendInv, CursorInv
  <2>3. CallInv'
    BY DEF BackendInv, CallInv
  <2>4. BatchInv'
    BY DEF BackendInv, BatchInv
  <2> QED
    BY <2>1, <2>2, <2>3, <2>4 DEF BackendInv
<1>5. CASE Replenish \/ (\E w \in Workers : WorkerRuns(w)) \/ ExporterRuns
  BY <1>4, <1>5, GoroutinesFrame DEF Replenish, WorkerRuns, ExporterRuns
<1>6. CASE UNCHANGED vars
  BY <1>4, <1>6 DEF vars, bufferVars
<1> QED
  BY <1>1, <1>2, <1>3, <1>5, <1>6 DEF Next

(* All the invariants together, through every sequence of calls. *)
THEOREM BackendCorrect == Spec => [](BackendInv /\ PipelineInv)
<1>1. Init => BackendInv /\ PipelineInv
  BY BackendInitially, EmptyPipeline
<1>2. BackendInv /\ PipelineInv /\ [Next]_vars => (BackendInv /\ PipelineInv)'
  <2> SUFFICES ASSUME BackendInv, PipelineInv, [Next]_vars PROVE BackendInv' /\ PipelineInv'
    OBVIOUS
  <2>1. PipelineInv'
    BY PipelineStep DEF BackendInv
  <2>2. BufferTypeOK' /\ OrderInv
    BY <2>1 DEF PipelineInv
  <2> QED
    BY <2>1, <2>2, BackendStep
<1> QED
  BY <1>1, <1>2, PTL DEF Spec

(* The type invariant of struct BufferedStorageBackend and its buffer. *)
THEOREM BackendTypeCorrect == Spec => []TypeOK
<1>1. BackendInv => TypeOK
  BY DEF BackendInv
<1> QED
  BY <1>1, BackendCorrect, PTL

(* lastLedger and nextLedger, which getLedgerRaw moves blindly, are the ledger served *)
(* last and the one after it.                                                         *)
THEOREM CursorCorrect == Spec => []CursorFollowsServed
<1>1. BackendInv => CursorFollowsServed
  BY DEF BackendInv, CursorInv, CursorFollowsServed
<1> QED
  BY <1>1, BackendCorrect, PTL

(* The buffer's guarantees hold in the backend, across PrepareRange and Close. *)
THEOREM BufferGuarantees == Spec => [](DeliveredInOrder /\ ExactlyOnce /\ DepthBounded)
<1>1. PipelineInv => DeliveredInOrder /\ ExactlyOnce /\ DepthBounded
  BY DEF PipelineInv, OrderInv, HeldInv, DepthInv
<1> QED
  BY <1>1, BackendCorrect, PTL

(* A ledger that getLedgerRaw serves is a read of the contract, or served again. *)
LEMMA ContractServe ==
    ASSUME BackendInv, NEW s \in Sequence, prepared # NoRange, s >= prepared.from,
           prepared.bounded => s <= prepared.to,
           served' = served \/ (served' = s /\ s = nextLedger), UNCHANGED <<prepared, closed>>
    PROVE  [Contract!AbstractNext]_(Contract!abstractVars)
<1>1. CASE served' = served
  BY <1>1 DEF Contract!abstractVars
<1>2. CASE served' = s /\ s = nextLedger
  <2>1. served' = IF served = NoLedger THEN prepared.from ELSE served + 1
    BY <1>2 DEF BackendInv, CursorInv
  <2>2. Contract!InRange(served')
    BY <1>2 DEF Contract!InRange
  <2> QED
    BY <2>1, <2>2 DEF Contract!Read, Contract!AbstractNext
<1> QED
  BY <1>1, <1>2

(* GetLedger, from the loaded batch or from the next object. *)
LEMMA ContractGet ==
    ASSUME BackendInv, (\E s \in Sequence : GetLoadedLedger(s)) \/ DecodeBatch
    PROVE  [Contract!AbstractNext]_(Contract!abstractVars)
<1>1. ASSUME NEW s \in Sequence, GetLoadedLedger(s)
      PROVE  [Contract!AbstractNext]_(Contract!abstractVars)
  <2>1. /\ stage = "idle" /\ ValidSequence(s) /\ batch # NoBatch
        /\ ServeFrom(batch, batchIndex, s) /\ UNCHANGED <<prepared, closed>>
    BY <1>1 DEF GetLoadedLedger
  <2>2. /\ prepared # NoRange /\ s >= prepared.from /\ (prepared.bounded => s <= prepared.to)
        /\ s >= lastLedger /\ s <= nextLedger
    BY <2>1, ValidRequest DEF BackendInv
  <2>3. /\ batch \in [start : Nat, end : Nat] /\ batchIndex \in 0 .. LedgersPerFile
        /\ batch.end <= MaxUint32 /\ batch.end < batch.start + LedgersPerFile
        /\ batchIndex = IF served # NoLedger /\ served >= batch.start
                        THEN served - batch.start + 1 ELSE 0
    BY <2>1 DEF BackendInv, TypeOK, BatchInv
  <2>4. served' = served \/ (served' = s /\ s = nextLedger)
    BY <2>1, <2>2, <2>3, ServeStep
  <2> QED
    BY <2>1, <2>2, <2>4, ContractServe
<1>2. CASE DecodeBatch
  <2> DEFINE b == BatchOf(fetched)
  <2>1. stage = "decode" /\ ServeFrom(b, 0, request) /\ UNCHANGED <<prepared, closed>>
    BY <1>2 DEF DecodeBatch
  <2>2. /\ fetched \in Nat /\ request \in Sequence /\ nextDelivery = fetched + LedgersPerFile
        /\ served # NoLedger => served < GetSequenceNumberStartBoundary(fetched)
        /\ prepared # NoRange
        /\ request >= prepared.from /\ (prepared.bounded => request <= prepared.to)
        /\ request >= lastLedger /\ request <= nextLedger
    BY <2>1 DEF BackendInv, TypeOK, BatchInv, CallInv
  <2>3. /\ b \in [start : Nat, end : Nat] /\ b.start = GetSequenceNumberStartBoundary(fetched)
        /\ b.end <= MaxUint32 /\ b.end < b.start + LedgersPerFile
    BY <2>2, BatchParts
  <2> HIDE DEF b
  <2>4. 0 \in 0 .. LedgersPerFile
        /\ 0 = IF served # NoLedger /\ served >= b.start THEN served - b.start + 1 ELSE 0
    BY <2>2, <2>3, SchemaAssumption DEF BackendInv, TypeOK
  <2>5. served' = served \/ (served' = request /\ request = nextLedger)
    BY <2>1, <2>2, <2>3, <2>4, ServeStep
  <2> QED
    BY <2>1, <2>2, <2>5, ContractServe
<1> QED
  BY <1>1, <1>2

(* The end of PrepareRange prepares a range: no Close has returned, because its lock *)
(* kept Close out.  CloseReturns closes.                                             *)
LEMMA ContractPrepareClose ==
    ASSUME BackendInv, RangePrepared \/ CloseReturns
    PROVE  [Contract!AbstractNext]_(Contract!abstractVars)
<1>1. CASE RangePrepared
  <2>1. ~closed
    BY <1>1 DEF RangePrepared, BackendInv, CallInv, PrepareStages
  <2>2. prepared' \in Ranges /\ served' = NoLedger /\ closed' = closed
    BY <1>1 DEF RangePrepared, BackendInv, TypeOK
  <2> QED
    BY <2>1, <2>2 DEF Contract!Prepare, Contract!AbstractNext
<1>2. CASE CloseReturns
  BY <1>2 DEF CloseReturns, cursorVars, Contract!Close, Contract!AbstractNext
<1> QED
  BY <1>1, <1>2

(* The other steps change nothing the contract speaks of. *)
LEMMA ContractStutters ==
    ASSUME \/ OpenNewBuffer \/ (\E size : ReceiveBatch(size)) \/ GiveUp
           \/ StartDecode \/ DecodeError \/ DecodePanic \/ DecodeHang
           \/ (\E r : PrepareRange(r)) \/ (\E s : AwaitBatch(s))
           \/ Close \/ CloseDecoder \/ DropDecoder \/ UNCHANGED backendVars
    PROVE  UNCHANGED <<prepared, served, closed>>
BY DEF OpenNewBuffer, ReceiveBatch, GiveUp, StartDecode, DecodeError, DecodePanic, DecodeHang, PrepareRange,
       AwaitBatch, Close, CloseDecoder, DropDecoder, backendVars, cursorVars

(* Through retries, reordered downloads, timeouts, failed decodes and a concurrent *)
(* Close, the client gets the ledgers of the prepared range one by one: the backend *)
(* implements the contract of OrderedLedgers.                                       *)
THEOREM BackendServesInOrder == Spec => ServesInOrder
<1>1. Init => Contract!AbstractInit
  BY DEF Init, Contract!AbstractInit
<1>2. BackendInv /\ [Next]_vars => [Contract!AbstractNext]_(Contract!abstractVars)
  <2> SUFFICES ASSUME BackendInv, [Next]_vars
               PROVE  [Contract!AbstractNext]_(Contract!abstractVars)
    OBVIOUS
  <2>1. CASE (\E s \in Sequence : GetLoadedLedger(s)) \/ DecodeBatch
    BY <2>1, ContractGet
  <2>2. CASE RangePrepared \/ CloseReturns
    BY <2>2, ContractPrepareClose
  <2>3. CASE \/ OpenNewBuffer \/ (\E size : ReceiveBatch(size)) \/ GiveUp
             \/ StartDecode \/ DecodeError \/ DecodePanic \/ DecodeHang
             \/ (\E r : PrepareRange(r)) \/ (\E s : AwaitBatch(s))
             \/ Close \/ CloseDecoder \/ DropDecoder \/ UNCHANGED backendVars
    BY <2>3, ContractStutters DEF Contract!abstractVars
  <2>4. CASE ClientStep
    BY <2>1, <2>2, <2>3, <2>4 DEF ClientStep, ReceiveCanceled
  <2>5. CASE BackendCall
    BY <2>1, <2>3, <2>5 DEF BackendCall, ContextDone
  <2>6. CASE Replenish \/ (\E w \in Workers : WorkerRuns(w)) \/ ExporterRuns \/ UNCHANGED vars
    BY <2>3, <2>6 DEF Replenish, WorkerRuns, ExporterRuns, vars
  <2> QED
    BY <2>2, <2>3, <2>4, <2>5, <2>6 DEF Next
<1> QED
  BY <1>1, <1>2, BackendCorrect, PTL DEF Spec, ServesInOrder, Contract!AbstractSpec
=============================================================================
