------------------------- MODULE LedgerBufferProofs -------------------------
(***************************************************************************)
(* Theorems about LedgerBuffer, for every number of workers, buffer size,   *)
(* range and object size.                                                   *)
(***************************************************************************)
EXTENDS LedgerBuffer, SequenceTheorems, FiniteSetTheorems, TLAPS

(* The boundaries of an object are sequence numbers (schema.go). *)
LEMMA BoundaryIsNat ==
    ASSUME NEW s \in Nat
    PROVE  GetSequenceNumberEndBoundary(s) \in Nat
<1>1. s \div LedgersPerFile \in Nat
  BY SchemaAssumption
<1>2. (s \div LedgersPerFile) * LedgersPerFile \in Nat
  BY <1>1, SchemaAssumption
<1> QED
  BY <1>2, SchemaAssumption DEF GetSequenceNumberEndBoundary, GetSequenceNumberStartBoundary

(* The bounds of a range are natural numbers. *)
LEMMA RangeIsNat ==
    ASSUME NEW r \in Ranges
    PROVE  r.from \in Nat /\ r.to \in Nat
BY BufferAssumption, SchemaAssumption DEF Sequence

(* The type invariant holds initially. *)
LEMMA TypeInit == BufferInit => BufferTypeOK
<1> SUFFICES ASSUME BufferInit PROVE BufferTypeOK
  OBVIOUS
<1>1. ledgerRange.from \in Nat
  BY RangeIsNat DEF BufferInit
<1>2. pc \in [Workers -> PCs] /\ task \in [Workers -> Nat] /\ attempt \in [Workers -> 0 .. RetryLimit]
  BY <1>1, BufferAssumption DEF BufferInit, PCs
<1> QED
  BY <1>1, <1>2, BufferAssumption DEF BufferInit, BufferTypeOK, Causes

(* What storeObject's loop writes is well typed. *)
LEMMA DrainType ==
    ASSUME BufferTypeOK, NEW w \in Workers, NEW heap \in SUBSET Nat, NEW current \in Nat,
           DrainFrom(w, heap, current)
    PROVE  /\ ledgerPriorityQueue' \in SUBSET Nat
           /\ pc' \in [Workers -> PCs]
           /\ task' \in [Workers -> Nat]
BY DEF DrainFrom, BufferTypeOK, PCs

(* One worker's step keeps the type invariant. *)
LEMMA TypeWorker ==
    ASSUME BufferTypeOK, NEW w \in Workers, WorkerStep(w)
    PROVE  BufferTypeOK'
<1> USE DEF BufferTypeOK, orderVars, dispatchVars, workerVars
<1>1. CASE TakeTask(w)
  BY <1>1, BufferAssumption DEF TakeTask, PCs
<1>2. CASE DownloadOk(w)
  BY <1>2 DEF DownloadOk, Goto, PCs
<1>3. CASE DownloadNotFound(w)
  BY <1>3 DEF DownloadNotFound, Goto, PCs, CancelWith, Causes
<1>4. CASE DownloadError(w)
  <2>1. CASE Goto(w, "download", "exited") /\ CancelWith("retries")
    BY <2>1 DEF Goto, PCs, CancelWith, Causes
  <2>2. CASE pc[w] = "download" /\ attempt[w] < RetryLimit
    <3>1. attempt[w] + 1 \in 0 .. RetryLimit
      BY <2>2, BufferAssumption
    <3>2. attempt' \in [Workers -> 0 .. RetryLimit] /\ pc' \in [Workers -> PCs]
      BY <1>4, <2>2, <3>1 DEF DownloadError, Goto, PCs
    <3>3. UNCHANGED <<ledgerRange, taskQueue, ledgerQueue, ledgerPriorityQueue, currentLedger,
                      nextTaskLedger, outstanding, lastSize, filling, task, nextDelivery,
                      published>>
      BY <1>4 DEF DownloadError, Goto
    <3>4. cause' \in Causes
      BY <1>4, <2>2 DEF DownloadError
    <3> QED
      BY <3>2, <3>3, <3>4
  <2> QED
    BY <1>4, <2>1, <2>2 DEF DownloadError
<1>5. CASE WakeUp(w)
  BY <1>5 DEF WakeUp, Goto, PCs
<1>6. CASE SeeCancel(w)
  BY <1>6 DEF SeeCancel, Goto, PCs
<1>7. CASE StoreObject(w)
  <2>1. ledgerPriorityQueue \cup {task[w]} \in SUBSET Nat
    OBVIOUS
  <2> QED
    BY <1>7, <2>1, DrainType DEF StoreObject
<1>8. CASE SendObject(w)
  BY <1>8 DEF SendObject, PCs
<1>9. CASE AdvanceCurrent(w)
  <2>1. currentLedger + LedgersPerFile \in Nat
    BY SchemaAssumption
  <2> QED
    BY <1>9, <2>1, DrainType DEF AdvanceCurrent
<1> QED
  BY <1>1, <1>2, <1>3, <1>4, <1>5, <1>6, <1>7, <1>8, <1>9 DEF WorkerStep

(* Every step keeps the type invariant. *)
LEMMA TypeStep == BufferTypeOK /\ [BufferNext]_bufferVars => BufferTypeOK'
<1> SUFFICES ASSUME BufferTypeOK, [BufferNext]_bufferVars PROVE BufferTypeOK'
  OBVIOUS
<1> USE DEF BufferTypeOK, orderVars, dispatchVars, workerVars
<1>1. CASE PushTask
  BY <1>1, SchemaAssumption DEF PushTask
<1>2. CASE StopFilling
  BY <1>2 DEF StopFilling
<1>3. ASSUME NEW size \in BatchSizes, getFromLedgerQueue(size) PROVE BufferTypeOK'
  <2>1. Head(ledgerQueue) \in Nat /\ Tail(ledgerQueue) \in Seq(Nat)
    BY <1>3 DEF getFromLedgerQueue
  <2> QED
    BY <1>3, <2>1, SchemaAssumption DEF getFromLedgerQueue
<1>4. CASE CancelBuffer
  BY <1>4 DEF CancelBuffer, CancelWith, Causes
<1>5. ASSUME NEW w \in Workers, WorkerStep(w) PROVE BufferTypeOK'
  BY <1>5, TypeWorker
<1>6. CASE Publish
  <2>1. published' \in Nat
    BY <1>6, BoundaryIsNat DEF Publish
  <2> QED
    BY <1>6, <2>1 DEF Publish
<1>7. CASE UNCHANGED bufferVars
  BY <1>7 DEF bufferVars
<1> QED
  BY <1>1, <1>2, <1>3, <1>4, <1>5, <1>6, <1>7 DEF BufferNext

(* The type invariant of the buffer, for every choice of the constants. *)
THEOREM TypeCorrect == BufferSpec => []BufferTypeOK
BY TypeInit, TypeStep, PTL DEF BufferSpec
-----------------------------------------------------------------------------
(* The order of delivery. *)

LEMMA OrderInit == BufferInit => OrderInv
BY DEF BufferInit, OrderInv, MutualExclusion, DeliveredInOrder, Locking, AwaitedNext, SomeoneAdvances

(* Steps that leave the queue, the cursors and the critical section alone. *)
LEMMA OrderFrame ==
    ASSUME BufferTypeOK, OrderInv,
           UNCHANGED <<ledgerQueue, currentLedger, nextDelivery>>,
           pc' \in [Workers -> PCs],
           \A w \in Workers : pc'[w] = "send" => pc[w] = "send" /\ task'[w] = task[w],
           \A w \in Workers : pc'[w] = "advance" <=> pc[w] = "advance"
    PROVE  OrderInv'
<1>1. SomeoneAdvances' <=> SomeoneAdvances
  BY DEF SomeoneAdvances
<1>2. AwaitedNext' = AwaitedNext
  BY <1>1 DEF AwaitedNext
<1>3. MutualExclusion'
  BY DEF OrderInv, MutualExclusion, Locking
<1>4. DeliveredInOrder'
  BY DEF OrderInv, DeliveredInOrder
<1> QED
  BY <1>2, <1>3, <1>4 DEF OrderInv

(* A worker that holds the lock is the only one. *)
LEMMA Alone ==
    ASSUME OrderInv, NEW w \in Workers, pc[w] \in Locking
    PROVE  \A v \in Workers : v # w => pc[v] \notin Locking
BY DEF OrderInv, MutualExclusion

(* storeObject's loop starts, or goes on, with nobody else in the section. *)
LEMMA OrderDrain ==
    ASSUME BufferTypeOK, NEW w \in Workers, NEW heap, NEW current \in Nat,
           DrainFrom(w, heap, current),
           \A v \in Workers : v # w => pc[v] \notin Locking
    PROVE  /\ MutualExclusion'
           /\ ~SomeoneAdvances'
           /\ \A v \in Workers : pc'[v] = "send" => task'[v] = current
BY DEF BufferTypeOK, DrainFrom, MutualExclusion, Locking, SomeoneAdvances

(* One worker's step keeps the order. *)
LEMMA OrderWorker ==
    ASSUME BufferTypeOK, BufferTypeOK', OrderInv, NEW w \in Workers, WorkerStep(w)
    PROVE  OrderInv'
<1>1. CASE TakeTask(w)
  BY <1>1, OrderFrame DEF TakeTask, BufferTypeOK, orderVars
<1>2. ASSUME NEW from \in PCs \ {"advance"}, NEW to \in PCs \ {"send", "advance"}, Goto(w, from, to)
      PROVE  OrderInv'
  BY <1>2, OrderFrame DEF Goto, BufferTypeOK, orderVars
<1>3. CASE DownloadOk(w)
  BY <1>2, <1>3 DEF DownloadOk, PCs
<1>4. CASE DownloadNotFound(w)
  BY <1>2, <1>4 DEF DownloadNotFound, PCs
<1>5. CASE DownloadError(w)
  <2>1. CASE Goto(w, "download", "exited")
    BY <1>2, <2>1 DEF PCs
  <2>2. CASE pc[w] = "download" /\ ~Goto(w, "download", "exited")
    BY <1>5, <2>2, OrderFrame DEF DownloadError, BufferTypeOK, orderVars
  <2> QED
    BY <1>5, <2>1, <2>2 DEF DownloadError
<1>6. CASE WakeUp(w)
  BY <1>2, <1>6 DEF WakeUp, PCs
<1>7. CASE SeeCancel(w)
  BY <1>2, <1>7 DEF SeeCancel, PCs
<1>8. CASE StoreObject(w)
  <2>1. DrainFrom(w, ledgerPriorityQueue \cup {task[w]}, currentLedger)
    BY <1>8 DEF StoreObject
  <2>2. /\ MutualExclusion'
        /\ ~SomeoneAdvances'
        /\ \A v \in Workers : pc'[v] = "send" => task'[v] = currentLedger
    BY <1>8, <2>1, OrderDrain DEF StoreObject, BufferTypeOK
  <2>3. ~SomeoneAdvances
    BY <1>8 DEF StoreObject, SomeoneAdvances, Locking
  <2>4. AwaitedNext' = AwaitedNext /\ DeliveredInOrder'
    BY <1>8, <2>2, <2>3 DEF StoreObject, AwaitedNext, OrderInv, DeliveredInOrder
  <2> QED
    BY <1>8, <2>2, <2>4 DEF StoreObject, OrderInv
<1>9. CASE SendObject(w)
  <2>1. pc[w] = "send" /\ task[w] = currentLedger /\ pc' = [pc EXCEPT ![w] = "advance"]
    BY <1>9 DEF SendObject, OrderInv
  <2>2. \A v \in Workers : v # w => pc[v] \notin Locking
    BY <2>1, Alone DEF Locking
  <2>3. ~SomeoneAdvances /\ SomeoneAdvances' /\ MutualExclusion'
    BY <2>1, <2>2 DEF SomeoneAdvances, MutualExclusion, Locking, BufferTypeOK
  <2>4. \A v \in Workers : pc'[v] # "send"
    BY <2>1, <2>2 DEF Locking, BufferTypeOK
  <2>5. AwaitedNext = currentLedger /\ AwaitedNext' = currentLedger + LedgersPerFile
    BY <1>9, <2>3 DEF AwaitedNext, SendObject, orderVars
  <2>6. ledgerQueue' = Append(ledgerQueue, currentLedger) /\ nextDelivery' = nextDelivery
    BY <1>9, <2>1 DEF SendObject
  <2>7. /\ ledgerQueue \in Seq(Nat) /\ Len(ledgerQueue) \in Nat
        /\ ledgerQueue' # <<>>
        /\ Len(ledgerQueue') = Len(ledgerQueue) + 1
        /\ \A i \in 1 .. Len(ledgerQueue) : ledgerQueue'[i] = ledgerQueue[i]
        /\ ledgerQueue'[Len(ledgerQueue')] = currentLedger
    <3>1. ledgerQueue \in Seq(Nat) /\ Len(ledgerQueue) \in Nat /\ currentLedger \in Nat
      BY LenProperties DEF BufferTypeOK
    <3>2. /\ Append(ledgerQueue, currentLedger) # <<>>
          /\ Len(Append(ledgerQueue, currentLedger)) = Len(ledgerQueue) + 1
          /\ \A i \in 1 .. Len(ledgerQueue) :
                Append(ledgerQueue, currentLedger)[i] = ledgerQueue[i]
          /\ Append(ledgerQueue, currentLedger)[Len(ledgerQueue) + 1] = currentLedger
      BY <3>1, AppendProperties
    <3> QED
      BY <2>6, <3>1, <3>2
  <2>8. Head(ledgerQueue') = nextDelivery'
    BY <2>5, <2>6 DEF OrderInv, DeliveredInOrder, BufferTypeOK
  <2>9. ASSUME NEW i \in 1 .. Len(ledgerQueue') - 1
        PROVE  ledgerQueue'[i + 1] = ledgerQueue'[i] + LedgersPerFile
    <3>1. CASE i = Len(ledgerQueue)
      BY <2>5, <2>7, <3>1 DEF OrderInv
    <3>2. CASE i # Len(ledgerQueue)
      <4>1. i \in 1 .. Len(ledgerQueue) - 1
        BY <2>7, <3>2
      <4>2. i \in 1 .. Len(ledgerQueue) /\ i + 1 \in 1 .. Len(ledgerQueue)
        BY <2>7, <4>1
      <4> QED
        BY <2>7, <4>1, <4>2 DEF OrderInv, DeliveredInOrder
    <3> QED
      BY <3>1, <3>2
  <2> QED
    BY <2>3, <2>4, <2>5, <2>7, <2>8, <2>9 DEF OrderInv, DeliveredInOrder
<1>10. CASE AdvanceCurrent(w)
  <2>1. pc[w] = "advance" /\ currentLedger' = currentLedger + LedgersPerFile
    BY <1>10 DEF AdvanceCurrent
  <2>2. \A v \in Workers : v # w => pc[v] \notin Locking
    BY <2>1, Alone DEF Locking
  <2>3. currentLedger' \in Nat /\ DrainFrom(w, ledgerPriorityQueue, currentLedger')
    BY <1>10, <2>1 DEF AdvanceCurrent, BufferTypeOK
  <2>4. /\ MutualExclusion'
        /\ ~SomeoneAdvances'
        /\ \A v \in Workers : pc'[v] = "send" => task'[v] = currentLedger'
    BY <2>2, <2>3, OrderDrain
  <2>5. AwaitedNext' = AwaitedNext
    BY <2>1, <2>4 DEF AwaitedNext, SomeoneAdvances
  <2>6. DeliveredInOrder'
    BY <1>10 DEF AdvanceCurrent, OrderInv, DeliveredInOrder
  <2> QED
    BY <1>10, <2>4, <2>5, <2>6 DEF AdvanceCurrent, OrderInv
<1> QED
  BY <1>1, <1>3, <1>4, <1>5, <1>6, <1>7, <1>8, <1>9, <1>10 DEF WorkerStep

(* The consumer takes the head of the queue. *)
LEMMA OrderConsume ==
    ASSUME BufferTypeOK, OrderInv, NEW size \in BatchSizes, getFromLedgerQueue(size)
    PROVE  OrderInv'
<1>1. /\ ledgerQueue # <<>>
      /\ ledgerQueue' = Tail(ledgerQueue)
      /\ nextDelivery' = Head(ledgerQueue) + LedgersPerFile
      /\ UNCHANGED <<pc, task, currentLedger>>
  BY DEF getFromLedgerQueue, orderVars, workerVars
<1>2. AwaitedNext' = AwaitedNext /\ MutualExclusion'
  BY <1>1 DEF AwaitedNext, SomeoneAdvances, OrderInv, MutualExclusion
<1>3. /\ ledgerQueue \in Seq(Nat)
      /\ Len(ledgerQueue) \in Nat \ {0}
      /\ Len(ledgerQueue') = Len(ledgerQueue) - 1
      /\ \A i \in 1 .. Len(ledgerQueue') : ledgerQueue'[i] = ledgerQueue[i + 1]
  BY <1>1, HeadTailProperties, EmptySeq DEF BufferTypeOK
<1>4. CASE Len(ledgerQueue) = 1
  <2>1. ledgerQueue' = <<>> /\ nextDelivery' = AwaitedNext
    BY <1>1, <1>3, <1>4 DEF OrderInv
  <2> QED
    BY <1>1, <1>2, <2>1 DEF OrderInv, DeliveredInOrder
<1>5. CASE Len(ledgerQueue) > 1
  <2>1. /\ ledgerQueue' # <<>>
        /\ Len(ledgerQueue') = Len(ledgerQueue) - 1
        /\ \A i \in 1 .. Len(ledgerQueue') : ledgerQueue'[i] = ledgerQueue[i + 1]
    BY <1>3, <1>5
  <2>2. Head(ledgerQueue') = nextDelivery'
    BY <1>1, <1>3, <1>5, <2>1 DEF OrderInv, DeliveredInOrder
  <2>3. ASSUME NEW i \in 1 .. Len(ledgerQueue') - 1
        PROVE  ledgerQueue'[i + 1] = ledgerQueue'[i] + LedgersPerFile
    <3>1. /\ i \in 1 .. Len(ledgerQueue') /\ i + 1 \in 1 .. Len(ledgerQueue')
          /\ i + 1 \in 1 .. Len(ledgerQueue) - 1
      BY <1>3
    <3> QED
      BY <2>1, <3>1 DEF OrderInv, DeliveredInOrder
  <2>4. ledgerQueue'[Len(ledgerQueue')] = ledgerQueue[Len(ledgerQueue)]
    BY <1>3, <1>5, <2>1
  <2> QED
    BY <1>1, <1>2, <2>1, <2>2, <2>3, <2>4 DEF OrderInv, DeliveredInOrder
<1> QED
  BY <1>3, <1>4, <1>5

(* Every step keeps the order. *)
LEMMA OrderStep ==
    BufferTypeOK /\ BufferTypeOK' /\ OrderInv /\ [BufferNext]_bufferVars => OrderInv'
<1> SUFFICES ASSUME BufferTypeOK, BufferTypeOK', OrderInv, [BufferNext]_bufferVars
             PROVE  OrderInv'
  OBVIOUS
<1>1. ASSUME UNCHANGED <<ledgerQueue, currentLedger, nextDelivery, pc, task>> PROVE OrderInv'
  BY <1>1, OrderFrame DEF BufferTypeOK
<1>2. CASE PushTask
  BY <1>1, <1>2 DEF PushTask, orderVars, workerVars
<1>3. CASE StopFilling
  BY <1>1, <1>3 DEF StopFilling, orderVars, workerVars
<1>4. CASE CancelBuffer
  BY <1>1, <1>4 DEF CancelBuffer, orderVars, workerVars
<1>5. CASE Publish
  BY <1>1, <1>5 DEF Publish, orderVars, workerVars
<1>6. CASE UNCHANGED bufferVars
  BY <1>1, <1>6 DEF bufferVars
<1> QED
  BY <1>2, <1>3, <1>4, <1>5, <1>6, OrderConsume, OrderWorker DEF BufferNext

(* The inductive invariant holds in every reachable state. *)
LEMMA OrderCorrect == BufferSpec => []OrderInv
BY TypeCorrect, OrderInit, OrderStep, PTL DEF BufferSpec

(* However many workers download in parallel, the consumer gets the objects of *)
(* the range in order, with no gap and no repetition (storeObject).            *)
THEOREM DeliveryOrder == BufferSpec => []DeliveredInOrder
<1>1. OrderInv => DeliveredInOrder
  BY DEF OrderInv
<1> QED
  BY <1>1, OrderCorrect, PTL
-----------------------------------------------------------------------------
(* Every object in exactly one place. *)

(* Division with remainder. *)
LEMMA DivMod ==
    ASSUME NEW a \in Int, NEW n \in Nat \ {0}
    PROVE  a = n * (a \div n) + (a % n) /\ a % n \in 0 .. n - 1 /\ a \div n \in Int
OBVIOUS

(* Multiplication distributes over sums and differences. *)
LEMMA Distribute ==
    ASSUME NEW k \in Int, NEW j \in Int, NEW n \in Nat \ {0}
    PROVE  /\ n * (k - j) = n * k - n * j /\ n * (k + j) = n * k + n * j
           /\ n * k \in Int /\ n * j \in Int
OBVIOUS

(* A positive multiple is no smaller than the factor. *)
LEMMA MultipleIsFar ==
    ASSUME NEW k \in Int, NEW n \in Nat \ {0}, k >= 1
    PROVE  n * k >= n
OBVIOUS

(* A multiple leaves no remainder. *)
LEMMA MultipleMod ==
    ASSUME NEW q \in Int, NEW n \in Nat \ {0}
    PROVE  (n * q) % n = 0
<1> DEFINE a == n * q
<1>0. a \in Int
  OBVIOUS
<1>1. a = n * (a \div n) + (a % n) /\ a % n \in 0 .. n - 1 /\ a \div n \in Int
  BY <1>0, DivMod
<1>2. n * (q - (a \div n)) = a % n /\ n * ((a \div n) - q) = -(a % n)
  BY <1>1, Distribute
<1>3. CASE q - (a \div n) >= 1
  BY <1>1, <1>2, <1>3, MultipleIsFar
<1>4. CASE (a \div n) - q >= 1
  BY <1>1, <1>2, <1>4, MultipleIsFar
<1>5. CASE q = a \div n
  BY <1>1, <1>2, <1>5
<1> QED
  BY <1>1, <1>3, <1>4, <1>5

(* Multiples can be added and subtracted. *)
LEMMA ModSum ==
    ASSUME NEW a \in Int, NEW b \in Int, NEW n \in Nat \ {0}, a % n = 0, b % n = 0
    PROVE  (a + b) % n = 0 /\ (a - b) % n = 0
<1>1. a = n * (a \div n) /\ b = n * (b \div n) /\ a \div n \in Int /\ b \div n \in Int
  BY DivMod
<1>2. a + b = n * ((a \div n) + (b \div n)) /\ a - b = n * ((a \div n) - (b \div n))
  BY <1>1, Distribute
<1>3. (a \div n) + (b \div n) \in Int /\ (a \div n) - (b \div n) \in Int
  BY <1>1
<1> QED
  BY <1>2, <1>3, MultipleMod

(* The neighbours of a multiple are multiples. *)
LEMMA ModShift ==
    ASSUME NEW a \in Int, NEW b \in Int, NEW n \in Nat \ {0}, a % n = 0, b = a + n \/ b = a - n
    PROVE  b % n = 0
<1>1. a = n * (a \div n) /\ a \div n \in Int
  BY DivMod
<1>2. a + n = n * ((a \div n) + 1) /\ a - n = n * ((a \div n) - 1)
  BY <1>1, Distribute
<1>3. (a \div n) + 1 \in Int /\ (a \div n) - 1 \in Int
  BY <1>1
<1> QED
  BY <1>2, <1>3, MultipleMod

(* Two different multiples are at least n apart. *)
LEMMA ModApart ==
    ASSUME NEW a \in Int, NEW b \in Int, NEW n \in Nat \ {0}, a % n = 0, b % n = 0, a < b
    PROVE  a + n <= b
<1>1. (b - a) % n = 0
  BY ModSum
<1>2. b - a \in Nat \ {0}
  OBVIOUS
<1>3. CASE b - a < n
  <2>1. (b - a) % n = b - a
    BY <1>2, <1>3
  <2> QED
    BY <1>1, <1>2, <2>1
<1> QED
  BY <1>3

(* The tasks from one object on, up to another one. *)
Tasks(from, upTo) == {s \in from .. upTo - 1 : (s - from) % LedgersPerFile = 0}

(* What the dispatch of one more task adds. *)
LEMMA TasksDispatch ==
    ASSUME NEW from \in Nat, NEW upTo \in Nat, from <= upTo, (upTo - from) % LedgersPerFile = 0
    PROVE  /\ Tasks(from, upTo + LedgersPerFile) = Tasks(from, upTo) \cup {upTo}
           /\ (upTo + LedgersPerFile - from) % LedgersPerFile = 0
<1> DEFINE n == LedgersPerFile
<1>0. n \in Nat \ {0}
  BY SchemaAssumption
<1>1. (upTo - from) % n = 0
  OBVIOUS
<1> HIDE DEF n
<1>2. (upTo + n - from) % n = 0
  <2>1. /\ upTo - from \in Int /\ upTo + n - from \in Int
        /\ upTo + n - from = (upTo - from) + n
    BY <1>0
  <2> QED
    BY <1>0, <1>1, <2>1, ModShift
<1>3. ASSUME NEW s \in Nat, s \in from .. upTo + n - 1, (s - from) % n = 0, s >= upTo
      PROVE  s = upTo
  <2>1. CASE upTo < s
    <3>1. upTo - from \in Int /\ s - from \in Int /\ upTo - from < s - from
      BY <1>3, <2>1
    <3>2. (upTo - from) + n <= s - from
      BY <1>0, <1>3, <3>1, ModApart DEF n
    <3> QED
      BY <1>0, <1>3, <3>2
  <2> QED
    BY <1>3, <2>1
<1>4. Tasks(from, upTo + n) = Tasks(from, upTo) \cup {upTo}
  <2>1. ASSUME NEW s \in Tasks(from, upTo + n) PROVE s \in Tasks(from, upTo) \cup {upTo}
    <3>1. s \in Nat /\ s \in from .. upTo + n - 1 /\ (s - from) % n = 0
      BY <1>0, <2>1 DEF Tasks, n
    <3> QED
      BY <1>3, <3>1 DEF Tasks, n
  <2>2. ASSUME NEW s \in Tasks(from, upTo) \cup {upTo} PROVE s \in Tasks(from, upTo + n)
    BY <1>0, <2>2 DEF Tasks, n
  <2> QED
    BY <2>1, <2>2
<1> QED
  BY <1>2, <1>4 DEF n

(* What a delivery takes away. *)
LEMMA TasksDeliver ==
    ASSUME NEW from \in Nat, NEW upTo \in Nat, from < upTo, (upTo - from) % LedgersPerFile = 0
    PROVE  /\ Tasks(from + LedgersPerFile, upTo) = Tasks(from, upTo) \ {from}
           /\ from + LedgersPerFile <= upTo
           /\ (upTo - (from + LedgersPerFile)) % LedgersPerFile = 0
<1> DEFINE n == LedgersPerFile
<1>0. n \in Nat \ {0}
  BY SchemaAssumption
<1>1. 0 % n = 0
  <2>1. n * 0 = 0
    BY <1>0
  <2> QED
    BY <1>0, <2>1, MultipleMod
<1>a. (upTo - from) % n = 0
  OBVIOUS
<1> HIDE DEF n
<1>2. (upTo - (from + n)) % n = 0
  <2>1. /\ upTo - from \in Int /\ upTo - (from + n) \in Int
        /\ upTo - (from + n) = (upTo - from) - n
    BY <1>0
  <2> QED
    BY <1>0, <1>a, <2>1, ModShift
<1>3. from + n <= upTo
  <2>1. 0 + n <= upTo - from
    BY <1>0, <1>1, <1>a, ModApart
  <2> QED
    BY <1>0, <2>1
<1>4. ASSUME NEW s \in Int
      PROVE  /\ (s - from) % n = 0 => (s - (from + n)) % n = 0
             /\ (s - (from + n)) % n = 0 => (s - from) % n = 0
             /\ (s - from) % n = 0 /\ s > from => s >= from + n
  <2>1. s - (from + n) = (s - from) - n /\ s - from = (s - (from + n)) + n
        /\ s - from \in Int /\ s - (from + n) \in Int
    BY <1>0
  <2>2. ASSUME (s - from) % n = 0 PROVE (s - (from + n)) % n = 0
    BY <1>0, <2>1, <2>2, ModShift
  <2>3. ASSUME (s - (from + n)) % n = 0 PROVE (s - from) % n = 0
    BY <1>0, <2>1, <2>3, ModShift
  <2>4. (s - from) % n = 0 /\ 0 < s - from => 0 + n <= s - from
    BY <1>0, <1>1, <2>1, ModApart
  <2> QED
    BY <1>0, <2>2, <2>3, <2>4
<1>5. Tasks(from + n, upTo) = Tasks(from, upTo) \ {from}
  <2>1. ASSUME NEW s \in Tasks(from + n, upTo) PROVE s \in Tasks(from, upTo) \ {from}
    <3>1. s \in Int /\ s \in from + n .. upTo - 1 /\ (s - (from + n)) % n = 0
      BY <1>0, <2>1 DEF Tasks, n
    <3>2. s \in from .. upTo - 1 /\ s # from
      BY <1>0, <3>1
    <3> QED
      BY <1>4, <3>1, <3>2 DEF Tasks, n
  <2>2. ASSUME NEW s \in Tasks(from, upTo) \ {from} PROVE s \in Tasks(from + n, upTo)
    <3>1. s \in Int /\ s \in from .. upTo - 1 /\ s > from /\ (s - from) % n = 0
      BY <1>0, <2>2 DEF Tasks, n
    <3>2. s \in from + n .. upTo - 1 /\ (s - (from + n)) % n = 0
      BY <1>0, <1>4, <3>1
    <3> QED
      BY <3>2 DEF Tasks, n
  <2> QED
    BY <2>1, <2>2
<1> QED
  BY <1>2, <1>3, <1>5 DEF n

(* A send to a channel adds one element. *)
LEMMA ElementsAppend ==
    ASSUME NEW q \in Seq(Nat), NEW e \in Nat
    PROVE  /\ Elements(Append(q, e)) = Elements(q) \cup {e}
           /\ Distinct(q) /\ e \notin Elements(q) => Distinct(Append(q, e))
<1>1. /\ Len(q) \in Nat /\ Len(Append(q, e)) = Len(q) + 1
      /\ \A i \in 1 .. Len(q) : Append(q, e)[i] = q[i]
      /\ Append(q, e)[Len(q) + 1] = e
  BY LenProperties, AppendProperties
<1>2. Elements(Append(q, e)) = Elements(q) \cup {e}
  <2>1. \A i \in 1 .. Len(q) + 1 : i \in 1 .. Len(q) \/ i = Len(q) + 1
    BY <1>1
  <2>2. \A i \in 1 .. Len(q) : i \in 1 .. Len(q) + 1
    BY <1>1
  <2>3. Len(q) + 1 \in 1 .. Len(q) + 1
    BY <1>1
  <2> QED
    BY <1>1, <2>1, <2>2, <2>3 DEF Elements
<1>3. ASSUME Distinct(q), e \notin Elements(q),
             NEW i \in 1 .. Len(q) + 1, NEW j \in 1 .. Len(q) + 1,
             Append(q, e)[i] = Append(q, e)[j]
      PROVE  i = j
  <2>1. (i \in 1 .. Len(q) \/ i = Len(q) + 1) /\ (j \in 1 .. Len(q) \/ j = Len(q) + 1)
    BY <1>1
  <2> QED
    BY <1>1, <1>3, <2>1 DEF Distinct, Elements
<1> QED
  BY <1>1, <1>2, <1>3 DEF Distinct

(* A receive takes the first element away. *)
LEMMA ElementsTail ==
    ASSUME NEW q \in Seq(Nat), q # <<>>, Distinct(q)
    PROVE  /\ Head(q) \in Elements(q) /\ Head(q) \in Nat
           /\ Elements(Tail(q)) = Elements(q) \ {Head(q)}
           /\ Distinct(Tail(q))
<1>1. /\ Len(q) \in Nat \ {0} /\ Head(q) = q[1] /\ Head(q) \in Nat
      /\ Len(Tail(q)) = Len(q) - 1
      /\ \A i \in 1 .. Len(q) - 1 : Tail(q)[i] = q[i + 1]
  BY HeadTailProperties, EmptySeq, LenProperties
<1>2. /\ 1 \in 1 .. Len(q)
      /\ \A i \in 1 .. Len(q) - 1 : i + 1 \in 1 .. Len(q) /\ i + 1 # 1
      /\ \A i \in 1 .. Len(q) : i = 1 \/ (i - 1 \in 1 .. Len(q) - 1 /\ (i - 1) + 1 = i)
  BY <1>1
<1>3. Elements(Tail(q)) \subseteq Elements(q) \ {Head(q)}
  BY <1>1, <1>2 DEF Elements, Distinct
<1>4. ASSUME NEW e \in Elements(q) \ {Head(q)} PROVE e \in Elements(Tail(q))
  <2>1. PICK i \in 1 .. Len(q) : e = q[i]
    BY DEF Elements
  <2>2. i - 1 \in 1 .. Len(q) - 1 /\ Tail(q)[i - 1] = q[i]
    BY <1>1, <1>2, <2>1
  <2> QED
    BY <1>1, <2>1, <2>2 DEF Elements
<1>5. ASSUME NEW i \in 1 .. Len(q) - 1, NEW j \in 1 .. Len(q) - 1, Tail(q)[i] = Tail(q)[j]
      PROVE  i = j
  <2>1. i + 1 = j + 1
    BY <1>1, <1>2, <1>5 DEF Distinct
  <2> QED
    BY <2>1
<1> QED
  BY <1>1, <1>2, <1>3, <1>4, <1>5 DEF Elements, Distinct

(* The elements of the queues are sequence numbers. *)
LEMMA HeldType ==
    ASSUME BufferTypeOK
    PROVE  /\ Elements(taskQueue) \subseteq Nat /\ Elements(ledgerQueue) \subseteq Nat
           /\ Held \subseteq Nat /\ Busy \subseteq Workers
<1>1. Elements(taskQueue) \subseteq Nat /\ Elements(ledgerQueue) \subseteq Nat
  BY DEF BufferTypeOK, Elements
<1>2. Carried \subseteq Nat /\ Busy \subseteq Workers
  BY DEF BufferTypeOK, Carried, Busy
<1> QED
  BY <1>1, <1>2 DEF BufferTypeOK, Held

(* An empty buffer holds nothing, and nothing is dispatched yet. *)
LEMMA HeldInitially ==
    ASSUME taskQueue = <<>>, ledgerQueue = <<>>, ledgerPriorityQueue = {},
           \A w \in Workers : pc[w] \notin Carrying,
           nextDelivery \in Nat, nextTaskLedger = nextDelivery
    PROVE  HeldInv
<1>1. /\ Elements(taskQueue) = {} /\ Elements(ledgerQueue) = {}
      /\ Distinct(taskQueue) /\ Distinct(ledgerQueue)
  BY DEF Elements, Distinct
<1>2. Busy = {} /\ Carried = {}
  BY DEF Busy, Carried
<1>3. Held = {} /\ HeldOnce
  BY <1>1, <1>2 DEF Held, HeldOnce
<1>4. nextDelivery .. nextTaskLedger - 1 = {}
  OBVIOUS
<1>5. (nextTaskLedger - nextDelivery) % LedgersPerFile = 0
  <2>1. LedgersPerFile * 0 = 0 /\ nextTaskLedger - nextDelivery = 0
    BY SchemaAssumption
  <2> QED
    BY <2>1, SchemaAssumption, MultipleMod
<1> QED
  BY <1>1, <1>3, <1>4, <1>5 DEF HeldInv, ExactlyOnce, NothingLost

(* Steps that dispatch and deliver nothing: an object may change its place, or be *)
(* dropped after a cancellation.                                                  *)
LEMMA HeldMoved ==
    ASSUME HeldInv, HeldOnce', Distinct(ledgerQueue)',
           UNCHANGED <<nextDelivery, nextTaskLedger>>,
           Held' \subseteq Held, ~Canceled' => ~Canceled /\ Held \subseteq Held'
    PROVE  HeldInv'
<1>1. NothingLost'
  <2>1. ~Canceled' => Held' = Held
    OBVIOUS
  <2> QED
    BY <2>1 DEF HeldInv, ExactlyOnce, NothingLost
<1> QED
  BY <1>1 DEF HeldInv, ExactlyOnce

(* What a step of one worker does to the set of workers that answer for an object. *)
LEMMA BusyUpdate ==
    ASSUME BufferTypeOK, NEW w \in Workers, NEW to, pc' = [pc EXCEPT ![w] = to]
    PROVE  Busy' = IF to \in Carrying THEN Busy \cup {w} ELSE Busy \ {w}
BY DEF Busy, BufferTypeOK

(* A worker goes on with the object it has, or stays without one. *)
LEMMA HeldStays ==
    ASSUME BufferTypeOK, HeldInv, NEW w \in Workers, NEW to,
           pc' = [pc EXCEPT ![w] = to], pc[w] \in Carrying <=> to \in Carrying,
           UNCHANGED <<taskQueue, ledgerQueue, ledgerPriorityQueue, task, nextDelivery,
                       nextTaskLedger>>,
           ~Canceled' => ~Canceled
    PROVE  HeldInv'
<1>1. Busy' = Busy
  BY BusyUpdate DEF Busy, BufferTypeOK
<1>2. Carried' = Carried
  BY <1>1 DEF Carried
<1>3. Held' = Held
  BY <1>2 DEF Held, Elements
<1>4. HeldOnce' /\ Distinct(ledgerQueue)'
  BY <1>1, <1>2 DEF HeldInv, ExactlyOnce, HeldOnce, Distinct, Elements
<1> QED
  BY <1>3, <1>4, HeldMoved

(* A worker drops its object: only after a cancellation. *)
LEMMA HeldDropped ==
    ASSUME BufferTypeOK, HeldInv, NEW w \in Workers, NEW to \in PCs \ Carrying,
           pc' = [pc EXCEPT ![w] = to],
           UNCHANGED <<taskQueue, ledgerQueue, ledgerPriorityQueue, task, nextDelivery,
                       nextTaskLedger>>,
           Canceled'
    PROVE  HeldInv'
<1>1. Busy' \subseteq Busy
  BY BusyUpdate
<1>2. Carried' \subseteq Carried
  BY <1>1 DEF Carried
<1>3. Held' \subseteq Held
  BY <1>2 DEF Held, Elements
<1>4. HeldOnce' /\ Distinct(ledgerQueue)'
  BY <1>1, <1>2 DEF HeldInv, ExactlyOnce, HeldOnce, Distinct, Elements
<1> QED
  BY <1>3, <1>4, HeldMoved

(* A worker takes a task from the queue. *)
LEMMA HeldTaken ==
    ASSUME BufferTypeOK, HeldInv, NEW w \in Workers, TakeTask(w)
    PROVE  HeldInv'
<1> DEFINE h == Head(taskQueue)
<1>1. /\ taskQueue \in Seq(Nat) /\ taskQueue # <<>> /\ Distinct(taskQueue)
      /\ w \notin Busy
  BY DEF TakeTask, BufferTypeOK, HeldInv, ExactlyOnce, HeldOnce, Busy, Carrying
<1>2. /\ taskQueue' = Tail(taskQueue)
      /\ pc' = [pc EXCEPT ![w] = "download"]
      /\ task' = [task EXCEPT ![w] = h]
      /\ UNCHANGED <<ledgerQueue, ledgerPriorityQueue, nextTaskLedger, nextDelivery, cause>>
  BY DEF TakeTask, orderVars, dispatchVars
<1>3. /\ h \in Elements(taskQueue)
      /\ Elements(taskQueue') = Elements(taskQueue) \ {h}
      /\ Distinct(taskQueue')
  BY <1>1, <1>2, ElementsTail
<1>4. Busy' = Busy \cup {w}
  BY <1>2, BusyUpdate DEF Carrying
<1>5. /\ task'[w] = h /\ \A v \in Busy : task'[v] = task[v] /\ v # w
  BY <1>1, <1>2 DEF BufferTypeOK, Busy
<1>6. Carried' = Carried \cup {h}
  BY <1>4, <1>5 DEF Carried
<1> HIDE DEF h
<1>7. Elements(ledgerQueue)' = Elements(ledgerQueue) /\ Elements(taskQueue)' = Elements(taskQueue')
  BY <1>2 DEF Elements
<1>8. HeldOnce'
  <2>1. HeldOnce
    BY DEF HeldInv, ExactlyOnce
  <2>2. \A v \in Busy : task[v] # h
    BY <1>3, <2>1 DEF HeldOnce
  <2>3. \A u, v \in Busy' : task'[u] = task'[v] => u = v
    BY <1>4, <1>5, <2>1, <2>2 DEF HeldOnce
  <2>4. \A v \in Busy' : task'[v] \notin Elements(taskQueue') \cup ledgerPriorityQueue
    BY <1>3, <1>4, <1>5, <2>1 DEF HeldOnce
  <2>5. Elements(taskQueue') \cap ledgerPriorityQueue = {}
    BY <1>3, <2>1 DEF HeldOnce
  <2>6. \A s \in Elements(taskQueue') \cup Carried' \cup ledgerPriorityQueue :
           s \notin Elements(ledgerQueue)
    BY <1>3, <1>6, <2>1 DEF HeldOnce
  <2>7. Distinct(taskQueue)'
    BY <1>3 DEF Distinct
  <2> QED
    BY <1>2, <1>7, <2>3, <2>4, <2>5, <2>6, <2>7 DEF HeldOnce
<1>9. Held' = Held
  BY <1>2, <1>3, <1>6, <1>7 DEF Held
<1>10. Distinct(ledgerQueue)' /\ (~Canceled' => ~Canceled)
  BY <1>2 DEF Distinct, Canceled, HeldInv
<1> QED
  BY <1>2, <1>8, <1>9, <1>10, HeldMoved

(* storeObject's loop: the worker's object is put into the heap, if it has one, and *)
(* the next object to emit is taken out, if it is there.                            *)
LEMMA HeldDrained ==
    ASSUME BufferTypeOK, HeldInv, NEW w \in Workers, NEW current \in Nat,
           NEW put, put = (IF w \in Busy THEN {task[w]} ELSE {}),
           DrainFrom(w, ledgerPriorityQueue \cup put, current),
           UNCHANGED <<taskQueue, ledgerQueue, nextTaskLedger, nextDelivery, cause>>
    PROVE  HeldInv'
<1>1. /\ Elements(ledgerQueue)' = Elements(ledgerQueue)
      /\ Elements(taskQueue)' = Elements(taskQueue)
      /\ Distinct(ledgerQueue)' /\ Distinct(taskQueue)'
      /\ ~Canceled' => ~Canceled
  BY DEF Elements, Distinct, Canceled, HeldInv, ExactlyOnce, HeldOnce
<1>2. HeldOnce
  BY DEF HeldInv, ExactlyOnce
<1> DEFINE T == Elements(taskQueue)
           Q == Elements(ledgerQueue)
           H == ledgerPriorityQueue
           R == {task[v] : v \in Busy \ {w}}
<1>3. /\ Carried = R \cup put
      /\ R \cap (H \cup put) = {} /\ R \cap T = {} /\ R \cap Q = {}
      /\ T \cap (H \cup put) = {} /\ (H \cup put) \cap Q = {} /\ T \cap Q = {}
  <2>1. Carried = R \cup put
    BY DEF Carried
  <2>2. R \cap put = {}
    BY <1>2 DEF HeldOnce
  <2>3. R \cap H = {} /\ R \cap T = {} /\ T \cap H = {} /\ put \cap T = {}
    BY <1>2 DEF HeldOnce
  <2>4. R \cap Q = {} /\ H \cap Q = {} /\ put \cap Q = {} /\ T \cap Q = {}
    BY <1>2, <2>1 DEF HeldOnce
  <2> QED
    BY <2>1, <2>2, <2>3, <2>4
<1>4. CASE TopIsNext(H \cup put, current)
  <2>1. /\ ledgerPriorityQueue' = (H \cup put) \ {current} /\ current \in H \cup put
        /\ pc' = [pc EXCEPT ![w] = "send"] /\ task' = [task EXCEPT ![w] = current]
    BY <1>4 DEF DrainFrom, TopIsNext
  <2>2. Busy' = Busy \cup {w}
    BY <2>1, BusyUpdate DEF Carrying
  <2>3. task'[w] = current /\ \A v \in Busy \ {w} : task'[v] = task[v]
    BY <2>1 DEF BufferTypeOK, Busy
  <2>4. Carried' = R \cup {current}
    BY <2>2, <2>3 DEF Carried
  <2>5. Held' = Held
    BY <1>1, <1>3, <2>1, <2>4 DEF Held
  <2>6. \A u, v \in Busy' : task'[u] = task'[v] => u = v
    BY <1>2, <1>3, <2>1, <2>2, <2>3 DEF HeldOnce
  <2>7. \A v \in Busy' : task'[v] \notin T \cup ledgerPriorityQueue'
    BY <1>3, <2>1, <2>2, <2>3
  <2>8. /\ T \cap ledgerPriorityQueue' = {}
        /\ \A s \in T \cup Carried' \cup ledgerPriorityQueue' : s \notin Q
    BY <1>3, <2>1, <2>4
  <2>9. HeldOnce'
    BY <1>1, <2>6, <2>7, <2>8 DEF HeldOnce
  <2> QED
    BY <1>1, <2>5, <2>9, HeldMoved
<1>5. CASE ~TopIsNext(H \cup put, current)
  <2>1. /\ ledgerPriorityQueue' = H \cup put
        /\ pc' = [pc EXCEPT ![w] = "idle"] /\ task' = task
    BY <1>5 DEF DrainFrom
  <2>2. Busy' = Busy \ {w}
    BY <2>1, BusyUpdate DEF Carrying
  <2>3. Carried' = R
    BY <2>1, <2>2 DEF Carried
  <2>4. Held' = Held
    BY <1>1, <1>3, <2>1, <2>3 DEF Held
  <2>5. \A u, v \in Busy' : task'[u] = task'[v] => u = v
    BY <1>2, <2>1, <2>2 DEF HeldOnce
  <2>6. \A v \in Busy' : task'[v] \notin T \cup ledgerPriorityQueue'
    BY <1>3, <2>1, <2>2
  <2>7. /\ T \cap ledgerPriorityQueue' = {}
        /\ \A s \in T \cup Carried' \cup ledgerPriorityQueue' : s \notin Q
    BY <1>3, <2>1, <2>3
  <2>8. HeldOnce'
    BY <1>1, <2>5, <2>6, <2>7 DEF HeldOnce
  <2> QED
    BY <1>1, <2>4, <2>8, HeldMoved
<1> QED
  BY <1>4, <1>5

(* A worker sends its object to the ledger queue. *)
LEMMA HeldSent ==
    ASSUME BufferTypeOK, HeldInv, NEW w \in Workers, SendObject(w)
    PROVE  HeldInv'
<1>1. /\ w \in Busy /\ task[w] \in Nat /\ ledgerQueue \in Seq(Nat)
  BY DEF SendObject, BufferTypeOK, Busy, Carrying
<1>2. /\ ledgerQueue' = Append(ledgerQueue, task[w])
      /\ pc' = [pc EXCEPT ![w] = "advance"]
      /\ UNCHANGED <<task, taskQueue, ledgerPriorityQueue, nextTaskLedger, nextDelivery, cause>>
  BY DEF SendObject, orderVars, dispatchVars
<1>3. HeldOnce /\ Distinct(ledgerQueue)
  BY DEF HeldInv, ExactlyOnce
<1>4. task[w] \in Carried /\ task[w] \notin Elements(ledgerQueue)
  BY <1>1, <1>3 DEF Carried, HeldOnce
<1>5. /\ Elements(ledgerQueue') = Elements(ledgerQueue) \cup {task[w]}
      /\ Distinct(ledgerQueue')
  BY <1>1, <1>2, <1>3, <1>4, ElementsAppend
<1>6. /\ Elements(taskQueue)' = Elements(taskQueue) /\ Distinct(taskQueue)'
      /\ Elements(ledgerQueue)' = Elements(ledgerQueue') /\ Distinct(ledgerQueue)'
      /\ ~Canceled' => ~Canceled
  BY <1>2, <1>3, <1>5 DEF Elements, Distinct, HeldOnce, Canceled
<1>7. Busy' = Busy \ {w}
  BY <1>2, BusyUpdate DEF Carrying
<1>8. Carried' = Carried \ {task[w]}
  BY <1>1, <1>2, <1>3, <1>7 DEF Carried, HeldOnce
<1>9. Held' = Held
  BY <1>2, <1>4, <1>5, <1>6, <1>8 DEF Held
<1>10. HeldOnce'
  <2>1. \A u, v \in Busy' : task[u] = task[v] => u = v
    BY <1>3, <1>7 DEF HeldOnce
  <2>2. \A v \in Busy' : task[v] \notin Elements(taskQueue) \cup ledgerPriorityQueue
    BY <1>3, <1>7 DEF HeldOnce
  <2>3. \A s \in Elements(taskQueue) \cup Carried' \cup ledgerPriorityQueue :
           s \notin Elements(ledgerQueue')
    BY <1>1, <1>3, <1>5, <1>8 DEF HeldOnce
  <2> QED
    BY <1>2, <1>3, <1>6, <2>1, <2>2, <2>3 DEF HeldOnce
<1> QED
  BY <1>2, <1>6, <1>9, <1>10, HeldMoved

(* No step of a worker loses an object or makes a second one of it. *)
LEMMA HeldWorker ==
    ASSUME BufferTypeOK, HeldInv, NEW w \in Workers, WorkerStep(w)
    PROVE  HeldInv'
<1>1. CASE TakeTask(w)
  BY <1>1, HeldTaken
<1>2. ASSUME NEW from \in Carrying, NEW to \in Carrying, Goto(w, from, to), UNCHANGED cause
      PROVE  HeldInv'
  BY <1>2, HeldStays DEF Goto, orderVars, dispatchVars, Canceled
<1>3. ASSUME NEW from, Goto(w, from, "exited"), Canceled' PROVE HeldInv'
  <2>1. "exited" \in PCs \ Carrying
    BY DEF PCs, Carrying
  <2> QED
    BY <1>3, <2>1, HeldDropped DEF Goto, orderVars, dispatchVars
<1>4. CASE DownloadOk(w)
  BY <1>2, <1>4 DEF DownloadOk, Carrying
<1>5. CASE DownloadNotFound(w)
  <2>1. CASE Goto(w, "download", "sleep") /\ UNCHANGED cause
    BY <1>2, <2>1 DEF Carrying
  <2>2. CASE Goto(w, "download", "exited") /\ CancelWith("missing")
    BY <1>3, <2>2 DEF CancelWith, Canceled
  <2> QED
    BY <1>5, <2>1, <2>2 DEF DownloadNotFound
<1>6. CASE DownloadError(w)
  <2>1. CASE Goto(w, "download", "exited") /\ CancelWith("retries")
    BY <1>3, <2>1 DEF CancelWith, Canceled
  <2>2. CASE /\ pc[w] = "download" /\ pc' = [pc EXCEPT ![w] = "sleep"]
             /\ UNCHANGED <<ledgerRange, taskQueue, ledgerQueue, orderVars, dispatchVars, cause,
                            task, nextDelivery, published>>
    BY <2>2, HeldStays DEF orderVars, dispatchVars, Canceled, Carrying
  <2> QED
    BY <1>6, <2>1, <2>2 DEF DownloadError
<1>7. CASE WakeUp(w)
  BY <1>2, <1>7 DEF WakeUp, Carrying
<1>8. CASE SeeCancel(w)
  BY <1>3, <1>8 DEF SeeCancel, Canceled
<1>9. CASE StoreObject(w)
  <2>1. w \in Busy /\ currentLedger \in Nat
    BY <1>9 DEF StoreObject, Busy, Carrying, BufferTypeOK
  <2>2. /\ DrainFrom(w, ledgerPriorityQueue \cup {task[w]}, currentLedger)
        /\ UNCHANGED <<taskQueue, ledgerQueue, nextTaskLedger, nextDelivery, cause>>
    BY <1>9 DEF StoreObject, dispatchVars
  <2> QED
    BY <2>1, <2>2, HeldDrained
<1>10. CASE SendObject(w)
  BY <1>10, HeldSent
<1>11. CASE AdvanceCurrent(w)
  <2>1. w \notin Busy /\ currentLedger + LedgersPerFile \in Nat
    BY <1>11, SchemaAssumption DEF AdvanceCurrent, Busy, Carrying, BufferTypeOK
  <2> DEFINE put == IF w \in Busy THEN {task[w]} ELSE {}
  <2>2. /\ DrainFrom(w, ledgerPriorityQueue \cup put, currentLedger + LedgersPerFile)
        /\ UNCHANGED <<taskQueue, ledgerQueue, nextTaskLedger, nextDelivery, cause>>
    <3>1. ledgerPriorityQueue \cup put = ledgerPriorityQueue
      BY <2>1
    <3> QED
      BY <1>11, <3>1 DEF AdvanceCurrent, dispatchVars
  <2>3. put = IF w \in Busy THEN {task[w]} ELSE {}
    OBVIOUS
  <2> HIDE DEF put
  <2> QED
    BY <2>1, <2>2, <2>3, HeldDrained
<1> QED
  BY <1>1, <1>4, <1>5, <1>6, <1>7, <1>8, <1>9, <1>10, <1>11 DEF WorkerStep

(* The dispatcher adds one object. *)
LEMMA HeldPush ==
    ASSUME BufferTypeOK, HeldInv, PushTask
    PROVE  HeldInv'
<1>1. /\ taskQueue' = Append(taskQueue, nextTaskLedger)
      /\ nextTaskLedger' = nextTaskLedger + LedgersPerFile
      /\ UNCHANGED <<ledgerQueue, ledgerPriorityQueue, pc, task, nextDelivery, cause>>
  BY DEF PushTask, orderVars, workerVars
<1>2. /\ taskQueue \in Seq(Nat) /\ nextTaskLedger \in Nat /\ nextDelivery \in Nat
      /\ Held \subseteq Nat /\ LedgersPerFile \in Nat \ {0}
  BY HeldType, SchemaAssumption DEF BufferTypeOK
<1>3. HeldOnce /\ Distinct(ledgerQueue) /\ nextTaskLedger \notin Held
  BY <1>2 DEF HeldInv, ExactlyOnce
<1>4. /\ Elements(taskQueue') = Elements(taskQueue) \cup {nextTaskLedger}
      /\ Distinct(taskQueue')
  BY <1>1, <1>2, <1>3, ElementsAppend DEF HeldOnce, Held
<1>5. /\ Elements(taskQueue)' = Elements(taskQueue') /\ Distinct(taskQueue)'
      /\ Elements(ledgerQueue)' = Elements(ledgerQueue) /\ Distinct(ledgerQueue)'
      /\ Busy' = Busy /\ Carried' = Carried /\ Canceled' = Canceled
  BY <1>1, <1>3, <1>4 DEF Elements, Distinct, Busy, Carried, Canceled
<1>6. Held' = Held \cup {nextTaskLedger}
  BY <1>1, <1>4, <1>5 DEF Held
<1>7. HeldOnce'
  BY <1>1, <1>3, <1>4, <1>5 DEF HeldOnce, Held, Carried
<1>8. /\ Tasks(nextDelivery, nextTaskLedger') = Tasks(nextDelivery, nextTaskLedger) \cup {nextTaskLedger}
      /\ (nextTaskLedger' - nextDelivery) % LedgersPerFile = 0
  BY <1>1, <1>2, TasksDispatch DEF HeldInv
<1>9. NothingLost'
  <2>1. ~Canceled => Held = Tasks(nextDelivery, nextTaskLedger)
    BY DEF HeldInv, ExactlyOnce, NothingLost, Tasks
  <2>2. ~Canceled' => Held' = Tasks(nextDelivery', nextTaskLedger')
    BY <1>1, <1>5, <1>6, <1>8, <2>1
  <2> QED
    BY <2>2 DEF NothingLost, Tasks
<1>10. /\ \A s \in Held' : s < nextTaskLedger'
       /\ nextDelivery' <= nextTaskLedger'
  BY <1>1, <1>2, <1>6 DEF HeldInv
<1> QED
  BY <1>1, <1>5, <1>7, <1>8, <1>9, <1>10 DEF HeldInv, ExactlyOnce

(* The consumer takes the object that is next, and only that one. *)
LEMMA HeldConsume ==
    ASSUME BufferTypeOK, OrderInv, HeldInv, NEW size \in BatchSizes, getFromLedgerQueue(size)
    PROVE  HeldInv'
<1>1. /\ ledgerQueue # <<>> /\ ledgerQueue' = Tail(ledgerQueue)
      /\ Head(ledgerQueue) = nextDelivery
      /\ nextDelivery' = nextDelivery + LedgersPerFile
      /\ UNCHANGED <<taskQueue, ledgerPriorityQueue, pc, task, nextTaskLedger, cause>>
  BY DEF getFromLedgerQueue, orderVars, workerVars, OrderInv, DeliveredInOrder
<1>2. /\ ledgerQueue \in Seq(Nat) /\ nextTaskLedger \in Nat /\ nextDelivery \in Nat
      /\ Held \subseteq Nat /\ LedgersPerFile \in Nat \ {0}
  BY HeldType, SchemaAssumption DEF BufferTypeOK
<1>3. HeldOnce /\ Distinct(ledgerQueue)
  BY DEF HeldInv, ExactlyOnce
<1>4. /\ nextDelivery \in Elements(ledgerQueue)
      /\ Elements(ledgerQueue') = Elements(ledgerQueue) \ {nextDelivery}
      /\ Distinct(ledgerQueue')
  BY <1>1, <1>2, <1>3, ElementsTail
<1>5. /\ Elements(taskQueue)' = Elements(taskQueue) /\ Distinct(taskQueue)'
      /\ Elements(ledgerQueue)' = Elements(ledgerQueue') /\ Distinct(ledgerQueue)'
      /\ Busy' = Busy /\ Carried' = Carried /\ Canceled' = Canceled
  BY <1>1, <1>3, <1>4 DEF Elements, Distinct, Busy, Carried, Canceled, HeldOnce
<1>6. Held' = Held \ {nextDelivery}
  BY <1>1, <1>3, <1>4, <1>5 DEF Held, HeldOnce
<1>7. HeldOnce'
  BY <1>1, <1>3, <1>4, <1>5 DEF HeldOnce
<1>8. nextDelivery < nextTaskLedger
  BY <1>4 DEF HeldInv, Held
<1>9. /\ Tasks(nextDelivery', nextTaskLedger) = Tasks(nextDelivery, nextTaskLedger) \ {nextDelivery}
      /\ nextDelivery' <= nextTaskLedger
      /\ (nextTaskLedger - nextDelivery') % LedgersPerFile = 0
  BY <1>1, <1>2, <1>8, TasksDeliver DEF HeldInv
<1>10. NothingLost'
  <2>1. ~Canceled => Held = Tasks(nextDelivery, nextTaskLedger)
    BY DEF HeldInv, ExactlyOnce, NothingLost, Tasks
  <2>2. ~Canceled' => Held' = Tasks(nextDelivery', nextTaskLedger')
    BY <1>1, <1>5, <1>6, <1>9, <2>1
  <2> QED
    BY <2>2 DEF NothingLost, Tasks
<1>11. \A s \in Held' : s < nextTaskLedger'
  BY <1>1, <1>6 DEF HeldInv
<1> QED
  BY <1>1, <1>5, <1>7, <1>9, <1>10, <1>11 DEF HeldInv, ExactlyOnce

(* Every step keeps each dispatched object in one place. *)
LEMMA HeldStep ==
    BufferTypeOK /\ OrderInv /\ HeldInv /\ [BufferNext]_bufferVars => HeldInv'
<1> SUFFICES ASSUME BufferTypeOK, OrderInv, HeldInv, [BufferNext]_bufferVars
             PROVE  HeldInv'
  OBVIOUS
<1>1. ASSUME UNCHANGED <<taskQueue, ledgerQueue, ledgerPriorityQueue, nextTaskLedger, nextDelivery,
                         pc, task>>,
             ~Canceled' => ~Canceled
      PROVE  HeldInv'
  <2>1. Held' = Held /\ HeldOnce' /\ Distinct(ledgerQueue)'
    BY <1>1 DEF HeldInv, ExactlyOnce, HeldOnce, Held, Carried, Busy, Distinct, Elements
  <2> QED
    BY <1>1, <2>1, HeldMoved
<1>2. CASE StopFilling
  BY <1>1, <1>2 DEF StopFilling, orderVars, workerVars, Canceled
<1>3. CASE CancelBuffer
  BY <1>1, <1>3 DEF CancelBuffer, CancelWith, Canceled, orderVars, workerVars, dispatchVars
<1>4. CASE Publish
  BY <1>1, <1>4 DEF Publish, Canceled, orderVars, workerVars, dispatchVars
<1>5. CASE UNCHANGED bufferVars
  BY <1>1, <1>5 DEF bufferVars, Canceled
<1> QED
  BY <1>2, <1>3, <1>4, <1>5, HeldPush, HeldConsume, HeldWorker DEF BufferNext

(* A dispatched object is in one place until the consumer gets it, whatever the *)
(* workers do, and in none only after a cancellation.                           *)
THEOREM ObjectsHeldOnce == BufferSpec => []ExactlyOnce
<1>1. BufferInit => HeldInv
  BY HeldInitially, RangeIsNat DEF BufferInit, Carrying
<1>2. HeldInv => ExactlyOnce
  BY DEF HeldInv
<1> QED
  BY <1>1, <1>2, HeldStep, TypeCorrect, OrderCorrect, PTL DEF BufferSpec
-----------------------------------------------------------------------------
(* The depth of the pipeline. *)

(* The buffer size of a range. *)
LEMMA BufferSizeIsNat ==
    ASSUME NEW r \in Ranges
    PROVE  LocalBufferSize(r) \in Nat
<1>1. r.to \in Nat /\ r.from \in Nat /\ MaxUint32 + 1 \in Nat \ {0} /\ r.to - r.from \in Int
  BY RangeIsNat, SchemaAssumption
<1>2. (r.to - r.from) % (MaxUint32 + 1) \in Nat
  BY <1>1
<1> QED
  BY <1>2, BufferAssumption DEF LocalBufferSize, Min, Sub32

(* depthLimit never exceeds it. *)
LEMMA LimitBelowSize ==
    ASSUME BufferTypeOK, NEW size \in {0} \cup BatchSizes
    PROVE  depthLimit(size) \in Int /\ depthLimit(size) <= LocalBufferSize(ledgerRange)
<1> DEFINE limit == LocalBufferSize(ledgerRange)
<1>1. limit \in Nat /\ Cardinality(Workers) \in Nat
  BY BufferSizeIsNat, BufferAssumption DEF BufferTypeOK
<1>2. size # 0 => BufferBytes \div size \in Int
  BY BufferAssumption
<1> HIDE DEF limit
<1>3. \A x \in Int : Min(limit, x) \in Int /\ Min(limit, x) <= limit
  BY <1>1 DEF Min
<1>4. size # 0 => Max(BufferBytes \div size, 1) \in Int
  BY <1>2 DEF Max
<1> QED
  BY <1>1, <1>3, <1>4 DEF depthLimit, limit

(* The four places are counted by natural numbers. *)
LEMMA DepthType ==
    ASSUME BufferTypeOK, DepthInv
    PROVE  /\ Len(taskQueue) \in Nat /\ Len(ledgerQueue) \in Nat
           /\ IsFiniteSet(Busy) /\ Cardinality(Busy) \in Nat
           /\ Cardinality(ledgerPriorityQueue) \in Nat
           /\ outstanding \in Int /\ LocalBufferSize(ledgerRange) \in Nat
<1>1. Busy \in SUBSET Workers
  BY DEF Busy
<1>2. IsFiniteSet(Busy)
  BY <1>1, FS_Subset, BufferAssumption
<1> QED
  BY <1>2, FS_CardinalityType, BufferSizeIsNat, LenProperties DEF BufferTypeOK, DepthInv

(* Steps that dispatch and deliver nothing. *)
LEMMA DepthKept ==
    ASSUME DepthInv, IsFiniteSet(ledgerPriorityQueue'), UNCHANGED <<outstanding, ledgerRange>>,
           Len(taskQueue') + Cardinality(Busy') + Cardinality(ledgerPriorityQueue') + Len(ledgerQueue')
             = Len(taskQueue) + Cardinality(Busy) + Cardinality(ledgerPriorityQueue) + Len(ledgerQueue)
    PROVE  DepthInv'
BY DEF DepthInv, DepthBounded, LocalBufferSize

(* A worker takes up an object, or lays one down. *)
LEMMA BusyCount ==
    ASSUME BufferTypeOK, DepthInv, NEW w \in Workers, NEW to, pc' = [pc EXCEPT ![w] = to]
    PROVE  /\ (w \in Busy <=> to \in Carrying) => Cardinality(Busy') = Cardinality(Busy)
           /\ w \in Busy /\ to \notin Carrying => Cardinality(Busy') = Cardinality(Busy) - 1
           /\ w \notin Busy /\ to \in Carrying => Cardinality(Busy') = Cardinality(Busy) + 1
<1>1. IsFiniteSet(Busy)
  BY DepthType
<1>2. CASE to \in Carrying
  <2>1. Busy' = Busy \cup {w}
    BY <1>2, BusyUpdate
  <2> QED
    BY <1>1, <1>2, <2>1, FS_AddElement
<1>3. CASE to \notin Carrying
  <2>1. Busy' = Busy \ {w}
    BY <1>3, BusyUpdate
  <2> QED
    BY <1>1, <1>3, <2>1, FS_RemoveElement
<1> QED
  BY <1>2, <1>3

(* storeObject's loop moves objects between the worker and the heap. *)
LEMMA DepthDrained ==
    ASSUME BufferTypeOK, HeldInv, DepthInv, NEW w \in Workers, NEW current \in Nat,
           NEW put, put = (IF w \in Busy THEN {task[w]} ELSE {}),
           DrainFrom(w, ledgerPriorityQueue \cup put, current),
           UNCHANGED <<taskQueue, ledgerQueue, outstanding, ledgerRange>>
    PROVE  DepthInv'
<1> DEFINE H == ledgerPriorityQueue
<1>1. /\ IsFiniteSet(H) /\ Cardinality(H) \in Nat /\ Cardinality(Busy) \in Nat
      /\ Len(taskQueue) \in Nat /\ Len(ledgerQueue) \in Nat
  BY DepthType DEF DepthInv
<1>2. w \in Busy => task[w] \notin H
  BY DEF HeldInv, ExactlyOnce, HeldOnce
<1>3. /\ IsFiniteSet(H \cup put)
      /\ w \in Busy => Cardinality(H \cup put) = Cardinality(H) + 1
      /\ w \notin Busy => Cardinality(H \cup put) = Cardinality(H)
  <2>1. CASE w \in Busy
    BY <1>1, <1>2, <2>1, FS_AddElement
  <2>2. CASE w \notin Busy
    <3>1. H \cup put = H
      BY <2>2
    <3> QED
      BY <1>1, <2>2, <3>1
  <2> QED
    BY <2>1, <2>2
<1>4. CASE TopIsNext(H \cup put, current)
  <2>1. /\ ledgerPriorityQueue' = (H \cup put) \ {current} /\ current \in H \cup put
        /\ pc' = [pc EXCEPT ![w] = "send"]
    BY <1>4 DEF DrainFrom, TopIsNext
  <2>2. /\ IsFiniteSet(ledgerPriorityQueue')
        /\ Cardinality(ledgerPriorityQueue') = Cardinality(H \cup put) - 1
    BY <1>3, <2>1, FS_RemoveElement
  <2>3. /\ w \in Busy => Cardinality(Busy') = Cardinality(Busy)
        /\ w \notin Busy => Cardinality(Busy') = Cardinality(Busy) + 1
    BY <2>1, BusyCount DEF Carrying
  <2>4. Len(taskQueue') + Cardinality(Busy') + Cardinality(ledgerPriorityQueue') + Len(ledgerQueue')
          = Len(taskQueue) + Cardinality(Busy) + Cardinality(ledgerPriorityQueue) + Len(ledgerQueue)
    BY <1>1, <1>3, <2>2, <2>3
  <2> QED
    BY <2>2, <2>4, DepthKept
<1>5. CASE ~TopIsNext(H \cup put, current)
  <2>1. ledgerPriorityQueue' = H \cup put /\ pc' = [pc EXCEPT ![w] = "idle"]
    BY <1>5 DEF DrainFrom
  <2>2. /\ w \in Busy => Cardinality(Busy') = Cardinality(Busy) - 1
        /\ w \notin Busy => Cardinality(Busy') = Cardinality(Busy)
    <3>1. "idle" \notin Carrying
      BY DEF Carrying
    <3> QED
      BY <2>1, <3>1, BusyCount
  <2>3. Len(taskQueue') + Cardinality(Busy') + Cardinality(ledgerPriorityQueue') + Len(ledgerQueue')
          = Len(taskQueue) + Cardinality(Busy) + Cardinality(ledgerPriorityQueue) + Len(ledgerQueue)
    <3>1. Cardinality(ledgerPriorityQueue') = Cardinality(H \cup put)
      BY <2>1
    <3> QED
      BY <1>1, <1>3, <2>2, <3>1
  <2> QED
    BY <1>3, <2>1, <2>3, DepthKept
<1> QED
  BY <1>4, <1>5

(* A worker's step. *)
LEMMA DepthWorker ==
    ASSUME BufferTypeOK, HeldInv, DepthInv, NEW w \in Workers, WorkerStep(w)
    PROVE  DepthInv'
<1>t. /\ Len(taskQueue) \in Nat /\ Len(ledgerQueue) \in Nat /\ Cardinality(Busy) \in Nat
      /\ Cardinality(ledgerPriorityQueue) \in Nat /\ outstanding \in Int
      /\ LocalBufferSize(ledgerRange) \in Nat /\ IsFiniteSet(ledgerPriorityQueue)
  BY DepthType DEF DepthInv
<1>1. CASE TakeTask(w)
  <2>1. /\ taskQueue' = Tail(taskQueue) /\ pc' = [pc EXCEPT ![w] = "download"]
        /\ taskQueue \in Seq(Nat) /\ taskQueue # <<>> /\ w \notin Busy
        /\ UNCHANGED <<ledgerQueue, ledgerPriorityQueue, outstanding, ledgerRange>>
    BY <1>1 DEF TakeTask, orderVars, dispatchVars, BufferTypeOK, Busy, Carrying
  <2>2. Len(taskQueue') = Len(taskQueue) - 1
    BY <2>1, HeadTailProperties
  <2>3. Cardinality(Busy') = Cardinality(Busy) + 1
    BY <2>1, BusyCount DEF Carrying
  <2>4. Len(taskQueue') + Cardinality(Busy') + Cardinality(ledgerPriorityQueue') + Len(ledgerQueue')
          = Len(taskQueue) + Cardinality(Busy) + Cardinality(ledgerPriorityQueue) + Len(ledgerQueue)
    BY <1>t, <2>1, <2>2, <2>3
  <2> QED
    BY <1>t, <2>1, <2>4, DepthKept
<1>2. ASSUME NEW to, pc' = [pc EXCEPT ![w] = to], to \in Carrying => pc[w] \in Carrying,
             UNCHANGED <<taskQueue, ledgerQueue, ledgerPriorityQueue, outstanding, ledgerRange>>
      PROVE  DepthInv'
  <2>1. Cardinality(Busy') \in Int /\ Cardinality(Busy') <= Cardinality(Busy)
    <3>1. w \in Busy <=> pc[w] \in Carrying
      BY DEF Busy
    <3>2. \/ Cardinality(Busy') = Cardinality(Busy)
          \/ Cardinality(Busy') = Cardinality(Busy) - 1
      BY <1>2, <3>1, BusyCount
    <3> QED
      BY <1>t, <3>2
  <2> QED
    BY <1>t, <1>2, <2>1 DEF DepthInv, DepthBounded, LocalBufferSize
<1>3. ASSUME NEW from, NEW to, Goto(w, from, to), to \in Carrying => from \in Carrying
      PROVE  DepthInv'
  BY <1>2, <1>3 DEF Goto, orderVars, dispatchVars
<1>4. CASE DownloadOk(w) \/ DownloadNotFound(w) \/ WakeUp(w) \/ SeeCancel(w)
  BY <1>3, <1>4 DEF DownloadOk, DownloadNotFound, WakeUp, SeeCancel, Carrying
<1>5. CASE DownloadError(w)
  <2>1. CASE Goto(w, "download", "exited")
    BY <1>3, <2>1 DEF Carrying
  <2>2. CASE /\ pc[w] = "download" /\ pc' = [pc EXCEPT ![w] = "sleep"]
             /\ UNCHANGED <<ledgerRange, taskQueue, ledgerQueue, orderVars, dispatchVars>>
    BY <1>2, <2>2 DEF Carrying, orderVars, dispatchVars
  <2> QED
    BY <1>5, <2>1, <2>2 DEF DownloadError
<1>6. CASE StoreObject(w)
  <2>1. w \in Busy /\ currentLedger \in Nat
    BY <1>6 DEF StoreObject, Busy, Carrying, BufferTypeOK
  <2>2. /\ DrainFrom(w, ledgerPriorityQueue \cup {task[w]}, currentLedger)
        /\ UNCHANGED <<taskQueue, ledgerQueue, outstanding, ledgerRange>>
    BY <1>6 DEF StoreObject, dispatchVars
  <2> QED
    BY <2>1, <2>2, DepthDrained
<1>7. CASE SendObject(w)
  <2>1. /\ ledgerQueue' = Append(ledgerQueue, task[w]) /\ pc' = [pc EXCEPT ![w] = "advance"]
        /\ ledgerQueue \in Seq(Nat) /\ task[w] \in Nat /\ w \in Busy
        /\ UNCHANGED <<taskQueue, ledgerPriorityQueue, outstanding, ledgerRange>>
    BY <1>7 DEF SendObject, orderVars, dispatchVars, BufferTypeOK, Busy, Carrying
  <2>2. Len(ledgerQueue') = Len(ledgerQueue) + 1
    BY <2>1, AppendProperties
  <2>3. Cardinality(Busy') = Cardinality(Busy) - 1
    <3>1. "advance" \notin Carrying
      BY DEF Carrying
    <3> QED
      BY <2>1, <3>1, BusyCount
  <2>4. Len(taskQueue') + Cardinality(Busy') + Cardinality(ledgerPriorityQueue') + Len(ledgerQueue')
          = Len(taskQueue) + Cardinality(Busy) + Cardinality(ledgerPriorityQueue) + Len(ledgerQueue)
    BY <1>t, <2>1, <2>2, <2>3
  <2> QED
    BY <1>t, <2>1, <2>4, DepthKept
<1>8. CASE AdvanceCurrent(w)
  <2>1. w \notin Busy /\ currentLedger + LedgersPerFile \in Nat
    BY <1>8, SchemaAssumption DEF AdvanceCurrent, Busy, Carrying, BufferTypeOK
  <2> DEFINE put == IF w \in Busy THEN {task[w]} ELSE {}
  <2>2. /\ DrainFrom(w, ledgerPriorityQueue \cup put, currentLedger + LedgersPerFile)
        /\ UNCHANGED <<taskQueue, ledgerQueue, outstanding, ledgerRange>>
    <3>1. ledgerPriorityQueue \cup put = ledgerPriorityQueue
      BY <2>1
    <3> QED
      BY <1>8, <3>1 DEF AdvanceCurrent, dispatchVars
  <2>3. put = IF w \in Busy THEN {task[w]} ELSE {}
    OBVIOUS
  <2> HIDE DEF put
  <2> QED
    BY <2>1, <2>2, <2>3, DepthDrained
<1> QED
  BY <1>1, <1>4, <1>5, <1>6, <1>7, <1>8 DEF WorkerStep

(* Every step keeps the pipeline within its depth. *)
LEMMA DepthStep ==
    BufferTypeOK /\ HeldInv /\ DepthInv /\ [BufferNext]_bufferVars => DepthInv'
<1> SUFFICES ASSUME BufferTypeOK, HeldInv, DepthInv, [BufferNext]_bufferVars
             PROVE  DepthInv'
  OBVIOUS
<1>t. /\ Len(taskQueue) \in Nat /\ Len(ledgerQueue) \in Nat /\ Cardinality(Busy) \in Nat
      /\ Cardinality(ledgerPriorityQueue) \in Nat /\ outstanding \in Int
      /\ LocalBufferSize(ledgerRange) \in Nat
  BY DepthType
<1>1. CASE PushTask
  <2>1. /\ taskQueue' = Append(taskQueue, nextTaskLedger) /\ outstanding' = outstanding + 1
        /\ outstanding <= depthLimit(lastSize)
        /\ UNCHANGED <<ledgerQueue, ledgerPriorityQueue, pc, ledgerRange>>
    BY <1>1 DEF PushTask, orderVars, workerVars
  <2>2. Len(taskQueue') = Len(taskQueue) + 1
    BY <2>1, AppendProperties DEF BufferTypeOK
  <2>3. outstanding <= LocalBufferSize(ledgerRange)
    <3>1. lastSize \in {0} \cup BatchSizes
      BY DEF BufferTypeOK
    <3> QED
      BY <1>t, <2>1, <3>1, LimitBelowSize
  <2>4. Busy' = Busy
    BY <2>1 DEF Busy
  <2> QED
    BY <1>t, <2>1, <2>2, <2>3, <2>4 DEF DepthInv, DepthBounded, LocalBufferSize
<1>2. ASSUME NEW size \in BatchSizes, getFromLedgerQueue(size) PROVE DepthInv'
  <2>1. /\ ledgerQueue # <<>> /\ ledgerQueue' = Tail(ledgerQueue) /\ outstanding' = outstanding - 1
        /\ UNCHANGED <<taskQueue, ledgerPriorityQueue, pc, ledgerRange>>
    BY <1>2 DEF getFromLedgerQueue, orderVars, workerVars
  <2>2. Len(ledgerQueue') = Len(ledgerQueue) - 1
    BY <2>1, HeadTailProperties DEF BufferTypeOK
  <2>3. Busy' = Busy
    BY <2>1 DEF Busy
  <2> QED
    BY <1>t, <2>1, <2>2, <2>3 DEF DepthInv, DepthBounded, LocalBufferSize
<1>3. ASSUME UNCHANGED <<taskQueue, ledgerQueue, ledgerPriorityQueue, pc, outstanding, ledgerRange>>
      PROVE  DepthInv'
  BY <1>3 DEF DepthInv, DepthBounded, Busy, LocalBufferSize
<1>4. CASE StopFilling \/ CancelBuffer \/ Publish
  BY <1>3, <1>4 DEF StopFilling, CancelBuffer, Publish, orderVars, workerVars, dispatchVars
<1>5. CASE UNCHANGED bufferVars
  BY <1>3, <1>5 DEF bufferVars
<1> QED
  BY <1>1, <1>2, <1>4, <1>5, DepthWorker DEF BufferNext

(* The objects in the pipeline never exceed what outstanding counts, nor the     *)
(* buffer size by more than one, whatever the byte cap answers (replenish).      *)
THEOREM PipelineBounded == BufferSpec => []DepthBounded
<1>1. BufferInit => DepthInv
  <2> SUFFICES ASSUME BufferInit PROVE DepthInv
    OBVIOUS
  <2>1. Busy = {} /\ Len(taskQueue) = 0 /\ Len(ledgerQueue) = 0
    BY DEF BufferInit, Busy, Carrying
  <2>2. LocalBufferSize(ledgerRange) \in Nat
    BY BufferSizeIsNat DEF BufferInit
  <2> QED
    BY <2>1, <2>2, FS_EmptySet DEF BufferInit, DepthInv, DepthBounded
<1>2. DepthInv => DepthBounded
  BY DEF DepthInv
<1>3. BufferInit => HeldInv
  BY HeldInitially, RangeIsNat DEF BufferInit, Carrying
<1> QED
  BY <1>1, <1>2, <1>3, HeldStep, DepthStep, TypeCorrect, OrderCorrect, PTL DEF BufferSpec
=============================================================================
