---------------------------- MODULE LedgerBuffer ----------------------------
(***************************************************************************)
(* ingest/ledgerbackend/ledger_buffer.go: a pool of workers downloads the   *)
(* objects of a ledger range in parallel, a priority queue puts them back   *)
(* in order, a channel hands them to one consumer, and every object the     *)
(* consumer takes pays for the dispatch of further downloads.               *)
(*                                                                          *)
(* A task, and the object it downloads, is named by the sequence number the *)
(* dispatcher put in the task queue.  Each step below is what one goroutine *)
(* does between two points where another can run: a channel operation, a    *)
(* lock, the return of a download, a timer.                                 *)
(***************************************************************************)
EXTENDS DataStoreSchema, Sequences, FiniteSets

CONSTANTS
    Workers,       \* the worker goroutines; their number is config.NumWorkers
    BufferSize,    \* config.BufferSize, in objects
    BufferBytes,   \* config.BufferBytes; 0 disables the byte cap
    BatchSizes,    \* the capacities a downloaded object's buffer may have
    RetryLimit,    \* config.RetryLimit
    Ranges,        \* the ledger ranges a buffer may be opened for
    LastPublished  \* bound: the last ledger the exporter ever publishes

\* What NewBufferedStorageBackend accepts, and what a caller may ask for.
ASSUME BufferAssumption ==
    /\ IsFiniteSet(Workers)
    /\ BufferSize \in Nat \ {0}
    /\ Cardinality(Workers) \in 1 .. BufferSize
    /\ BufferBytes \in Nat
    /\ BatchSizes \subseteq Nat \ {0}
    /\ RetryLimit \in Nat
    /\ Ranges \subseteq [from : Sequence, to : Sequence, bounded : BOOLEAN]
    /\ \A r \in Ranges : r.from <= r.to
    /\ LastPublished \in Nat

VARIABLES
    ledgerRange,          \* the range this buffer serves
    taskQueue,            \* chan uint32: tasks not yet taken by a worker
    ledgerQueue,          \* chan []byte: objects in order, ready for the consumer
    ledgerPriorityQueue,  \* heap of downloaded objects that wait for their turn
    currentLedger,        \* the task the priority queue has to emit next
    nextTaskLedger,       \* the task to dispatch next
    outstanding,          \* tasks dispatched and not yet consumed
    cause,                \* context.Cause of the buffer's context
    pc,                   \* where each worker is
    task,                 \* the task, or the popped item, a worker holds
    attempt,              \* failed attempts of that task
    lastSize,             \* argument of the replenish call in progress
    filling,              \* the consumer is inside replenish
    nextDelivery,         \* history: the task whose object the consumer gets next
    published             \* the data store holds every object up to this ledger

workerVars == <<pc, task, attempt>>
orderVars == <<ledgerPriorityQueue, currentLedger>>
dispatchVars == <<nextTaskLedger, outstanding, lastSize, filling>>
bufferVars == <<ledgerRange, taskQueue, ledgerQueue, ledgerPriorityQueue, currentLedger,
                nextTaskLedger, outstanding, cause, pc, task, attempt, lastSize, filling,
                nextDelivery, published>>

Min(a, b) == IF a < b THEN a ELSE b
Max(a, b) == IF a > b THEN a ELSE b

PCs == {"idle", "download", "sleep", "store", "send", "advance", "exited"}
Causes == {"none", "missing", "retries", "canceled"}

\* A worker that is responsible for one dispatched object.
Carrying == {"download", "sleep", "store", "send"}
\* A worker that holds priorityQueueLock at a point where another goroutine can run.
Locking == {"send", "advance"}
-----------------------------------------------------------------------------
\* config.BufferSize of the buffer: no more than the ledgers of a bounded range.
LocalBufferSize(r) ==
    IF r.bounded THEN Min(BufferSize, Sub32(r.to, r.from) + 1) ELSE BufferSize

\* Mutant: the byte cap without the clamp to the buffer size.
depthLimit_Unclamped(size) ==
    IF BufferBytes = 0 \/ size = 0 THEN LocalBufferSize(ledgerRange)
    ELSE Max(BufferBytes \div size, 1)

depthLimit(size) ==
    LET limit == LocalBufferSize(ledgerRange)
    IN  IF BufferBytes = 0 THEN limit
        ELSE IF size = 0 THEN Min(limit, Cardinality(Workers))
        ELSE Min(limit, Max(BufferBytes \div size, 1))

\* In bounded mode nothing is queued past the object that holds the last ledger.
Exhausted ==
    /\ ledgerRange.bounded
    /\ nextTaskLedger > GetSequenceNumberEndBoundary(ledgerRange.to)

Canceled == cause # "none"

\* A context keeps the first cause it is canceled with.
CancelWith(c) == cause' = IF Canceled THEN cause ELSE c

\* The object of task s is in the data store.
Exists(s) == GetSequenceNumberEndBoundary(s) <= published

\* The heap's minimum, if there is one, is the object to emit next.
TopIsNext(heap, current) == current \in heap /\ \A s \in heap : current <= s
-----------------------------------------------------------------------------
(* newLedgerBuffer: empty queues, idle workers, and a first replenish(0). *)
OpenBuffer(r) ==
    /\ ledgerRange' = r
    /\ taskQueue' = <<>>
    /\ ledgerQueue' = <<>>
    /\ ledgerPriorityQueue' = {}
    /\ currentLedger' = r.from
    /\ nextTaskLedger' = r.from
    /\ outstanding' = 0
    /\ cause' = "none"
    /\ pc' = [w \in Workers |-> "idle"]
    /\ task' = [w \in Workers |-> r.from]
    /\ attempt' = [w \in Workers |-> 0]
    /\ lastSize' = 0
    /\ filling' = TRUE
    /\ nextDelivery' = r.from
    /\ UNCHANGED published

BufferInit ==
    /\ ledgerRange \in Ranges
    /\ taskQueue = <<>>
    /\ ledgerQueue = <<>>
    /\ ledgerPriorityQueue = {}
    /\ currentLedger = ledgerRange.from
    /\ nextTaskLedger = ledgerRange.from
    /\ outstanding = 0
    /\ cause = "none"
    /\ pc = [w \in Workers |-> "idle"]
    /\ task = [w \in Workers |-> ledgerRange.from]
    /\ attempt = [w \in Workers |-> 0]
    /\ lastSize = 0
    /\ filling = TRUE
    /\ nextDelivery = ledgerRange.from
    /\ published \in 0 .. LastPublished
-----------------------------------------------------------------------------
(* The consumer: replenish, pushTaskQueue, getFromLedgerQueue, close.       *)

\* One turn of the replenish loop that dispatches a task.  The send may block;
\* after a cancellation the select may still pick it.
PushTask ==
    /\ filling
    /\ outstanding <= depthLimit(lastSize)
    /\ ~Exhausted
    /\ Len(taskQueue) < LocalBufferSize(ledgerRange)
    /\ taskQueue' = Append(taskQueue, nextTaskLedger)
    /\ nextTaskLedger' = nextTaskLedger + LedgersPerFile
    /\ outstanding' = outstanding + 1
    /\ UNCHANGED <<ledgerRange, ledgerQueue, orderVars, cause, workerVars, lastSize,
                   filling, nextDelivery, published>>

\* Mutant: the send of pushTaskQueue is not guarded by the buffer's context.
StopFilling_Unguarded ==
    /\ filling
    /\ outstanding > depthLimit(lastSize) \/ Exhausted
    /\ filling' = FALSE
    /\ UNCHANGED <<ledgerRange, taskQueue, ledgerQueue, orderVars, nextTaskLedger,
                   outstanding, cause, workerVars, lastSize, nextDelivery, published>>

\* replenish returns: deep enough, nothing left to dispatch, or canceled.
StopFilling ==
    /\ filling
    /\ \/ outstanding > depthLimit(lastSize)
       \/ Exhausted
       \/ Canceled
    /\ filling' = FALSE
    /\ UNCHANGED <<ledgerRange, taskQueue, ledgerQueue, orderVars, nextTaskLedger,
                   outstanding, cause, workerVars, lastSize, nextDelivery, published>>

\* getFromLedgerQueue takes an object whose buffer has capacity size; the
\* replenish it calls runs in the steps above.
getFromLedgerQueue(size) ==
    /\ ~filling
    /\ ledgerQueue # <<>>
    /\ ledgerQueue' = Tail(ledgerQueue)
    /\ outstanding' = outstanding - 1
    /\ lastSize' = size
    /\ filling' = TRUE
    /\ nextDelivery' = Head(ledgerQueue) + LedgersPerFile
    /\ UNCHANGED <<ledgerRange, taskQueue, orderVars, nextTaskLedger, cause, workerVars,
                   published>>

\* The first half of close(): the workers are told to stop.
CancelBuffer ==
    /\ CancelWith("canceled")
    /\ UNCHANGED <<ledgerRange, taskQueue, ledgerQueue, orderVars, dispatchVars, workerVars,
                   nextDelivery, published>>
-----------------------------------------------------------------------------
(* The workers. *)

TakeTask(w) ==
    /\ pc[w] = "idle"
    /\ taskQueue # <<>>
    /\ taskQueue' = Tail(taskQueue)
    /\ pc' = [pc EXCEPT ![w] = "download"]
    /\ task' = [task EXCEPT ![w] = Head(taskQueue)]
    /\ attempt' = [attempt EXCEPT ![w] = 0]
    /\ UNCHANGED <<ledgerRange, ledgerQueue, orderVars, dispatchVars, cause, nextDelivery,
                   published>>

\* A worker moves without touching anything but its program counter.
Goto(w, from, to) ==
    /\ pc[w] = from
    /\ pc' = [pc EXCEPT ![w] = to]
    /\ UNCHANGED <<ledgerRange, taskQueue, ledgerQueue, orderVars, dispatchVars, task, attempt,
                   nextDelivery, published>>

\* downloadLedgerObject succeeds.
DownloadOk(w) ==
    /\ Exists(task[w])
    /\ Goto(w, "download", "store")
    /\ UNCHANGED cause

\* Mutant: a missing object is given up without an error.
DownloadNotFound_Skip(w) ==
    ~Exists(task[w]) /\ Goto(w, "download", "idle") /\ UNCHANGED cause

\* The object does not exist: in an unbounded range it is waited for, in a
\* bounded one it is fatal.
DownloadNotFound(w) ==
    /\ ~Exists(task[w])
    /\ \/ ~ledgerRange.bounded /\ Goto(w, "download", "sleep") /\ UNCHANGED cause
       \/ ledgerRange.bounded /\ Goto(w, "download", "exited") /\ CancelWith("missing")

\* Mutant: the retry count is compared after one attempt too many.
DownloadError_OneMore(w) ==
    /\ pc[w] = "download"
    /\ attempt[w] <= RetryLimit
    /\ pc' = [pc EXCEPT ![w] = "sleep"]
    /\ attempt' = [attempt EXCEPT ![w] = @ + 1]
    /\ UNCHANGED <<ledgerRange, taskQueue, ledgerQueue, orderVars, dispatchVars, cause, task,
                   nextDelivery, published>>

\* Any other failure is retried RetryLimit times.
DownloadError(w) ==
    \/ /\ attempt[w] = RetryLimit
       /\ Goto(w, "download", "exited")
       /\ CancelWith("retries")
    \/ /\ pc[w] = "download"
       /\ attempt[w] < RetryLimit
       /\ pc' = [pc EXCEPT ![w] = "sleep"]
       /\ attempt' = [attempt EXCEPT ![w] = @ + 1]
       /\ UNCHANGED <<ledgerRange, taskQueue, ledgerQueue, orderVars, dispatchVars, cause, task,
                      nextDelivery, published>>

\* sleepWithContext runs to its end.
WakeUp(w) == Goto(w, "sleep", "download") /\ UNCHANGED cause

\* Mutant: the worker loop waits for a task without watching the context.
SeeCancel_NotIdle(w) ==
    /\ Canceled
    /\ \E at \in {"download", "sleep", "send"} : Goto(w, at, "exited")
    /\ UNCHANGED cause

\* A worker sees the cancellation: idle, in a download, asleep, or in the send
\* of storeObject, where the item it has popped is dropped.
SeeCancel(w) ==
    /\ Canceled
    /\ \E at \in {"idle", "download", "sleep", "send"} : Goto(w, at, "exited")
    /\ UNCHANGED cause

\* Mutant: the heap's minimum is sent whether or not it is the next object.
DrainFrom_AnyTop(w, heap, current) ==
    IF heap # {}
    THEN LET top == CHOOSE s \in heap : \A t \in heap : s <= t
         IN  /\ ledgerPriorityQueue' = heap \ {top}
             /\ pc' = [pc EXCEPT ![w] = "send"]
             /\ task' = [task EXCEPT ![w] = top]
    ELSE /\ ledgerPriorityQueue' = heap
         /\ pc' = [pc EXCEPT ![w] = "idle"]
         /\ UNCHANGED task

\* The loop of storeObject over the heap: pop the next object and send it, or
\* unlock and go back to the task queue.
DrainFrom(w, heap, current) ==
    IF TopIsNext(heap, current)
    THEN /\ ledgerPriorityQueue' = heap \ {current}
         /\ pc' = [pc EXCEPT ![w] = "send"]
         /\ task' = [task EXCEPT ![w] = current]
    ELSE /\ ledgerPriorityQueue' = heap
         /\ pc' = [pc EXCEPT ![w] = "idle"]
         /\ UNCHANGED task

\* storeObject up to its first send; nobody else may hold priorityQueueLock.
StoreObject(w) ==
    /\ pc[w] = "store"
    /\ \A v \in Workers : pc[v] \notin Locking
    /\ DrainFrom(w, ledgerPriorityQueue \cup {task[w]}, currentLedger)
    /\ UNCHANGED <<ledgerRange, taskQueue, ledgerQueue, currentLedger, dispatchVars, cause,
                   attempt, nextDelivery, published>>

\* The send to ledgerQueue, which blocks while the channel is full.
SendObject(w) ==
    /\ pc[w] = "send"
    /\ Len(ledgerQueue) < LocalBufferSize(ledgerRange)
    /\ ledgerQueue' = Append(ledgerQueue, task[w])
    /\ pc' = [pc EXCEPT ![w] = "advance"]
    /\ UNCHANGED <<ledgerRange, taskQueue, orderVars, dispatchVars, cause, task, attempt,
                   nextDelivery, published>>

\* currentLedger is advanced after the send, and the loop goes round.
AdvanceCurrent(w) ==
    /\ pc[w] = "advance"
    /\ currentLedger' = currentLedger + LedgersPerFile
    /\ DrainFrom(w, ledgerPriorityQueue, currentLedger + LedgersPerFile)
    /\ UNCHANGED <<ledgerRange, taskQueue, ledgerQueue, dispatchVars, cause, attempt,
                   nextDelivery, published>>

WorkerStep(w) ==
    \/ TakeTask(w)
    \/ DownloadOk(w)
    \/ DownloadNotFound(w)
    \/ DownloadError(w)
    \/ WakeUp(w)
    \/ SeeCancel(w)
    \/ StoreObject(w)
    \/ SendObject(w)
    \/ AdvanceCurrent(w)

\* The exporter, outside this program, publishes the next object.
Publish ==
    /\ published < LastPublished
    /\ published' = GetSequenceNumberEndBoundary(published + 1)
    /\ UNCHANGED <<ledgerRange, taskQueue, ledgerQueue, orderVars, dispatchVars, cause,
                   workerVars, nextDelivery>>
-----------------------------------------------------------------------------
BufferNext ==
    \/ PushTask
    \/ StopFilling
    \/ \E size \in BatchSizes : getFromLedgerQueue(size)
    \/ CancelBuffer
    \/ \E w \in Workers : WorkerStep(w)
    \/ Publish

BufferSpec == BufferInit /\ [][BufferNext]_bufferVars
-----------------------------------------------------------------------------
(* Properties. *)

Elements(s) == {s[i] : i \in 1 .. Len(s)}

\* The workers that answer for a dispatched object.
Busy == {w \in Workers : pc[w] \in Carrying}

\* Type invariant of the buffer's state (struct ledgerBuffer and its goroutines).
BufferTypeOK ==
    /\ ledgerRange \in Ranges
    /\ taskQueue \in Seq(Nat)
    /\ ledgerQueue \in Seq(Nat)
    /\ ledgerPriorityQueue \in SUBSET Nat
    /\ currentLedger \in Nat
    /\ nextTaskLedger \in Nat
    /\ outstanding \in Int
    /\ cause \in Causes
    /\ pc \in [Workers -> PCs]
    /\ task \in [Workers -> Nat]
    /\ attempt \in [Workers -> 0 .. RetryLimit]
    /\ lastSize \in {0} \cup BatchSizes
    /\ filling \in BOOLEAN
    /\ nextDelivery \in Nat
    /\ published \in Nat

\* The objects reach the consumer in the order of the range, without a gap and
\* without a repetition, however the parallel downloads finish: whatever is at
\* the head of ledgerQueue is the object after the one delivered last, and each
\* entry is followed by the object after it (storeObject).
DeliveredInOrder ==
    /\ ledgerQueue # <<>> => Head(ledgerQueue) = nextDelivery
    /\ \A i \in 1 .. Len(ledgerQueue) - 1 : ledgerQueue[i + 1] = ledgerQueue[i] + LedgersPerFile

\* The dispatched objects that are not yet delivered, wherever they are.
Carried == {task[w] : w \in Busy}
Held == Elements(taskQueue) \cup Carried \cup ledgerPriorityQueue \cup Elements(ledgerQueue)

Distinct(s) == \A i, j \in 1 .. Len(s) : s[i] = s[j] => i = j

\* No object is held twice: a task is in the task queue, with one worker, in the
\* priority queue or in the ledger queue, and only in one of them.
HeldOnce ==
    /\ Distinct(taskQueue)
    /\ \A v, w \in Busy : task[v] = task[w] => v = w
    /\ \A w \in Busy : task[w] \notin Elements(taskQueue) \cup ledgerPriorityQueue
    /\ Elements(taskQueue) \cap ledgerPriorityQueue = {}
    /\ \A s \in Elements(taskQueue) \cup Carried \cup ledgerPriorityQueue :
           s \notin Elements(ledgerQueue)

\* While the buffer is not canceled no dispatched object is lost: everything from
\* the next delivery up to the next task is held somewhere.
NothingLost ==
    ~Canceled =>
      Held = {s \in nextDelivery .. nextTaskLedger - 1 : (s - nextDelivery) % LedgersPerFile = 0}

\* A dispatched object is in one place until it is delivered: never in two, and
\* never nowhere while the buffer is not canceled, whatever the workers do.
ExactlyOnce == HeldOnce /\ NothingLost

\* The depth of the pipeline: the objects it holds are counted by outstanding,
\* and outstanding never exceeds the buffer size by more than one (the comment
\* of BufferedStorageBackendConfig.BufferSize).
DepthBounded ==
    /\ Len(taskQueue) + Cardinality(Busy) + Cardinality(ledgerPriorityQueue)
          + Len(ledgerQueue) <= outstanding
    /\ outstanding <= LocalBufferSize(ledgerRange) + 1

\* storeObject's critical section: one worker at a time drains the heap.
MutualExclusion ==
    \A v, w \in Workers : pc[v] \in Locking /\ pc[w] \in Locking => v = w

\* The strengthening of DeliveredInOrder and MutualExclusion that every step
\* preserves: the object sent last to ledgerQueue is the one before currentLedger,
\* or currentLedger itself between the send and the increment, and the worker that
\* is about to send holds currentLedger.
SomeoneAdvances == \E w \in Workers : pc[w] = "advance"
AwaitedNext == IF SomeoneAdvances THEN currentLedger + LedgersPerFile ELSE currentLedger
OrderInv ==
    /\ MutualExclusion
    /\ DeliveredInOrder
    /\ \A w \in Workers : pc[w] = "send" => task[w] = currentLedger
    /\ IF ledgerQueue = <<>>
       THEN nextDelivery = AwaitedNext
       ELSE ledgerQueue[Len(ledgerQueue)] + LedgersPerFile = AwaitedNext

\* The strengthening of ExactlyOnce: nothing is held that was not dispatched, and the
\* dispatcher and the consumer are whole objects apart, canceled or not.
HeldInv ==
    /\ ExactlyOnce
    /\ Distinct(ledgerQueue)
    /\ \A s \in Held : s < nextTaskLedger
    /\ nextDelivery <= nextTaskLedger
    /\ (nextTaskLedger - nextDelivery) % LedgersPerFile = 0

\* The strengthening of DepthBounded: the heap is finite.
DepthInv == DepthBounded /\ IsFiniteSet(ledgerPriorityQueue)
=============================================================================
