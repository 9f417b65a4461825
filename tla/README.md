# Verification of the ingestion pipeline of go-stellar-sdk

This directory holds TLA+ specifications of the parts of go-stellar-sdk that
keep state, run concurrently or survive failures: the ledger backends of
`ingest/ledgerbackend`, which hand the ledgers of a range to a reader, and the
stream over them; the change reader and the change compactor of `ingest`, which
tell what a ledger changes; the checkpoint reader, which rebuilds the state of a
ledger from the buckets of an archive; the archive tools of `historyarchive`; and
the order book graph of `exp/orderbook`, which keeps the offers of a ledger and
finds paths through them. TLC checks them on small instances; TLAPS proves the
theorems of the eight `*Proofs` modules for every value of the constants.
`PROJECT.json` maps every definition to the source lines it translates and lists
the runs, the mutants that show the properties are able to fail, the findings and
the hazards.

    tlc -config LedgerBuffer.cfg MCLedgerBuffer      # and so on, see "Runs"
    tlapm LedgerBufferProofs.tla                     # and the other *Proofs modules

## 1. The system and its parts

The repository is a library. Most of it converts data (XDR, keys, amounts,
transactions) or talks to servers, one call at a time. The core that is hard to
get right is ingestion: get every ledger of a range, in order, from a source that
is slow, parallel, or another process, tell the consumer what it changes, and keep
a consistent picture of the state those changes add up to.

| Part | State | Operations | Interaction | What is hard |
|---|---|---|---|---|
| Ledger buffer `ledger_buffer.go` | task channel, heap, ledger channel, three counters, workers | `replenish`, `worker`, `storeObject`, `getFromLedgerQueue`, `close` | worker goroutines; one consumer, who dispatches new work as it takes objects | order out of parallel downloads; back pressure; cancellation at every blocking point |
| Buffered storage backend `buffered_storage_backend.go` | prepared range, two cursors, loaded batch | `PrepareRange`, `IsPrepared`, `GetLedger`, `Close`; `GetLatestLedgerSequence` (reads, not modelled) | owns a ledger buffer; `Close` from another goroutine beside `GetLedger` | cursors after failures and timeouts; Close against decompression |
| Captive core backend `captive_core_backend.go` | prepared range, cursors, previous hash, cached ledger, closed flag | the same | owns a runner; read and write lock | what a stream may contain; which state outlives a session |
| stellar-core runner `stellar_core_runner.go`, `buffered_meta_pipe_reader.go`, `file_watcher.go`, `run_from.go`, `catchup.go` | process, pipe, read-ahead channel, exit error, database on disk | `startMetaStream`, `handleExit`, `start`, `close`, `cleanup` | four goroutines and a process | shutting all of them down from any state |
| RPC backend `rpc_backend.go` | buffer of a batch, cursor | the same as the other backends | one server; `Close` takes no lock | the server's window moves between two requests |
| Ledger streams `ledger_stream.go` | loop variable, backend | `RawLedgers` | owns a backend; the consumer's loop; a context | teardown on every way out; the end of a range |
| Change and transaction readers `ledger_change_reader.go`, `ledger_transaction_reader.go` | state, positions, pending changes | `Read`, `Close` | input of the compacting reader | three walks over one list of transactions, errors in the middle of one |
| Change compactor `change_compactor.go` | one change per entry | `AddChange`, `GetChanges` | input reader, consumer's store | long histories of one entry in one ledger |
| Checkpoint change reader `checkpoint_change_reader.go`, `xdrstream.go` | bucket list, stream, set of keys seen, channel, one context | `Read`, `Close` | a goroutine reads the buckets; the archive fails and is tried again | a stream resumed in the middle; entries shadowed by newer buckets; the first error wins |
| Archive tools `mirror.go`, `repair.go`, `scan.go`, `archive.go` | two storages; what a scan has noted | `Mirror`, `Repair`, `Scan`, `ReportMissing` | goroutines per checkpoint; shared maps | files cut off; success reported with files missing; two goroutines and one bucket |
| Order book graph `exp/orderbook` | asset numbers, offers, pools, two venue tables, the batch | batch updates, `Apply`, `Verify`, `FindPaths`, `FindFixedPaths` | read and write lock | tables in step while asset numbers are reused; int64 amounts |
| Archive pool, access to archives and data stores | last error, caches | `GetFile`, lists, searches | used by the parts above | - |
| Transaction builder, clients, processors, XDR, keys | none that outlives a call | conversions | - | data |

What makes each part correct:

* ledger buffer: objects reach the consumer in order, none lost or doubled, within
  the depth and the range, and nobody waits for ever;
* every backend: after `PrepareRange` the ledgers of the range come one by one,
  a failed call changes nothing that a later call relies on, and `Close` ends what
  is in progress;
* captive core: only one chain of ledgers is accepted, and no process, goroutine or
  pipe survives its session;
* stream: the consumer sees the range from its first ledger on, without a gap, and
  to the end if there was no error; the backend is closed on every way out;
* change reader: every change of a ledger once, in the order fees, transactions,
  refunds, upgrades;
* compactor: applying the squashed changes is the same as applying all changes;
* checkpoint reader: every live entry once, with its newest value, or an error;
* archive tools: no error means that the files are there, and a report names
  exactly what is missing;
* order book: the graph holds the offers and pools the batches say, in every table,
  and a path that is found can be traded for the amount it names.

`PROJECT.json` lists the hazards line by line.

## 2. Modules

    DataStoreSchema <- LedgerBuffer <- BufferedStorage --implements--> OrderedLedgers
                                                                            ^
    Checkpoints <- CoreRunner <- CaptiveCore        RPCBackend -------------+
         ^                                              ^ LedgerStream
         ArchiveTools
    ChangeCompactor <- ChangeReader                 CheckpointReader
    Exchange <- OrderBookGraph <- PathSearch
                     |  ^--- BookUpdates ---v
                     +--implements--> OfferBook

(`<-` and `^` are EXTENDS.) Every `MC*` module only fixes constants for TLC.
The theorems about a module `M` and its proofs are in `MProofs`, which EXTENDS `M`; those
of `RPCBackend` are in `LedgerStreamProofs`, those of `CoreRunner` in
`CaptiveCoreProofs`, those of `ChangeReader` in `ChangeCompactorProofs`, and
`BufferedStorageProofs` EXTENDS `LedgerBufferProofs`; those of `OrderBookGraph` and
`PathSearch` are in `OrderBookProofs`. The inductive invariants the proofs rest on stand
at the end of the modules they are about, those of the order book at the beginning of
its proofs.

**OrderedLedgers** is the abstract specification of a backend: what interface
`LedgerBackend` promises its one reader. `BufferedStorage` and `RPCBackend` are shown
to implement it (`ServesInOrder`); the refinement mapping takes the prepared range,
the ledger served last and the closed flag. The captive core backend lets a client
skip ledgers, so it does not implement this contract; `OneChain` says what it does.

**LedgerBuffer** has one action for each piece of code a goroutine runs between two
points where another can run: a channel operation, a lock, the return of a
download, a timer. A worker is in one of `idle` (on the task channel), `download`,
`sleep`, `store` (before the lock), `send` (holds the lock, blocked on the ledger
channel), `advance` (sent, `currentLedger` not moved yet) and `exited`. Objects are
named by the sequence number that was dispatched, which need not be the first one
of the object. `replenish` is a loop of `PushTask` ended by `StopFilling`, because a
push can block. The heap is a set. The pools of byte buffers are left out: they
recycle memory, and an object's capacity, which `depthLimit` uses, is an
argument. `published` is the data store; an object exists when its last ledger
is published.

**BufferedStorage** adds the backend. `PrepareRange` is three steps (close the old
buffer; wait for its workers and open the new one; return when the first replenish
is done), `GetLedger` up to four (drop the batch and wait; take an object and
replenish; decompress; install and serve). A call that is refused changes nothing and
is a stuttering step. `Close` runs in a goroutine of its own, excluded from
`PrepareRange` by the lock and not from `GetLedger`. The difference of request and
batch start is taken modulo 2^32 as in the code (`Sub32`). The zstd decoder is external:
`DecodeAll` takes a block from a channel and gives it back at its end, and `Close` of the
decoder closes that channel, drains it and sets it to nil. `decoder` is `open`, `shut`
(`CloseDecoder`) and then `nil` (`DropDecoder`). A decompression that ends while it is
open yields the batch or an error, one that ends while it is shut panics
(`DecodePanic`), and one that ends later sends on a nil channel and stays there with
the read lock held (`DecodeHang`).

In both backends a ledger is served when its bytes are there and the cursor has moved.
`GetLedger` unmarshals them afterwards (`buffered_storage_backend.go:286`,
`rpc_backend.go:132`); if that fails the caller has the error in place of the ledger and
the state is the same, so the failure is no action of its own.

**CoreRunner** is the runner. stellar-core is external: it writes the ledgers of a
chain, at most once in a session a wrong frame (a gap, a frame of another chain, an
unreadable header, hash or length), and exits at any time. `proc` separates the
death of the process, the closing of the pipe and the recording of the exit, in
the order of `handleExit`. `cleanup` is the one call of `close` that `closeOnce`
lets through. `lcl` is the database that an earlier session left on disk.

**CaptiveCore** is the backend on top of it; `handleMetaPipeResult` is translated
with the order of its checks and assignments, including `nextLedger` moving before
the hash is read. Failures of the archives, of directories and of the start of a
process are `OpenFails`.

**RPCBackend**: the calls hold one lock from beginning to end, so there is one
call at a time, cut where it talks to the server or waits. The server answers with
any prefix of the batch, nothing, an error, or a batch with an entry that is not
base64.

**LedgerStream** composes `streamRaw` with the RPC backend: it prepares the range,
asks for one ledger after another, yields it, and closes the backend when the loop
completes, the consumer breaks off, a call fails or the context is canceled. It sees
the result of a call when the call has returned. `streamRange = NoRange` stands for
clients that call the backend themselves, so one run covers both.

**ChangeCompactor**: `start` and `now` are the ledger before and after the changes
read so far, `store` is the consumer's copy. The ledger makes every legal change;
changes that contradict the cache are tried too. The configuration decides whether
the store keeps archived entries, which is what
`SuppressRemoveAfterRestoreChange` is for.

**ChangeReader** is the input of the compactor: the reader's three walks over the
transactions and its walk over the upgrades. A ledger is the number of changes each
transaction has in each walk, with transactions whose envelope is unknown or whose
meta cannot be read; what the changes are, the compactor's actions choose. Read is
recursive in the code; one turn of it is a step. `ReadsEachChangeOnce` compares what
was returned with the set of the ledger's changes and the order of `Read`'s comment:
sorted, nothing else, nothing passed over, and at `io.EOF` everything.

**CheckpointReader**: the goroutine `streamBucketList` as a machine that opens a
bucket, reads a record, retries, checks the hash, sends; `Read` and `Close` beside it.
All errors, `Close` and the caller cancel one context whose first cause stays. Init
chooses any bucket list that a ledger can have left (`LegalList`): the records of a
bucket in order of their keys, each legal after the older ones of its key. `Snapshot`
is the state such a list stands for. `wanted` is one set of keys for the filter on entries
and the filter on keys: pairs of filters that disagree (section 5) are left out. The archive may fail a call, end a stream early or deliver a wrong
record, which only the hash of the bucket can tell.

**ArchiveTools**: `Mirror`, `Repair` and `Scan` with `ReportMissing`, one command after
another on one destination. A file is whole, cut off or absent; `Fault` is a failing
call of a storage and `Crash` the death of the process, after which the next command
starts with what is on disk. Mirror's goroutines go from file to file of a
checkpoint, so that two of them can meet at a bucket. `Archive` keeps what scans
noted, as in the code, over several commands of one process. `Concurrency` is the set of
goroutines a command starts and may be empty: the scans then fail (`CannotScan`,
`CannotScanBuckets`), Mirror copies nothing (`Through`). With `Verify` a bucket that is cut
off may pass, because `VerifyBucketHash` drops the error of reading it and compares the
hash of what was decompressed, which is complete when only the gzip trailer is cut; with
`Thorough` it is decoded (`VerifyBucketEntries`) and does not pass. `Noticed` says which
files cut off a scan finds with which options.

**OfferBook** is the abstract specification of the order book: a set of offers, a set
of pools, a queue of updates that take effect together; **BookUpdates** says what they
make of the two sets: of several updates of one offer or pool the last one counts.
**OrderBookGraph** is the graph: asset numbers that become vacant and are given to other
assets, both venue tables, the offers of an edge sorted by price, `Apply`, `Discard`,
`Clear` and `Verify`. `Apply` takes the lock and commits the batch, `applyNext` is one
turn of its loop (`position`), `applyReturns` its end; `applying` is the ledger of the
call, and while it is not 0 the lock is held, so that only `Apply` itself goes on.
`KeepsOffers` is the refinement: its mapping counts the updates that an `Apply` in
progress has still to make (`turns`) as made, since nobody can look at the graph before
the lock is free. **PathSearch** holds the searches: a search keeps the
read lock from beginning to end, so it is an operator on the graph, and the
invariants evaluate a set of queries whenever no `Apply` holds the lock and no update is
queued (`Searchable`; what is queued is no part of the graph). **Exchange** is the arithmetic of
offers and pools, with int64 sums that wrap around (`Int64`) and a `MaxInt64` the cfg
chooses. A path is a value: `search` keeps paths as linked nodes that they share and
rewires the node of a path found in the same iteration (`search.go:199-206`); the model
represents which path is extended, and not the aliasing of nodes.

Abstractions used throughout: ledgers are sequence numbers and payloads are left
out; hashes are pairs of sequence number and chain, or a flag that the hash
differs; sequence numbers are naturals (the wrap-around of a cursor within one
object of 2^32 is left out; they are about 2^26 today); metrics, logs and configuration
files are left out.

## 3. Runs

| Run | Module, cfg | Shows |
|---|---|---|
| `ledger_buffer` | MCLedgerBuffer, LedgerBuffer | `DeliveredInOrder`, `ExactlyOnce`, `DepthBounded` |
| `buffered_storage` | MCBufferedStorage, BufferedStorage | `CursorFollowsServed`, the refinement `ServesInOrder` |
| `buffered_storage_live` | MCBufferedStorage, BufferedStorageLive | `GetLedgerReturns`, `CloseFinishes`, `CloseInterrupts` |
| `captive_core` | MCCaptiveCore, CaptiveCore | `CursorsAgree`, `StartsInReach`, `NothingLeftRunning`, `PipeNeverClosesFirst`, `OneChain` |
| `captive_core_live` | MCCaptiveCore, CaptiveCoreLive | `GetLedgerReturns`, `CloseFinishes`, `CleanupFinishes` |
| `rpc_backend` | MCRPCBackend, RPCBackend | `BufferInStep`, `StreamsTheRange`, the refinement `ServesInOrder`, `GetLedgerReturns`, `Interruptible` |
| `change_compactor` | MCChangeCompactor, ChangeCompactor | `SquashCorrect`, `TypesFitStore`, `PreIsBeforeLedger`, `RejectsExactly`, `ReadsEachChangeOnce` |
| `order_book` | MCOrderBook, OrderBook | `Consistent`, `PathsAreReal`, `BestPathFound`, the refinement `KeepsOffers` |
| `checkpoint_reader` | MCCheckpointReader, CheckpointReader | `SnapshotExact`, `ErrorIsFinal`, `ReadReturns`, `GoroutineEnds` |
| `archive_tools` | MCArchiveTools, ArchiveTools | `CompleteOnSuccess`, `ScanTellsTruth`, `NoSharedWrites` |

`ledger_buffer`, `buffered_storage` and `change_compactor` also check a type invariant.

Two runs check what the documentation says and end in a counterexample; the findings
in `PROJECT.json` quote it:

* `bsb_CloseIsThreadSafe`: `Close` closes the zstd decoder while `GetLedger` is in
  `DecodeAll` on it; both hold the same read lock. Returning the block to the
  decoder panics when its channel has just been closed, and blocks for ever, the usual
  outcome, when the channel has been set to nil. `CloseInterrupts` is therefore about a
  `GetLedger` that waits for an object or dispatches tasks, and not about one that
  decompresses.
* `at_DryRunWritesNothing`: a dry run of `Mirror` replaces the root HAS of the
  destination, which then announces checkpoints that were not copied.

### Bounds

* Ledger buffer: two workers (the least with which downloads overtake each other),
  objects of two ledgers, a buffer of two objects, so that a bounded range is limited
  by its own length or by the buffer; a byte cap that allows one object or more
  depending on the size of the last one; one retry; ranges that start inside an
  object, of a single ledger, and unbounded. Workers are symmetric in the safety
  runs.
* Buffered storage: three ranges, of which one lies below another and one begins
  inside an object; every sequence may be asked for at any time.
* Captive core: checkpoints every four ledgers, one frame in the pipe and one in the
  channel (a full channel, on which a shutdown could hang, is then normal), two
  chains, an offline and an online range, so that every session can follow every
  other, over a database that an earlier one left. The liveness run has one chain
  and three ledgers.
* RPC backend and stream: batches of three, a window of four ledgers, seven ledgers:
  a batch ends within a range, and the next ledger can leave the window while it is
  waited for. A bounded and an unbounded stream.
* Change reader and compactor: one data entry and one TTL entry, two values, ledgers
  of up to six changes, from every initial ledger, in both configurations. Two more
  changes than any of the loops through created, updated, removed and restored takes.
  Four ledgers: one with changes in every state, one of upgrades only, one with an
  unknown transaction, one with meta that cannot be read.
* Order book: three batches of two updates, four assets, two offers that change pair
  and price, two pairs with a pool, one of them in two versions. Assets then come, go
  and take each other's numbers. Seven queries in both directions with up to three
  hops, with and without balances, are evaluated after every batch.
* Checkpoint reader: two keys, one of a kind that is never created twice, three
  buckets with every legal history of up to three records, a channel of one, one
  retry, two faults: a retry can succeed or fail, and a fault can follow another. The
  live list without and the hot archive with a filter.
* Archive tools: two commands, so that one works on what another left; two faults
  and two goroutines; two checkpoints that share a bucket and a third the source's
  root does not reach; six sets of options, with and without `Verify`, `Thorough`,
  `Force`, `DryRun` and goroutines; three kinds of source and a destination
  that is empty or has gaps.

CHECK_DEADLOCK is off in every run: each system may really stop, when the client
makes no further call, a bounded range is exhausted, the backend or reader is closed,
or the bound on commands or batches is reached.

### Fairness

Weak fairness for goroutines inside a call and for workers: the Go scheduler runs
what can run. Strong fairness where Go promises more: a `select` that finds a case
ready again and again picks it (`SeeCancel`, `WaitClosed`, and `ReadCanceled` for the
context of a stream); `sync.Mutex` hands the lock to a waiter (`StoreObject`), and
`sync.RWMutex` lets a waiting reader in (`CloseLocks`). A process whose context is
canceled ends, because `exec.Cmd` kills it after `WaitDelay`. An RPC server answers
requests; if it does not, only the caller's context ends the call. Calls of an
archive return, with or without an error. Nothing else is assumed: no client need
call, no context end, no exporter publish, stellar-core need not write, no server
advance, and nobody need call `Close`, read on or break off.

## 4. Proofs

Every theorem is about the same specification and the same definitions as the runs, for
every value of the constants that satisfies the assumptions of its module. The
bounds of the model (`MaxChanges`, `MaxFaults`, `MaxCommands`, `MaxRecords`,
`NetworkTip`) are constants too, and no proof uses a particular value of them. The
inductive invariants were first checked by TLC on the instances of the runs.

An assumption says what a constant is, or what the code's constructors and callers
guarantee: sizes are positive (`BufferAssumption`, `RunnerAssumption`), there are at
most as many workers as buffer slots, as `NewBufferedStorageBackend` demands, a range
has a first ledger that is not after its last, the marks for "none" are not values.

**LedgerBufferProofs** (`SchemaAssumption`, `BufferAssumption`)

* `TypeCorrect`: `BufferSpec => []BufferTypeOK`.
* `DeliveryOrder`: `BufferSpec => []DeliveredInOrder`. The invariant says nothing of the
  object a worker is about to send. `OrderInv` adds that only one worker is inside
  `storeObject`'s lock at a blocking point (`MutualExclusion`), that a worker in `send`
  holds exactly `currentLedger`, and that the end of the ledger queue (or the next
  delivery, if the queue is empty) meets `currentLedger`, or the object after it
  between the send and the increment (`AwaitedNext`).
* `ObjectsHeldOnce`: `BufferSpec => []ExactlyOnce`. `HeldInv` adds that the queue holds no
  object twice, that all objects held lie below `nextTaskLedger`, and that the tasks
  and the deliveries are apart by a multiple of the object size: without it an
  object between two tasks could not be excluded. Lemmas `TasksDispatch` and
  `TasksDeliver` hold the arithmetic.
* `PipelineBounded`: `BufferSpec => []DepthBounded`, by counting where the objects are
  (`DepthInv`).

**BufferedStorageProofs** (`BackendAssumption` besides)

* `BackendCorrect`: `Spec => [](BackendInv /\ PipelineInv)`. `BackendInv` is `TypeOK`,
  `CursorInv` (the cursors and the ledger served last), `CallInv` (what holds at each
  point of a call) and `BatchInv`: what was served, the batch, the object fetched and the
  next delivery continue each other. `PipelineInv` collects the invariants of the
  buffer, which `PrepareRange` replaces and `Close` cancels (`BufferUnderBackend`).
* `BackendTypeCorrect`, `CursorCorrect` (`CursorFollowsServed`) and `BufferGuarantees`
  (`DeliveredInOrder`, `ExactlyOnce` and `DepthBounded` inside the backend) follow.
* `BackendServesInOrder`: `Spec => ServesInOrder`, the refinement of `OrderedLedgers`. The
  step that needs `BatchInv` is the one that installs an object: its ledgers must
  continue the one served last, although a fetch may have been cancelled or an object
  refused in between.

**LedgerStreamProofs** (`RPCAssumption`)

* `RPCCorrect`: `Spec => []RPCInv`: the stages of a call, the cursor, and `BufferInv`: the
  buffer is a run of ledgers the server has closed, which the cursor is in or past.
* `RPCServesInOrder`: `Spec => ServesInOrder`.
* `StreamCorrect`: `StreamSpec => [](RPCInv /\ StreamInv)`; `StreamInv` ties the loop
  variable to the backend's cursor and to what was yielded. From it
  `BufferFollowsCursor` (`BufferInStep`), `StreamYieldsRange` (`StreamsTheRange`) and
  `StreamServesInOrder`: driven by a stream the backend keeps its contract.

**CaptiveCoreProofs** (`CheckpointAssumption`, `RunnerAssumption`, `CaptiveAssumption`)

* `CaptiveCorrect`: `Spec => []CaptiveInv`. `RunnerInv` says how far a shutdown has come
  at each point of `close` (`CleanupInv`) and that a reader which stopped by itself left
  an error at the end of the channel (`LastIsError`), `CallInv` what a call may rely on after it has released and
  taken the lock again.
* `CaptiveCursorsAgree`, `SessionStartsInReach` (of offline and online sessions, from the
  checkpoint arithmetic: lemmas `CheckpointLow` to `SessionStarts`), `CloseLeavesNothing`,
  `PipeErrorComesFirst`; and the action property `SessionIsOneChain`: `Spec => OneChain`.

**ChangeCompactorProofs** (`CompactorAssumption`, `LedgersAssumption`)

* `TypeCorrect`, `CompactionCorrect`, and from it `Squashing`, `FitsStore`,
  `PreBeforeLedger` and `RejectionExact`. `CompactionInv` is inductive key by key:
  besides the four properties it records that the cached change determines the
  status of the entry, that an entry that is live and not cached was live before the
  ledger and is unchanged, and that a restored entry is in the store exactly when the
  store keeps archived entries. The last two are what makes a TTL update, and a
  removal after a restoration, come out right. The heart of the argument is
  `ReadChangeKeepsKey`, one case per kind of change.
* `ReaderReturnsAll`: `ReaderSpec => []ReadsEachChangeOnce`. `ReaderInv` gives the reader a
  place in the ledger (`Position`, `PlaceInv`) and says that what it has returned is
  exactly what lies before that place (`Passed`, `ReturnedInv`).
* `ReaderFeedsCompactor`: `ReaderSpec => Spec`. Every step of the composition is a step of
  the compactor or leaves it alone, so the theorems above hold of the two together,
  which is what the run `change_compactor` explores.

**CheckpointReaderProofs** (`ReaderAssumption`)

* `ReaderCorrect`: `Spec => []ReaderInv`. `PlaceInv` says where in the list the goroutine
  can be, and that a stream with a wrong record ends in an error. As long as there was
  none, `VisitedInv` says that `visitedLedgerKeys` holds every key it will still be
  asked about, `SentInv` that what was sent is the part of the snapshot whose keys
  were passed, `OnceInv` that nothing was sent twice. `visited` does not hold all
  keys passed: those that can have no older record are left out, in the code to save
  memory, and `VisitedInv` is where the legality of the list pays for it.
* `SnapshotIsExact`: `Spec => []SnapshotExact`.
* `ErrorsAreFinal`: `Spec => ErrorIsFinal`, an action property.

**ArchiveToolsProofs** (`CheckpointAssumption`, `ToolsAssumption`)

* `ToolsCorrect`: `Spec => []ToolsInv`. `ControlInv` ties the jobs to the stage and to the
  range; `WorkInv` says that of the goroutines at work only one has a file, `MirrorInv`
  that a file that is needed and not there is still somebody's work; `FilesInv` that a
  command leaves no file cut off without an error; `ScanInv` what a scan must have noted
  at each stage, which `Repair` then relies on.
* `MirrorAndRepairComplete` (`CompleteOnSuccess`), `CleanScanIsTrue` (`ScanTellsTruth`)
  and `GoroutinesWriteApart` (`NoSharedWrites`). `CompleteOnSuccess` asks that a Mirror has
  a goroutine and lets a file stay that was cut off before the command and that the
  command does not notice; `ScanTellsTruth` excludes cut-off buckets only for a thorough
  verification with a new `Archive` (`VerifyInv`). No theorem assumes that there are
  goroutines. The first needs that clamping a range
  twice changes nothing (`ClampSettles`), since `Repair` and the scan in it both do it.

**OrderBookProofs** (`WidthAssumption`, `EntriesAssumption`, `QueriesAssumption`)

`EntriesAssumption` is stellar-core's rules for entries: an offer trades two different
assets at a positive price and for a positive int64 amount; the assets of a pool are in
order, its reserves are int64 and its fee is below 100%. `QueriesAssumption` says which
fields a query has, that its amount is an int64 and its length a number. `MaxInt64` may
be any positive number.

* `BookInvariant`: `Spec => []BookInv`. `BookInv` types the batch and says of the graph:
  `NumbersInv`, assets and numbers in use determine each other and the vacant numbers are
  listed once each; `EdgesInv`, an edge leads from a number in use to another, no edge is
  empty, and `venuesForBuyingAsset` is the transpose of `venuesForSellingAsset`, so that
  the rest need be said of one table only; `OffersInv` and `PoolsInv`, offers and pools
  are at the edge of their assets, as on record, and the offers are in order; and
  `UsedInv`, a number in use has a venue. The last one does not hold in the middle of an
  update: `addOffer`
  first gives numbers, `removePool` gives numbers even for a pool that is not there, and
  a replaced offer may free a number that is then taken again. So `UsedInv` takes the set
  of numbers that may be idle, and each piece of an update has a lemma that says which
  numbers it makes idle and which not (`NumberGiven`, `NumberVacated`, `OfferLost`,
  `OfferPut`, `PoolAdded`, `PoolDropped`), put together by `AddOfferKeeps`,
  `RemoveOfferKeeps`, `AddPoolKeeps`, `RemovePoolKeeps` and `OperationKeeps`. That
  `removeOffer` finds its offer in both tables, so that `apply` never panics with
  `errOfferNotPresent`, is part of it.
* `GraphKeepsOffers`: `Spec => KeepsOffers`. `Apply` is the abstract step; every turn of
  its loop leaves the mapped book as it is, because what the update makes of the graph
  is what the mapping had already counted (`OffersTurn`, `PoolsTurn`).
* `GraphConsistent`: `Spec => []Consistent`: `Verify` and what `Consistent` adds to it. The
  counts that `Verify` compares come from bijections (`OffersCounted`, `VacantCounted`).
* `SearchIsReal`: `Spec => []PathsAreReal`. `SearchInv` is the invariant of the loops of
  `search`: each amount in the best table and in the table of this iteration that is not
  0 is what its path amounts to, the path is simple, starts at the query's asset and has
  at most one hop more than the iterations before, and the paths reported so far are such
  paths. It is kept by `relax`, by all edges of an asset, by an iteration and by the
  whole search. That a path stays right while the path it grew from is replaced is the
  hazard at `search.go:205`. The loops are recursive functions: each is shown to exist,
  and an invariant is carried along it by lemma `Induction`, which is stated with a set
  in place of a predicate and follows from the least element of a set of naturals.
  `errSoldTooMuch` is excluded by arithmetic: what an offer sells is never more than what
  is left to buy (`ConversionFacts`), and an offer that is too small for what is left to
  sell pays no more than that (`PaidFromLeft`). `RoundTrip` ties the returned names, reversed
  for `FindPaths`, to the numbers of the walk. Sums that wrap around (section 5) wrap in
  the search and in the amount it is compared with alike: the theorem says that the
  report is what the code's own arithmetic makes of the path.
* `SearchIsBest`: `Spec => [](SumsFit => BestPathFound)`. `SumsFit` says that what the
  offers of a pair ask for, all together, is an int64; the code does not ensure it
  (section 5), and without it a larger order may look cheaper than a smaller one. Under
  it costs grow: who has to deliver less pays no more, offer by offer (`StaysAhead` runs
  the loop of `consumeOffersForSellingAsset` for both amounts side by side), at a pool
  (`ExpectationGrows`) and at the better of the two (`TradeGrows`). The loops of the
  search leave no edge unused: after an iteration the amount of every asset is at most
  what each edge into it offers (`Relaxed`), no amount got worse (`NoWorse`), and what
  there is for a target is a result (`Listed`). Hence, by induction over the iterations,
  `Covers`: the amount of an asset is at most the cost of every walk to it of so many
  hops, and within a balance if the walk is (`WithinBalance`). The gap in that argument
  is an edge the search refuses because it leads back to the path it extends;
  `NoBargain` closes it: the part of the path before the meeting is a shorter walk to
  the same asset, and if it cost more than the edge, the rest of the path and the edge
  would be the cycle that `profitableCycle` excludes. A search for an amount of 0 is a
  case of its own (`NothingIsSold`, `NothingIsSought`): it finds the asset it starts at
  and nothing else. The instance of `order_book` satisfies `SumsFit` in every state.

Only model-checked: all liveness, since fairness and ENABLED are outside what the prover
supports.

## 5. Observations

Behaviour met while modelling that the properties leave room for, and that no run
of this project asserts either way.

Ledger buffer and buffered storage backend:

* `ledger_buffer.go:107` says the queues and tasks are at most `bufferSize`; the
  code, and the comments at `newLedgerBuffer` and `BufferSize`, allow one more
  (`DepthBounded`).
* `GetLatestLedgerSequence` is an estimate: it can be past what the store has, when
  the range begins inside an object, and below a ledger already served, because
  `currentLedger` moves after the send.
* A ledger whose bytes do not unmarshal (`buffered_storage_backend.go:286`, and
  `rpc_backend.go:132` of the RPC backend) is an error after the cursor has moved: it can
  be asked for again, and a reader that goes on to the next sequence gets it.
* An object that fails to decode is not asked for again; a repeated `GetLedger` waits
  for an object after it.
* `GetLedger(n+1)` drops the batch before it waits (`buffered_storage_backend.go:143`).
  When it times out, `GetLedger(n)`, which the comment at line 262 says is served from
  the cache, takes the next object off the queue and fails.
* `PrepareRange` leaves `lastLedger` (`buffered_storage_backend.go:399`), so a range
  below the ledgers already read is prepared and every read of it is refused.

Captive core backend:

* `GetLedger` looks at `cached` before `closed`, so the ledger read last is still
  returned after `Close`.
* Opening a session leaves `cached` (`captive_core_backend.go:575`), so `IsPrepared`
  (line 747) answers true for a range that begins at a ledger of the session before.
* `GetLatestLedgerSequence` counts an error that waits in the channel as a ledger.

Readers:

* `compactingChangeReader.Read` after an error starts with an empty compactor and
  returns the squashed rest of the input.
* `LedgerChangeReader.Close` does not reset `pendingIndex`, so a `Read` after `Close` in
  the upgrade state can skip changes.
* `ApplyLedgerMetadata` (`producer.go:130`) raises `from` to 2 but prepares the range as
  it was given, so a range from 0 or 1 fails at `GetLedger(2)`.
* A `ledgerEntryFilter` that looks at more than the key may let an older value of an
  entry pass when the newest is filtered out, because only entries that pass are noted
  as seen (`checkpoint_change_reader.go:543`).
* A `ledgerKeyFilter` that drops the DEADENTRY of an entry the `ledgerEntryFilter` lets
  pass makes `Read` return the older, deleted entry; `TestFilter`
  (`checkpoint_change_reader_test.go:608`) expects this. `SnapshotExact` is about filters
  that agree.
* The first open of a bucket's stream is not retried; a read of it is.

Order book:

* A trade that overflows is skipped (`search.go:444`), but the sum over several offers
  at line 451 is not checked and can wrap around; `MaxInt64` of the run is large
  enough that it does not.
* `Verify` does not use the result of `assertPoolsEqual`.
* `RemoveLiquidityPool` removes by pair of assets, whatever pool its argument is.
* A batch that `Apply` refuses for an outdated ledger stays committed, so the next
  `Apply` panics unless `Discard` is called first.
* `BestPathFound` is about `FindPaths`, and leaves out books in which an asset can be
  turned into more of itself. No such guarantee is stated for `FindFixedPaths`.

Archive tools:

* `Mirror` writes the root HAS although files failed; with a `Concurrency` of 0, which the
  scans refuse, it copies nothing, writes the root HAS if the range is that of the source,
  and can return no error (`mirror.go:45-46,100-103`).
* `Verify` without `Thorough` passes a bucket that is cut off within its gzip trailer:
  `verify.go:230` drops the error of `io.Copy`, and the hash of the content matches.
* `HistoryArchiveState.Range()` starts at 63 whatever the checkpoint frequency.
* An `Archive` that is scanned twice does not check again the buckets it has noted.
* A file that was cut off counts as present, so the next `Mirror` or `Repair` without
  `Force` leaves it.
* An error of `Exists` panics the scan. When the root HAS cannot be read, the message
  at `scan.go:219-220` announces an exists-check of each bucket; the buckets are listed
  all the same if the storage can.
* `ListFiles` of the file system storage does not close its channels when `Exists`
  fails; that of GCS loops on an error that stays.

## 6. Plan

Done so far, in this order: ledger buffer, buffered storage, captive core, RPC backend,
change compactor; then the stream, the change reader, the order book, the checkpoint
reader and the archive tools.

Left to model, in this order:

1. the archive pool: the fall back to the next archive, which gives up after four
   attempts;
2. `producer.go` over the buffered storage backend, and the stream over the other two
   backends;
3. the search for the oldest and latest ledger in a data store and in the archives'
   ledger time lookup, against a linear search;
4. `ReportInvalid` of the archive tools: the hash chains that `Verify` collects.

Proved so far: the ledger buffer and the change compactor, then the backends over the
buffer, over RPC and over captive core, the stream, the change reader, the checkpoint
reader and the archive tools, then the order book and its searches.

No safety property of a run is left without a theorem. What a theorem could still add:
that `FindFixedPaths`, which looks for the most and not for the least, misses no path
either.

Not modelled: of about 239 000 lines of Go outside tests, 180 000 are XDR code
generated from the protocol's definition, without state or decisions of their own, so
the map covers a small share of the repository whatever else is modelled. Of the rest,
the transaction builder, the clients, the token transfer processor, the keys and
amounts, and the accessors of XDR are conversions that keep no state between calls;
the support libraries wrap databases, HTTP servers and loggers; the load test backend
and the command line tools are programs around the modelled parts.
