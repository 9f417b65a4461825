-------------------------- MODULE CheckpointReader --------------------------
(***************************************************************************)
(* CheckpointChangeReader (ingest/checkpoint_change_reader.go) with the    *)
(* stream it reads a bucket from (xdr/xdrstream.go): the ledger entries at *)
(* a checkpoint, taken from the buckets of a history archive.              *)
(*                                                                         *)
(* A goroutine, streamBucketList, reads the buckets from the newest to the *)
(* oldest and sends the entries it has not seen a newer record of through  *)
(* readChan; Read takes them from there.  Errors of the goroutine, Close   *)
(* and the caller's context all cancel one context, whose first cause      *)
(* stays.  The archive may fail a call, end a stream early or deliver a    *)
(* record that differs from the one it should hold: all that tells such a  *)
(* record from a right one is the hash of the bucket.                      *)
(*                                                                         *)
(* The progress counters, which nothing depends on, are left out, and so   *)
(* is DisableBucketListValidation, which gives the hash check up.  The     *)
(* filter on entries and the filter on keys are taken to let the same keys *)
(* pass: a key filter that drops the DEADENTRY of an entry the entry       *)
(* filter lets pass (TestFilter has such a pair) makes Read return an      *)
(* entry that was deleted, and nothing is said of such a pair here.        *)
(***************************************************************************)
EXTENDS Integers, Sequences, FiniteSets, SequencesExt

CONSTANTS Keys,              \* ledger keys, as numbers in their order
          UniqueKeys,        \* keys of offers and claimable balances, never used again
          Buckets,           \* the number of buckets of a list, empty ones included
          BufferSize,        \* msrBufferSize, the capacity of readChan
          MaxStreamRetries,  \* maxStreamRetries
          Readers,           \* the lists and filters a reader is opened with
          MaxFaults,         \* bound: what goes wrong with the archive in one run
          MaxRecords,        \* bound: the records of a list
          None

ASSUME ReaderAssumption ==
    /\ Keys \subseteq Nat /\ UniqueKeys \subseteq Keys
    /\ Readers \subseteq [hot : BOOLEAN, wanted : SUBSET Keys]
    /\ Buckets \in Nat /\ BufferSize \in Nat \ {0}
    /\ MaxStreamRetries \in Nat /\ MaxFaults \in Nat /\ MaxRecords \in Nat
    /\ None \notin {"failed", "cancelled", "EOF"}
    /\ None \notin [key : Keys, value : Nat]

VARIABLES
    hot,        \* the list is the hot archive's
    bucketList, \* the list, newest bucket first; a bucket is a sequence of records
    wanted,     \* the keys that both filters let pass
    pc,         \* what the goroutine does next
    bucket,     \* the bucket it is at
    pos,        \* records it has read of that bucket
    attempts,   \* retries made for the record it is reading
    broken,     \* its stream is closed and could not be opened again
    tainted,    \* the hash of what the stream delivered is not the bucket's
    visited,    \* visitedLedgerKeys
    pending,    \* the entry it is sending
    readChan,   \* entries sent and not taken
    chanClosed, \* readChan is closed
    cause,      \* why the context is cancelled, None if it is not
    reading,    \* a Read is under way
    returned,   \* the entries Reads have returned
    ended,      \* what the last Read returned instead of an entry
    faults      \* what has gone wrong with the archive

archive == <<hot, bucketList, wanted>>
stream  == <<bucket, pos, attempts, broken, tainted>>
vars == <<archive, pc, stream, visited, pending, readChan, chanClosed, cause,
          reading, returned, ended, faults>>

EOF == "EOF"
Errors == {"failed", "cancelled"}
EntryRecords == {"init", "live"}   \* "live" is ARCHIVED in the hot archive, and "dead" LIVE
Record == [kind : EntryRecords \cup {"dead"}, key : Keys]
\* The value of an entry names the bucket its record is in; 0 is no value of this archive.
Entry(key, value) == [key |-> key, value |-> value]

-----------------------------------------------------------------------------
(***************************************************************************)
(* The lists stellar-core writes.  The records of a bucket are in order of *)
(* their keys.  An INITENTRY says that the entry did not exist before it   *)
(* (CAP-20), and does not occur in the hot archive; older buckets use      *)
(* LIVEENTRY for that too.  A unique key is not used again once its entry  *)
(* is gone.                                                                *)
(***************************************************************************)
BucketContents ==
    {s \in SeqOf(Record, Cardinality(Keys)) :
        \A a, b \in DOMAIN s : a < b => s[a].key < s[b].key}

Holds(list, i, key) == \E r \in ToSet(list[i]) : r.key = key

\* r is in bucket i, and q, in the older bucket h, is the record of its key before it.
LegalList(list, isHot) ==
    /\ isHot => \A i \in 1..Buckets : \A r \in ToSet(list[i]) : r.kind # "init"
    /\ \A i, h \in 1..Buckets : \A r \in ToSet(list[i]), q \in ToSet(list[h]) :
          i < h /\ q.key = r.key /\ (\A g \in (i + 1)..(h - 1) : ~Holds(list, g, r.key)) =>
             /\ r.kind = "init" => q.kind = "dead"
             /\ r.key \in UniqueKeys /\ ~isHot =>
                   r.kind # "init" /\ (r.kind = "live" => q.kind # "dead")

\* What the oldest-to-newest reading of the comment on streamBucketList leaves: the
\* newest record of a key decides.
Snapshot ==
    {e \in [key : wanted, value : 1..Buckets] :
        /\ \E r \in ToSet(bucketList[e.value]) : r.key = e.key /\ r.kind \in EntryRecords
        /\ \A i \in 1..(e.value - 1) : ~Holds(bucketList, i, e.key)}

Init ==
    /\ \E r \in Readers : hot = r.hot /\ wanted = r.wanted
    /\ bucketList \in [1..Buckets -> BucketContents]
    /\ LegalList(bucketList, hot)
    /\ Cardinality({x \in (1..Buckets) \X Keys : Holds(bucketList, x[1], x[2])}) <= MaxRecords
    /\ pc = "idle" /\ bucket = 1 /\ pos = 0 /\ attempts = 0 /\ broken = FALSE /\ tainted = FALSE
    /\ visited = {} /\ pending = None /\ readChan = <<>> /\ chanClosed = FALSE /\ cause = None
    /\ reading = FALSE /\ returned = <<>> /\ ended = None /\ faults = 0

-----------------------------------------------------------------------------
(* The goroutine: streamBucketList *)

CtxDone == cause # None
Fault == faults < MaxFaults /\ faults' = faults + 1
\* cancel(err): a context that is cancelled keeps its first cause.
cancel(err) == cause' = IF CtxDone THEN cause ELSE err

\* The goroutine is done with its stream.
Leaves == /\ pc' = "closing"
          /\ bucket' = 1 /\ pos' = 0 /\ attempts' = 0 /\ broken' = FALSE /\ UNCHANGED tainted
Fails == Leaves /\ cancel("failed")
consumer == <<reading, returned, ended>>
channel == <<readChan, chanClosed>>

\* Every bucket is looked up before the first is read.
CheckBuckets ==
    /\ pc = "exists"
    /\ \/ pc' = "open" /\ UNCHANGED <<stream, cause, faults>>
       \/ Fault /\ Fails
    /\ UNCHANGED <<archive, visited, pending, channel, consumer>>

\* The buckets that are not empty, newest first: an empty one has no hash in the list.
Empty(i) == bucketList[i] = <<>>
Oldest(i) == \A j \in (i + 1)..Buckets : Empty(j)

streamBucket ==
    /\ pc = "open"
    /\ IF bucket > Buckets THEN Leaves /\ UNCHANGED <<cause, faults>>
       ELSE IF Empty(bucket)
       THEN bucket' = bucket + 1 /\ UNCHANGED <<pc, pos, attempts, broken, tainted, cause, faults>>
       ELSE \/ /\ pc' = "read" /\ pos' = 0 /\ attempts' = 0
               /\ broken' = FALSE /\ tainted' = FALSE
               /\ UNCHANGED <<bucket, cause, faults>>
            \/ Fault /\ Fails
    /\ UNCHANGED <<archive, visited, pending, channel, consumer>>

Sent(r) == r.key \in wanted /\ r.kind \in EntryRecords /\ r.key \notin visited

\* A record of the live list; keys of the oldest bucket need not be remembered.
visitedAfterLive(r, oldest) ==
    IF r.key \notin wanted THEN visited
    ELSE IF r.kind = "dead" \/ (Sent(r) /\ r.kind = "live" /\ ~oldest) THEN visited \cup {r.key}
    ELSE IF r.kind = "init" /\ r.key \in visited /\ r.key \in UniqueKeys THEN visited \ {r.key}
    ELSE visited

visitedAfterHot(r, oldest) ==
    IF r.key \in wanted /\ ~oldest THEN visited \cup {r.key} ELSE visited

\* What streamLiveBucket and streamHotArchiveBucket do with a record.
Process(r, value) ==
    /\ visited' = IF hot THEN visitedAfterHot(r, Oldest(bucket))
                  ELSE visitedAfterLive(r, Oldest(bucket))
    /\ IF Sent(r) THEN pc' = "send" /\ pending' = Entry(r.key, value)
       ELSE UNCHANGED <<pc, pending>>
    /\ pos' = pos + 1 /\ attempts' = 0

\* A context that ends during a read ends after it: nothing else looks at it meanwhile.
ReadOne ==
    /\ pc = "read" /\ ~CtxDone /\ ~broken /\ pos < Len(bucketList[bucket])
    /\ Process(bucketList[bucket][pos + 1], bucket)
    /\ UNCHANGED <<archive, bucket, broken, tainted, channel, cause, consumer, faults>>

\* The archive delivers another record, or ends the stream where a record ends.
ReadWrong ==
    /\ pc = "read" /\ ~CtxDone /\ ~broken /\ pos < Len(bucketList[bucket]) /\ Fault
    /\ \E kind \in {"live", "dead"} :
          Process([bucketList[bucket][pos + 1] EXCEPT !.kind = kind], 0)
    /\ tainted' = TRUE
    /\ UNCHANGED <<archive, bucket, broken, channel, cause, consumer>>

ReadEOF ==
    /\ pc = "read" /\ ~CtxDone /\ ~broken
    /\ \/ pos = Len(bucketList[bucket]) /\ UNCHANGED <<tainted, faults>>
       \/ pos < Len(bucketList[bucket]) /\ Fault /\ tainted' = TRUE
    /\ pc' = "validate"
    /\ UNCHANGED <<archive, bucket, pos, attempts, broken, visited, pending, channel, cause, consumer>>

\* A record of a type that does not belong there: no retry.
ReadInvalid ==
    /\ pc = "read" /\ ~CtxDone /\ ~broken /\ Fault /\ Fails
    /\ UNCHANGED <<archive, visited, pending, channel, consumer>>

(***************************************************************************)
(* readBucketRecord.  A failed stream is closed and a new one resumed at   *)
(* the start of the record, with the hash of what was delivered before it; *)
(* opening it may fail too and counts as an attempt.                       *)
(***************************************************************************)
\* Mutant: the hash of the new stream covers what the new stream skipped instead.
Resume_OwnHash ==
    \/ broken' = FALSE /\ tainted' = FALSE
    \/ broken' = TRUE /\ UNCHANGED tainted

Resume ==
    /\ broken' \in BOOLEAN
    /\ UNCHANGED tainted

readBucketRecordRetry ==
    /\ pc = "read" /\ ~CtxDone /\ attempts < MaxStreamRetries
    /\ \/ broken /\ UNCHANGED faults
       \/ ~broken /\ Fault
    /\ Resume
    /\ attempts' = attempts + 1
    /\ UNCHANGED <<archive, pc, bucket, pos, visited, pending, channel, cause, consumer>>

readBucketRecordGivesUp ==
    /\ pc = "read" /\ ~CtxDone /\ attempts = MaxStreamRetries
    /\ \/ broken /\ UNCHANGED faults
       \/ ~broken /\ Fault
    /\ Fails
    /\ UNCHANGED <<archive, visited, pending, channel, consumer>>

\* The error of a context that is done is no cause: it has one.
ReadCancelled ==
    /\ pc = "read" /\ CtxDone /\ Fails
    /\ UNCHANGED <<archive, visited, pending, channel, consumer, faults>>

\* Closing the stream may fail as well.
ValidateHash ==
    /\ pc = "validate"
    /\ \/ tainted /\ Fails /\ UNCHANGED faults
       \/ ~tainted /\ Fault /\ Fails
       \/ /\ ~tainted /\ pc' = "open" /\ bucket' = bucket + 1
          /\ UNCHANGED <<pos, attempts, broken, tainted, cause, faults>>
    /\ UNCHANGED <<archive, visited, pending, channel, consumer>>

\* Mutant: the goroutine waits for room alone.
Send_NoCancel ==
    /\ pc = "send" /\ Len(readChan) < BufferSize
    /\ readChan' = Append(readChan, pending) /\ pc' = "read" /\ pending' = None
    /\ UNCHANGED <<archive, stream, visited, chanClosed, cause, consumer, faults>>

Send ==
    /\ pc = "send"
    /\ \/ /\ Len(readChan) < BufferSize
          /\ readChan' = Append(readChan, pending) /\ pc' = "read" /\ UNCHANGED stream
       \/ CtxDone /\ Leaves /\ UNCHANGED readChan
    /\ pending' = None
    /\ UNCHANGED <<archive, visited, chanClosed, cause, consumer, faults>>

\* Mutant: the channel is left open when the list is through.
CloseChan_OnErrorOnly ==
    /\ pc = "closing"
    /\ pc' = "done" /\ chanClosed' = CtxDone /\ visited' = {}
    /\ UNCHANGED <<archive, stream, pending, readChan, cause, consumer, faults>>

CloseChan ==
    /\ pc = "closing"
    /\ pc' = "done" /\ chanClosed' = TRUE /\ visited' = {}
    /\ UNCHANGED <<archive, stream, pending, readChan, cause, consumer, faults>>

Producer ==
    \/ CheckBuckets \/ streamBucket \/ ReadOne \/ ReadWrong \/ ReadEOF \/ ReadInvalid
    \/ readBucketRecordRetry \/ readBucketRecordGivesUp \/ ReadCancelled \/ ValidateHash
    \/ Send \/ CloseChan

-----------------------------------------------------------------------------
(* The consumer: Read, or the iterator of the hot archive, and Close *)

Read ==
    /\ ~reading /\ reading' = TRUE
    /\ pc' = IF pc = "idle" THEN "exists" ELSE pc
    /\ UNCHANGED <<archive, stream, visited, pending, channel, cause, returned, ended, faults>>

\* Mutant: what is buffered is returned first.
nextEntry_BufferedFirst ==
    /\ reading /\ readChan # <<>>
    /\ reading' = FALSE /\ returned' = Append(returned, Head(readChan)) /\ readChan' = Tail(readChan)
    /\ UNCHANGED <<archive, pc, stream, visited, pending, chanClosed, cause, ended, faults>>

\* next: an entry is only returned while the context is not done.
nextEntry ==
    /\ reading /\ readChan # <<>> /\ ~CtxDone
    /\ reading' = FALSE /\ returned' = Append(returned, Head(readChan)) /\ readChan' = Tail(readChan)
    /\ UNCHANGED <<archive, pc, stream, visited, pending, chanClosed, cause, ended, faults>>

\* The select takes either case when both are ready; the entry it may have taken is dropped.
nextCause ==
    /\ reading /\ CtxDone
    /\ reading' = FALSE /\ ended' = cause
    /\ readChan' \in {readChan} \cup {Tail(c) : c \in {readChan} \ {<<>>}}
    /\ UNCHANGED <<archive, pc, stream, visited, pending, chanClosed, cause, returned, faults>>

nextEOF ==
    /\ reading /\ ~CtxDone /\ chanClosed /\ readChan = <<>>
    /\ reading' = FALSE /\ ended' = EOF
    /\ UNCHANGED <<archive, pc, stream, visited, pending, channel, cause, returned, faults>>

\* By the consumer or, in its place, the context given to NewCheckpointChangeReader.
Close ==
    /\ ~CtxDone /\ cancel("cancelled")
    /\ UNCHANGED <<archive, pc, stream, visited, pending, channel, consumer, faults>>

Next == Producer \/ Read \/ nextEntry \/ nextCause \/ nextEOF \/ Close

Fairness == WF_vars(Producer) /\ WF_vars(nextEntry \/ nextCause \/ nextEOF)
Spec == Init /\ [][Next]_vars
FairSpec == Spec /\ Fairness

-----------------------------------------------------------------------------
(* Properties *)

UnderWay == (returned \o readChan) \o (IF pending = None THEN <<>> ELSE <<pending>>)

(***************************************************************************)
(* A reader that ends with io.EOF has returned the state of the ledger at  *)
(* the checkpoint: every entry once, with its newest value, and nothing    *)
(* else, whatever the archive delivered and however often a stream broke   *)
(* and was resumed.  Before the end this holds of what is on its way,      *)
(* unless the hash that is about to be checked will refuse it.  Both       *)
(* depend on visitedLedgerKeys forgetting no key it still needs, and are   *)
(* said of filters that agree on the keys they let pass.                   *)
(***************************************************************************)
SnapshotExact ==
    /\ ended = EOF => ToSet(returned) = Snapshot
    /\ ~tainted \/ ended = EOF =>
          /\ ToSet(UnderWay) \subseteq Snapshot
          /\ IsInjective(UnderWay)

(***************************************************************************)
(* "After an error, every later call returns that same error": once a Read *)
(* has failed, no later one returns an entry, io.EOF or another error,     *)
(* although entries may still be buffered, the goroutine may fail later    *)
(* and Close may come in between.                                          *)
(***************************************************************************)
ErrorIsFinal == [][(ended \in Errors) => (ended' = ended /\ returned' = returned)]_vars

(***************************************************************************)
(* A Read returns: an entry comes, the list ends or the context is done.   *)
(***************************************************************************)
ReadReturns == reading ~> ~reading

(***************************************************************************)
(* The goroutine ends after Close, an error or the end of the caller's     *)
(* context, although nobody takes what it still has to send.               *)
(***************************************************************************)
GoroutineEnds == (CtxDone /\ pc # "idle") ~> chanClosed

-----------------------------------------------------------------------------
(***************************************************************************)
(* Why SnapshotExact and ErrorIsFinal hold.                                *)
(***************************************************************************)
InBucket == {"read", "send", "validate"}
Walking == {"idle", "exists", "open"} \cup InBucket

ReaderTypeOK ==
    /\ hot \in BOOLEAN /\ wanted \subseteq Keys
    /\ bucketList \in [1..Buckets -> Seq(Record)]
    /\ pc \in Walking \cup {"closing", "done"}
    /\ bucket \in 1..(Buckets + 1) /\ pos \in Nat /\ tainted \in BOOLEAN
    /\ pending \in [key : Keys, value : Nat] \cup {None}
    /\ readChan \in Seq([key : Keys, value : Nat])
    /\ returned \in Seq([key : Keys, value : Nat])
    /\ cause \in Errors \cup {None}
    /\ ended \in Errors \cup {EOF, None}

\* A list has no two records of a key in one bucket, and what stellar-core promises.
ListInv ==
    /\ \A i \in 1..Buckets : \A a, b \in DOMAIN bucketList[i] :
          bucketList[i][a].key = bucketList[i][b].key => a = b
    /\ LegalList(bucketList, hot)

\* Where the goroutine is, and that a wrong record is not left behind unnoticed.
PlaceInv ==
    /\ pc \in {"idle", "exists"} => bucket = 1
    /\ pc \in InBucket => bucket <= Buckets /\ pos <= Len(bucketList[bucket])
    /\ pc = "validate" /\ ~tainted => pos = Len(bucketList[bucket])
    /\ tainted /\ pc \notin InBucket => pc \in {"closing", "done"} /\ CtxDone
    /\ pending # None <=> pc = "send"
    /\ chanClosed => pc = "done"

\* The goroutine has processed record j of bucket i, and a record of a key.
Passed(i, j) == i < bucket \/ (i = bucket /\ pc \in InBucket /\ j <= pos)
Seen(k) == \E i \in 1..Buckets : \E j \in DOMAIN bucketList[i] :
               bucketList[i][j].key = k /\ Passed(i, j)

\* visitedLedgerKeys is right about the next record of every key, if that is an entry:
\* what it has forgotten, or never remembered, is followed by a DEADENTRY or nothing.
VisitedInv ==
    /\ \A k \in visited : Seen(k)
    /\ \A i \in 1..Buckets : \A j \in DOMAIN bucketList[i] :
          /\ bucketList[i][j].key \in wanted /\ bucketList[i][j].kind \in EntryRecords
          /\ ~Passed(i, j) /\ Seen(bucketList[i][j].key)
          /\ \A g \in 1..(i - 1) : \A l \in DOMAIN bucketList[g] :
                bucketList[g][l].key = bucketList[i][j].key => Passed(g, l)
          => bucketList[i][j].key \in visited

\* The entries sent are those of the snapshot the goroutine has come to.
EntriesSent == ToSet(returned) \cup ToSet(readChan) \cup ({pending} \ {None})
SentInv ==
    /\ EntriesSent \subseteq Snapshot
    /\ pc \in Walking => \A e \in EntriesSent : Seen(e.key)
    /\ ~CtxDone => \A e \in Snapshot : pc \notin Walking \/ Seen(e.key) => e \in EntriesSent

\* No entry is sent twice.
OnceInv ==
    /\ IsInjective(returned) /\ IsInjective(readChan)
    /\ ToSet(returned) \cap ToSet(readChan) = {}
    /\ pending \notin ToSet(returned) \cup ToSet(readChan)

EndInv ==
    /\ ended \in Errors => cause = ended
    /\ ended = EOF => chanClosed /\ ~tainted /\ readChan = <<>> /\ ToSet(returned) = Snapshot

BasicInv == ReaderTypeOK /\ ListInv /\ PlaceInv /\ EndInv
ContentInv == SentInv /\ OnceInv /\ (pc \in Walking => VisitedInv)
ReaderInv == BasicInv /\ (~tainted => ContentInv)
=============================================================================
