---------------------------- MODULE ArchiveTools ----------------------------
(***************************************************************************)
(* The maintenance of history archives: Mirror (historyarchive/mirror.go), *)
(* Repair (repair.go) and Scan with ReportMissing (scan.go), as            *)
(* stellar-archivist runs them, one after another, on a source and a       *)
(* destination.                                                            *)
(*                                                                         *)
(* A file of the destination is there, is not, or is cut off: a PutFile    *)
(* that fails may leave the beginning of the file.  A call of a storage    *)
(* may fail and the process may die.  The goroutines of a scan hold        *)
(* nothing between two requests, so a request is a step; those of Mirror   *)
(* carry a checkpoint from file to file.  Verify is modelled by what it    *)
(* finds in a file that is cut off: it need not notice a bucket that lacks *)
(* only bytes behind its data.  The comparison of the hash chains and      *)
(* the on-disk cache of buckets, which the tool does not use, are left     *)
(* out.  "ledger" stands for the ledger, transactions and results files,   *)
(* which are treated alike.                                                *)
(***************************************************************************)
EXTENDS Checkpoints, Sequences, FiniteSets, FiniteSetsExt, SequencesExt

CONSTANTS
    Workers,     \* the goroutines Mirror may start
    Chks,        \* the checkpoints there can be
    BucketsOf,   \* the buckets the HAS of a checkpoint refers to, in order
    SrcRoot,     \* CurrentLedger of the source's root HAS
    SrcGaps,     \* files the source may lack
    DstGaps,     \* files a destination that was mirrored before may lack
    Options,     \* the options of a command
    MaxCommands, \* bound: commands
    MaxFaults,   \* bound: failures of storages
    None

Required == {"history", "ledger"}
Categories == Required \cup {"scp"}
categoryRequired(cat) == cat \in Required
CategoryCheckpointPath(cat, chk) == <<cat, chk>>
BucketPath(b) == <<"bucket", b>>
CategoryFiles == Categories \X Chks
BucketIds == UNION {ToSet(BucketsOf[k]) : k \in Chks}
Files == CategoryFiles \cup {BucketPath(b) : b \in BucketIds}

\* CommandOptions; Concurrency is the set of the goroutines that it starts.
OptionRecord ==
    [Concurrency : SUBSET Workers, Range : [Low : Nat, High : Nat], DryRun : BOOLEAN,
     Force : BOOLEAN, Verify : BOOLEAN, Thorough : BOOLEAN, SkipOptional : BOOLEAN]
RootRange(root) == [Low |-> 63, High |-> root]

ASSUME ToolsAssumption ==
    /\ Chks \subseteq Nat /\ SrcRoot \in Chks \ {0}
    /\ BucketsOf \in [Chks -> Seq(Nat)]
    /\ SrcGaps \subseteq SUBSET Files /\ DstGaps \subseteq SUBSET Files
    /\ Options \subseteq OptionRecord
    /\ \A o \in Options : GenerateCheckpoints(clamp(o.Range, RootRange(SrcRoot))) \subseteq Chks
    /\ MaxCommands \in Nat /\ MaxFaults \in Nat
    /\ None \notin Files /\ None \notin {"mirror", "scan", "repair"}

VARIABLES
    src,         \* the files of the source
    dst,         \* the files of the destination
    dstRoot,     \* CurrentLedger of the destination's root HAS, 0 if it has none one can read
    canList,     \* CanListFiles of the destination
    checkpointFiles,    \* what the destination's Archive remembers: files
    allBuckets,         \* buckets that are there
    referencedBuckets,  \* buckets a HAS refers to
    cmd, opts, stage,   \* the command under way
    jobs,        \* requests nobody has taken
    probes,      \* buckets to look for
    doList,      \* ScanBuckets lists all buckets
    todo,        \* the files a goroutine of Mirror has before it
    copying,     \* the file it is copying
    bucketFetch, \* the buckets a goroutine of Mirror has taken
    repairedHistory,
    errs,        \* errors were counted
    before,      \* the destination when the command began, and whether its Archive was new
    result,      \* how the last command ended
    commands, faults

archive == <<checkpointFiles, allBuckets, referencedBuckets>>
mirror  == <<todo, copying, bucketFetch>>
command == <<cmd, opts, before, result, commands>>
fixed   == <<src, canList>>
vars == <<fixed, dst, dstRoot, archive, command, stage, jobs, probes, doList, mirror,
          repairedHistory, errs, faults>>

Srcs == {Files \ (g \cup {f \in CategoryFiles : f[2] > SrcRoot}) : g \in SrcGaps}
Idle == [w \in Workers |-> <<>>]
NoCopy == [w \in Workers |-> None]

Init ==
    /\ src \in Srcs /\ canList \in BOOLEAN
    /\ \/ dst = [f \in Files |-> "none"] /\ dstRoot = 0
       \/ \E g \in DstGaps :
             /\ dst = [f \in Files |-> IF f \in g \/ f[2] > SrcRoot THEN "none" ELSE "whole"]
             /\ dstRoot = SrcRoot
    /\ checkpointFiles = {} /\ allBuckets = {} /\ referencedBuckets = {}
    /\ cmd = None /\ opts = None /\ stage = "idle" /\ jobs = {} /\ probes = {} /\ doList = FALSE
    /\ todo = Idle /\ copying = NoCopy /\ bucketFetch = {}
    /\ repairedHistory = FALSE /\ errs = FALSE /\ before = None /\ result = None
    /\ commands = 0 /\ faults = 0

-----------------------------------------------------------------------------
Fault == faults < MaxFaults /\ faults' = faults + 1

\* copyPath, which failed or not.  A file that is there is left alone unless opts.Force.
copyPath(f, failed) ==
    \/ opts.DryRun /\ ~failed /\ UNCHANGED <<dst, faults>>
    \/ ~opts.DryRun /\ dst[f] # "none" /\ ~opts.Force /\ ~failed /\ UNCHANGED <<dst, faults>>
    \/ /\ ~opts.DryRun /\ (dst[f] = "none" \/ opts.Force)
       /\ \/ f \notin src /\ failed /\ UNCHANGED <<dst, faults>>
          \/ f \in src /\ ~failed /\ dst' = [dst EXCEPT ![f] = "whole"] /\ UNCHANGED faults
          \/ f \in src /\ failed /\ Fault /\ dst' = [dst EXCEPT ![f] = "partial"]
    \/ ~opts.DryRun /\ failed /\ Fault /\ UNCHANGED dst

\* The command returns; missing is what ReportMissing says.
Finish(failed, missing) ==
    /\ result' = [cmd |-> cmd, opts |-> opts, failed |-> failed, missing |-> missing]
    /\ cmd' = None /\ stage' = "idle" /\ jobs' = {} /\ probes' = {}
    /\ todo' = Idle /\ copying' = NoCopy /\ bucketFetch' = {}
    /\ doList' = FALSE /\ repairedHistory' = FALSE /\ errs' = FALSE
    /\ UNCHANGED <<opts, before, commands>>

\* The process dies, and what its Archive knew is gone.
Dies ==
    /\ cmd' = None /\ opts' = None /\ before' = None /\ result' = None
    /\ stage' = "idle" /\ jobs' = {} /\ probes' = {}
    /\ todo' = Idle /\ copying' = NoCopy /\ bucketFetch' = {}
    /\ doList' = FALSE /\ repairedHistory' = FALSE /\ errs' = FALSE
    /\ checkpointFiles' = {} /\ allBuckets' = {} /\ referencedBuckets' = {}
    /\ UNCHANGED commands

-----------------------------------------------------------------------------
(* A command begins.  The Archive of the destination may be an old one.    *)

Begin(c, o) ==
    /\ cmd = None /\ commands < MaxCommands /\ commands' = commands + 1
    /\ cmd' = c /\ opts' = o /\ result' = None
    /\ \/ UNCHANGED archive
       \/ checkpointFiles' = {} /\ allBuckets' = {} /\ referencedBuckets' = {}
    /\ before' = [dst |-> dst, fresh |-> checkpointFiles' = {} /\ referencedBuckets' = {}]
    /\ UNCHANGED <<fixed, dst, dstRoot, probes, doList, mirror, repairedHistory, errs>>

Mirror ==
    \E o \in Options :
       LET r == clamp(o.Range, RootRange(SrcRoot))
       IN /\ Begin("mirror", [o EXCEPT !.Range = r])
          /\ stage' = "copy" /\ jobs' = GenerateCheckpoints(r) /\ UNCHANGED faults

Scan ==
    /\ \E o \in Options : Begin("scan", o)
    /\ stage' = "root" /\ UNCHANGED <<jobs, faults>>

\* Without a root HAS to read the command ends at once.
Repair ==
    /\ dstRoot # 0
    /\ \E o \in Options : Begin("repair", [o EXCEPT !.Range = clamp(@, RootRange(dstRoot))])
    /\ stage' = "root" /\ UNCHANGED <<jobs, faults>>

-----------------------------------------------------------------------------
(* Mirror *)

FilesOf(ix) ==
    [i \in 1..Len(BucketsOf[ix]) |-> BucketPath(BucketsOf[ix][i])]
        \o <<CategoryCheckpointPath("history", ix), CategoryCheckpointPath("ledger", ix)>>
        \o (IF opts.SkipOptional THEN <<>> ELSE <<CategoryCheckpointPath("scp", ix)>>)

\* A goroutine takes the next checkpoint and reads its HAS.
TakeCheckpoint(w) ==
    /\ stage = "copy" /\ w \in opts.Concurrency /\ todo[w] = <<>> /\ jobs # {}
    /\ LET ix == Min(jobs)
           found == CategoryCheckpointPath("history", ix) \in src
       IN /\ jobs' = jobs \ {ix}
          /\ \/ found /\ todo' = [todo EXCEPT ![w] = FilesOf(ix)] /\ UNCHANGED <<errs, faults>>
             \/ ~found /\ errs' = TRUE /\ UNCHANGED <<todo, faults>>
             \/ found /\ Fault /\ errs' = TRUE /\ UNCHANGED todo
    /\ UNCHANGED <<fixed, dst, dstRoot, archive, command, stage, probes, doList, copying,
                   bucketFetch, repairedHistory>>

IsBucket(f) == f[1] = "bucket"

\* Mutant: a bucket is not entered in bucketFetch.
ClaimFile_Unmarked(w) ==
    /\ stage = "copy" /\ todo[w] # <<>> /\ copying[w] = None
    /\ LET f == Head(todo[w])
       IN IF f \in bucketFetch
          THEN todo' = [todo EXCEPT ![w] = Tail(@)] /\ UNCHANGED <<copying, bucketFetch>>
          ELSE copying' = [copying EXCEPT ![w] = f] /\ UNCHANGED <<todo, bucketFetch>>
    /\ UNCHANGED <<fixed, dst, dstRoot, archive, command, stage, jobs, probes, doList,
                   repairedHistory, errs, faults>>

\* The next file of its checkpoint, unless it is a bucket that another goroutine has taken.
ClaimFile(w) ==
    /\ stage = "copy" /\ todo[w] # <<>> /\ copying[w] = None
    /\ LET f == Head(todo[w])
       IN IF f \in bucketFetch
          THEN todo' = [todo EXCEPT ![w] = Tail(@)] /\ UNCHANGED <<copying, bucketFetch>>
          ELSE /\ copying' = [copying EXCEPT ![w] = f]
               /\ bucketFetch' = IF IsBucket(f) THEN bucketFetch \cup {f} ELSE bucketFetch
               /\ UNCHANGED todo
    /\ UNCHANGED <<fixed, dst, dstRoot, archive, command, stage, jobs, probes, doList,
                   repairedHistory, errs, faults>>

\* An error with an optional file does not count.
CopyFile(w) ==
    /\ stage = "copy" /\ copying[w] # None
    /\ \E failed \in BOOLEAN :
          /\ copyPath(copying[w], failed)
          /\ errs' = (errs \/ (failed /\ copying[w][1] # "scp"))
    /\ todo' = [todo EXCEPT ![w] = Tail(@)] /\ copying' = [copying EXCEPT ![w] = None]
    /\ UNCHANGED <<fixed, dstRoot, archive, command, stage, jobs, probes, doList, bucketFetch,
                   repairedHistory>>

\* All goroutines are through, if there were any.
Through == stage = "copy" /\ todo = Idle /\ (jobs = {} \/ opts.Concurrency = {})

\* The root HAS is written, errors or not.
PutRootHAS ==
    /\ Through
    /\ opts.Range.High = SrcRoot
    /\ \/ dstRoot' = SrcRoot /\ UNCHANGED faults /\ Finish(errs, FALSE)
       \/ dstRoot' \in {dstRoot, 0} /\ Fault /\ Finish(TRUE, FALSE)
    /\ UNCHANGED <<fixed, dst, archive>>

LeaveRootHAS ==
    /\ Through
    /\ opts.Range.High # SrcRoot
    /\ \/ UNCHANGED faults /\ Finish(errs \/ dstRoot = 0, FALSE)
       \/ Fault /\ Finish(TRUE, FALSE)
    /\ UNCHANGED <<fixed, dst, dstRoot, archive>>

-----------------------------------------------------------------------------
(* ScanCheckpoints *)

Scanned == {c \in Categories : categoryRequired(c) \/ ~opts.SkipOptional}

\* ScanCheckpointsFast lists a category, ScanCheckpointsSlow asks for every file.
ScanCheckpoints ==
    /\ stage = "root" /\ dstRoot # 0 /\ opts.Concurrency # {}
    /\ opts' = [opts EXCEPT !.Range = clamp(@, RootRange(dstRoot))]
    /\ jobs' = Scanned \X (IF canList THEN {0} ELSE GenerateCheckpoints(opts'.Range))
    /\ stage' = "checkpoints"
    /\ UNCHANGED <<fixed, dst, dstRoot, archive, cmd, before, result, commands, probes, doList,
                   mirror, repairedHistory, errs, faults>>

\* Without the root HAS, or without goroutines, a scan fails; a repair counts an error and
\* takes all files for missing.
CannotScan ==
    /\ stage = "root"
    /\ \/ dstRoot = 0 /\ UNCHANGED faults
       \/ dstRoot # 0 /\ opts.Concurrency = {} /\ UNCHANGED faults
       \/ dstRoot # 0 /\ Fault
    /\ IF cmd = "scan" THEN Finish(TRUE, FALSE)
       ELSE /\ stage' = "checkpoints" /\ errs' = TRUE
            /\ UNCHANGED <<command, jobs, probes, doList, mirror, repairedHistory>>
    /\ UNCHANGED <<fixed, dst, dstRoot, archive>>

\* VerifyCategoryCheckpoint: whether it may find an error in a file, and must.
MayFail(f) == opts.Verify /\ dst[f] = "partial" /\ f[1] # "history"
MustFail(f) == MayFail(f) /\ f[1] # "scp"

Present(cat) == {f \in {cat} \X GenerateCheckpoints(opts.Range) : dst[f] # "none"}

ListCategoryCheckpoints ==
    /\ stage = "checkpoints" /\ canList
    /\ \E j \in jobs :
          /\ jobs' = jobs \ {j}
          /\ \/ /\ checkpointFiles' = checkpointFiles \cup Present(j[1])
                /\ errs' \in {errs \/ (\E f \in Present(j[1]) : MustFail(f)),
                              errs \/ (\E f \in Present(j[1]) : MayFail(f))}
                /\ UNCHANGED faults
             \/ /\ Fault /\ errs' = TRUE
                /\ \E listed \in {{}, Present(j[1])} : checkpointFiles' = checkpointFiles \cup listed
    /\ UNCHANGED <<fixed, dst, dstRoot, allBuckets, referencedBuckets, command, stage, probes,
                   doList, mirror, repairedHistory>>

CategoryCheckpointExists ==
    /\ stage = "checkpoints" /\ ~canList
    /\ \E f \in jobs :
          /\ jobs' = jobs \ {f}
          /\ \/ /\ dst[f] = "none" /\ checkpointFiles' = checkpointFiles \ {f}
                /\ UNCHANGED <<errs, faults>>
             \/ /\ dst[f] # "none" /\ checkpointFiles' = checkpointFiles \cup {f}
                /\ \/ errs' \in {errs \/ MustFail(f), errs \/ MayFail(f)} /\ UNCHANGED faults
                   \/ opts.Verify /\ f[1] # "history" /\ Fault /\ errs' = TRUE
    /\ UNCHANGED <<fixed, dst, dstRoot, allBuckets, referencedBuckets, command, stage, probes,
                   doList, mirror, repairedHistory>>

\* CheckCheckpointFilesMissing
MissingFiles == (Categories \X GenerateCheckpoints(opts.Range)) \ checkpointFiles

Continue(next, js) ==
    /\ stage' = next /\ jobs' = js
    /\ UNCHANGED <<fixed, dst, dstRoot, command, probes, doList, mirror, errs, faults>>

\* Repair, before history files were repaired.
CheckpointsScanned ==
    /\ stage = "checkpoints" /\ jobs = {}
    /\ cmd = "repair" /\ ~repairedHistory
    /\ Continue("missing", MissingFiles \ ({"scp"} \X (IF opts.SkipOptional THEN Chks ELSE {})))
    /\ UNCHANGED <<archive, repairedHistory>>

\* A scan ends here if there were errors.
ToScanBuckets ==
    /\ stage = "checkpoints" /\ jobs = {}
    /\ cmd = "scan" \/ repairedHistory
    /\ IF cmd = "scan" /\ errs
       THEN Finish(TRUE, FALSE) /\ UNCHANGED <<fixed, dst, dstRoot, archive, faults>>
       ELSE Continue("startBuckets", {}) /\ UNCHANGED <<archive, repairedHistory>>

-----------------------------------------------------------------------------
(* Repair *)

RepairFile ==
    /\ stage = "missing"
    /\ \E f \in jobs :
          /\ jobs' = jobs \ {f}
          /\ IF ~categoryRequired(f[1]) /\ f \notin src
             THEN UNCHANGED <<dst, errs, repairedHistory, faults>>
             ELSE \E failed \in BOOLEAN :
                     /\ copyPath(f, failed)
                     /\ errs' = (errs \/ failed)
                     /\ repairedHistory' = (repairedHistory \/ f[1] = "history")
    /\ UNCHANGED <<fixed, dstRoot, archive, command, stage, probes, doList, mirror>>

\* An error of the source when it is asked for a file ends the command.
RepairStops ==
    /\ stage = "missing" /\ jobs # {} /\ Fault /\ Finish(TRUE, FALSE)
    /\ UNCHANGED <<fixed, dst, dstRoot, archive>>

\* Mutant: a repaired HAS is not read for its buckets.
FilesRepaired_NoRescan ==
    /\ stage = "missing" /\ jobs = {}
    /\ Continue("startBuckets", {})
    /\ UNCHANGED <<archive, repairedHistory>>

\* With repaired HASs the Archive forgets what it knows, ClearCachedInfo, and scans again.
FilesRepaired ==
    /\ stage = "missing" /\ jobs = {}
    /\ IF repairedHistory
       THEN /\ Continue("root", {})
            /\ checkpointFiles' = {} /\ allBuckets' = {} /\ referencedBuckets' = {}
       ELSE Continue("startBuckets", {}) /\ UNCHANGED archive
    /\ UNCHANGED repairedHistory

RepairBucket ==
    /\ stage = "missingBuckets"
    /\ \E b \in jobs, failed \in BOOLEAN :
          /\ jobs' = jobs \ {b}
          /\ copyPath(BucketPath(b), failed)
          /\ errs' = (errs \/ failed)
    /\ UNCHANGED <<fixed, dstRoot, archive, command, stage, probes, doList, mirror, repairedHistory>>

RepairDone ==
    /\ stage = "missingBuckets" /\ jobs = {} /\ Finish(errs, FALSE)
    /\ UNCHANGED <<fixed, dst, dstRoot, archive, faults>>

-----------------------------------------------------------------------------
(* ScanBuckets *)

\* All buckets are listed if the range is the whole archive, or its root HAS cannot be read.
ScanBuckets ==
    /\ stage = "startBuckets" /\ opts.Concurrency # {}
    /\ LET full == SizeInCheckPoints(MakeRange(0, dstRoot))
       IN \/ /\ doList' = (canList /\ (dstRoot # 0 => SizeInCheckPoints(opts.Range) = full))
             /\ UNCHANGED faults
          \/ Fault /\ doList' = canList
    /\ stage' = "list" /\ jobs' = {f[2] : f \in {g \in checkpointFiles : g[1] = "history"}}
    /\ UNCHANGED <<fixed, dst, dstRoot, archive, command, probes, mirror, repairedHistory, errs>>

\* Without goroutines ScanBuckets is an error too; Scan has ended before.
CannotScanBuckets ==
    /\ stage = "startBuckets" /\ opts.Concurrency = {} /\ cmd = "repair"
    /\ errs' = TRUE /\ stage' = "missingBuckets" /\ jobs' = referencedBuckets \ allBuckets
    /\ UNCHANGED <<fixed, dst, dstRoot, archive, command, probes, doList, mirror,
                   repairedHistory, faults>>

ScanAllBuckets ==
    /\ stage = "list"
    /\ LET there == {b \in BucketIds : dst[BucketPath(b)] # "none"}
       IN \/ ~doList /\ UNCHANGED <<allBuckets, errs, faults>>
          \/ doList /\ allBuckets' = allBuckets \cup there /\ UNCHANGED <<errs, faults>>
          \/ /\ doList /\ Fault /\ errs' = TRUE
             /\ \E listed \in {{}, there} : allBuckets' = allBuckets \cup listed
    /\ stage' = "buckets"
    /\ UNCHANGED <<fixed, dst, dstRoot, checkpointFiles, referencedBuckets, command, jobs, probes,
                   doList, mirror, repairedHistory>>

\* Mutant: a HAS that cannot be read is no error.
ReadHAS_ErrorIgnored ==
    /\ stage = "buckets"
    /\ \E chk \in jobs :
          LET new == ToSet(BucketsOf[chk]) \ referencedBuckets
          IN /\ jobs' = jobs \ {chk}
             /\ IF dst[CategoryCheckpointPath("history", chk)] = "whole"
                THEN /\ referencedBuckets' = referencedBuckets \cup new
                     /\ probes' = IF ~doList \/ opts.Verify THEN probes \cup new ELSE probes
                ELSE UNCHANGED <<referencedBuckets, probes>>
             /\ UNCHANGED <<errs, faults>>
    /\ UNCHANGED <<fixed, dst, dstRoot, checkpointFiles, allBuckets, command, stage, doList,
                   mirror, repairedHistory>>

\* A bucket is looked for by the goroutine that notes it first.
ReadHAS ==
    /\ stage = "buckets"
    /\ \E chk \in jobs :
          LET new == ToSet(BucketsOf[chk]) \ referencedBuckets
              readable == dst[CategoryCheckpointPath("history", chk)] = "whole"
          IN /\ jobs' = jobs \ {chk}
             /\ \/ /\ readable
                   /\ referencedBuckets' = referencedBuckets \cup new
                   /\ probes' = IF ~doList \/ opts.Verify THEN probes \cup new ELSE probes
                   /\ UNCHANGED <<errs, faults>>
                \/ ~readable /\ errs' = TRUE /\ UNCHANGED <<referencedBuckets, probes, faults>>
                \/ readable /\ Fault /\ errs' = TRUE /\ UNCHANGED <<referencedBuckets, probes>>
    /\ UNCHANGED <<fixed, dst, dstRoot, checkpointFiles, allBuckets, command, stage, doList,
                   mirror, repairedHistory>>

\* Whether an error is found in a bucket.  VerifyBucketHash drops the error of the read and
\* compares the hash of what it has got, which is right if only the gzip trailer is cut off.
VerifyBucketHash(f) == {FALSE, dst[f] = "partial"}
VerifyBucketEntries(f) == {dst[f] = "partial"}

\* BucketExists, and with Verify one of the two.
ProbeBucket ==
    /\ stage = "buckets"
    /\ \E b \in probes :
          LET f == BucketPath(b)
          IN /\ probes' = probes \ {b}
             /\ allBuckets' = IF dst[f] # "none" /\ ~doList THEN allBuckets \cup {b} ELSE allBuckets
             /\ \/ /\ \E bad \in IF opts.Thorough THEN VerifyBucketEntries(f) ELSE VerifyBucketHash(f) :
                         errs' = (errs \/ (opts.Verify /\ bad))
                   /\ UNCHANGED faults
                \/ opts.Verify /\ dst[f] = "whole" /\ Fault /\ errs' = TRUE
    /\ UNCHANGED <<fixed, dst, dstRoot, checkpointFiles, referencedBuckets, command, stage, jobs,
                   doList, mirror, repairedHistory>>

\* CheckBucketsMissing
MissingBuckets == referencedBuckets \ allBuckets

\* ReportMissing: optional files are only warned about.
BucketsScanned ==
    /\ stage = "buckets" /\ jobs = {} /\ probes = {}
    /\ IF cmd = "scan"
       THEN /\ Finish(errs, MissingBuckets # {} \/ \E f \in MissingFiles : categoryRequired(f[1]))
            /\ UNCHANGED <<fixed, dst, dstRoot, archive, faults>>
       ELSE Continue("missingBuckets", MissingBuckets) /\ UNCHANGED <<archive, repairedHistory>>

-----------------------------------------------------------------------------
\* The files that are being written.
Writing == {f \in Files : /\ f \in src /\ ~opts.DryRun /\ (dst[f] = "none" \/ opts.Force)
                          /\ \/ \E w \in Workers : copying[w] = f
                             \/ stage = "missing" /\ f \in jobs
                             \/ stage = "missingBuckets" /\ f \in {BucketPath(b) : b \in jobs}}

\* The process is killed, or a goroutine of a scan panics because it cannot ask for a file.
Crash ==
    /\ cmd # None /\ Fault /\ Dies
    /\ \E cut \in {{}} \cup {{f} : f \in Writing} :
          dst' = [f \in Files |-> IF f \in cut THEN "partial" ELSE dst[f]]
    /\ UNCHANGED <<fixed, dstRoot>>

Next ==
    \/ Mirror \/ Scan \/ Repair \/ Crash
    \/ \E w \in Workers : TakeCheckpoint(w) \/ ClaimFile(w) \/ CopyFile(w)
    \/ PutRootHAS \/ LeaveRootHAS
    \/ ScanCheckpoints \/ CannotScan \/ ListCategoryCheckpoints \/ CategoryCheckpointExists
    \/ CheckpointsScanned \/ ToScanBuckets
    \/ RepairFile \/ RepairStops \/ FilesRepaired \/ RepairBucket \/ RepairDone
    \/ ScanBuckets \/ CannotScanBuckets \/ ScanAllBuckets \/ ReadHAS \/ ProbeBucket \/ BucketsScanned

Spec == Init /\ [][Next]_vars

-----------------------------------------------------------------------------
(* Properties *)

\* What an archive needs for a range of checkpoints.
Needed(r) ==
    (Required \X GenerateCheckpoints(r))
        \cup {BucketPath(b) : b \in UNION {ToSet(BucketsOf[k]) : k \in GenerateCheckpoints(r)}}

Ended(c) == result # None /\ result.cmd \in c

\* A file of which Scan and Repair notice that it is cut off: a HAS because it is read, a
\* ledger file if they verify, a bucket if they also decode it and did not know it before.
Noticed(f, o) ==
    \/ f[1] = "history"
    \/ f[1] = "ledger" /\ o.Verify
    \/ IsBucket(f) /\ o.Verify /\ o.Thorough /\ before.fresh

(***************************************************************************)
(* A Mirror with at least one goroutine or a Repair that returns nil has   *)
(* left every file the range needs in the destination, whichever goroutine *)
(* took which bucket, whatever earlier commands left behind and whatever   *)
(* the source lacks.  The one exception is a file that was cut off before: *)
(* Mirror replaces it only if forced, and Repair fails if it notices.      *)
(***************************************************************************)
CompleteOnSuccess ==
    /\ Ended({"mirror", "repair"}) /\ ~result.failed /\ ~result.opts.DryRun
    /\ result.cmd = "mirror" => result.opts.Concurrency # {}
    => \A f \in Needed(result.opts.Range) :
            \/ dst[f] = "whole"
            \/ /\ dst[f] = "partial" /\ before.dst[f] = "partial"
               /\ result.cmd = "mirror" => ~result.opts.Force
               /\ result.cmd = "repair" => ~Noticed(f, result.opts)

(***************************************************************************)
(* A scan that reports no error and nothing missing has found all files    *)
(* the range needs, although it lists or asks for files depending on the   *)
(* storage and the range, and may go by what an Archive remembers of       *)
(* earlier commands.  No HAS is cut off, with Verify no ledger file, and   *)
(* with Verify, Thorough and a new Archive no bucket.  With a new Archive  *)
(* it also reports nothing missing that is there.                          *)
(***************************************************************************)
ScanTellsTruth ==
    Ended({"scan"}) /\ ~result.failed =>
        LET needed == Needed(result.opts.Range)
        IN IF result.missing THEN before.fresh => \E f \in needed : dst[f] = "none"
           ELSE \A f \in needed :
                   dst[f] # "none" /\ (Noticed(f, result.opts) => dst[f] = "whole")

(***************************************************************************)
(* No two goroutines of a Mirror write the same file, although checkpoints *)
(* share most of their buckets: "a bucket-fetch map that shows which       *)
(* buckets are already-being-fetched".                                     *)
(***************************************************************************)
NoSharedWrites ==
    \A v, w \in Workers : v # w /\ copying[v] # None => copying[v] # copying[w]

(***************************************************************************)
(* "describe file-writes, but do not perform any": a command with DryRun   *)
(* leaves the destination as it is.                                        *)
(***************************************************************************)
DryRunWritesNothing ==
    [][(cmd # None /\ opts.DryRun) => (dst' = dst /\ dstRoot' = dstRoot)]_vars

-----------------------------------------------------------------------------
(***************************************************************************)
(* Why CompleteOnSuccess, ScanTellsTruth and NoSharedWrites hold.          *)
(***************************************************************************)
AtBuckets == {"startBuckets", "list", "buckets", "missingBuckets"}
AfterScan == {"missing"} \cup AtBuckets
Stages == {"idle", "copy", "root", "checkpoints"} \cup AfterScan

ToolsTypeOK ==
    /\ canList \in BOOLEAN /\ doList \in BOOLEAN /\ repairedHistory \in BOOLEAN /\ errs \in BOOLEAN
    /\ dst \in [Files -> {"none", "partial", "whole"}] /\ dstRoot \in {0, SrcRoot}
    /\ checkpointFiles \subseteq CategoryFiles
    /\ allBuckets \subseteq BucketIds /\ referencedBuckets \subseteq BucketIds /\ probes \subseteq BucketIds
    /\ todo \in [Workers -> Seq(Files)] /\ copying \in [Workers -> Files \cup {None}]
    /\ bucketFetch \subseteq Files
    /\ cmd \in {None, "mirror", "scan", "repair"} /\ stage \in Stages
    /\ cmd # None => opts \in OptionRecord

\* Which command is at which stage, and what the others have left alone.
StageInv ==
    /\ cmd = None <=> stage = "idle"
    /\ cmd = "mirror" <=> stage = "copy"
    /\ stage \in {"missing", "missingBuckets"} => cmd = "repair"
    /\ cmd # "repair" => ~repairedHistory
    /\ stage = "idle" => ~errs /\ ~doList
    /\ stage # "copy" => todo = Idle /\ copying = NoCopy /\ bucketFetch = {}
    /\ stage # "buckets" => probes = {}
    /\ result # None => cmd = None

\* A range that another clamp to the root of an archive can only narrow.
Settled(r) ==
    /\ PrevCheckpoint(IF r.Low < 63 THEN 63 ELSE r.Low) = r.Low
    /\ NextCheckpoint(r.High) = r.High /\ r.Low <= r.High /\ 63 <= r.High

InRange == GenerateCheckpoints(opts.Range)
RequiredFiles == Required \X InRange

RangeInv ==
    /\ stage \notin {"idle", "root"} \/ cmd = "repair" => InRange \subseteq Chks
    /\ cmd = "repair" => Settled(opts.Range)
    /\ cmd = "scan" /\ stage = "root" => opts \in Options

JobsInv ==
    /\ stage \in {"idle", "root", "startBuckets"} => jobs = {}
    /\ stage = "copy" => jobs \subseteq InRange
    /\ stage = "checkpoints" => jobs \subseteq Scanned \X (IF canList THEN {0} ELSE InRange)
    /\ stage = "missing" => jobs \subseteq CategoryFiles
    /\ stage \in {"list", "buckets"} =>
          jobs \subseteq {k \in Chks : CategoryCheckpointPath("history", k) \in checkpointFiles}
    /\ stage = "missingBuckets" => jobs \subseteq BucketIds

\* Goroutines of Mirror have different checkpoints before them, and a bucket that is
\* being copied is in bucketFetch.
WorkInv ==
    /\ \A w \in Workers : copying[w] # None =>
          /\ todo[w] # <<>> /\ copying[w] = Head(todo[w])
          /\ IsBucket(copying[w]) => copying[w] \in bucketFetch
    /\ \A w \in Workers : \A f \in ToSet(todo[w]) :
          ~IsBucket(f) => f[2] \notin jobs /\ \A v \in Workers \ {w} : f \notin ToSet(todo[v])
    /\ NoSharedWrites

\* A file that Mirror need not copy any more.
Settles(f) == dst[f] = "whole" \/ (dst[f] = "partial" /\ before.dst[f] = "partial" /\ ~opts.Force)

MirrorInv ==
    stage = "copy" /\ ~errs /\ ~opts.DryRun =>
        /\ \A f \in Needed(opts.Range) :
              \/ Settles(f)
              \/ \E w \in Workers : f \in ToSet(todo[w])
              \/ \E ix \in jobs : f \in ToSet(FilesOf(ix))
        /\ \A f \in bucketFetch : IsBucket(f) /\ (Settles(f) \/ \E w \in Workers : copying[w] = f)

\* A failed copy is an error, and what an Archive remembers is there.
FilesInv ==
    /\ cmd # None /\ ~errs =>
          \A f \in Files : f[1] # "scp" /\ dst[f] = "partial" => before.dst[f] = "partial"
    /\ \A f \in checkpointFiles : dst[f] # "none"
    /\ \A b \in allBuckets : dst[BucketPath(b)] # "none"

\* ScanCheckpoints has still to look at the file.
Pending(f) == stage = "checkpoints" /\ (IF canList THEN <<f[1], 0>> ELSE f) \in jobs

ListedInv ==
    ~errs /\ (stage = "checkpoints" \/ (cmd = "scan" /\ stage \in AtBuckets)) =>
        \A f \in RequiredFiles : dst[f] # "none" => f \in checkpointFiles \/ Pending(f)

\* Repair copies what is missing, and scans again if that was a HAS.
RepairInv ==
    cmd = "repair" =>
        /\ ~opts.DryRun /\ ~errs /\ (stage \in AfterScan \/ repairedHistory) =>
              \A f \in RequiredFiles : dst[f] # "none" \/ (stage = "missing" /\ f \in jobs)
        /\ stage = "missing" /\ ~repairedHistory =>
              \A f \in RequiredFiles : f[1] = "history" => f \in checkpointFiles \/ f \in jobs
        /\ ~opts.DryRun /\ ~errs /\ stage \in AtBuckets =>
              \A f \in RequiredFiles : f[1] = "history" => f \in checkpointFiles

\* Every HAS that is there is read for its buckets.
ReadInv ==
    /\ stage \in {"list", "buckets", "missingBuckets"} /\ ~errs =>
          \A k \in Chks : CategoryCheckpointPath("history", k) \in checkpointFiles =>
             \/ stage # "missingBuckets" /\ k \in jobs
             \/ /\ dst[CategoryCheckpointPath("history", k)] = "whole"
                /\ ToSet(BucketsOf[k]) \subseteq referencedBuckets
    /\ stage = "missingBuckets" /\ ~errs /\ ~opts.DryRun =>
          \A b \in referencedBuckets : dst[BucketPath(b)] # "none" \/ b \in jobs

\* What Verify has looked at is not cut off; it decodes buckets only if it is thorough, and
\* passes them over with an old Archive.
VerifyInv ==
    cmd \in {"scan", "repair"} /\ ~errs /\ opts.Verify =>
        /\ stage \in {"checkpoints"} \cup AfterScan =>
              \A f \in RequiredFiles : f[1] = "ledger" /\ dst[f] = "partial" => Pending(f)
        /\ before.fresh /\ opts.Thorough =>
              \A b \in referencedBuckets : dst[BucketPath(b)] = "partial" => b \in probes

\* A scan with a new Archive knows what is in its range, and nothing else.
FreshInv ==
    cmd = "scan" =>
        /\ before.fresh /\ stage # "buckets" => referencedBuckets = {}
        /\ before.fresh /\ stage = "root" => checkpointFiles = {}
        /\ before.fresh /\ stage # "root" =>
              /\ checkpointFiles \subseteq Categories \X InRange
              /\ referencedBuckets \subseteq UNION {ToSet(BucketsOf[k]) : k \in InRange}
        /\ stage = "buckets" /\ doList /\ ~errs =>
              \A b \in BucketIds : dst[BucketPath(b)] # "none" => b \in allBuckets
        /\ stage = "buckets" /\ ~doList /\ before.fresh =>
              \A b \in referencedBuckets : dst[BucketPath(b)] # "none" => b \in allBuckets \cup probes

ControlInv == ToolsTypeOK /\ StageInv /\ RangeInv /\ JobsInv
ScanInv == ListedInv /\ RepairInv /\ ReadInv /\ VerifyInv /\ FreshInv
ToolsInv ==
    /\ ControlInv /\ WorkInv /\ MirrorInv /\ FilesInv /\ ScanInv
    /\ CompleteOnSuccess /\ ScanTellsTruth
=============================================================================
