----------------------------- MODULE CoreRunner -----------------------------
(***************************************************************************)
(* ingest/ledgerbackend/stellar_core_runner.go and the files around it      *)
(* (buffered_meta_pipe_reader.go, file_watcher.go, catchup.go, run_from.go, *)
(* dir.go, cmd.go): one stellar-core subprocess that writes ledgers into a  *)
(* pipe, the goroutine that reads them ahead into a channel, the goroutine  *)
(* that waits for the process, the watcher of the binary, and close(),      *)
(* which stops all of them.                                                 *)
(*                                                                          *)
(* stellar-core itself is outside this program.  It writes the ledgers of   *)
(* its chain one after the other; once in a session it may write a frame it *)
(* should not, and it may exit at any time.                                 *)
(***************************************************************************)
EXTENDS Checkpoints, Sequences

CONSTANTS
    ReadAhead,    \* ledgerReadAheadBufferSize, in ledgers
    PipeSize,     \* bound: frames written and not yet read
    NetworkTip,   \* bound: the last ledger stellar-core ever writes
    Forks         \* the chains a frame may belong to

ASSUME RunnerAssumption ==
    /\ ReadAhead \in Nat \ {0}
    /\ PipeSize \in Nat \ {0}
    /\ NetworkTip \in Nat
    /\ Forks # {}

VARIABLES
    started,    \* there is a runner, and its process was started
    online,     \* it runs `run` (in the persistent directory), else `catchup`
    ctxDone,    \* the runner's context is canceled
    proc,       \* the process, and the goroutine in handleExit
    waitErr,    \* what cmd.Wait returned
    reader,     \* the goroutine in bufferedLedgerMetaReader.start
    ch,         \* chan metaResult
    cleanup,    \* how far the one call of close has come
    pipe,       \* frames in the pipe
    coreFirst,  \* the first ledger of this session's stream
    coreNext,   \* the ledger stellar-core writes next
    coreEnd,    \* the last one it writes in this session
    coreFork,   \* the chain it is on
    faulty,     \* it has already misbehaved in this session
    lcl         \* last closed ledger in the persistent directory, 0: no usable database

contextVars == <<started, online>>
coreVars == <<coreFirst, coreNext, coreEnd, coreFork, faulty>>
runnerVars == <<started, online, ctxDone, proc, waitErr, reader, ch, cleanup, pipe, coreFirst,
                coreNext, coreEnd, coreFork, faulty, lcl>>

\* A frame of ledger seq: its hash is <<seq, fork>>, the previous ledger hash in it
\* <<seq - 1, prev>>.  "noseq": its header cannot be read, "nohash": its hash
\* cannot, "length": its length prefix is invalid, "large": larger than the buffer.
Frame(kind, seq, fork, prev) == [kind |-> kind, seq |-> seq, fork |-> fork, prev |-> prev]
\* metaResult with an error: the end of the pipe, or anything else.
Failed(kind) == [kind |-> kind, seq |-> 0, fork |-> 0, prev |-> 0]
IsError(r) == r.kind \in {"eof", "broken"}
Hash(f) == <<f.seq, f.fork>>
PreviousHash(f) == <<f.seq - 1, f.prev>>

\* The chain every session starts on.
MainFork == CHOOSE f \in Forks : TRUE

WaitErrors == {"nil", "error", "canceled"}

RunnerInit ==
    /\ started = FALSE /\ online = FALSE /\ ctxDone = FALSE
    /\ proc = "exited" /\ waitErr = "nil"
    /\ reader = "stopped" /\ ch = <<>> /\ cleanup = "no" /\ pipe = <<>>
    /\ coreFirst = 0 /\ coreNext = 0 /\ coreEnd = 0 /\ coreFork = MainFork /\ faulty = FALSE
    /\ lcl = 0
-----------------------------------------------------------------------------
(* startMetaStream: a new process, pipe, reader and watcher. *)

StartMetaStream(mode, first, last) ==
    /\ started' = TRUE /\ online' = mode /\ ctxDone' = FALSE
    /\ proc' = "running" /\ waitErr' = "nil"
    /\ reader' = "reading" /\ ch' = <<>> /\ cleanup' = "no" /\ pipe' = <<>>
    /\ coreFirst' = first /\ coreNext' = first /\ coreEnd' = last
    /\ coreFork' = MainFork /\ faulty' = FALSE

\* catchup from-to, in an ephemeral directory, from the start of a checkpoint.
catchup(first, to) == StartMetaStream(FALSE, first, to) /\ UNCHANGED lcl

\* Mutant: the comparison is one off.
DatabaseUsable_OneLater(from) == lcl > 2 /\ lcl <= from + 1

\* The database on disk can be used when its last ledger is before the stream.
DatabaseUsable(from) == lcl > 2 /\ lcl <= from

\* runFromStream.start: go on with the database on disk, or make a new one and
\* catch up to just before from (stellar-core emits ledger 2 first when from < 3).
runFrom(from) ==
    \/ /\ DatabaseUsable(from)
       /\ StartMetaStream(TRUE, lcl + 1, NetworkTip)
       /\ UNCHANGED lcl
    \/ /\ LET first == IF from < 3 THEN 2 ELSE from
          IN  StartMetaStream(TRUE, first, NetworkTip) /\ lcl' = first - 1

\* It fails: the directory is left alone, or what was put in it is removed.
StartFails == lcl' \in {lcl, 0}
-----------------------------------------------------------------------------
(* stellar-core, external. *)

CoreWrites ==
    /\ proc = "running"
    /\ Len(pipe) < PipeSize
    /\ coreNext <= coreEnd
    /\ \E kind \in {"good", "large"} :
          pipe' = Append(pipe, Frame(kind, coreNext, coreFork, coreFork))
    /\ coreNext' = coreNext + 1
    /\ lcl' = IF online THEN coreNext ELSE lcl
    /\ UNCHANGED <<contextVars, ctxDone, proc, waitErr, reader, ch, cleanup, coreFirst, coreEnd,
                   coreFork, faulty>>

\* A frame it should not have written: a ledger is skipped, the chain is another
\* one, or the frame cannot be read.
CoreMisbehaves ==
    /\ proc = "running"
    /\ ~faulty
    /\ Len(pipe) < PipeSize
    /\ coreNext < coreEnd
    /\ \/ /\ pipe' = Append(pipe, Frame("good", coreNext + 1, coreFork, coreFork))
          /\ coreNext' = coreNext + 2
          /\ UNCHANGED coreFork
       \/ /\ \E fork \in Forks \ {coreFork} :
                pipe' = Append(pipe, Frame("good", coreNext, fork, fork)) /\ coreFork' = fork
          /\ coreNext' = coreNext + 1
       \/ /\ \E kind \in {"noseq", "nohash", "length"} :
                pipe' = Append(pipe, Frame(kind, coreNext, coreFork, coreFork))
          /\ coreNext' = coreNext + 1
          /\ UNCHANGED coreFork
    /\ faulty' = TRUE
    /\ UNCHANGED <<contextVars, ctxDone, proc, waitErr, reader, ch, cleanup, coreFirst, coreEnd, lcl>>

\* The process exits by itself, or because its context is canceled: it is
\* interrupted, and killed after WaitDelay.
ProcessExits(err) ==
    /\ proc = "running"
    /\ IF ctxDone THEN err \in {"canceled", "error"} ELSE err \in {"nil", "error"}
    /\ proc' = "dead"
    /\ waitErr' = err
    /\ coreNext' = 0 /\ coreEnd' = 0
    /\ UNCHANGED <<contextVars, ctxDone, reader, ch, cleanup, pipe, coreFirst, coreFork, faulty, lcl>>
-----------------------------------------------------------------------------
(* handleExit: the pipe file is closed first, the exit is recorded after it. *)

ClosePipe ==
    /\ proc = "dead"
    /\ proc' = "pipeClosed"
    /\ UNCHANGED <<contextVars, ctxDone, waitErr, reader, ch, cleanup, pipe, coreVars, lcl>>

RecordExit ==
    /\ proc = "pipeClosed"
    /\ proc' = "exited"
    /\ UNCHANGED <<contextVars, ctxDone, waitErr, reader, ch, cleanup, pipe, coreVars, lcl>>

\* getProcessExitError
exited == proc = "exited"
-----------------------------------------------------------------------------
(* bufferedLedgerMetaReader.start and readLedgerMetaFromPipe. *)

PipeEnded == pipe = <<>> /\ proc \in {"pipeClosed", "exited"}

\* A frame larger than the buffer is read only when the channel is empty.
ReadFrame ==
    /\ reader = "reading"
    /\ pipe # <<>>
    /\ Head(pipe).kind # "length"
    /\ Head(pipe).kind = "large" => ch = <<>>
    /\ Len(ch) < ReadAhead
    /\ ch' = Append(ch, [Head(pipe) EXCEPT !.kind = IF @ = "large" THEN "good" ELSE @])
    /\ pipe' = Tail(pipe)
    /\ UNCHANGED <<contextVars, ctxDone, proc, waitErr, reader, cleanup, coreVars, lcl>>

\* Mutant: the reader returns at the end of the pipe without reporting it.
ReadFails_Silently ==
    /\ reader = "reading"
    /\ PipeEnded \/ (pipe # <<>> /\ Head(pipe).kind = "length")
    /\ reader' = "ending"
    /\ UNCHANGED <<contextVars, ctxDone, proc, waitErr, ch, cleanup, pipe, coreVars, lcl>>

\* The pipe has ended, or cannot be read any further: the error is the last result.
ReadFails ==
    /\ reader = "reading"
    /\ Len(ch) < ReadAhead
    /\ \/ PipeEnded /\ ch' = Append(ch, Failed("eof"))
       \/ pipe # <<>> /\ Head(pipe).kind = "length" /\ ch' = Append(ch, Failed("broken"))
    /\ reader' = "ending"
    /\ UNCHANGED <<contextVars, ctxDone, proc, waitErr, cleanup, pipe, coreVars, lcl>>

\* Mutant: the reader returns without closing the channel.
CloseChannel_Missing == reader = "ending" /\ FALSE

\* close(b.c)
CloseChannel ==
    /\ reader = "ending"
    /\ reader' = "stopped"
    /\ UNCHANGED <<contextVars, ctxDone, proc, waitErr, ch, cleanup, pipe, coreVars, lcl>>
-----------------------------------------------------------------------------
(* close and cleanup.  closeOnce lets one caller through; the others wait.   *)

\* Mutant: close waits for the process without canceling its context.
CloseOnce_NoCancel == cleanup' = (IF cleanup = "no" THEN "wait" ELSE cleanup) /\ UNCHANGED ctxDone

\* The first call of close cancels the context and starts the cleanup.
CloseOnce ==
    /\ ctxDone' = TRUE
    /\ cleanup' = IF cleanup = "no" THEN "wait" ELSE cleanup

\* close() is called, by a goroutine that is not in the middle of the channel.
BeginClose ==
    /\ CloseOnce
    /\ UNCHANGED <<contextVars, proc, waitErr, reader, ch, pipe, coreVars, lcl>>

\* The context the runner's one is derived from is canceled.
CancelRunner ==
    /\ ctxDone' = TRUE
    /\ UNCHANGED <<contextVars, proc, waitErr, reader, ch, cleanup, pipe, coreVars, lcl>>

ProcessJoined ==
    /\ cleanup = "wait"
    /\ exited
    /\ cleanup' = "drain"
    /\ UNCHANGED <<contextVars, ctxDone, proc, waitErr, reader, ch, pipe, coreVars, lcl>>

\* Mutant: the channel is not drained.
DrainResult_Missing == cleanup = "drain" /\ FALSE

DrainResult ==
    /\ cleanup = "drain"
    /\ ch # <<>>
    /\ ch' = Tail(ch)
    /\ UNCHANGED <<contextVars, ctxDone, proc, waitErr, reader, cleanup, pipe, coreVars, lcl>>

\* Mutant: the reader goroutine is not waited for.
FinishCleanup_NoJoin ==
    /\ cleanup = "drain"
    /\ ch = <<>>
    /\ cleanup' = "done"
    /\ pipe' = <<>>
    /\ UNCHANGED <<contextVars, ctxDone, proc, waitErr, reader, ch, coreVars, lcl>>

\* The channel is closed and empty.  workingDir.cleanup removes the persistent
\* directory after an exit that was not the answer to a cancellation.  The pipe
\* reader is closed, and what is left in the pipe is lost.
FinishCleanup ==
    /\ cleanup = "drain"
    /\ ch = <<>> /\ reader = "stopped"
    /\ cleanup' = "done"
    /\ pipe' = <<>>
    /\ lcl' = IF online /\ waitErr = "error" THEN 0 ELSE lcl
    /\ UNCHANGED <<contextVars, ctxDone, proc, waitErr, reader, ch, coreVars>>

\* fileWatcher.loop: the binary has changed.
BinaryChanged == started /\ ~ctxDone /\ BeginClose
-----------------------------------------------------------------------------
\* The goroutines of the runner, and the process once it is told to stop.
RunnerStep ==
    \/ ClosePipe \/ RecordExit
    \/ ReadFrame \/ ReadFails \/ CloseChannel
    \/ ProcessJoined \/ DrainResult \/ FinishCleanup
    \/ ctxDone /\ \E err \in WaitErrors : ProcessExits(err)

\* What stellar-core and the operator do without being asked.
Environment ==
    \/ CoreWrites
    \/ CoreMisbehaves
    \/ ~ctxDone /\ \E err \in WaitErrors : ProcessExits(err)
    \/ BinaryChanged
-----------------------------------------------------------------------------
(* Properties. *)

\* What stellar-core may write, and what the reader may pass on.
Written == [kind : {"good", "large", "noseq", "nohash", "length"}, seq : Nat,
            fork : Forks, prev : Forks]
Frames == [kind : {"good", "noseq", "nohash"}, seq : Nat, fork : Forks, prev : Forks]
Results == Frames \cup {Failed("eof"), Failed("broken")}

\* Type invariant of the runner (struct stellarCoreRunner) and of its process.
RunnerTypeOK ==
    /\ started \in BOOLEAN /\ online \in BOOLEAN /\ ctxDone \in BOOLEAN /\ faulty \in BOOLEAN
    /\ proc \in {"running", "dead", "pipeClosed", "exited"}
    /\ waitErr \in WaitErrors
    /\ reader \in {"reading", "ending", "stopped"}
    /\ ch \in Seq(Results)
    /\ cleanup \in {"no", "wait", "drain", "done"}
    /\ pipe \in Seq(Written)
    /\ coreFirst \in Nat /\ coreNext \in Nat /\ coreEnd \in Nat
    /\ coreFork \in Forks
    /\ lcl \in Nat

\* close has canceled the context before it waits, and it waits for the process
\* before it drains the channel, and for the reader before it is done.
CleanupInv ==
    /\ cleanup # "no" => ctxDone
    /\ cleanup \in {"drain", "done"} => exited
    /\ cleanup = "done" => reader = "stopped" /\ ch = <<>>

\* A reader that has returned left an error behind, and as long as the session is
\* not canceled that error is still in the channel, after every ledger.
LastIsError ==
    started /\ ~ctxDone /\ reader # "reading" => ch # <<>> /\ IsError(ch[Len(ch)])

RunnerInv == RunnerTypeOK /\ CleanupInv /\ LastIsError
=============================================================================
