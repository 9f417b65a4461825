-------------------------- MODULE CaptiveCoreProofs --------------------------
(***************************************************************************)
(* Theorems about CaptiveCore and CoreRunner, for every checkpoint          *)
(* frequency, buffer size, set of ranges and of chains, and whatever        *)
(* stellar-core writes.                                                     *)
(***************************************************************************)
EXTENDS CaptiveCore, SequenceTheorems, TLAPS

(* The checkpoint arithmetic of historyarchive/range.go. *)

(* The first ledger of the checkpoint of a ledger is at or before it. *)
LEMMA CheckpointLow ==
    ASSUME NEW l \in Nat \ {0}
    PROVE  /\ GetCheckpointRange(l).Low \in Nat
           /\ GetCheckpointRange(l).Low <= l
<1> DEFINE n == CheckpointFrequency
           q == (l + n) \div n
<1>1. n \in Nat \ {0}
  BY CheckpointAssumption
<1>2. l + n = n * q + ((l + n) % n) /\ (l + n) % n \in 0 .. n - 1 /\ q \in Int
  BY <1>1
<1>3. q >= 1
  <2>1. \A a \in Int : \A m \in Nat \ {0} : a < 1 => m * a <= 0
    OBVIOUS
  <2>2. q < 1 => n * q <= 0
    BY <1>1, <1>2, <2>1
  <2> QED
    BY <1>1, <1>2, <2>2
<1>4. n * q >= n
  <2>1. \A a \in Int : \A m \in Nat \ {0} : a >= 1 => m * a >= m
    OBVIOUS
  <2> QED
    BY <1>1, <1>2, <1>3, <2>1
<1>5. q * n = n * q /\ n * q \in Int
  BY <1>1, <1>2
<1>6. GetCheckpoint(l) = n * q - 1
  BY <1>5 DEF GetCheckpoint, NextCheckpoint
<1> HIDE DEF n, q
<1>7. GetCheckpoint(l) - n + 1 \in Nat /\ GetCheckpoint(l) - n + 1 <= l
  BY <1>1, <1>2, <1>4, <1>5, <1>6
<1> QED
  BY <1>7 DEF GetCheckpointRange, n

(* Where an offline session starts. *)
LEMMA ReplayStart ==
    ASSUME NEW l \in Nat \ {0}
    PROVE  /\ roundDownToFirstReplayAfterCheckpointStart(l) \in Nat
           /\ l > 1 => roundDownToFirstReplayAfterCheckpointStart(l) <= l
BY CheckpointLow DEF roundDownToFirstReplayAfterCheckpointStart

(* Where an online session asks stellar-core to start. *)
LEMMA RunFromStart ==
    ASSUME NEW from \in Nat \ {0}, NEW latest \in Nat, runFromParams(from, latest).allowed
    PROVE  /\ from > 1
           /\ runFromParams(from, latest).runFrom \in Nat
           /\ runFromParams(from, latest).runFrom <= 2 \/ runFromParams(from, latest).runFrom < from
<1>1. GetCheckpoint(0) \in Nat
  BY CheckpointAssumption DEF GetCheckpoint, NextCheckpoint
<1> DEFINE start == IF from <= GetCheckpoint(0) THEN 3 ELSE from
<1>2. from # 1 /\ runFromParams(from, latest).runFrom = start - 1
  BY DEF runFromParams
<1> QED
  BY <1>1, <1>2
-----------------------------------------------------------------------------
(* The runner. *)

(* A new session satisfies the runner's invariant. *)
LEMMA SessionStarts ==
    ASSUME RunnerInv, NEW mode \in BOOLEAN, NEW first \in Nat, NEW last \in Nat,
           StartMetaStream(mode, first, last), lcl' \in Nat
    PROVE  RunnerInv' /\ ctxDone' = FALSE /\ started' /\ online' = mode /\ coreFirst' = first
<1>1. MainFork \in Forks
  BY RunnerAssumption DEF MainFork
<1>2. RunnerTypeOK'
  <2>1. ch' \in Seq(Results) /\ pipe' \in Seq(Written)
    BY DEF StartMetaStream
  <2> QED
    BY <1>1, <2>1 DEF StartMetaStream, RunnerTypeOK, WaitErrors
<1>3. CleanupInv' /\ LastIsError'
  BY DEF StartMetaStream, CleanupInv, LastIsError
<1> QED
  BY <1>2, <1>3 DEF StartMetaStream, RunnerInv

(* What never changes, and what is never taken back, in a session. *)
Onward ==
    /\ UNCHANGED <<started, online, coreFirst>>
    /\ ctxDone => ctxDone'
    /\ cleanup # "no" => cleanup' # "no"

(* The goroutine in handleExit, and the process. *)
LEMMA ProcessKeeps ==
    ASSUME RunnerInv, ClosePipe \/ RecordExit \/ (\E err \in WaitErrors : ProcessExits(err))
    PROVE  RunnerInv' /\ Onward
<1>1. /\ UNCHANGED <<started, online, ctxDone, reader, ch, cleanup, pipe, coreFirst, coreFork,
                     faulty, lcl>>
      /\ proc # "exited" /\ proc' \in {"dead", "pipeClosed", "exited"}
      /\ waitErr' \in WaitErrors /\ coreNext' \in Nat /\ coreEnd' \in Nat
  BY DEF RunnerInv, RunnerTypeOK, ClosePipe, RecordExit, ProcessExits, contextVars, coreVars
<1>2. RunnerTypeOK'
  BY <1>1 DEF RunnerInv, RunnerTypeOK
<1>3. CleanupInv' /\ LastIsError'
  BY <1>1 DEF RunnerInv, CleanupInv, LastIsError, exited
<1> QED
  BY <1>1, <1>2, <1>3 DEF RunnerInv, Onward

(* A frame goes from the pipe into the channel. *)
LEMMA ReadFrameKeeps ==
    ASSUME RunnerInv, ReadFrame
    PROVE  RunnerInv' /\ Onward
<1> DEFINE r == [Head(pipe) EXCEPT !.kind = IF @ = "large" THEN "good" ELSE @]
<1>1. /\ reader = "reading" /\ pipe # <<>> /\ Head(pipe).kind # "length"
      /\ ch' = Append(ch, r) /\ pipe' = Tail(pipe)
      /\ UNCHANGED <<started, online, ctxDone, proc, waitErr, reader, cleanup, coreFirst, coreNext,
                     coreEnd, coreFork, faulty, lcl>>
  BY DEF ReadFrame, contextVars, coreVars
<1>2. Head(pipe) \in Written /\ Tail(pipe) \in Seq(Written)
  BY <1>1, HeadTailProperties DEF RunnerInv, RunnerTypeOK
<1>3. r \in Results
  BY <1>1, <1>2 DEF Written, Results, Frames
<1> HIDE DEF r
<1>4. ch' \in Seq(Results)
  BY <1>1, <1>3, AppendProperties DEF RunnerInv, RunnerTypeOK
<1>5. RunnerTypeOK'
  BY <1>1, <1>2, <1>4 DEF RunnerInv, RunnerTypeOK
<1>6. CleanupInv' /\ LastIsError'
  BY <1>1 DEF RunnerInv, CleanupInv, LastIsError, exited
<1> QED
  BY <1>1, <1>5, <1>6 DEF RunnerInv, Onward

(* The reader reports the error that ends it, and closes the channel. *)
LEMMA ReadFailsKeeps ==
    ASSUME RunnerInv, ReadFails \/ CloseChannel
    PROVE  RunnerInv' /\ Onward
<1>1. CASE ReadFails
  <2>1. PICK r \in {Failed("eof"), Failed("broken")} :
          /\ reader = "reading" /\ ch' = Append(ch, r) /\ reader' = "ending"
          /\ UNCHANGED <<started, online, ctxDone, proc, waitErr, cleanup, pipe, coreFirst, coreNext,
                         coreEnd, coreFork, faulty, lcl>>
    BY <1>1 DEF ReadFails, contextVars, coreVars
  <2>2. r \in Results /\ IsError(r)
    BY DEF Results, IsError, Failed
  <2>3. ch \in Seq(Results)
    BY DEF RunnerInv, RunnerTypeOK
  <2>4. ch' \in Seq(Results) /\ ch' # <<>> /\ ch'[Len(ch')] = r
    BY <2>1, <2>2, <2>3, AppendProperties
  <2>5. RunnerTypeOK'
    BY <2>1, <2>4 DEF RunnerInv, RunnerTypeOK
  <2>6. CleanupInv' /\ LastIsError'
    BY <2>1, <2>2, <2>4 DEF RunnerInv, CleanupInv, LastIsError, exited, IsError
  <2> QED
    BY <2>1, <2>5, <2>6 DEF RunnerInv, Onward
<1>2. CASE CloseChannel
  <2>1. /\ reader = "ending" /\ reader' = "stopped"
        /\ UNCHANGED <<started, online, ctxDone, proc, waitErr, ch, cleanup, pipe, coreFirst,
                       coreNext, coreEnd, coreFork, faulty, lcl>>
    BY <1>2 DEF CloseChannel, contextVars, coreVars
  <2>2. RunnerTypeOK'
    BY <2>1 DEF RunnerInv, RunnerTypeOK
  <2>3. CleanupInv' /\ LastIsError'
    BY <2>1 DEF RunnerInv, CleanupInv, LastIsError, exited
  <2> QED
    BY <2>1, <2>2, <2>3 DEF RunnerInv, Onward
<1> QED
  BY <1>1, <1>2

(* The steps of cleanup. *)
LEMMA CleanupKeeps ==
    ASSUME RunnerInv, ProcessJoined \/ DrainResult \/ FinishCleanup
    PROVE  RunnerInv' /\ Onward
<1>1. CASE ProcessJoined
  <2>1. /\ cleanup = "wait" /\ cleanup' = "drain" /\ exited
        /\ UNCHANGED <<started, online, ctxDone, proc, waitErr, reader, ch, pipe, coreFirst,
                       coreNext, coreEnd, coreFork, faulty, lcl>>
    BY <1>1 DEF ProcessJoined, contextVars, coreVars
  <2> QED
    BY <2>1 DEF RunnerInv, RunnerTypeOK, CleanupInv, LastIsError, exited, Onward
<1>2. CASE DrainResult
  <2>1. /\ cleanup = "drain" /\ ch # <<>> /\ ch' = Tail(ch)
        /\ UNCHANGED <<started, online, ctxDone, proc, waitErr, reader, cleanup, pipe, coreFirst,
                       coreNext, coreEnd, coreFork, faulty, lcl>>
    BY <1>2 DEF DrainResult, contextVars, coreVars
  <2>2. ch' \in Seq(Results)
    BY <2>1, HeadTailProperties DEF RunnerInv, RunnerTypeOK
  <2>3. RunnerTypeOK'
    BY <2>1, <2>2 DEF RunnerInv, RunnerTypeOK
  <2>4. CleanupInv' /\ LastIsError'
    BY <2>1 DEF RunnerInv, CleanupInv, LastIsError, exited
  <2> QED
    BY <2>1, <2>3, <2>4 DEF RunnerInv, Onward
<1>3. CASE FinishCleanup
  <2>1. /\ cleanup = "drain" /\ ch = <<>> /\ reader = "stopped"
        /\ cleanup' = "done" /\ pipe' = <<>> /\ lcl' \in {0, lcl}
        /\ UNCHANGED <<started, online, ctxDone, proc, waitErr, reader, ch, coreFirst, coreNext,
                       coreEnd, coreFork, faulty>>
    BY <1>3 DEF FinishCleanup, contextVars, coreVars
  <2>2. RunnerTypeOK'
    BY <2>1 DEF RunnerInv, RunnerTypeOK
  <2>3. CleanupInv' /\ LastIsError'
    BY <2>1 DEF RunnerInv, CleanupInv, LastIsError, exited
  <2> QED
    BY <2>1, <2>2, <2>3 DEF RunnerInv, Onward
<1> QED
  BY <1>1, <1>2, <1>3

(* stellar-core writes, well or badly. *)
LEMMA CoreKeeps ==
    ASSUME RunnerInv, CoreWrites \/ CoreMisbehaves
    PROVE  RunnerInv' /\ Onward
<1>1. /\ proc = "running"
      /\ \E f \in Written : pipe' = Append(pipe, f)
      /\ coreNext' \in Nat /\ coreFork' \in Forks /\ faulty' \in BOOLEAN /\ lcl' \in Nat
      /\ UNCHANGED <<started, online, ctxDone, proc, waitErr, reader, ch, cleanup, coreFirst, coreEnd>>
  <2>1. /\ coreNext \in Nat /\ coreFork \in Forks /\ lcl \in Nat /\ faulty \in BOOLEAN
        /\ coreNext + 1 \in Nat /\ coreNext + 2 \in Nat
    BY DEF RunnerInv, RunnerTypeOK
  <2>2. \A kind \in {"good", "large", "noseq", "nohash", "length"} : \A s \in Nat : \A f \in Forks :
          Frame(kind, s, f, f) \in Written
    BY DEF Frame, Written
  <2>3. CASE CoreWrites
    BY <2>1, <2>2, <2>3 DEF CoreWrites, contextVars
  <2>4. CASE CoreMisbehaves
    BY <2>1, <2>2, <2>4 DEF CoreMisbehaves, contextVars
  <2> QED
    BY <2>3, <2>4
<1>2. pipe' \in Seq(Written)
  BY <1>1, AppendProperties DEF RunnerInv, RunnerTypeOK
<1>3. RunnerTypeOK'
  BY <1>1, <1>2 DEF RunnerInv, RunnerTypeOK
<1>4. CleanupInv' /\ LastIsError'
  BY <1>1 DEF RunnerInv, CleanupInv, LastIsError, exited
<1> QED
  BY <1>1, <1>3, <1>4 DEF RunnerInv, Onward

(* The session is closed, or its context canceled. *)
LEMMA CancelKeeps ==
    ASSUME RunnerInv, BeginClose \/ CancelRunner
    PROVE  RunnerInv' /\ Onward /\ ctxDone' /\ (BeginClose => cleanup' # "no")
<1>1. /\ ctxDone' = TRUE
      /\ UNCHANGED <<started, online, proc, waitErr, reader, ch, pipe, coreFirst, coreNext, coreEnd,
                     coreFork, faulty, lcl>>
      /\ cleanup' = cleanup \/ (cleanup = "no" /\ cleanup' = "wait")
      /\ BeginClose => cleanup' # "no"
  BY DEF BeginClose, CloseOnce, CancelRunner, contextVars, coreVars
<1>2. RunnerTypeOK'
  BY <1>1 DEF RunnerInv, RunnerTypeOK
<1>3. CleanupInv' /\ LastIsError'
  BY <1>1 DEF RunnerInv, CleanupInv, LastIsError, exited
<1> QED
  BY <1>1, <1>2, <1>3 DEF RunnerInv, Onward

(* The runner's goroutines, stellar-core and the operator. *)
LEMMA RunnerStepKeeps ==
    ASSUME RunnerInv, RunnerStep \/ Environment
    PROVE  RunnerInv' /\ Onward
<1>1. CASE RunnerStep
  BY <1>1, ProcessKeeps, ReadFrameKeeps, ReadFailsKeeps, CleanupKeeps DEF RunnerStep
<1>2. CASE Environment
  BY <1>2, ProcessKeeps, CoreKeeps, CancelKeeps DEF Environment, BinaryChanged
<1> QED
  BY <1>1, <1>2
-----------------------------------------------------------------------------
(* The backend. *)

(* The runner is left alone. *)
LEMMA RunnerIdle ==
    ASSUME RunnerInv, UNCHANGED runnerVars
    PROVE  RunnerInv' /\ Onward
BY DEF RunnerInv, RunnerTypeOK, CleanupInv, LastIsError, exited, runnerVars, Onward

(* A step that leaves the cursor alone keeps what is said about it. *)
LEMMA CursorKeeps ==
    ASSUME CaptiveInv, Onward, UNCHANGED cursorVars
    PROVE  CursorsAgree' /\ StartsInReach' /\ (fresh' => started' /\ cached' \in Frames)
<1>1. /\ UNCHANGED <<started, online, coreFirst, prepared, nextLedger, previousLedgerHash, cached, fresh>>
      /\ ctxDone => ctxDone'
  BY DEF Onward, cursorVars
<1>2. CursorsAgree'
  BY <1>1 DEF CaptiveInv, CursorsAgree, Hash
<1> QED
  BY <1>1, <1>2 DEF CaptiveInv, CallInv, StartsInReach

(* A step of the runner, or of Close, beside the client's call. *)
LEMMA BesideCall ==
    ASSUME CaptiveInv, RunnerInv', Onward, UNCHANGED <<cursorVars, callVars>>,
           closed' \in BOOLEAN, parentDone' \in BOOLEAN,
           closing' \in {"off", "canceled", "waiting", "done"}
    PROVE  CaptiveInv'
<1>1. CursorsAgree' /\ StartsInReach' /\ (fresh' => started' /\ cached' \in Frames)
  BY CursorKeeps
<1>2. CaptiveTypeOK'
  BY DEF CaptiveInv, CaptiveTypeOK, cursorVars, callVars
<1>3. CallInv'
  BY <1>1 DEF CaptiveInv, CallInv, cursorVars, callVars, Onward
<1>4. PipeNeverClosesFirst'
  BY DEF CaptiveInv, PipeNeverClosesFirst, callVars
<1> QED
  BY <1>1, <1>2, <1>3, <1>4 DEF CaptiveInv

(* The start of a call, and the returns that touch nothing but the call itself. *)
LEMMA CallKeeps ==
    ASSUME CaptiveInv,
           \/ \E r \in Ranges : StartPreparingRange(r)
           \/ \E sequence \in Nat : GetLedger(sequence)
           \/ SeekFirst \/ FetchTimesOut \/ SessionClosed \/ OpenFails
    PROVE  CaptiveInv'
<1>1. /\ UNCHANGED <<cursorVars, closed, parentDone, closing>>
      /\ goal' \in Ranges \cup {NoRange}
      /\ outcome' # "pipeClosed"
      /\ \/ stage' = "idle"
         \/ stage' = "release" /\ goal' \in Ranges
         \/ stage' = "fetch" /\ prepared # NoRange /\ started
  BY DEF CaptiveInv, CaptiveTypeOK, PipeNeverClosesFirst, StartPreparingRange, GetLedger, SeekFirst,
         BeginFetch, FetchTimesOut, SessionClosed, OpenFails
<1>2. RunnerInv' /\ Onward
  <2>1. CASE UNCHANGED runnerVars
    BY <2>1, RunnerIdle DEF CaptiveInv
  <2>2. CASE \E r \in Ranges : StartPreparingRange(r)
    BY <2>1, <2>2, CancelKeeps DEF CaptiveInv, StartPreparingRange
  <2>3. CASE OpenFails
    <3>1. /\ UNCHANGED <<started, online, ctxDone, proc, waitErr, reader, ch, cleanup, pipe,
                         coreFirst, coreNext, coreEnd, coreFork, faulty>>
          /\ lcl' \in {lcl, 0}
      BY <2>3 DEF OpenFails, StartFails, contextVars, coreVars
    <3> QED
      BY <3>1 DEF CaptiveInv, RunnerInv, RunnerTypeOK, CleanupInv, LastIsError, exited, Onward
  <2> QED
    BY <2>1, <2>2, <2>3 DEF GetLedger, SeekFirst, BeginFetch, FetchTimesOut, SessionClosed
<1>3. CursorsAgree' /\ StartsInReach' /\ (fresh' => started' /\ cached' \in Frames)
  BY <1>1, <1>2, CursorKeeps
<1>4. CaptiveTypeOK'
  BY <1>1 DEF CaptiveInv, CaptiveTypeOK, cursorVars
<1>5. CallInv'
  BY <1>1, <1>2, <1>3 DEF CaptiveInv, CaptiveTypeOK, CallInv, cursorVars, Onward
<1> QED
  BY <1>1, <1>2, <1>3, <1>4, <1>5 DEF CaptiveInv, PipeNeverClosesFirst

(* A session is opened: at or before the first ledger of its range. *)
LEMMA OpenKeeps ==
    ASSUME CaptiveInv, openOfflineReplaySubprocess \/ openOnlineReplaySubprocess
    PROVE  CaptiveInv'
<1>1. /\ stage = "release" /\ goal \in Ranges /\ goal.from \in Nat \ {0} /\ goal.to \in Nat
      /\ lcl \in Nat
  BY CaptiveAssumption DEF openOfflineReplaySubprocess, openOnlineReplaySubprocess, CaptiveInv,
                           CallInv, RunnerInv, RunnerTypeOK
<1>2. /\ RunnerInv' /\ started' /\ ctxDone' = FALSE
      /\ online' \/ goal.from > 1 => coreFirst' <= goal.from
      /\ \E next, last \in Nat : Opened(next, last)
  <2>1. CASE openOfflineReplaySubprocess
    <3> DEFINE first == roundDownToFirstReplayAfterCheckpointStart(goal.from)
    <3>1. StartMetaStream(FALSE, first, goal.to) /\ UNCHANGED lcl /\ Opened(first, goal.to)
      BY <2>1 DEF openOfflineReplaySubprocess, catchup
    <3>2. first \in Nat /\ (goal.from > 1 => first <= goal.from)
      BY <1>1, ReplayStart
    <3> HIDE DEF first
    <3> QED
      BY <1>1, <3>1, <3>2, SessionStarts DEF CaptiveInv
  <2>2. CASE openOnlineReplaySubprocess
    <3>1. PICK latest \in LatestCheckpoints : /\ runFromParams(goal.from, latest).allowed
                                              /\ runFrom(runFromParams(goal.from, latest).runFrom)
      BY <2>2 DEF openOnlineReplaySubprocess
    <3> DEFINE from == runFromParams(goal.from, latest).runFrom
    <3>2. runFrom(from) /\ from \in Nat /\ goal.from > 1 /\ (from <= 2 \/ from < goal.from)
      BY <1>1, <3>1, RunFromStart, CaptiveAssumption
    <3> HIDE DEF from
    <3>3. \E first \in Nat : /\ first <= goal.from
                             /\ StartMetaStream(TRUE, first, NetworkTip)
                             /\ lcl' \in Nat
      <4>1. CASE DatabaseUsable(from) /\ StartMetaStream(TRUE, lcl + 1, NetworkTip) /\ UNCHANGED lcl
        <5>1. lcl + 1 \in Nat /\ lcl + 1 <= goal.from
          BY <1>1, <3>2, <4>1 DEF DatabaseUsable
        <5> QED
          BY <1>1, <4>1, <5>1
      <4>2. ASSUME NEW first, first = IF from < 3 THEN 2 ELSE from,
                   StartMetaStream(TRUE, first, NetworkTip), lcl' = first - 1
            PROVE  first \in Nat /\ first <= goal.from /\ lcl' \in Nat
        BY <1>1, <3>2, <4>2
      <4> QED
        BY <3>2, <4>1, <4>2 DEF runFrom
    <3>4. Opened(0, 0)
      BY <2>2 DEF openOnlineReplaySubprocess
    <3> QED
      BY <3>3, <3>4, SessionStarts, RunnerAssumption DEF CaptiveInv
  <2> QED
    BY <2>1, <2>2
<1>3. /\ prepared' = goal /\ nextLedger' \in Nat /\ lastLedger' \in Nat
      /\ previousLedgerHash' = NoHash /\ fresh' = FALSE /\ stage' = "seek" /\ goal' = NoRange
      /\ UNCHANGED <<cached, closed, parentDone, request, outcome, closing>>
  BY <1>2 DEF Opened
<1>4. CaptiveTypeOK'
  BY <1>1, <1>3 DEF CaptiveInv, CaptiveTypeOK
<1>5. CallInv'
  BY <1>1, <1>3 DEF CallInv
<1>6. CursorsAgree' /\ PipeNeverClosesFirst'
  BY <1>3 DEF CaptiveInv, CursorsAgree, PipeNeverClosesFirst
<1>7. StartsInReach'
  BY <1>2, <1>3 DEF StartsInReach
<1> QED
  BY <1>2, <1>4, <1>5, <1>6, <1>7 DEF CaptiveInv

(* What GetLedger does with a result: it refuses it and closes the session, or       *)
(* accepts it.  The end of a channel that is not canceled is never what it finds:     *)
(* the reader's error comes first.                                                    *)
LEMMA ResultCases ==
    ASSUME CaptiveInv, ReceiveResult
    PROVE  \/ /\ stage' = "closing" /\ outcome' # "pipeClosed" /\ nextLedger' \in Nat /\ CloseOnce
              /\ UNCHANGED <<prepared, lastLedger, previousLedgerHash, cached, fresh, goal>>
           \/ /\ ch # <<>> /\ Head(ch) \in Frames
              /\ Verdict(Head(ch), TRUE) = "none" /\ ~ctxDone /\ ~IsError(Head(ch))
              /\ AcceptFrame(Head(ch))
<1>1. stage = "fetch" /\ started /\ nextLedger \in Nat /\ ch \in Seq(Results)
  BY DEF CaptiveInv, ReceiveResult, CallInv, CaptiveTypeOK, RunnerInv, RunnerTypeOK
<1>2. CASE ch # <<>> /\ handleMetaPipeResult(Head(ch), TRUE)
  <2> DEFINE r == Head(ch)
  <2>1. r \in Results
    BY <1>1, <1>2, HeadTailProperties
  <2>2. r.seq \in Nat
    BY <2>1 DEF Results, Frames, Failed
  <2> HIDE DEF r
  <2>3. CASE Verdict(r, TRUE) # "none"
    <3>1. Verdict(r, TRUE) # "pipeClosed"
      BY DEF Verdict, IsError
    <3>2. RejectResult(Verdict(r, TRUE)) /\ UNCHANGED nextLedger
      BY <1>2, <2>3 DEF handleMetaPipeResult, r
    <3> QED
      BY <1>1, <3>1, <3>2 DEF RejectResult
  <2>4. CASE Verdict(r, TRUE) = "none" /\ r.kind = "nohash"
    <3>1. RejectResult("unexpected") /\ nextLedger' = r.seq + 1
      BY <1>2, <2>4 DEF handleMetaPipeResult, r
    <3>2. nextLedger' \in Nat
      BY <2>2, <3>1
    <3> QED
      BY <3>1, <3>2 DEF RejectResult
  <2>5. CASE Verdict(r, TRUE) = "none" /\ r.kind # "nohash"
    <3>1. ~ctxDone /\ ~IsError(r)
      BY <2>5 DEF Verdict, IsError
    <3>2. r \in Frames
      BY <2>1, <3>1 DEF Results, IsError, Failed
    <3>3. AcceptFrame(r)
      BY <1>2, <2>5 DEF handleMetaPipeResult, r
    <3> QED
      BY <1>2, <2>1, <2>5, <3>1, <3>2, <3>3 DEF r
  <2> QED
    BY <2>3, <2>4, <2>5
<1>3. CASE ch = <<>> /\ reader = "stopped" /\ handleMetaPipeResult(Failed("eof"), FALSE)
  <2>1. ctxDone
    BY <1>1, <1>3 DEF CaptiveInv, RunnerInv, RunnerTypeOK, LastIsError
  <2>2. Verdict(Failed("eof"), FALSE) = "canceled"
    BY <2>1 DEF Verdict
  <2>3. RejectResult("canceled") /\ UNCHANGED nextLedger
    BY <1>3, <2>2 DEF handleMetaPipeResult
  <2> QED
    BY <1>1, <2>3 DEF RejectResult
<1> QED
  BY <1>2, <1>3 DEF ReceiveResult

(* An accepted frame closes the session, or leaves it as it is. *)
LEMMA AcceptEffects ==
    ASSUME NEW f, AcceptFrame(f)
    PROVE  /\ nextLedger' = f.seq + 1 /\ previousLedgerHash' = Hash(f) /\ cached' = f /\ fresh' = TRUE
           /\ UNCHANGED <<prepared, lastLedger, goal>>
           /\ \/ UNCHANGED <<ctxDone, cleanup, stage, outcome>>
              \/ UNCHANGED <<ctxDone, cleanup>> /\ stage' = "idle" /\ outcome' = "ok"
              \/ CloseOnce /\ stage' = "closing" /\ outcome' \in {"ok", "error"}
BY DEF AcceptFrame

(* A sequence of more than one element and its tail end alike. *)
LEMMA TailLast ==
    ASSUME NEW S, NEW s \in Seq(S), s # <<>>, Len(s) # 1
    PROVE  Tail(s) # <<>> /\ Tail(s)[Len(Tail(s))] = s[Len(s)]
<1>1. Len(s) \in Nat /\ Len(s) # 0
  BY EmptySeq
<1>2. Len(s) >= 2
  <2>1. \A n \in Nat : n # 0 /\ n # 1 => n >= 2
    OBVIOUS
  <2> QED
    BY <1>1, <2>1
<1>3. Len(Tail(s)) = Len(s) - 1 /\ \A i \in 1 .. Len(s) - 1 : Tail(s)[i] = s[i + 1]
  BY HeadTailProperties
<1> QED
  BY <1>1, <1>2, <1>3

(* The channel has one result less, and the error behind a reader that has returned *)
(* is only taken by a call that closes the session.                                 *)
LEMMA ReceiveKeepsRunner ==
    ASSUME CaptiveInv, ReceiveResult
    PROVE  RunnerInv' /\ Onward
<1>1. /\ UNCHANGED <<started, online, proc, waitErr, reader, pipe, coreFirst, coreNext, coreEnd,
                     coreFork, faulty, lcl, closed, parentDone, closing>>
      /\ ch' = ch \/ (ch # <<>> /\ ch' = Tail(ch))
  BY DEF ReceiveResult, handleMetaPipeResult, contextVars, coreVars
<1>2. ch \in Seq(Results)
  BY DEF CaptiveInv, RunnerInv, RunnerTypeOK
<1>3. ch' \in Seq(Results)
  BY <1>1, <1>2, HeadTailProperties
<1>4. CASE CloseOnce
  <2>1. /\ ctxDone' = TRUE
        /\ cleanup' = cleanup \/ (cleanup = "no" /\ cleanup' = "wait")
    BY <1>4 DEF CloseOnce
  <2>2. RunnerTypeOK'
    BY <1>1, <1>3, <2>1 DEF CaptiveInv, RunnerInv, RunnerTypeOK
  <2>3. CleanupInv' /\ LastIsError'
    BY <1>1, <2>1 DEF CaptiveInv, RunnerInv, CleanupInv, LastIsError, exited
  <2> QED
    BY <1>1, <2>1, <2>2, <2>3 DEF RunnerInv, Onward
<1>5. CASE UNCHANGED <<ctxDone, cleanup>> /\ ~ctxDone /\ ch # <<>> /\ ~IsError(Head(ch))
  <2>1. RunnerTypeOK'
    BY <1>1, <1>3, <1>5 DEF CaptiveInv, RunnerInv, RunnerTypeOK
  <2>2. CleanupInv'
    BY <1>1, <1>5 DEF CaptiveInv, RunnerInv, CleanupInv, exited
  <2>3. LastIsError'
    <3> SUFFICES ASSUME started, reader # "reading", ch' = Tail(ch)
                 PROVE  ch' # <<>> /\ IsError(ch'[Len(ch')])
      BY <1>1, <1>5 DEF CaptiveInv, RunnerInv, LastIsError, IsError
    <3>1. IsError(ch[Len(ch)])
      BY <1>5 DEF CaptiveInv, RunnerInv, LastIsError
    <3>2. Len(ch) # 1
      <4>1. Len(ch) = 1 => Head(ch) = ch[Len(ch)]
        BY <1>2, <1>5
      <4> QED
        BY <1>5, <3>1, <4>1
    <3>3. Tail(ch) # <<>> /\ Tail(ch)[Len(Tail(ch))] = ch[Len(ch)]
      BY <1>2, <1>5, <3>2, TailLast
    <3> QED
      BY <3>1, <3>3
  <2> QED
    BY <1>1, <1>5, <2>1, <2>2, <2>3 DEF RunnerInv, Onward
<1> QED
  BY <1>4, <1>5, ResultCases, AcceptEffects

(* GetLedger reads a result. *)
LEMMA ReceiveKeeps ==
    ASSUME CaptiveInv, ReceiveResult
    PROVE  CaptiveInv'
<1>1. RunnerInv' /\ Onward
  BY ReceiveKeepsRunner
<1>2. stage = "fetch" /\ started /\ prepared \in Ranges /\ UNCHANGED <<closed, parentDone, closing>>
  BY DEF CaptiveInv, CallInv, ReceiveResult, handleMetaPipeResult
<1>3. CASE /\ stage' = "closing" /\ outcome' # "pipeClosed" /\ nextLedger' \in Nat /\ CloseOnce
           /\ UNCHANGED <<prepared, lastLedger, previousLedgerHash, cached, fresh, goal>>
  <2>1. ctxDone' = TRUE /\ cleanup' # "no"
    BY <1>3 DEF CloseOnce
  <2>2. CaptiveTypeOK'
    BY <1>2, <1>3 DEF CaptiveInv, CaptiveTypeOK
  <2>3. CallInv'
    BY <1>1, <1>2, <1>3, <2>1 DEF CaptiveInv, CallInv, Onward
  <2>4. CursorsAgree' /\ PipeNeverClosesFirst'
    BY <1>3, <2>1 DEF CursorsAgree, PipeNeverClosesFirst
  <2>5. StartsInReach'
    BY <1>1, <1>3 DEF CaptiveInv, StartsInReach, Onward
  <2> QED
    BY <1>1, <2>2, <2>3, <2>4, <2>5 DEF CaptiveInv
<1>4. ASSUME NEW f \in Frames, AcceptFrame(f) PROVE CaptiveInv'
  <2>1. f.seq \in Nat /\ f.fork \in Forks
    BY DEF Frames
  <2>2. /\ nextLedger' = f.seq + 1 /\ previousLedgerHash' = Hash(f) /\ cached' = f /\ fresh' = TRUE
        /\ UNCHANGED <<prepared, lastLedger, goal>>
        /\ \/ stage' = stage /\ outcome' = outcome
           \/ stage' = "idle" /\ outcome' = "ok"
           \/ CloseOnce /\ stage' = "closing" /\ outcome' \in {"ok", "error"}
    BY <1>4, AcceptEffects
  <2>3. previousLedgerHash' \in Nat \X Forks
    BY <2>1, <2>2 DEF Hash
  <2>4. CaptiveTypeOK'
    BY <1>2, <2>1, <2>2, <2>3 DEF CaptiveInv, CaptiveTypeOK
  <2>5. CallInv'
    BY <1>1, <1>2, <2>2 DEF CallInv, CloseOnce, Onward
  <2>6. CursorsAgree'
    BY <2>2 DEF CursorsAgree, Hash
  <2>7. StartsInReach' /\ PipeNeverClosesFirst'
    BY <1>1, <2>2 DEF CaptiveInv, StartsInReach, PipeNeverClosesFirst, Onward
  <2> QED
    BY <1>1, <2>4, <2>5, <2>6, <2>7 DEF CaptiveInv
<1> QED
  BY <1>3, <1>4, ResultCases
-----------------------------------------------------------------------------
(* A new backend satisfies the invariant. *)
LEMMA CaptiveInit == Init => CaptiveInv
<1> SUFFICES ASSUME Init PROVE CaptiveInv
  OBVIOUS
<1>1. RunnerTypeOK
  <2>1. MainFork \in Forks
    BY RunnerAssumption DEF MainFork
  <2>2. ch \in Seq(Results) /\ pipe \in Seq(Written)
    BY DEF Init, RunnerInit
  <2> QED
    BY <2>1, <2>2 DEF Init, RunnerInit, RunnerTypeOK, WaitErrors
<1>2. CleanupInv /\ LastIsError
  BY DEF Init, RunnerInit, CleanupInv, LastIsError
<1>3. CaptiveTypeOK /\ CallInv
  BY DEF Init, CaptiveTypeOK, CallInv
<1>4. CursorsAgree /\ StartsInReach /\ PipeNeverClosesFirst
  BY DEF Init, RunnerInit, CursorsAgree, StartsInReach, PipeNeverClosesFirst
<1> QED
  BY <1>1, <1>2, <1>3, <1>4 DEF CaptiveInv, RunnerInv

(* Every step keeps it. *)
LEMMA CaptiveStep == CaptiveInv /\ [Next]_vars => CaptiveInv'
<1> SUFFICES ASSUME CaptiveInv, [Next]_vars PROVE CaptiveInv'
  OBVIOUS
<1>0. /\ RunnerInv /\ closed \in BOOLEAN /\ parentDone \in BOOLEAN
      /\ closing \in {"off", "canceled", "waiting", "done"}
  BY DEF CaptiveInv, CaptiveTypeOK
<1>1. CASE ClientStep
  BY <1>1, OpenKeeps, CallKeeps, ReceiveKeeps DEF ClientStep
<1>2. CASE ClientCall
  <2>1. 1 .. NetworkTip \subseteq Nat
    BY RunnerAssumption
  <2> QED
    BY <1>2, <2>1, CallKeeps DEF ClientCall
<1>3. CASE CloseCancels \/ CloseLocks \/ CloseReturns \/ ParentCanceled
  <2>1. /\ BeginClose \/ CancelRunner \/ UNCHANGED runnerVars
        /\ UNCHANGED <<cursorVars, callVars>>
        /\ closed' \in BOOLEAN /\ parentDone' \in BOOLEAN
        /\ closing' \in {"off", "canceled", "waiting", "done"}
    BY <1>0, <1>3 DEF CloseCancels, CloseLocks, CloseReturns, ParentCanceled, CancelContext
  <2>2. RunnerInv' /\ Onward
    BY <1>0, <2>1, CancelKeeps, RunnerIdle
  <2> QED
    BY <2>1, <2>2, BesideCall
<1>4. CASE RunnerRuns \/ EnvironmentRuns
  <2>1. (RunnerStep \/ Environment) /\ UNCHANGED <<cursorVars, callVars, closed, parentDone, closing>>
    BY <1>4 DEF RunnerRuns, EnvironmentRuns, backendVars
  <2>2. RunnerInv' /\ Onward
    BY <1>0, <2>1, RunnerStepKeeps
  <2> QED
    BY <1>0, <2>1, <2>2, BesideCall
<1>5. CASE UNCHANGED vars
  <2>1. UNCHANGED runnerVars /\ UNCHANGED <<cursorVars, callVars, closed, parentDone, closing>>
    BY <1>5 DEF vars, backendVars
  <2>2. RunnerInv' /\ Onward
    BY <1>0, <2>1, RunnerIdle
  <2> QED
    BY <1>0, <2>1, <2>2, BesideCall
<1> QED
  BY <1>1, <1>2, <1>3, <1>4, <1>5 DEF Next

(* The inductive invariant of the backend and its runner. *)
THEOREM CaptiveCorrect == Spec => []CaptiveInv
BY CaptiveInit, CaptiveStep, PTL DEF Spec

(* nextLedger and previousLedgerHash belong to the cached ledger while the session   *)
(* is not being closed, also after a frame that handleMetaPipeResult refused halfway. *)
THEOREM CaptiveCursorsAgree == Spec => []CursorsAgree
<1>1. CaptiveInv => CursorsAgree
  BY DEF CaptiveInv
<1> QED
  BY <1>1, CaptiveCorrect, PTL

(* No session starts past the ledger it was prepared for (runFromStream.start, *)
(* roundDownToFirstReplayAfterCheckpointStart).                                 *)
THEOREM SessionStartsInReach == Spec => []StartsInReach
<1>1. CaptiveInv => StartsInReach
  BY DEF CaptiveInv
<1> QED
  BY <1>1, CaptiveCorrect, PTL

(* When close of the runner has returned the process and the reader are gone and *)
(* the channel is empty.                                                         *)
THEOREM CloseLeavesNothing == Spec => []NothingLeftRunning
<1>1. CaptiveInv => NothingLeftRunning
  BY DEF CaptiveInv, RunnerInv, CleanupInv, NothingLeftRunning
<1> QED
  BY <1>1, CaptiveCorrect, PTL

(* The branch of checkMetaPipeResult that "should never happen" never does. *)
THEOREM PipeErrorComesFirst == Spec => []PipeNeverClosesFirst
<1>1. CaptiveInv => PipeNeverClosesFirst
  BY DEF CaptiveInv
<1> QED
  BY <1>1, CaptiveCorrect, PTL

(* The ledgers one session accepts are a chain of successors, each with the hash of *)
(* the one before it, whatever stellar-core writes.                                  *)
THEOREM SessionIsOneChain == Spec => OneChain
<1>1. CaptiveInv /\ [Next]_vars
        => [fresh /\ fresh' /\ cached' # cached
              => cached'.seq = cached.seq + 1 /\ PreviousHash(cached') = Hash(cached)]_vars
  <2> SUFFICES ASSUME CaptiveInv, [Next]_vars, fresh, fresh', cached' # cached
               PROVE  cached'.seq = cached.seq + 1 /\ PreviousHash(cached') = Hash(cached)
    OBVIOUS
  <2>1. ReceiveResult
    <3>1. ASSUME openOfflineReplaySubprocess \/ openOnlineReplaySubprocess PROVE FALSE
      BY <3>1 DEF openOfflineReplaySubprocess, openOnlineReplaySubprocess, Opened
    <3>2. ASSUME UNCHANGED cursorVars PROVE FALSE
      BY <3>2 DEF cursorVars
    <3>3. CASE ClientStep
      BY <3>1, <3>2, <3>3 DEF ClientStep, OpenFails, SeekFirst, BeginFetch, SessionClosed
    <3>4. CASE ~ClientStep
      BY <3>2, <3>4 DEF Next, ClientCall, StartPreparingRange, GetLedger, BeginFetch, FetchTimesOut,
                        CloseCancels, CloseLocks, CloseReturns, ParentCanceled, RunnerRuns,
                        EnvironmentRuns, backendVars, vars
    <3> QED
      BY <3>3, <3>4
  <2> DEFINE f == Head(ch)
  <2>2. f \in Frames /\ Verdict(f, TRUE) = "none" /\ ~ctxDone /\ ~IsError(f) /\ AcceptFrame(f)
    BY <2>1, ResultCases
  <2> HIDE DEF f
  <2>3. nextLedger = cached.seq + 1 /\ previousLedgerHash = Hash(cached)
    BY <2>2 DEF CaptiveInv, CursorsAgree
  <2>4. cached \in Frames
    BY DEF CaptiveInv, CallInv
  <2>5. cached.seq \in Nat /\ cached.fork \in Forks
    BY <2>4 DEF Frames
  <2>6. nextLedger # 0
    BY <2>3, <2>5
  <2>7. f.seq = nextLedger /\ previousLedgerHash \in {NoHash, PreviousHash(f)}
    BY <2>2, <2>6 DEF Verdict
  <2>8. previousLedgerHash # NoHash
    BY <2>3, <2>5, CaptiveAssumption DEF Hash
  <2>9. cached' = f
    BY <2>2, AcceptEffects
  <2> QED
    BY <2>3, <2>7, <2>8, <2>9
<1> QED
  BY <1>1, CaptiveCorrect, PTL DEF Spec, OneChain
=============================================================================
