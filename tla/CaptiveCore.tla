----------------------------- MODULE CaptiveCore -----------------------------
(***************************************************************************)
(* ingest/ledgerbackend/captive_core_backend.go: the backend that reads     *)
(* ledgers from a stellar-core subprocess.  One client goroutine calls      *)
(* PrepareRange and GetLedger, another may call Close at any time.          *)
(* stellarCoreLock is held for writing while a range is opened and for      *)
(* reading in GetLedger and Close; GetLedger alone moves the cursor.        *)
(***************************************************************************)
EXTENDS CoreRunner

CONSTANTS
    Ranges,              \* the ranges the client may prepare
    LatestCheckpoints,   \* the values the root HAS of the archives may show
    NoRange,             \* c.prepared is nil
    NoLedger,            \* c.cached is nil
    NoHash               \* c.previousLedgerHash is nil

ASSUME CaptiveAssumption ==
    /\ Ranges \subseteq [from : Nat \ {0}, to : Nat \ {0}, bounded : BOOLEAN]
    /\ \A r \in Ranges : r.from <= r.to
    /\ LatestCheckpoints \subseteq Nat
    /\ NoRange \notin Ranges
    /\ NoHash \notin Nat \X Forks

VARIABLES
    prepared,             \* c.prepared
    nextLedger,           \* c.nextLedger, 0 before the first ledger of an online stream
    lastLedger,           \* c.lastLedger, 0 for nil
    previousLedgerHash,   \* c.previousLedgerHash
    cached,               \* the frame in c.cached
    closed,               \* c.closed
    parentDone,           \* the backend's context is canceled
    stage,                \* where the client's call is
    goal,                 \* the range of the PrepareRange call
    request,              \* the ledger of the GetLedger call
    outcome,              \* what the client's last call returned
    closing,              \* where the call of Close is
    fresh                 \* history: c.cached was read from the present stream

cursorVars == <<prepared, nextLedger, lastLedger, previousLedgerHash, cached, fresh>>
callVars == <<stage, goal, request, outcome>>
backendVars == <<cursorVars, callVars, closed, parentDone, closing>>
vars == <<runnerVars, backendVars>>

\* The stages of a call, beside "idle": "release", PrepareRange waits for the old
\* session to close; "seek", it is about to read the first ledger; "fetch",
\* GetLedger reads the channel; "closing", GetLedger waits for the session to close.

\* Nothing of an old session is left to wait for.
Released == ~started \/ cleanup = "done"
-----------------------------------------------------------------------------
roundDownToFirstReplayAfterCheckpointStart(ledger) ==
    LET low == GetCheckpointRange(ledger).Low IN IF low <= 1 THEN 2 ELSE low

nextExpectedSequence ==
    IF nextLedger = 0 /\ prepared # NoRange THEN prepared.from ELSE nextLedger

HasCached(sequence) == cached # NoLedger /\ cached.seq = sequence

isPrepared(r) ==
    /\ ~closed
    /\ started /\ ~ctxDone /\ ~exited
    /\ prepared # NoRange
    /\ nextExpectedSequence <= r.from \/ HasCached(r.from)
    /\ lastLedger # 0 => r.bounded /\ lastLedger >= r.to

Init ==
    /\ RunnerInit
    /\ prepared = NoRange /\ nextLedger = 0 /\ lastLedger = 0
    /\ previousLedgerHash = NoHash /\ cached = NoLedger /\ fresh = FALSE
    /\ closed = FALSE /\ parentDone = FALSE
    /\ stage = "idle" /\ goal = NoRange /\ request = 0 /\ outcome = "none"
    /\ closing = "off"
-----------------------------------------------------------------------------
(* PrepareRange: startPreparingRange, under the write lock. *)

\* A range that is not prepared: the session there is, is closed.
StartPreparingRange(r) ==
    /\ stage = "idle"
    /\ closing # "waiting"
    /\ ~isPrepared(r)
    /\ stage' = "release"
    /\ goal' = r
    /\ outcome' = "none"
    /\ IF started THEN BeginClose ELSE UNCHANGED runnerVars
    /\ UNCHANGED <<cursorVars, closed, parentDone, request, closing>>

\* The fields a new session sets; cached is not one of them.
Opened(next, last) ==
    /\ prepared' = goal
    /\ nextLedger' = next
    /\ lastLedger' = last
    /\ previousLedgerHash' = NoHash
    /\ fresh' = FALSE
    /\ stage' = "seek"
    /\ goal' = NoRange
    /\ UNCHANGED <<cached, closed, parentDone, request, outcome, closing>>

openOfflineReplaySubprocess ==
    /\ stage = "release" /\ Released /\ ~parentDone
    /\ goal.bounded
    /\ \E latest \in LatestCheckpoints : goal.to <= latest
    /\ LET first == roundDownToFirstReplayAfterCheckpointStart(goal.from)
       IN  catchup(first, goal.to) /\ Opened(first, goal.to)

\* runFromParams: where to start, if the ledger is not too far ahead.
runFromParams(from, latest) ==
    LET start == IF from <= GetCheckpoint(0) THEN 3 ELSE from
    IN  [allowed |-> from # 1 /\ start <= latest + (GetCheckpoint(0) + 1) * 2, runFrom |-> start - 1]

openOnlineReplaySubprocess ==
    /\ stage = "release" /\ Released /\ ~parentDone
    /\ ~goal.bounded
    /\ \E latest \in LatestCheckpoints :
          /\ runFromParams(goal.from, latest).allowed
          /\ runFrom(runFromParams(goal.from, latest).runFrom)
    /\ Opened(0, 0)

\* The archives, the old session's directory or the new process fail, the range
\* is refused, or the backend's context is canceled: nothing else changes.
OpenFails ==
    /\ stage = "release" /\ Released
    /\ stage' = "idle"
    /\ outcome' = "error"
    /\ goal' = NoRange
    /\ IF goal.bounded THEN UNCHANGED lcl ELSE StartFails
    /\ UNCHANGED <<contextVars, ctxDone, proc, waitErr, reader, ch, cleanup, pipe, coreVars,
                   cursorVars, closed, parentDone, request, closing>>
-----------------------------------------------------------------------------
(* GetLedger: fetchSequence, handleMetaPipeResult, checkMetaPipeResult.      *)

\* fetchSequence up to its loop: the cached ledger, an error, or the stream.
BeginFetch(sequence) ==
    /\ IF HasCached(sequence)
       THEN stage' = "idle" /\ outcome' = "ok" /\ request' = 0
       ELSE IF \/ closed \/ prepared = NoRange \/ ~started
               \/ sequence < nextExpectedSequence
               \/ lastLedger # 0 /\ sequence > lastLedger
       THEN stage' = "idle" /\ outcome' = "error" /\ request' = 0
       ELSE stage' = "fetch" /\ outcome' = "none" /\ request' = sequence
    /\ UNCHANGED <<runnerVars, cursorVars, closed, parentDone, goal, closing>>

GetLedger(sequence) == stage = "idle" /\ BeginFetch(sequence)

\* PrepareRange reads the first ledger of the range it has opened.
SeekFirst == stage = "seek" /\ BeginFetch(prepared.from)

\* Mutant: the previous ledger hash is not compared.
Verdict_NoHash(result, ok) ==
    IF ctxDone THEN "canceled"
    ELSE IF ~ok \/ IsError(result) THEN "broken"
    ELSE IF \/ result.kind = "noseq"
            \/ nextLedger # 0 /\ result.seq # nextLedger
            \/ nextLedger = 0 /\ result.seq > prepared.from
    THEN "unexpected"
    ELSE "none"

\* checkMetaPipeResult, and the checks of handleMetaPipeResult before it stores
\* anything: the error, or "none".  ok is FALSE when the channel is closed.
Verdict(result, ok) ==
    IF ctxDone THEN "canceled"
    ELSE IF ~ok \/ IsError(result)
    THEN IF exited /\ waitErr # "nil" THEN "exitError"
         ELSE IF ok THEN result.kind
         ELSE IF exited THEN "exited" ELSE "pipeClosed"
    ELSE IF \/ result.kind = "noseq"
            \/ nextLedger # 0 /\ result.seq # nextLedger
            \/ nextLedger = 0 /\ result.seq > prepared.from
            \/ previousLedgerHash \notin {NoHash, PreviousHash(result)}
    THEN "unexpected"
    ELSE "none"

\* The session is closed and GetLedger returns the error.
RejectResult(err) ==
    /\ stage' = "closing"
    /\ outcome' = err
    /\ CloseOnce
    /\ request' = 0
    /\ UNCHANGED <<prepared, lastLedger, previousLedgerHash, cached, fresh, goal>>

\* The frame is the next ledger: it is cached, and returned when it is the one
\* that was asked for; after the last one of a bounded range the session is closed.
AcceptFrame(f) ==
    /\ nextLedger' = f.seq + 1
    /\ previousLedgerHash' = Hash(f)
    /\ cached' = f
    /\ fresh' = TRUE
    /\ IF f.seq # request
       THEN UNCHANGED <<stage, outcome, request, ctxDone, cleanup>>
       ELSE
            /\ request' = 0
            /\ IF lastLedger = f.seq
               THEN stage' = "closing" /\ outcome' \in {"ok", "error"} /\ CloseOnce
               ELSE stage' = "idle" /\ outcome' = "ok" /\ UNCHANGED <<ctxDone, cleanup>>
    /\ UNCHANGED <<prepared, lastLedger, goal>>

\* Mutant: an unreadable hash is reported without closing the session.
handleMetaPipeResult_NoClose(result, ok) ==
    /\ IF Verdict(result, ok) # "none"
       THEN RejectResult(Verdict(result, ok)) /\ UNCHANGED nextLedger
       ELSE IF result.kind = "nohash"
       THEN /\ stage' = "idle" /\ outcome' = "unexpected" /\ request' = 0
            /\ nextLedger' = result.seq + 1
            /\ UNCHANGED <<prepared, lastLedger, previousLedgerHash, cached, fresh, goal,
                           ctxDone, cleanup>>
       ELSE AcceptFrame(result)
    /\ UNCHANGED <<contextVars, proc, waitErr, reader, pipe, coreVars, lcl, closed, parentDone,
                   closing>>

\* One result, or the end of the channel, is handled.
handleMetaPipeResult(result, ok) ==
    /\ IF Verdict(result, ok) # "none"
       THEN RejectResult(Verdict(result, ok)) /\ UNCHANGED nextLedger
       ELSE IF result.kind = "nohash"
       THEN RejectResult("unexpected") /\ nextLedger' = result.seq + 1
       ELSE AcceptFrame(result)
    /\ UNCHANGED <<contextVars, proc, waitErr, reader, pipe, coreVars, lcl, closed, parentDone,
                   closing>>

ReceiveResult ==
    /\ stage = "fetch"
    /\ \/ ch # <<>> /\ ch' = Tail(ch) /\ handleMetaPipeResult(Head(ch), TRUE)
       \/ ch = <<>> /\ reader = "stopped" /\ UNCHANGED ch
          /\ handleMetaPipeResult(Failed("eof"), FALSE)

\* The caller's context ends first.
FetchTimesOut ==
    /\ stage = "fetch"
    /\ stage' = "idle"
    /\ outcome' = "error"
    /\ request' = 0
    /\ UNCHANGED <<runnerVars, cursorVars, closed, parentDone, goal, closing>>

SessionClosed ==
    /\ stage = "closing"
    /\ cleanup = "done"
    /\ stage' = "idle"
    /\ UNCHANGED <<runnerVars, cursorVars, closed, parentDone, goal, request, outcome, closing>>
-----------------------------------------------------------------------------
(* Close, from another goroutine. *)

\* Close cancels the backend's context before it asks for the lock; so may the
\* owner of the context it is derived from.
CancelContext ==
    /\ parentDone' = TRUE
    /\ IF started THEN CancelRunner ELSE UNCHANGED runnerVars

CloseCancels ==
    /\ closing = "off"
    /\ closing' = "canceled"
    /\ CancelContext
    /\ UNCHANGED <<cursorVars, callVars, closed>>

ParentCanceled ==
    /\ ~parentDone
    /\ CancelContext
    /\ UNCHANGED <<cursorVars, callVars, closed, closing>>

\* The read lock is free of startPreparingRange.
CloseLocks ==
    /\ closing = "canceled"
    /\ stage # "release"
    /\ closed' = TRUE
    /\ closing' = "waiting"
    /\ IF started THEN BeginClose ELSE UNCHANGED runnerVars
    /\ UNCHANGED <<cursorVars, callVars, parentDone>>

CloseReturns ==
    /\ closing = "waiting"
    /\ Released
    /\ closing' = "done"
    /\ UNCHANGED <<runnerVars, cursorVars, callVars, closed, parentDone>>
-----------------------------------------------------------------------------
ClientStep ==
    \/ openOfflineReplaySubprocess \/ openOnlineReplaySubprocess \/ OpenFails
    \/ SeekFirst \/ ReceiveResult \/ SessionClosed

ClientCall ==
    \/ \E r \in Ranges : StartPreparingRange(r)
    \/ \E sequence \in 1 .. NetworkTip : GetLedger(sequence)
    \/ FetchTimesOut

RunnerRuns == RunnerStep /\ UNCHANGED backendVars
EnvironmentRuns == Environment /\ UNCHANGED backendVars

Next ==
    \/ ClientStep
    \/ ClientCall
    \/ CloseCancels \/ CloseLocks \/ CloseReturns
    \/ ParentCanceled
    \/ RunnerRuns
    \/ EnvironmentRuns

Spec == Init /\ [][Next]_vars

(* Fairness.  The goroutines of the runner and the client inside a call go on  *)
(* where they can; the process ends once it is told to (it is killed after     *)
(* WaitDelay).  RWMutex lets a waiting reader in before the next writer: strong *)
(* fairness on CloseLocks.  stellar-core need not write, and nobody need call.  *)
Fairness ==
    /\ WF_vars(RunnerRuns)
    /\ WF_vars(ClientStep)
    /\ SF_vars(CloseLocks)
    /\ WF_vars(CloseReturns)

FairSpec == Spec /\ Fairness
-----------------------------------------------------------------------------
(* Properties. *)

\* In a session that is not being closed the three cursors agree: nextLedger and
\* previousLedgerHash belong to the cached ledger, also after a frame that was
\* refused halfway through handleMetaPipeResult.
CursorsAgree ==
    fresh /\ ~ctxDone => /\ nextLedger = cached.seq + 1
                         /\ previousLedgerHash = Hash(cached)

\* The ledgers a session accepts are one chain, whatever stellar-core writes:
\* each is the successor of the one before it and carries its hash.
OneChain ==
    [][fresh /\ fresh' /\ cached' # cached
         => cached'.seq = cached.seq + 1 /\ PreviousHash(cached') = Hash(cached)]_vars

\* A session streams from at or before the ledger it was prepared for: an online
\* one whatever an earlier session, ended by a crash or a Close, left on disk
\* (runFromStream.start), an offline one from the start of a checkpoint, except for
\* ledger 1, which stellar-core never emits.
StartsInReach ==
    started /\ prepared # NoRange /\ (online \/ prepared.from > 1) => coreFirst <= prepared.from

\* When close has returned nothing of the session is left: the process is gone and
\* the reader goroutine has ended, so the pipe reader can be closed (cleanup).
NothingLeftRunning ==
    started /\ cleanup = "done" => exited /\ reader = "stopped" /\ ch = <<>>

\* What the comment in checkMetaPipeResult says of its last branch ("This case
\* should never happen").
PipeNeverClosesFirst == outcome # "pipeClosed"

\* Why they hold: the types of the backend's own state, and that a call is in the
\* channel of a session that exists and waits for the end of one that is canceled.
CaptiveTypeOK ==
    /\ prepared \in Ranges \cup {NoRange}
    /\ nextLedger \in Nat /\ lastLedger \in Nat
    /\ previousLedgerHash \in (Nat \X Forks) \cup {NoHash}
    /\ cached \in Frames \cup {NoLedger}
    /\ closed \in BOOLEAN /\ parentDone \in BOOLEAN /\ fresh \in BOOLEAN
    /\ stage \in {"idle", "release", "seek", "fetch", "closing"}
    /\ goal \in Ranges \cup {NoRange}
    /\ closing \in {"off", "canceled", "waiting", "done"}

CallInv ==
    /\ stage = "release" => goal \in Ranges
    /\ stage = "seek" => prepared \in Ranges
    /\ stage = "fetch" => started /\ prepared \in Ranges
    /\ stage = "closing" => started /\ cleanup # "no"
    /\ fresh => started /\ cached \in Frames

CaptiveInv ==
    RunnerInv /\ CaptiveTypeOK /\ CallInv /\ CursorsAgree /\ StartsInReach /\ PipeNeverClosesFirst

\* A GetLedger whose process has gone, or whose session was canceled, returns.
GetLedgerReturns ==
    (stage \in {"fetch", "closing"} /\ (ctxDone \/ proc # "running")) ~> stage \notin {"fetch", "closing"}

\* Close always returns, whatever the client and stellar-core are doing.
CloseFinishes == closing # "off" ~> closing = "done"

\* close always brings the session to its end: the process, the reader blocked on
\* a full channel and the drain do not wait for each other.
CleanupFinishes == cleanup # "no" ~> cleanup = "done"
=============================================================================
