----------------------------- MODULE RPCBackend -----------------------------
(***************************************************************************)
(* ingest/ledgerbackend/rpc_backend.go: the backend that reads ledgers from *)
(* an RPC server, in batches.  bufferLock makes the calls of PrepareRange   *)
(* and GetLedger follow one another, also across their requests to the      *)
(* server and their waits; Close takes no lock.                             *)
(*                                                                          *)
(* fetchSequence serves the bytes of a ledger and moves nextLedger, and     *)
(* GetLedger unmarshals them afterwards.  If SafeUnmarshal fails, GetLedger *)
(* returns the error in the ledger's place and does not take the cursor     *)
(* back: served is the ledger fetchSequence had, unmarshalled or not.       *)
(***************************************************************************)
EXTENDS Integers

CONSTANTS
    BufferSize,   \* b.bufferSize
    Ranges,       \* the ranges a client may prepare
    NetworkTip,   \* bound: the last ledger the server ever has
    Retention,    \* the ledgers the server keeps
    NoRange,      \* b.preparedRange is nil
    NoLedger      \* no ledger was served yet

ASSUME RPCAssumption ==
    /\ BufferSize \in Nat \ {0}
    /\ Ranges \subseteq [from : Nat \ {0}, to : Nat \ {0}, bounded : BOOLEAN]
    /\ \A r \in Ranges : r.from <= r.to
    /\ NetworkTip \in Nat
    /\ Retention \in Nat \ {0}
    /\ NoRange \notin Ranges
    /\ NoLedger \notin Nat

VARIABLES
    buffer,               \* the sequences in b.buffer
    latestBufferLedger,   \* b.latestBufferLedger
    preparedRange,        \* b.preparedRange
    nextLedger,           \* b.nextLedger
    closed,               \* the channel b.closed is closed
    call,                 \* the call that holds bufferLock: "none", "prepare", "get"
    stage,                \* where it is
    goal,                 \* its range, if it is a PrepareRange
    request,              \* the sequence it wants
    served,               \* history: the last ledger fetchSequence advanced over
    latest                \* the last ledger the server has

bufferVars == <<buffer, latestBufferLedger>>
preparedVars == <<preparedRange, nextLedger, served>>
callVars == <<call, stage, goal, request>>
vars == <<bufferVars, preparedVars, closed, callVars, latest>>

Init ==
    /\ buffer = {} /\ latestBufferLedger = 0
    /\ preparedRange = NoRange /\ nextLedger = 0 /\ served = NoLedger
    /\ closed = FALSE
    /\ call = "none" /\ stage = "none" /\ goal = NoRange /\ request = 0
    /\ latest \in 0 .. NetworkTip

\* The server's retention window.
Retained(s) == s <= latest /\ s > latest - Retention
-----------------------------------------------------------------------------
(* How a call ends, and how it finds its ledger. *)

Unlock == call' = "none" /\ stage' = "none" /\ goal' = NoRange /\ request' = 0

Fail == Unlock /\ UNCHANGED preparedVars

\* PrepareRange has its first ledger, or the server has not got so far yet.
SetPrepared ==
    /\ preparedRange' = goal
    /\ nextLedger' = goal.from
    /\ stage' = "return"
    /\ UNCHANGED <<served, call, goal, request>>

\* getBufferedLedger returns the ledger.
Found ==
    \/ call = "prepare" /\ SetPrepared
    \/ /\ call = "get"
       /\ nextLedger' = request + 1
       /\ served' = request
       /\ Unlock
       /\ UNCHANGED preparedRange

\* The buffer is looked at first.
PrepareRange(r) ==
    /\ call = "none"
    /\ ~closed
    /\ preparedRange = NoRange
    /\ call' = "prepare"
    /\ goal' = r
    /\ request' = r.from
    /\ stage' = IF r.from \in buffer THEN "found" ELSE "health"
    /\ UNCHANGED <<bufferVars, preparedVars, closed, latest>>

\* Mutant: a ledger past the next one may be asked for.
Expected_Later(sequence) ==
    /\ ~closed
    /\ preparedRange # NoRange
    /\ sequence >= preparedRange.from
    /\ preparedRange.bounded => sequence <= preparedRange.to
    /\ sequence >= nextLedger

\* fetchSequence goes to its loop.  (An earlier ledger of the buffer is returned
\* without a change, everything else is an error.)
Expected(sequence) ==
    /\ ~closed
    /\ preparedRange # NoRange
    /\ sequence >= preparedRange.from
    /\ preparedRange.bounded => sequence <= preparedRange.to
    /\ sequence = nextLedger

GetLedger(sequence) ==
    /\ call = "none"
    /\ Expected(sequence)
    /\ call' = "get"
    /\ request' = sequence
    /\ stage' = IF sequence \in buffer THEN "found" ELSE "health"
    /\ UNCHANGED <<bufferVars, preparedVars, goal, closed, latest>>

TakeFromBuffer ==
    /\ stage = "found"
    /\ Found
    /\ UNCHANGED <<bufferVars, closed, latest>>
-----------------------------------------------------------------------------
(* getBufferedLedger: GetHealth, then GetLedgers.  The server goes on between. *)

HealthFails ==
    /\ stage = "health"
    /\ Fail
    /\ UNCHANGED <<bufferVars, closed, latest>>

\* Beyond the server's latest ledger: PrepareRange is content, GetLedger waits.
HealthAnswers ==
    /\ stage = "health"
    /\ \/ /\ request > latest
          /\ \/ call = "prepare" /\ SetPrepared
             \/ call = "get" /\ stage' = "wait" /\ UNCHANGED <<preparedVars, call, goal, request>>
       \/ /\ request <= latest
          /\ stage' = "fetch"
          /\ UNCHANGED <<preparedVars, call, goal, request>>
    /\ UNCHANGED <<bufferVars, closed, latest>>

FetchFails ==
    /\ stage = "fetch"
    /\ Fail
    /\ UNCHANGED <<bufferVars, closed, latest>>

\* The server returns n ledgers from the requested one on; with none, the ledger
\* is missing.
FetchAnswers(n) ==
    /\ stage = "fetch"
    /\ n > 0 => Retained(request) /\ request + n - 1 <= latest
    /\ buffer' = request .. request + n - 1
    /\ latestBufferLedger' = IF n = 0 THEN 0 ELSE request + n - 1
    /\ IF n = 0 THEN Fail ELSE Found
    /\ UNCHANGED <<closed, latest>>

\* Mutant: the ledger that cannot be decoded is left out.
FetchUndecodable_Skip(n) ==
    /\ stage = "fetch"
    /\ n < BufferSize
    /\ Retained(request) /\ request + n <= latest
    /\ buffer' = {s \in request .. request + BufferSize - 1 : s <= latest /\ s # request + n}
    /\ IF n = 0 THEN Fail ELSE Found
    /\ UNCHANGED <<latestBufferLedger, closed, latest>>

\* The ledger after n good ones is not base64: the buffer keeps those.
FetchUndecodable(n) ==
    /\ stage = "fetch"
    /\ n < BufferSize
    /\ Retained(request) /\ request + n <= latest
    /\ buffer' = request .. request + n - 1
    /\ Fail
    /\ UNCHANGED <<latestBufferLedger, closed, latest>>
-----------------------------------------------------------------------------
(* The select at the end of fetchSequence's loop, the returns, and Close. *)

\* Mutant: the loop waits again without asking the server.
Retry_NoHealth == stage = "wait" /\ UNCHANGED vars

\* time.After
Retry ==
    /\ stage = "wait"
    /\ stage' = "health"
    /\ UNCHANGED <<bufferVars, preparedVars, closed, call, goal, request, latest>>

\* Mutant: the wait does not look at the channel Close closes.
WaitClosed_Missing == stage = "wait" /\ closed /\ FALSE

WaitClosed ==
    /\ stage = "wait"
    /\ closed
    /\ Fail
    /\ UNCHANGED <<bufferVars, closed, latest>>

ContextDone ==
    /\ stage = "wait"
    /\ Fail
    /\ UNCHANGED <<bufferVars, closed, latest>>

PrepareReturns ==
    /\ stage = "return"
    /\ Unlock
    /\ UNCHANGED <<bufferVars, preparedVars, closed, latest>>

Close ==
    /\ ~closed
    /\ closed' = TRUE
    /\ UNCHANGED <<bufferVars, preparedVars, callVars, latest>>

\* The network closes a ledger, and the server gets it.
ServerAdvances ==
    /\ latest < NetworkTip
    /\ latest' = latest + 1
    /\ UNCHANGED <<bufferVars, preparedVars, closed, callVars>>
-----------------------------------------------------------------------------
CallStep ==
    \/ TakeFromBuffer
    \/ HealthFails \/ HealthAnswers
    \/ FetchFails
    \/ \E n \in 0 .. BufferSize : FetchAnswers(n) \/ FetchUndecodable(n)
    \/ Retry
    \/ PrepareReturns

Next ==
    \/ \E r \in Ranges : PrepareRange(r)
    \/ \E s \in 1 .. NetworkTip + 1 : GetLedger(s)
    \/ CallStep
    \/ WaitClosed
    \/ ContextDone
    \/ Close
    \/ ServerAdvances

Spec == Init /\ [][Next]_vars
-----------------------------------------------------------------------------
(* Properties. *)

\* Through partial batches, missing ledgers, failed requests and repeated calls
\* the ledgers come in the order of the range: the backend implements the contract
\* of OrderedLedgers.  A Close during PrepareRange, which takes no lock, counts
\* when that call returns.
Contract == INSTANCE OrderedLedgers
    WITH range <- preparedRange, last <- served, closed <- closed /\ call # "prepare"
ServesInOrder == Contract!AbstractSpec

\* What is in the buffer follows the ledger asked for last without a gap, also
\* after a batch that broke off: the ledger to be served next is in the buffer, or
\* the buffer is used up, or it is empty.
BufferInStep ==
    call = "none" /\ preparedRange # NoRange /\ buffer # {} =>
      \/ nextLedger \in buffer
      \/ \A s \in buffer : s < nextLedger

\* Why the two hold.  What a call knows of its own progress, with bufferLock held:
\* where it may be, and that the range, the cursor and the request go together.
CallInv ==
    /\ call = "none" <=> stage = "none"
    /\ call = "prepare" =>
         /\ stage \in {"found", "health", "fetch", "return"}
         /\ goal \in Ranges /\ request = goal.from
         /\ served = NoLedger
         /\ preparedRange = IF stage = "return" THEN goal ELSE NoRange
    /\ call = "get" =>
         /\ stage \in {"found", "health", "fetch", "wait"}
         /\ preparedRange # NoRange
         /\ request = nextLedger /\ request >= preparedRange.from
         /\ preparedRange.bounded => request <= preparedRange.to
    /\ stage = "found" => request \in buffer

\* The cursor is the ledger after the one served last, or the first of the range.
CursorInv ==
    IF preparedRange = NoRange THEN served = NoLedger
    ELSE nextLedger = IF served = NoLedger THEN preparedRange.from ELSE served + 1

\* The buffer is one run of ledgers the server had, also while a call refills it, and
\* never ahead of the cursor.
BufferInv ==
    /\ \A s, t \in buffer : s .. t \subseteq buffer
    /\ \A s \in buffer : s <= latest
    /\ preparedRange # NoRange => nextLedger \in buffer \/ \A s \in buffer : s < nextLedger

\* Type invariant of struct RPCLedgerBackend and the call in progress.
TypeOK ==
    /\ buffer \in SUBSET Nat
    /\ latestBufferLedger \in Nat
    /\ preparedRange \in Ranges \cup {NoRange}
    /\ nextLedger \in Nat
    /\ closed \in BOOLEAN
    /\ call \in {"none", "prepare", "get"}
    /\ stage \in {"none", "found", "health", "fetch", "wait", "return"}
    /\ goal \in Ranges \cup {NoRange}
    /\ request \in Nat
    /\ served \in Nat \cup {NoLedger}
    /\ latest \in Nat

RPCInv == TypeOK /\ CallInv /\ CursorInv /\ BufferInv

\* A GetLedger that waits for a ledger the server has got by now returns
\* (TestGetLedgerWaitsForLatest).
GetLedgerReturns == (stage = "wait" /\ request <= latest) ~> call = "none"
=============================================================================
