---------------------------- MODULE LedgerStream ----------------------------
(***************************************************************************)
(* ingest/ledgerbackend/ledger_stream.go: streamRaw, which owns a backend  *)
(* and feeds the loop of one consumer with the ledgers of a range, here    *)
(* with the RPC backend.  The alternative, clients that call the backend   *)
(* themselves, is in the same specification: streamRange is NoRange then.  *)
(*                                                                         *)
(* The stream calls prepare, read and close of its rawReader one after     *)
(* another, and looks at a result when the backend's call has returned.    *)
(***************************************************************************)
EXTENDS RPCBackend, Sequences

VARIABLES
    streamRange,  \* ledgerRange of RawLedgers, or NoRange without a stream
    stream,       \* where streamRaw is, or how it ended
    seq,          \* its loop variable
    yielded,      \* history: the ledgers the consumer has seen
    canceled      \* ctx is canceled

streamVars == <<streamRange, stream, seq, yielded, canceled>>
allVars == <<vars, streamVars>>

StreamInit ==
    /\ Init
    /\ streamRange \in Ranges \cup {NoRange}
    /\ stream = "new" /\ seq = 0 /\ yielded = <<>> /\ canceled = FALSE

Streaming == streamRange # NoRange
Ends == {"complete", "broken", "failed"}
-----------------------------------------------------------------------------
\* The first pull builds the reader and prepares the range.
StreamPrepares ==
    /\ Streaming /\ stream = "new"
    /\ PrepareRange(streamRange)
    /\ stream' = "prepare"
    /\ UNCHANGED <<streamRange, seq, yielded, canceled>>

StreamPrepared ==
    /\ stream = "prepare" /\ call = "none" /\ preparedRange # NoRange
    /\ stream' = "next" /\ seq' = streamRange.from
    /\ UNCHANGED <<vars, streamRange, yielded, canceled>>

StreamReads ==
    /\ stream = "next"
    /\ GetLedger(seq)
    /\ stream' = "read"
    /\ UNCHANGED <<streamRange, seq, yielded, canceled>>

\* The deferred close.
Teardown(end) ==
    /\ closed' = TRUE /\ stream' = end
    /\ UNCHANGED <<bufferVars, preparedVars, callVars, latest, streamRange, seq, canceled>>

\* Mutant: the end of the range is looked for before the ledger is yielded.
Yield_EndFirst ==
    /\ stream = "read" /\ call = "none" /\ served = seq
    /\ IF streamRange.bounded /\ seq = streamRange.to
       THEN Teardown("complete") /\ UNCHANGED yielded
       ELSE /\ yielded' = Append(yielded, served)
            /\ \/ Teardown("broken")
               \/ /\ stream' = "next" /\ seq' = seq + 1
                  /\ UNCHANGED <<vars, streamRange, canceled>>

\* The ledger is yielded; the consumer breaks off, the range is complete, or it goes on.
Yield ==
    /\ stream = "read" /\ call = "none" /\ served = seq
    /\ yielded' = Append(yielded, served)
    /\ \/ Teardown("broken")
       \/ streamRange.bounded /\ seq = streamRange.to /\ Teardown("complete")
       \/ /\ ~(streamRange.bounded /\ seq = streamRange.to)
          /\ stream' = "next" /\ seq' = seq + 1
          /\ UNCHANGED <<vars, streamRange, canceled>>

\* prepare or read has failed: the error is yielded.
YieldError ==
    /\ \/ stream = "prepare" /\ call = "none" /\ preparedRange = NoRange
       \/ stream = "read" /\ call = "none" /\ served # seq
    /\ Teardown("failed") /\ UNCHANGED yielded

Cancel ==
    /\ Streaming /\ ~canceled
    /\ canceled' = TRUE
    /\ UNCHANGED <<vars, streamRange, stream, seq, yielded>>
-----------------------------------------------------------------------------
\* Clients that use the backend directly.
DirectStep == ~Streaming /\ Next /\ UNCHANGED streamVars

StreamStep ==
    \/ StreamPrepares \/ StreamPrepared \/ StreamReads \/ Yield \/ YieldError
    \/ Cancel

\* The select of a waiting read sees that ctx is canceled.
ReadCanceled == canceled /\ ContextDone /\ UNCHANGED streamVars

\* The call the stream has made, and the server.
OwnedBackendStep ==
    \/ Streaming /\ (CallStep \/ ServerAdvances) /\ UNCHANGED streamVars
    \/ ReadCanceled

StreamNext == DirectStep \/ StreamStep \/ OwnedBackendStep

StreamSpec == StreamInit /\ [][StreamNext]_allVars

(* Fairness.  A call goes on where it can, which includes that the server      *)
(* answers; select picks a case that is ready time and again (strong fairness  *)
(* on WaitClosed and ReadCanceled).  The server need not advance, and nobody   *)
(* need call, close or pull from the stream.                                   *)
StreamFairness ==
    /\ WF_allVars(CallStep /\ UNCHANGED streamVars)
    /\ SF_allVars(WaitClosed /\ UNCHANGED streamVars)
    /\ SF_allVars(ReadCanceled)

FairStreamSpec == StreamSpec /\ StreamFairness
-----------------------------------------------------------------------------
(* Properties. *)

(***************************************************************************)
(* What LedgerStream says of RawLedgers: it "yields the raw XDR bytes of   *)
(* each ledger in ledgerRange, in order", and the source is "fully torn    *)
(* down when iteration ends - completion, an early break, an error, or ctx *)
(* cancellation".  A stream that ends by itself without an error has       *)
(* yielded the whole range, and the backend, which answers only the next   *)
(* ledger of its prepared range, never refuses what the stream asks for.   *)
(***************************************************************************)
StreamsTheRange ==
    Streaming =>
      /\ \A i \in DOMAIN yielded : yielded[i] = streamRange.from + i - 1
      /\ stream = "complete" => Len(yielded) = streamRange.to - streamRange.from + 1
      /\ stream \in Ends <=> closed
      /\ stream = "next" => Expected(seq)

\* Why it holds: what streamRaw knows of the backend at each point of its loop.
StreamInv ==
    /\ stream # "new" => Streaming
    /\ Streaming =>
         /\ streamRange \in Ranges
         /\ yielded \in Seq(Nat) /\ seq \in Nat
         /\ stream \in {"new", "prepare", "next", "read"} \cup Ends
         /\ stream \in Ends <=> closed
         /\ \A i \in 1 .. Len(yielded) : yielded[i] = streamRange.from + i - 1
         /\ stream = "new" => call = "none" /\ preparedRange = NoRange /\ yielded = <<>>
         /\ stream = "prepare" =>
              /\ call # "get" /\ yielded = <<>> /\ served = NoLedger
              /\ call = "prepare" => goal = streamRange
              /\ preparedRange \in {NoRange, streamRange}
         /\ stream \in {"next", "read"} =>
              /\ preparedRange = streamRange
              /\ seq = streamRange.from + Len(yielded)
              /\ streamRange.bounded => seq <= streamRange.to
         /\ stream = "next" => call = "none" /\ seq = nextLedger
         /\ stream = "read" => call # "prepare" /\ (call = "get" => request = seq)
         /\ stream \in Ends => call = "none"
         /\ stream = "complete" => Len(yielded) = streamRange.to - streamRange.from + 1

\* Close ends the GetLedger in progress on another goroutine (the comment of Close),
\* a canceled ctx ends the read of a stream ("Cancel a blocked stream via ctx"), and
\* no PrepareRange keeps the lock.
Interruptible == ((closed \/ canceled) /\ call # "none") ~> call = "none"
=============================================================================
