-------------------------- MODULE LedgerStreamProofs --------------------------
(***************************************************************************)
(* Proofs about RPCBackend and LedgerStream, for every set of ranges, batch *)
(* size and retention window: the RPC backend implements OrderedLedgers,    *)
(* its buffer stays in step with its cursor, and a stream over it yields    *)
(* its range.                                                               *)
(***************************************************************************)
EXTENDS LedgerStream, SequenceTheorems, TLAPS

(* The backend's inductive invariant RPCInv. *)

(* The ranges a client may prepare have a first and a last ledger. *)
LEMMA RangeParts ==
    ASSUME NEW r \in Ranges
    PROVE  /\ r.from \in Nat \ {0} /\ r.to \in Nat \ {0} /\ r.bounded \in BOOLEAN
           /\ r.from <= r.to
BY RPCAssumption

(* A new backend satisfies the invariant. *)
LEMMA RPCInitially == Init => RPCInv
<1> SUFFICES ASSUME Init PROVE RPCInv
  OBVIOUS
<1> USE DEF Init
<1>1. TypeOK
  <2>0. NetworkTip \in Nat
    BY RPCAssumption
  <2>1. latest \in Nat
    BY <2>0
  <2>2. closed \in BOOLEAN
    OBVIOUS
  <2>3. /\ buffer \in SUBSET Nat /\ latestBufferLedger \in Nat /\ nextLedger \in Nat
        /\ request \in Nat
    OBVIOUS
  <2> QED
    BY <2>1, <2>2, <2>3 DEF TypeOK
<1>2. CallInv
  BY DEF CallInv
<1>3. CursorInv
  BY DEF CursorInv
<1>4. BufferInv
  BY DEF BufferInv
<1> QED
  BY <1>1, <1>2, <1>3, <1>4 DEF RPCInv

(* A call that fails gives the lock back and leaves the range and the cursor. *)
LEMMA RPCFail ==
    ASSUME RPCInv, Fail,
           buffer' \in SUBSET Nat, latestBufferLedger' \in Nat,
           closed' = closed, latest' = latest,
           BufferInv'
    PROVE  RPCInv'
<1>1. TypeOK'
  BY DEF RPCInv, TypeOK, Fail, Unlock, preparedVars
<1>2. CallInv'
  BY DEF RPCInv, CallInv, Fail, Unlock
<1>3. CursorInv'
  BY DEF RPCInv, CursorInv, Fail, Unlock, preparedVars
<1> QED
  BY <1>1, <1>2, <1>3 DEF RPCInv

(* PrepareRange ends with the range installed, in whatever state the buffer is: *)
(* it holds the first ledger of the range, or none so late.                     *)
LEMMA RPCSetPrepared ==
    ASSUME RPCInv, call = "prepare", stage # "return", SetPrepared,
           buffer' \in SUBSET Nat, latestBufferLedger' \in Nat,
           closed' = closed, latest' = latest,
           \A s, t \in buffer' : s .. t \subseteq buffer',
           \A s \in buffer' : s <= latest,
           request \in buffer' \/ \A s \in buffer' : s < request
    PROVE  RPCInv'
<1>1. /\ goal \in Ranges /\ request = goal.from /\ request \in Nat
      /\ goal # NoRange
      /\ served = NoLedger /\ preparedRange = NoRange
  BY RPCAssumption, RangeParts DEF RPCInv, CallInv, TypeOK
<1>2. TypeOK'
  BY <1>1 DEF RPCInv, TypeOK, SetPrepared
<1>3. CallInv'
  BY <1>1 DEF CallInv, SetPrepared
<1>4. CursorInv'
  BY <1>1 DEF CursorInv, SetPrepared
<1>5. BufferInv'
  BY <1>1 DEF BufferInv, SetPrepared
<1> QED
  BY <1>2, <1>3, <1>4, <1>5 DEF RPCInv

(* GetLedger ends with the ledger it was asked for, which is in the buffer. *)
LEMMA RPCServe ==
    ASSUME RPCInv, call = "get", Found,
           buffer' \in SUBSET Nat, latestBufferLedger' \in Nat,
           closed' = closed, latest' = latest,
           \A s, t \in buffer' : s .. t \subseteq buffer',
           \A s \in buffer' : s <= latest,
           request \in buffer'
    PROVE  RPCInv'
<1>1. /\ nextLedger' = request + 1 /\ served' = request /\ preparedRange' = preparedRange
      /\ call' = "none" /\ stage' = "none" /\ goal' = NoRange /\ request' = 0
  BY DEF Found, Unlock
<1>2. /\ preparedRange \in Ranges /\ request \in Nat /\ latest \in Nat
  BY DEF RPCInv, CallInv, TypeOK
<1>3. TypeOK'
  BY <1>1, <1>2 DEF RPCInv, TypeOK
<1>4. CallInv'
  BY <1>1 DEF CallInv
<1>5. CursorInv'
  BY <1>1, <1>2, RPCAssumption DEF CursorInv
<1>6. request + 1 \in buffer' \/ \A s \in buffer' : s < request + 1
  <2> SUFFICES ASSUME NEW s \in buffer', ~(s < request + 1)
               PROVE  request + 1 \in buffer'
    OBVIOUS
  <2>1. s \in Nat /\ request + 1 \in request .. s
    BY <1>2
  <2> QED
    BY <2>1
<1>7. BufferInv'
  BY <1>1, <1>6 DEF BufferInv
<1> QED
  BY <1>3, <1>4, <1>5, <1>7 DEF RPCInv

(* A batch of n ledgers from the requested one on is one run, and starts there. *)
LEMMA BatchIsRun ==
    ASSUME NEW a \in Nat, NEW n \in Nat, NEW B, B = a .. a + n - 1
    PROVE  /\ B \in SUBSET Nat
           /\ \A s, t \in B : s .. t \subseteq B
           /\ a \in B \/ B = {}
           /\ n > 0 => a \in B
           /\ \A s \in B : s <= a + n - 1
OBVIOUS

(* The start of a PrepareRange. *)
LEMMA RPCPrepare ==
    ASSUME RPCInv, NEW r \in Ranges, PrepareRange(r)
    PROVE  RPCInv'
<1> USE DEF PrepareRange, bufferVars, preparedVars
<1>1. TypeOK'
  BY RangeParts DEF RPCInv, TypeOK
<1>2. CallInv'
  BY DEF RPCInv, CallInv, CursorInv
<1>3. CursorInv'
  BY DEF RPCInv, CursorInv
<1>4. BufferInv'
  BY DEF RPCInv, BufferInv
<1> QED
  BY <1>1, <1>2, <1>3, <1>4 DEF RPCInv

(* The start of a GetLedger. *)
LEMMA RPCGet ==
    ASSUME RPCInv, NEW s \in Nat, GetLedger(s)
    PROVE  RPCInv'
<1> USE DEF GetLedger, bufferVars, preparedVars
<1>1. TypeOK'
  BY DEF RPCInv, TypeOK
<1>2. CallInv'
  BY DEF RPCInv, CallInv, Expected
<1>3. CursorInv'
  BY DEF RPCInv, CursorInv
<1>4. BufferInv'
  BY DEF RPCInv, BufferInv
<1> QED
  BY <1>1, <1>2, <1>3, <1>4 DEF RPCInv

(* Every step of the call in progress keeps the invariant. *)
LEMMA RPCCallStep == RPCInv /\ CallStep => RPCInv'
<1> SUFFICES ASSUME RPCInv, CallStep PROVE RPCInv'
  OBVIOUS
<1>t. /\ buffer \in SUBSET Nat /\ latestBufferLedger \in Nat /\ request \in Nat /\ latest \in Nat
      /\ \A s, t \in buffer : s .. t \subseteq buffer
      /\ \A s \in buffer : s <= latest
  BY DEF RPCInv, TypeOK, BufferInv
<1>1. CASE TakeFromBuffer
  <2>1. request \in buffer /\ UNCHANGED <<buffer, latestBufferLedger, closed, latest>>
    BY <1>1 DEF RPCInv, CallInv, TakeFromBuffer, bufferVars
  <2>2. CASE call = "prepare"
    <3>1. SetPrepared /\ stage # "return"
      BY <1>1, <2>2 DEF TakeFromBuffer, Found
    <3> QED
      BY <1>t, <2>1, <2>2, <3>1, RPCSetPrepared
  <2>3. CASE call = "get"
    BY <1>1, <1>t, <2>1, <2>3, RPCServe DEF TakeFromBuffer
  <2> QED
    BY <1>1, <2>2, <2>3 DEF TakeFromBuffer, Found
<1>2. CASE HealthFails \/ FetchFails
  <2>1. BufferInv'
    BY <1>2 DEF RPCInv, BufferInv, HealthFails, FetchFails, Fail, bufferVars, preparedVars
  <2> QED
    BY <1>2, <1>t, <2>1, RPCFail DEF HealthFails, FetchFails, bufferVars
<1>3. CASE HealthAnswers
  <2>1. UNCHANGED <<buffer, latestBufferLedger, closed, latest>>
    BY <1>3 DEF HealthAnswers, bufferVars
  <2>2. CASE call = "prepare" /\ SetPrepared /\ request > latest
    <3>1. \A s \in buffer' : s < request
      BY <1>t, <2>1, <2>2
    <3>2. stage # "return"
      BY <1>3 DEF HealthAnswers
    <3> QED
      BY <1>t, <2>1, <2>2, <3>1, <3>2, RPCSetPrepared
  <2>3. CASE /\ stage' \in {"wait", "fetch"} /\ (stage' = "wait" => call = "get")
             /\ UNCHANGED <<preparedVars, call, goal, request>>
    <3>0. stage = "health"
      BY <1>3 DEF HealthAnswers
    <3>1. TypeOK'
      BY <2>1, <2>3 DEF RPCInv, TypeOK, preparedVars
    <3>2. CallInv'
      BY <3>0, <2>1, <2>3 DEF RPCInv, CallInv, preparedVars
    <3>3. CursorInv' /\ BufferInv'
      BY <2>1, <2>3 DEF RPCInv, CursorInv, BufferInv, preparedVars
    <3> QED
      BY <3>1, <3>2, <3>3 DEF RPCInv
  <2> QED
    BY <1>3, <2>2, <2>3 DEF HealthAnswers
<1>4. ASSUME NEW n \in 0 .. BufferSize, FetchAnswers(n)
      PROVE  RPCInv'
  <2>1. /\ n \in Nat /\ buffer' = request .. request + n - 1
        /\ latestBufferLedger' \in Nat /\ closed' = closed /\ latest' = latest
        /\ stage = "fetch" /\ (n > 0 => request + n - 1 <= latest)
    BY <1>4, <1>t, RPCAssumption DEF FetchAnswers
  <2>2. /\ buffer' \in SUBSET Nat
        /\ \A s, t \in buffer' : s .. t \subseteq buffer'
        /\ n > 0 => request \in buffer'
        /\ \A s \in buffer' : s <= latest
    BY <2>1, <1>t, BatchIsRun
  <2>3. CASE n = 0
    <3>1. buffer' = {} /\ Fail
      BY <1>4, <1>t, <2>1, <2>3 DEF FetchAnswers
    <3>2. BufferInv'
      BY <3>1 DEF BufferInv
    <3> QED
      BY <2>1, <2>2, <3>1, <3>2, RPCFail
  <2>4. CASE n # 0
    <3>1. request \in buffer' /\ Found
      BY <1>4, <2>1, <2>2, <2>4 DEF FetchAnswers
    <3>2. CASE call = "prepare"
      <4>1. SetPrepared
        BY <3>1, <3>2 DEF Found
      <4> QED
        BY <2>1, <2>2, <3>1, <3>2, <4>1, RPCSetPrepared
    <3>3. CASE call = "get"
      BY <2>1, <2>2, <3>1, <3>3, RPCServe
    <3> QED
      BY <3>1, <3>2, <3>3 DEF Found
  <2> QED
    BY <2>3, <2>4
<1>5. ASSUME NEW n \in 0 .. BufferSize, FetchUndecodable(n)
      PROVE  RPCInv'
  <2>1. /\ n \in Nat /\ buffer' = request .. request + n - 1
        /\ latestBufferLedger' \in Nat /\ closed' = closed /\ latest' = latest
        /\ stage = "fetch" /\ request + n <= latest /\ Fail
    BY <1>5, <1>t, RPCAssumption DEF FetchUndecodable
  <2>2. /\ buffer' \in SUBSET Nat
        /\ \A s, t \in buffer' : s .. t \subseteq buffer'
        /\ request \in buffer' \/ buffer' = {}
        /\ \A s \in buffer' : s <= latest
    BY <2>1, <1>t, BatchIsRun
  <2>3. preparedRange' # NoRange => nextLedger' = request
    BY <2>1 DEF RPCInv, CallInv, TypeOK, Fail, preparedVars
  <2>4. BufferInv'
    BY <2>1, <2>2, <2>3 DEF BufferInv
  <2> QED
    BY <2>1, <2>2, <2>4, RPCFail
<1>6. CASE Retry
  <2> USE <1>6 DEF Retry, bufferVars, preparedVars
  <2>1. TypeOK'
    BY DEF RPCInv, TypeOK
  <2>2. CallInv'
    BY DEF RPCInv, CallInv
  <2>3. CursorInv' /\ BufferInv'
    BY DEF RPCInv, CursorInv, BufferInv
  <2> QED
    BY <2>1, <2>2, <2>3 DEF RPCInv
<1>7. CASE PrepareReturns
  <2> USE <1>7 DEF PrepareReturns, Unlock, bufferVars, preparedVars
  <2>1. TypeOK'
    BY DEF RPCInv, TypeOK
  <2>2. CallInv'
    BY DEF CallInv
  <2>3. CursorInv' /\ BufferInv'
    BY DEF RPCInv, CursorInv, BufferInv
  <2> QED
    BY <2>1, <2>2, <2>3 DEF RPCInv
<1> QED
  BY <1>1, <1>2, <1>3, <1>4, <1>5, <1>6, <1>7 DEF CallStep

(* What happens beside a call: it is told to stop, Close closes the channel, *)
(* the server goes on.                                                       *)
LEMMA RPCBeside ==
    ASSUME RPCInv,
           \/ WaitClosed \/ ContextDone \/ ServerAdvances
           \/ closed' = TRUE /\ UNCHANGED <<bufferVars, preparedVars, callVars, latest>>
    PROVE  RPCInv'
<1>1. CASE WaitClosed \/ ContextDone
  <2>1. BufferInv'
    BY <1>1 DEF RPCInv, BufferInv, WaitClosed, ContextDone, Fail, bufferVars, preparedVars
  <2> QED
    BY <1>1, <2>1, RPCFail DEF RPCInv, TypeOK, WaitClosed, ContextDone, bufferVars
<1>2. CASE ServerAdvances
  <2> USE <1>2 DEF ServerAdvances, bufferVars, preparedVars, callVars
  <2>1. TypeOK'
    BY DEF RPCInv, TypeOK
  <2>2. CallInv' /\ CursorInv'
    BY DEF RPCInv, CallInv, CursorInv
  <2>3. BufferInv'
    BY DEF RPCInv, BufferInv, TypeOK
  <2> QED
    BY <2>1, <2>2, <2>3 DEF RPCInv
<1>3. CASE closed' = TRUE /\ UNCHANGED <<bufferVars, preparedVars, callVars, latest>>
  <2> USE <1>3 DEF bufferVars, preparedVars, callVars
  <2>1. TypeOK'
    BY DEF RPCInv, TypeOK
  <2>2. CallInv' /\ CursorInv' /\ BufferInv'
    BY DEF RPCInv, CallInv, CursorInv, BufferInv
  <2> QED
    BY <2>1, <2>2 DEF RPCInv
<1> QED
  BY <1>1, <1>2, <1>3
-----------------------------------------------------------------------------
(* The backend on its own. *)

(* No step of a client, of the call in progress or of the server breaks it. *)
LEMMA RPCStep == RPCInv /\ [Next]_vars => RPCInv'
<1> SUFFICES ASSUME RPCInv, [Next]_vars PROVE RPCInv'
  OBVIOUS
<1>1. ASSUME NEW r \in Ranges, PrepareRange(r) PROVE RPCInv'
  BY <1>1, RPCPrepare
<1>2. ASSUME NEW s \in 1 .. NetworkTip + 1, GetLedger(s) PROVE RPCInv'
  BY <1>2, RPCGet, RPCAssumption
<1>3. CASE Close
  BY <1>3, RPCBeside DEF Close
<1>4. CASE UNCHANGED vars
  <2> USE <1>4 DEF vars, bufferVars, preparedVars, callVars
  <2>1. TypeOK'
    BY DEF RPCInv, TypeOK
  <2>2. CallInv' /\ CursorInv' /\ BufferInv'
    BY DEF RPCInv, CallInv, CursorInv, BufferInv
  <2> QED
    BY <2>1, <2>2 DEF RPCInv
<1> QED
  BY <1>1, <1>2, <1>3, <1>4, RPCCallStep, RPCBeside DEF Next

(* What the backend knows of its range, its cursor and its buffer between any  *)
(* two steps of a call (struct RPCLedgerBackend under bufferLock).             *)
THEOREM RPCCorrect == Spec => []RPCInv
<1> QED
  BY RPCInitially, RPCStep, PTL DEF Spec

(* The end of a PrepareRange is Prepare of the contract: a Close that came after *)
(* its check of b.closed does not count yet.                                     *)
LEMMA ContractSetPrepared ==
    ASSUME RPCInv, call = "prepare", stage # "return", SetPrepared, closed' = closed
    PROVE  [Contract!AbstractNext]_(Contract!abstractVars)
BY DEF RPCInv, CallInv, SetPrepared, Contract!AbstractNext, Contract!Prepare, Contract!abstractVars

(* The ledger a GetLedger returns is the next one of the contract. *)
LEMMA ContractFound ==
    ASSUME RPCInv, stage # "return", Found, closed' = closed
    PROVE  [Contract!AbstractNext]_(Contract!abstractVars)
<1>1. CASE call = "prepare"
  BY <1>1, ContractSetPrepared DEF Found
<1>2. CASE call = "get"
  <2>1. /\ served' = request /\ preparedRange' = preparedRange /\ call' = "none"
        /\ preparedRange # NoRange
        /\ request = IF served = NoLedger THEN preparedRange.from ELSE served + 1
        /\ request >= preparedRange.from
        /\ preparedRange.bounded => request <= preparedRange.to
    BY <1>2 DEF RPCInv, CallInv, CursorInv, Found, Unlock
  <2>2. Contract!Read
    BY <1>2, <2>1 DEF Contract!Read, Contract!InRange
  <2> QED
    BY <2>2 DEF Contract!AbstractNext
<1> QED
  BY <1>1, <1>2 DEF Found

(* A call that ends without a ledger: only a Close that came meanwhile shows. *)
LEMMA ContractUnlock ==
    ASSUME RPCInv, Unlock, UNCHANGED <<preparedRange, served, closed>>
    PROVE  [Contract!AbstractNext]_(Contract!abstractVars)
BY DEF RPCInv, TypeOK, Unlock, Contract!AbstractNext, Contract!Close, Contract!abstractVars

(* A step of the call in progress is a step of the contract, or changes nothing *)
(* it speaks of.                                                                *)
LEMMA ContractCallStep ==
    ASSUME RPCInv, CallStep
    PROVE  [Contract!AbstractNext]_(Contract!abstractVars)
<1>1. CASE TakeFromBuffer
  BY <1>1, ContractFound DEF TakeFromBuffer
<1>2. CASE HealthFails \/ FetchFails
  BY <1>2, ContractUnlock DEF HealthFails, FetchFails, Fail, preparedVars
<1>3. CASE HealthAnswers
  <2>1. CASE call = "prepare" /\ SetPrepared
    BY <1>3, <2>1, ContractSetPrepared DEF HealthAnswers
  <2>2. CASE UNCHANGED <<preparedVars, call, closed>>
    BY <2>2 DEF preparedVars, Contract!abstractVars
  <2> QED
    BY <1>3, <2>1, <2>2 DEF HealthAnswers
<1>4. ASSUME NEW n \in 0 .. BufferSize, FetchAnswers(n)
      PROVE  [Contract!AbstractNext]_(Contract!abstractVars)
  BY <1>4, ContractFound, ContractUnlock DEF FetchAnswers, Fail, preparedVars
<1>5. ASSUME NEW n \in 0 .. BufferSize, FetchUndecodable(n)
      PROVE  [Contract!AbstractNext]_(Contract!abstractVars)
  BY <1>5, ContractUnlock DEF FetchUndecodable, Fail, preparedVars
<1>6. CASE Retry
  BY <1>6 DEF Retry, preparedVars, Contract!abstractVars
<1>7. CASE PrepareReturns
  BY <1>7, ContractUnlock DEF PrepareReturns, preparedVars
<1> QED
  BY <1>1, <1>2, <1>3, <1>4, <1>5, <1>6, <1>7 DEF CallStep

(* So is what happens beside a call. *)
LEMMA ContractBeside ==
    ASSUME RPCInv,
           \/ WaitClosed \/ ContextDone \/ ServerAdvances
           \/ closed' = TRUE /\ UNCHANGED <<bufferVars, preparedVars, callVars, latest>>
    PROVE  [Contract!AbstractNext]_(Contract!abstractVars)
<1>1. CASE WaitClosed \/ ContextDone
  BY <1>1, ContractUnlock DEF WaitClosed, ContextDone, Fail, preparedVars
<1>2. CASE ServerAdvances
  BY <1>2 DEF ServerAdvances, preparedVars, callVars, Contract!abstractVars
<1>3. CASE closed' = TRUE /\ UNCHANGED <<bufferVars, preparedVars, callVars, latest>>
  BY <1>3 DEF RPCInv, TypeOK, preparedVars, callVars, Contract!AbstractNext, Contract!Close,
              Contract!abstractVars
<1> QED
  BY <1>1, <1>2, <1>3

(* The start of a call changes nothing the contract speaks of: the backend is *)
(* not closed then.                                                           *)
LEMMA ContractCall ==
    ASSUME RPCInv, (\E r : PrepareRange(r)) \/ (\E s : GetLedger(s))
    PROVE  [Contract!AbstractNext]_(Contract!abstractVars)
BY DEF RPCInv, TypeOK, PrepareRange, GetLedger, Expected, preparedVars, Contract!abstractVars

(* A new backend is a new backend of the contract. *)
LEMMA ContractInit == Init => Contract!AbstractInit
BY DEF Init, Contract!AbstractInit

(* Through failed requests, partial batches and undecodable ledgers, clients get *)
(* the ledgers of the prepared range one by one (OrderedLedgers).                *)
THEOREM RPCServesInOrder == Spec => ServesInOrder
<1>1. RPCInv /\ [Next]_vars => [Contract!AbstractNext]_(Contract!abstractVars)
  <2> SUFFICES ASSUME RPCInv, [Next]_vars
               PROVE  [Contract!AbstractNext]_(Contract!abstractVars)
    OBVIOUS
  <2>1. CASE (\E r \in Ranges : PrepareRange(r)) \/ (\E s \in 1 .. NetworkTip + 1 : GetLedger(s))
    BY <2>1, ContractCall
  <2>2. CASE CallStep
    BY <2>2, ContractCallStep
  <2>3. CASE WaitClosed \/ ContextDone \/ Close \/ ServerAdvances
    BY <2>3, ContractBeside DEF Close
  <2>4. CASE UNCHANGED vars
    BY <2>4 DEF vars, preparedVars, callVars, Contract!abstractVars
  <2> QED
    BY <2>1, <2>2, <2>3, <2>4 DEF Next
<1> QED
  BY <1>1, ContractInit, RPCCorrect, PTL DEF Spec, ServesInOrder, Contract!AbstractSpec
-----------------------------------------------------------------------------
(* The backend under a stream, or with clients of its own: LedgerStream. *)

(* What a step of the whole system is for the backend. *)
BackendStep ==
    \/ (\E r \in Ranges : PrepareRange(r)) \/ (\E s \in Nat : GetLedger(s))
    \/ CallStep
    \/ WaitClosed \/ ContextDone \/ ServerAdvances
    \/ closed' = TRUE /\ UNCHANGED <<bufferVars, preparedVars, callVars, latest>>
    \/ UNCHANGED vars

(* The stream makes no step the backend does not offer. *)
LEMMA StreamUsesBackend ==
    ASSUME StreamInv, [StreamNext]_allVars
    PROVE  BackendStep
<1> USE DEF BackendStep
<1>1. CASE DirectStep
  <2>1. (\E s \in 1 .. NetworkTip + 1 : GetLedger(s)) => \E s \in Nat : GetLedger(s)
    BY RPCAssumption
  <2> QED
    BY <1>1, <2>1 DEF DirectStep, Next, Close
<1>2. CASE StreamPrepares
  BY <1>2 DEF StreamInv, StreamPrepares
<1>3. CASE StreamReads
  <2>1. seq \in Nat /\ GetLedger(seq)
    BY <1>3 DEF StreamReads, StreamInv
  <2> QED
    BY <2>1
<1>4. CASE StreamPrepared \/ Cancel
  BY <1>4 DEF StreamPrepared, Cancel
<1>5. CASE Yield \/ YieldError
  BY <1>5 DEF Yield, YieldError, Teardown
<1>6. CASE OwnedBackendStep
  BY <1>6 DEF OwnedBackendStep, ReadCanceled
<1>7. CASE UNCHANGED allVars
  BY <1>7 DEF allVars
<1> QED
  BY <1>1, <1>2, <1>3, <1>4, <1>5, <1>6, <1>7 DEF StreamNext, StreamStep

(* The backend's invariant, whoever calls it. *)
LEMMA BackendUnderStream == RPCInv /\ BackendStep => RPCInv'
<1> SUFFICES ASSUME RPCInv, BackendStep PROVE RPCInv'
  OBVIOUS
<1>1. CASE UNCHANGED vars
  BY <1>1, RPCStep
<1> QED
  BY <1>1, RPCPrepare, RPCGet, RPCCallStep, RPCBeside DEF BackendStep

(* streamRaw's knowledge at the start. *)
LEMMA StreamInitially == StreamInit => StreamInv
<1> SUFFICES ASSUME StreamInit PROVE StreamInv
  OBVIOUS
<1>1. /\ stream = "new" /\ seq = 0 /\ yielded = <<>> /\ yielded \in Seq(Nat)
      /\ streamRange \in Ranges \cup {NoRange}
      /\ call = "none" /\ preparedRange = NoRange
  BY DEF StreamInit, Init
<1>2. ~closed
  BY DEF StreamInit, Init
<1>3. Len(yielded) = 0
  BY <1>1
<1> QED
  BY <1>1, <1>2, <1>3 DEF StreamInv, Streaming, Ends

(* A step of the call that the stream has made keeps what the stream knows: the *)
(* call ends as the call the stream made, or fails.                             *)
LEMMA StreamCallStep ==
    ASSUME RPCInv, StreamInv, Streaming, CallStep \/ ContextDone \/ ServerAdvances,
           UNCHANGED streamVars
    PROVE  StreamInv'
<1> USE DEF streamVars
<1>1. /\ closed' = closed
      /\ call' \in {call, "none"} /\ (call = "none" => UNCHANGED <<preparedVars, callVars>>)
  <2>1. CASE stage = "none"
    <3>1. ServerAdvances
      BY <2>1 DEF CallStep, TakeFromBuffer, HealthFails, HealthAnswers, FetchFails, FetchAnswers,
                  FetchUndecodable, Retry, PrepareReturns, ContextDone
    <3> QED
      BY <3>1 DEF ServerAdvances, callVars
  <2>2. CASE stage # "none"
    <3>1. call # "none"
      BY <2>2 DEF RPCInv, CallInv
    <3>2. closed' = closed
      BY DEF CallStep, TakeFromBuffer, HealthFails, HealthAnswers, FetchFails, FetchAnswers,
             FetchUndecodable, Retry, PrepareReturns, ContextDone, ServerAdvances
    <3>3. call' \in {call, "none"}
      <4>1. /\ SetPrepared => call' = call
            /\ Fail \/ Unlock => call' = "none"
            /\ Found => call' \in {call, "none"}
            /\ UNCHANGED callVars => call' = call
        BY DEF SetPrepared, Fail, Unlock, Found, callVars
      <4> QED
        BY <4>1 DEF CallStep, TakeFromBuffer, HealthFails, HealthAnswers, FetchFails, FetchAnswers,
                    FetchUndecodable, Retry, PrepareReturns, ContextDone, ServerAdvances
    <3> QED
      BY <3>1, <3>2, <3>3
  <2> QED
    BY <2>1, <2>2
<1>2. call = "prepare" =>
        /\ preparedRange' \in {preparedRange, goal}
        /\ served' = served
        /\ call' = "prepare" => goal' = goal
  BY DEF CallStep, TakeFromBuffer, HealthFails, HealthAnswers, FetchFails, FetchAnswers,
         FetchUndecodable, Retry, PrepareReturns, ContextDone, ServerAdvances,
         Found, Fail, Unlock, SetPrepared, callVars, preparedVars
<1>3. call = "get" =>
        /\ preparedRange' = preparedRange
        /\ call' = "get" => request' = request
  BY DEF CallStep, TakeFromBuffer, HealthFails, HealthAnswers, FetchFails, FetchAnswers,
         FetchUndecodable, Retry, PrepareReturns, ContextDone, ServerAdvances,
         Found, Fail, Unlock, SetPrepared, callVars, preparedVars, RPCInv, CallInv
<1>4. call \in {"none", "prepare", "get"}
  BY DEF RPCInv, TypeOK
<1>5. CASE stream \in {"new", "next"} \cup Ends
  BY <1>1, <1>5 DEF StreamInv, Streaming, preparedVars, callVars, Ends
<1>6. CASE stream = "prepare"
  BY <1>1, <1>2, <1>4, <1>6 DEF StreamInv, Streaming, preparedVars, callVars, Ends
<1>7. CASE stream = "read"
  BY <1>1, <1>3, <1>4, <1>7 DEF StreamInv, Streaming, preparedVars, callVars, Ends
<1> QED
  BY <1>5, <1>6, <1>7 DEF StreamInv

(* No step breaks what the stream knows. *)
LEMMA StreamStepCorrect ==
    ASSUME RPCInv, RPCInv', StreamInv, [StreamNext]_allVars
    PROVE  StreamInv'
<1>1. CASE DirectStep
  BY <1>1 DEF DirectStep, streamVars, StreamInv, Streaming
<1>2. CASE StreamPrepares
  <2>1. /\ Streaming /\ stream = "new" /\ stream' = "prepare"
        /\ UNCHANGED <<streamRange, seq, yielded, closed, preparedRange, served>>
        /\ call' = "prepare" /\ goal' = streamRange /\ preparedRange = NoRange
    BY <1>2 DEF StreamPrepares, PrepareRange, preparedVars
  <2>2. served = NoLedger
    BY <2>1 DEF RPCInv, CursorInv
  <2> QED
    BY <2>1, <2>2 DEF StreamInv, Streaming, Ends
<1>3. CASE StreamPrepared
  <2>1. /\ stream = "prepare" /\ call = "none" /\ preparedRange # NoRange
        /\ stream' = "next" /\ seq' = streamRange.from
        /\ UNCHANGED <<vars, streamRange, yielded>>
    BY <1>3 DEF StreamPrepared
  <2>2. UNCHANGED <<closed, preparedRange, nextLedger, served, call>>
    BY <2>1 DEF vars, preparedVars, callVars
  <2>3. /\ Streaming /\ streamRange \in Ranges /\ preparedRange = streamRange
        /\ served = NoLedger /\ yielded = <<>>
    BY <2>1 DEF StreamInv
  <2>4. nextLedger = streamRange.from
    BY <2>1, <2>3 DEF RPCInv, CursorInv
  <2>5. Len(yielded) = 0 /\ seq' \in Nat /\ seq' = streamRange.from + Len(yielded)
    BY <2>1, <2>3, RangeParts
  <2>6. streamRange.from <= streamRange.to
    BY <2>3, RangeParts
  <2> QED
    BY <2>1, <2>2, <2>3, <2>4, <2>5, <2>6 DEF StreamInv, Streaming, Ends
<1>4. CASE StreamReads
  <2>1. /\ stream = "next" /\ stream' = "read" /\ Expected(seq)
        /\ UNCHANGED <<streamRange, seq, yielded, closed, preparedRange>>
        /\ call' = "get" /\ request' = seq
    BY <1>4 DEF StreamReads, GetLedger, preparedVars
  <2> QED
    BY <2>1 DEF StreamInv, Streaming, Ends
<1>5. CASE Yield
  <2>1. /\ stream = "read" /\ call = "none" /\ served = seq
        /\ yielded' = Append(yielded, seq)
        /\ UNCHANGED <<streamRange, call>>
    BY <1>5 DEF Yield, Teardown, vars, callVars
  <2>2. /\ Streaming /\ streamRange \in Ranges /\ yielded \in Seq(Nat) /\ seq \in Nat
        /\ preparedRange = streamRange /\ seq = streamRange.from + Len(yielded)
        /\ streamRange.bounded => seq <= streamRange.to
        /\ \A i \in 1 .. Len(yielded) : yielded[i] = streamRange.from + i - 1
        /\ ~closed
    BY <2>1 DEF StreamInv, Ends
  <2>3. /\ yielded' \in Seq(Nat) /\ Len(yielded') = Len(yielded) + 1
        /\ Len(yielded) \in Nat
        /\ \A i \in 1 .. Len(yielded') : yielded'[i] = streamRange.from + i - 1
    <3>1. /\ Len(yielded) \in Nat /\ yielded' \in Seq(Nat) /\ Len(yielded') = Len(yielded) + 1
          /\ \A i \in 1 .. Len(yielded) : yielded'[i] = yielded[i]
          /\ yielded'[Len(yielded) + 1] = seq
      BY <2>1, <2>2
    <3>2. streamRange.from \in Nat
      BY <2>2, RangeParts
    <3>3. ASSUME NEW i \in 1 .. Len(yielded')
          PROVE  yielded'[i] = streamRange.from + i - 1
      <4>1. CASE i \in 1 .. Len(yielded)
        BY <2>2, <3>1, <4>1
      <4>2. CASE i = Len(yielded) + 1
        BY <2>2, <3>1, <3>2, <4>2
      <4> QED
        BY <3>1, <4>1, <4>2
    <3> QED
      BY <3>1, <3>3
  <2>4. streamRange.from \in Nat /\ streamRange.to \in Nat
    BY <2>2, RangeParts
  <2>5. CASE Teardown("broken")
    BY <2>1, <2>2, <2>3, <2>5 DEF StreamInv, Streaming, Ends, Teardown
  <2>6. CASE streamRange.bounded /\ seq = streamRange.to /\ Teardown("complete")
    <3>1. Len(yielded') = streamRange.to - streamRange.from + 1
      BY <2>2, <2>3, <2>4, <2>6
    <3> QED
      BY <2>1, <2>2, <2>3, <2>6, <3>1 DEF StreamInv, Streaming, Ends, Teardown
  <2>7. CASE /\ ~(streamRange.bounded /\ seq = streamRange.to)
             /\ stream' = "next" /\ seq' = seq + 1
             /\ UNCHANGED <<vars, streamRange, canceled>>
    <3>1. UNCHANGED <<closed, preparedRange, nextLedger, served>>
      BY <2>7 DEF vars, preparedVars
    <3>2. nextLedger = seq + 1
      BY <2>1, <2>2, RPCAssumption DEF RPCInv, CursorInv
    <3>3. /\ seq' \in Nat /\ seq' = streamRange.from + Len(yielded')
          /\ streamRange.bounded => seq' <= streamRange.to
      BY <2>2, <2>3, <2>4, <2>7
    <3> QED
      BY <2>1, <2>2, <2>3, <2>7, <3>1, <3>2, <3>3 DEF StreamInv, Streaming, Ends
  <2> QED
    BY <1>5, <2>5, <2>6, <2>7 DEF Yield
<1>6. CASE YieldError
  <2>1. /\ stream \in {"prepare", "read"} /\ stream' = "failed" /\ closed' = TRUE
        /\ call = "none"
        /\ UNCHANGED <<streamRange, seq, yielded, call>>
    BY <1>6 DEF YieldError, Teardown, callVars
  <2> QED
    BY <2>1 DEF StreamInv, Streaming, Ends
<1>7. CASE Cancel \/ UNCHANGED allVars
  BY <1>7 DEF Cancel, StreamInv, Streaming, Ends, allVars, streamVars, vars, preparedVars, callVars
<1>8. CASE OwnedBackendStep
  <2>1. CASE Streaming
    BY <1>8, <2>1, StreamCallStep DEF OwnedBackendStep, ReadCanceled
  <2>2. CASE ~Streaming
    BY <1>8, <2>2 DEF OwnedBackendStep, ReadCanceled, streamVars, StreamInv, Streaming
  <2> QED
    BY <2>1, <2>2
<1> QED
  BY <1>1, <1>2, <1>3, <1>4, <1>5, <1>6, <1>7, <1>8 DEF StreamNext, StreamStep

(* The two invariants together are inductive for the whole specification. *)
THEOREM StreamCorrect == StreamSpec => [](RPCInv /\ StreamInv)
<1>1. StreamInit => RPCInv /\ StreamInv
  BY RPCInitially, StreamInitially DEF StreamInit
<1>2. RPCInv /\ StreamInv /\ [StreamNext]_allVars => (RPCInv /\ StreamInv)'
  BY StreamUsesBackend, BackendUnderStream, StreamStepCorrect
<1> QED
  BY <1>1, <1>2, PTL DEF StreamSpec

(* fetchSequence's buffer follows the ledger asked for last without a gap, also *)
(* after a batch that broke off and after a PrepareRange that failed.           *)
THEOREM BufferFollowsCursor == StreamSpec => []BufferInStep
<1>1. RPCInv /\ StreamInv => BufferInStep
  BY DEF RPCInv, BufferInv, BufferInStep
<1> QED
  BY <1>1, StreamCorrect, PTL

(* A stream that ends without an error has yielded its whole range, in order, and *)
(* whatever ends it closes the backend (streamRaw).                               *)
THEOREM StreamYieldsRange == StreamSpec => []StreamsTheRange
<1>1. RPCInv /\ StreamInv => StreamsTheRange
  <2> SUFFICES ASSUME RPCInv, StreamInv, Streaming
               PROVE  /\ \A i \in DOMAIN yielded : yielded[i] = streamRange.from + i - 1
                      /\ stream = "complete" => Len(yielded) = streamRange.to - streamRange.from + 1
                      /\ stream \in Ends <=> closed
                      /\ stream = "next" => Expected(seq)
    BY DEF StreamsTheRange
  <2>1. \A i \in DOMAIN yielded : yielded[i] = streamRange.from + i - 1
    BY DEF StreamInv
  <2>2. ASSUME stream = "next" PROVE Expected(seq)
    <3>1. /\ ~closed /\ preparedRange = streamRange /\ streamRange \in Ranges
          /\ seq = nextLedger /\ seq = streamRange.from + Len(yielded)
          /\ yielded \in Seq(Nat)
          /\ streamRange.bounded => seq <= streamRange.to
      BY <2>2 DEF StreamInv, Ends
    <3>2. seq >= streamRange.from
      BY <3>1, RangeParts
    <3> QED
      BY <3>1, <3>2, RPCAssumption DEF Expected
  <2>3. /\ stream = "complete" => Len(yielded) = streamRange.to - streamRange.from + 1
        /\ stream \in Ends <=> closed
    BY DEF StreamInv
  <2> QED
    BY <2>1, <2>2, <2>3
<1> QED
  BY <1>1, StreamCorrect, PTL

(* The backend keeps the contract of OrderedLedgers also when a stream drives it. *)
THEOREM StreamServesInOrder == StreamSpec => ServesInOrder
<1>1. RPCInv /\ BackendStep => [Contract!AbstractNext]_(Contract!abstractVars)
  <2> SUFFICES ASSUME RPCInv, BackendStep
               PROVE  [Contract!AbstractNext]_(Contract!abstractVars)
    OBVIOUS
  <2>1. CASE UNCHANGED vars
    BY <2>1 DEF vars, preparedVars, callVars, Contract!abstractVars
  <2> QED
    BY <2>1, ContractCall, ContractCallStep, ContractBeside DEF BackendStep
<1>2. RPCInv /\ StreamInv /\ [StreamNext]_allVars => BackendStep
  BY StreamUsesBackend
<1>3. StreamInit => Contract!AbstractInit
  BY ContractInit DEF StreamInit
<1> QED
  BY <1>1, <1>2, <1>3, StreamCorrect, PTL DEF StreamSpec, ServesInOrder, Contract!AbstractSpec
=============================================================================
