----------------------------- MODULE OfferBook -----------------------------
(***************************************************************************)
(* What OBGraph (exp/orderbook/graph.go) promises to the code that feeds   *)
(* it: a book is a set of offers with distinct ids and a set of pools with *)
(* distinct pairs of assets.  Updates are queued and take effect together, *)
(* for a ledger later than the last one; of several updates of an offer or *)
(* a pool the one queued last counts (BookUpdates).                        *)
(***************************************************************************)
EXTENDS BookUpdates, Sequences

CONSTANTS Offers,      \* offer entries: [id, seller, buying, selling, price, amount]
          Pools,       \* pool entries: [a, b, reserveA, reserveB, fee]
          MaxBatch,    \* bound: updates queued at a time
          MaxLedger    \* bound: the last ledger that is applied

VARIABLES offers,      \* the offers of the book
          pools,       \* its pools
          queue,       \* the updates queued
          committed,   \* Apply was called on them
          lastLedger,  \* the ledger the book is accurate up to, 0 at first
          panicked     \* Apply panicked

vars == <<offers, pools, queue, committed, lastLedger, panicked>>

Op(kind, e) == [kind |-> kind, entry |-> e]
Updates == {Op("addOffer", o) : o \in Offers}
             \cup {Op("removeOffer", [id |-> o.id]) : o \in Offers}
             \cup {Op("addPool", p) : p \in Pools}
             \cup {Op("removePool", [a |-> p.a, b |-> p.b]) : p \in Pools}

Init ==
    /\ offers = {} /\ pools = {} /\ queue = <<>> /\ committed = FALSE
    /\ lastLedger = 0 /\ panicked = FALSE

Enqueue(op) ==
    /\ ~panicked /\ Len(queue) < MaxBatch
    /\ queue' = Append(queue, op)
    /\ UNCHANGED <<offers, pools, committed, lastLedger, panicked>>

Discard ==
    /\ ~panicked
    /\ queue' = <<>> /\ committed' = FALSE
    /\ UNCHANGED <<offers, pools, lastLedger, panicked>>

\* A batch that was refused stays refused: applying it again is an error of the caller.
Apply(ledger) ==
    /\ ~panicked
    /\ \/ /\ committed
          /\ panicked' = TRUE
          /\ UNCHANGED <<offers, pools, queue, committed, lastLedger>>
       \/ /\ ~committed /\ lastLedger > 0 /\ ledger <= lastLedger
          /\ committed' = TRUE
          /\ UNCHANGED <<offers, pools, queue, lastLedger, panicked>>
       \/ /\ ~committed /\ ledger > lastLedger
          /\ offers' = OffersAfter(offers, queue, DOMAIN queue)
          /\ pools' = PoolsAfter(pools, queue, DOMAIN queue)
          /\ queue' = <<>> /\ lastLedger' = ledger
          /\ UNCHANGED <<committed, panicked>>

Clear ==
    /\ ~panicked
    /\ offers' = {} /\ pools' = {} /\ queue' = <<>> /\ committed' = FALSE
    /\ lastLedger' = 0 /\ UNCHANGED panicked

Next == \/ \E op \in Updates : Enqueue(op)
        \/ Discard
        \/ \E ledger \in 1..MaxLedger : Apply(ledger)
        \/ Clear

Spec == Init /\ [][Next]_vars
=============================================================================
