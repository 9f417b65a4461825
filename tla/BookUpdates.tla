---------------------------- MODULE BookUpdates ----------------------------
(***************************************************************************)
(* What a sequence of updates makes of a set of offers and a set of pools  *)
(* (exp/orderbook/batch.go): for each offer and each pair of assets the    *)
(* last update that concerns it counts, and the removal of something       *)
(* absent changes nothing.                                                 *)
(***************************************************************************)
EXTENDS Integers

ConcernsOffer(op, o) == op.kind \in {"addOffer", "removeOffer"} /\ op.entry.id = o.id
ConcernsPool(op, p) ==
    op.kind \in {"addPool", "removePool"} /\ op.entry.a = p.a /\ op.entry.b = p.b

\* turns are the places in the queue whose updates take effect, in order.
OffersAfter(offers, queue, turns) ==
    {o \in offers : \A i \in turns : ~ ConcernsOffer(queue[i], o)}
      \cup {queue[i].entry : i \in {t \in turns :
               /\ queue[t].kind = "addOffer"
               /\ \A u \in turns : u > t => ~ ConcernsOffer(queue[u], queue[t].entry)}}

PoolsAfter(pools, queue, turns) ==
    {p \in pools : \A i \in turns : ~ ConcernsPool(queue[i], p)}
      \cup {queue[i].entry : i \in {t \in turns :
               /\ queue[t].kind = "addPool"
               /\ \A u \in turns : u > t => ~ ConcernsPool(queue[u], queue[t].entry)}}
=============================================================================
