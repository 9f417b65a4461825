--------------------------- MODULE OrderBookGraph ---------------------------
(***************************************************************************)
(* The order book graph of exp/orderbook: graph.go, edges.go and batch.go. *)
(*                                                                         *)
(* The graph numbers the assets it knows and keeps two tables of venues,   *)
(* one by the asset an offer buys and one by the asset it sells; the       *)
(* number of an asset without venues is vacant and goes to the next asset. *)
(* Updates are queued in a batch and applied one after the other under the *)
(* write lock; searches hold the read lock (PathSearch).                   *)
(*                                                                         *)
(* Asset numbers count from 1 here and from 0 in the code.  Asset strings  *)
(* are positive numbers in the order of the strings; Vacant is the empty   *)
(* string.  An edge set is a function from the number of the other asset   *)
(* to its venues: the order of its edges decides nothing.  The             *)
(* reallocate flag of an edge only concerns memory and is left out.        *)
(***************************************************************************)
EXTENDS Exchange, BookUpdates

CONSTANTS Offers,      \* offer entries: [id, seller, buying, selling, price, amount]
          Pools,       \* pool entries: [a, b, reserveA, reserveB, fee]
          MaxBatch,    \* bound: updates queued at a time
          MaxLedger    \* bound: the last ledger that is applied

\* An offer trades two assets, a pool's assets are in order: stellar-core's rules.
ASSUME EntriesAssumption ==
    /\ \A o \in Offers : /\ o.buying \in Nat \ {0} /\ o.selling \in Nat \ {0} /\ o.buying # o.selling
                         /\ o.price.n \in Nat \ {0} /\ o.price.d \in Nat \ {0}
                         /\ o.amount \in 1..MaxInt64
    /\ \A p \in Pools : /\ p.a \in Nat \ {0} /\ p.b \in Nat /\ p.a < p.b /\ p.fee \in 0..(MaxBasisPoints - 1)
                        /\ p.reserveA \in 0..MaxInt64 /\ p.reserveB \in 0..MaxInt64
    /\ MaxBatch \in Nat /\ MaxLedger \in Nat

VARIABLES graph,           \* the fields the batches change, see emptyGraph
          batchedUpdates,  \* [operations, committed]
          applying,        \* the ledger an Apply in progress was called with, 0 if none is
          position,        \* the update that Apply has come to
          lastLedger,      \* the graph is accurate up to this ledger
          panicked         \* apply panicked

vars == <<graph, batchedUpdates, applying, position, lastLedger, panicked>>

Vacant == 0
NoPool == [assetA |-> 0, assetB |-> 0]
NoVenues == [offers |-> <<>>, pool |-> NoPool]

\* failed: removeOffer returned errOfferNotPresent, on which apply panics.
emptyGraph ==
    [idToAssetString |-> <<>>, assetStringToID |-> <<>>, vacantIDs |-> <<>>,
     venuesForBuyingAsset |-> <<>>, venuesForSellingAsset |-> <<>>,
     liquidityPools |-> <<>>, tradingPairForOffer |-> <<>>, failed |-> FALSE]

batch == [operations |-> <<>>, committed |-> FALSE]

-----------------------------------------------------------------------------
(* Edge sets *)

NoEdges == <<>>
Put(f, k, v) == [x \in DOMAIN f \cup {k} |-> IF x = k THEN v ELSE f[x]]
Without(f, k) == [x \in DOMAIN f \ {k} |-> f[x]]

venuesAt(edges, key) == IF key \in DOMAIN edges THEN edges[key] ELSE NoVenues

\* An edge that is left without offers and without a pool is deleted.
setVenues(edges, key, v) == IF v = NoVenues THEN Without(edges, key) ELSE Put(edges, key, v)

\* An offer goes behind the offers that are not dearer.
edgeAddOffer(edges, key, offer) ==
    LET v == venuesAt(edges, key)
        dearer == SelectInSeq(v.offers, LAMBDA o : Cheaper(offer.price, o.price))
        at == IF dearer = 0 THEN Len(v.offers) + 1 ELSE dearer
    IN setVenues(edges, key, [v EXCEPT !.offers = InsertAt(@, at, offer)])

edgeAddPool(edges, key, pool) ==
    setVenues(edges, key, [venuesAt(edges, key) EXCEPT !.pool = pool])

edgeHasOffer(edges, key, id) == \E o \in ToSet(venuesAt(edges, key).offers) : o.id = id

edgeRemoveOffer(edges, key, id) ==
    LET v == venuesAt(edges, key)
        at == SelectInSeq(v.offers, LAMBDA o : o.id = id)
    IN setVenues(edges, key, [v EXCEPT !.offers = RemoveAt(@, at)])

edgeRemovePool(edges, key) ==
    setVenues(edges, key, [venuesAt(edges, key) EXCEPT !.pool = NoPool])

-----------------------------------------------------------------------------
(* Asset numbers *)

\* The asset has a number afterwards: its own, the last vacant one or a new one.
getOrCreateAssetID(g, asset) ==
    IF asset \in DOMAIN g.assetStringToID THEN g
    ELSE IF g.vacantIDs # <<>>
    THEN LET id == Last(g.vacantIDs)
         IN [g EXCEPT !.vacantIDs = Front(@), !.idToAssetString[id] = asset,
                      !.assetStringToID = Put(@, asset, id)]
    ELSE [g EXCEPT !.idToAssetString = Append(@, asset),
                   !.venuesForBuyingAsset = Append(@, NoEdges),
                   !.venuesForSellingAsset = Append(@, NoEdges),
                   !.assetStringToID = Put(@, asset, Len(g.idToAssetString) + 1)]

\* Mutant: an asset that is still bought is deleted when nothing sells it.
maybeDeleteAsset_SellingOnly(g, id) ==
    IF DOMAIN g.venuesForSellingAsset[id] # {} THEN g
    ELSE [g EXCEPT !.assetStringToID = Without(@, g.idToAssetString[id]),
                   !.idToAssetString[id] = Vacant,
                   !.vacantIDs = Append(@, id)]

maybeDeleteAsset(g, id) ==
    IF DOMAIN g.venuesForBuyingAsset[id] # {} \/ DOMAIN g.venuesForSellingAsset[id] # {} THEN g
    ELSE [g EXCEPT !.assetStringToID = Without(@, g.idToAssetString[id]),
                   !.idToAssetString[id] = Vacant,
                   !.vacantIDs = Append(@, id)]

-----------------------------------------------------------------------------
(* Updates of the graph *)

\* The offer leaves both tables; one of them not having it is an error.
removeOffer(g, id) ==
    LET pair == g.tradingPairForOffer[id]
        g1 == [g EXCEPT !.tradingPairForOffer = Without(@, id)]
        g2 == [g1 EXCEPT !.venuesForSellingAsset[pair.selling] = edgeRemoveOffer(@, pair.buying, id)]
        g3 == [g2 EXCEPT !.venuesForBuyingAsset[pair.buying] = edgeRemoveOffer(@, pair.selling, id)]
    IN IF ~ edgeHasOffer(g.venuesForSellingAsset[pair.selling], pair.buying, id)
       THEN [g1 EXCEPT !.failed = TRUE]
       ELSE IF ~ edgeHasOffer(g.venuesForBuyingAsset[pair.buying], pair.selling, id)
       THEN [g2 EXCEPT !.failed = TRUE]
       ELSE maybeDeleteAsset(maybeDeleteAsset(g3, pair.buying), pair.selling)

\* An offer that is known is replaced.
addOffer(g, offer) ==
    LET g1 == IF offer.id \in DOMAIN g.tradingPairForOffer THEN removeOffer(g, offer.id) ELSE g
        g2 == getOrCreateAssetID(getOrCreateAssetID(g1, offer.buying), offer.selling)
        buying == g2.assetStringToID[offer.buying]
        selling == g2.assetStringToID[offer.selling]
    IN IF g1.failed THEN g1
       ELSE [g2 EXCEPT
               !.tradingPairForOffer = Put(@, offer.id, [buying |-> buying, selling |-> selling]),
               !.venuesForSellingAsset[selling] = edgeAddOffer(@, buying, offer),
               !.venuesForBuyingAsset[buying] = edgeAddOffer(@, selling, offer)]

\* The numbers of a pool's assets, created if need be.
poolFromEntry(g, entry) ==
    LET g1 == getOrCreateAssetID(getOrCreateAssetID(g, entry.a), entry.b)
    IN [graph |-> g1, assetA |-> g1.assetStringToID[entry.a],
                      assetB |-> g1.assetStringToID[entry.b]]

\* A pool is a venue in both directions, in both tables.
addPool(g, entry) ==
    LET p == poolFromEntry(g, entry)
        pool == [entry |-> entry, assetA |-> p.assetA, assetB |-> p.assetB]
        both(table) == [table EXCEPT ![p.assetA] = edgeAddPool(@, p.assetB, pool),
                                     ![p.assetB] = edgeAddPool(@, p.assetA, pool)]
    IN [p.graph EXCEPT !.liquidityPools = Put(@, <<p.assetA, p.assetB>>, entry),
                       !.venuesForBuyingAsset = both(@),
                       !.venuesForSellingAsset = both(@)]

removePool(g, entry) ==
    LET p == poolFromEntry(g, entry)
        both(table) == [table EXCEPT ![p.assetA] = edgeRemovePool(@, p.assetB),
                                     ![p.assetB] = edgeRemovePool(@, p.assetA)]
        g1 == [p.graph EXCEPT !.liquidityPools = Without(@, <<p.assetA, p.assetB>>),
                              !.venuesForBuyingAsset = both(@),
                              !.venuesForSellingAsset = both(@)]
    IN maybeDeleteAsset(maybeDeleteAsset(g1, p.assetA), p.assetB)

\* One queued update; the removal of an offer that is not there is skipped.
applyOperation(g, op) ==
    CASE op.kind = "addOffer"    -> addOffer(g, op.entry)
      [] op.kind = "removeOffer" -> IF op.entry.id \in DOMAIN g.tradingPairForOffer
                                    THEN removeOffer(g, op.entry.id) ELSE g
      [] op.kind = "addPool"     -> addPool(g, op.entry)
      [] op.kind = "removePool"  -> removePool(g, op.entry)

-----------------------------------------------------------------------------
(* The batch *)

Init ==
    /\ graph = emptyGraph /\ batchedUpdates = batch
    /\ applying = 0 /\ position = 1
    /\ lastLedger = 0 /\ panicked = FALSE

\* One goroutine feeds the graph, so its calls follow each other.
Ready == ~panicked /\ applying = 0

enqueue(op) ==
    /\ Ready /\ Len(batchedUpdates.operations) < MaxBatch
    /\ batchedUpdates' = [batchedUpdates EXCEPT !.operations = Append(@, op)]
    /\ UNCHANGED <<graph, applying, position, lastLedger, panicked>>

AddOffers(o) == enqueue([kind |-> "addOffer", entry |-> o])
RemoveOffer(id) == enqueue([kind |-> "removeOffer", entry |-> [id |-> id]])
AddLiquidityPools(p) == enqueue([kind |-> "addPool", entry |-> p])
RemoveLiquidityPool(p) == enqueue([kind |-> "removePool", entry |-> [a |-> p.a, b |-> p.b]])

Discard ==
    /\ Ready
    /\ batchedUpdates' = batch
    /\ UNCHANGED <<graph, applying, position, lastLedger, panicked>>

\* A batch whose apply was refused stays committed, and its next apply panics.
applyTwice ==
    /\ Ready /\ batchedUpdates.committed
    /\ panicked' = TRUE
    /\ UNCHANGED <<graph, batchedUpdates, applying, position, lastLedger>>

\* Mutant: the updates take effect although the ledger is outdated.
applyOutdated_Applied(ledger) ==
    /\ Ready /\ ~batchedUpdates.committed
    /\ lastLedger > 0 /\ ledger <= lastLedger
    /\ batchedUpdates' = [batchedUpdates EXCEPT !.committed = TRUE]
    /\ applying' = ledger /\ position' = 1
    /\ UNCHANGED <<graph, lastLedger, panicked>>

applyOutdated(ledger) ==
    /\ Ready /\ ~batchedUpdates.committed
    /\ lastLedger > 0 /\ ledger <= lastLedger
    /\ batchedUpdates' = [batchedUpdates EXCEPT !.committed = TRUE]
    /\ UNCHANGED <<graph, applying, position, lastLedger, panicked>>

Apply(ledger) ==
    /\ Ready /\ ~batchedUpdates.committed
    /\ ~ (lastLedger > 0 /\ ledger <= lastLedger)
    /\ batchedUpdates' = [batchedUpdates EXCEPT !.committed = TRUE]
    /\ applying' = ledger /\ position' = 1
    /\ UNCHANGED <<graph, lastLedger, panicked>>

\* The next update of the batch, on whose failure apply panics and lets the lock go.
applyNext ==
    /\ applying # 0 /\ position <= Len(batchedUpdates.operations)
    /\ LET g == applyOperation(graph, batchedUpdates.operations[position])
       IN /\ graph' = g
          /\ panicked' = g.failed
          /\ applying' = IF g.failed THEN 0 ELSE applying
    /\ position' = position + 1
    /\ UNCHANGED <<batchedUpdates, lastLedger>>

applyReturns ==
    /\ applying # 0 /\ position > Len(batchedUpdates.operations)
    /\ lastLedger' = applying /\ applying' = 0 /\ position' = 1
    /\ batchedUpdates' = batch
    /\ UNCHANGED <<graph, panicked>>

Clear ==
    /\ Ready
    /\ graph' = emptyGraph /\ batchedUpdates' = batch /\ lastLedger' = 0
    /\ UNCHANGED <<applying, position, panicked>>

Next ==
    \/ \E o \in Offers : AddOffers(o) \/ RemoveOffer(o.id)
    \/ \E p \in Pools : AddLiquidityPools(p) \/ RemoveLiquidityPool(p)
    \/ Discard
    \/ \E ledger \in 1..MaxLedger : applyTwice \/ applyOutdated(ledger) \/ Apply(ledger)
    \/ applyNext \/ applyReturns
    \/ Clear

Spec == Init /\ [][Next]_vars

-----------------------------------------------------------------------------
(* What the graph says of itself *)

venuesOf(table) == UNION {{<<id, key>> : key \in DOMAIN table[id]} : id \in DOMAIN table}
slotsOf(table) == UNION {{<<v[1], v[2], i>> : i \in DOMAIN table[v[1]][v[2]].offers} : v \in venuesOf(table)}
offerIn(table, slot) == table[slot[1]][slot[2]].offers[slot[3]]
offersIn(table) == {offerIn(table, slot) : slot \in slotsOf(table)}

\* One table of venues: own is the side of a trade the table is indexed by.
verifyTable(g, table, own, other) ==
    /\ Len(table) = Len(g.idToAssetString)
    /\ \A id \in DOMAIN table : g.idToAssetString[id] = Vacant => DOMAIN table[id] = {}
    /\ \A slot \in slotsOf(table) :
          LET o == offerIn(table, slot)
          IN /\ o[own] = g.idToAssetString[slot[1]] /\ o[other] = g.idToAssetString[slot[2]]
             /\ o.id \in DOMAIN g.tradingPairForOffer
             /\ g.tradingPairForOffer[o.id][own] = slot[1]
             /\ g.tradingPairForOffer[o.id][other] = slot[2]
             /\ \A s \in slotsOf(table) \ {slot} : offerIn(table, s).id # o.id
    /\ \A v \in venuesOf(table) :
          LET pool == table[v[1]][v[2]].pool
          IN pool # NoPool => /\ {pool.assetA, pool.assetB} = {v[1], v[2]}
                              /\ g.assetStringToID[pool.entry.a] = pool.assetA
                              /\ g.assetStringToID[pool.entry.b] = pool.assetB

vacantCells(g) == {id \in DOMAIN g.idToAssetString : g.idToAssetString[id] = Vacant}

\* The consistency check that the graph's users can run at any time.
Verify(g) ==
    /\ verifyTable(g, g.venuesForSellingAsset, "selling", "buying")
    /\ verifyTable(g, g.venuesForBuyingAsset, "buying", "selling")
    /\ \A id \in DOMAIN g.idToAssetString \ vacantCells(g) :
          /\ g.idToAssetString[id] \in DOMAIN g.assetStringToID
          /\ g.assetStringToID[g.idToAssetString[id]] = id
    /\ Cardinality(offersIn(g.venuesForSellingAsset)) = Cardinality(DOMAIN g.tradingPairForOffer)
    /\ offersIn(g.venuesForBuyingAsset) = offersIn(g.venuesForSellingAsset)
    /\ Len(g.vacantIDs) = Cardinality(vacantCells(g))
    /\ ToSet(g.vacantIDs) \subseteq vacantCells(g)

poolsIn(g, table) ==
    {<<v[1], v[2], table[v[1]][v[2]].pool.entry>> :
        v \in {w \in venuesOf(table) : table[w[1]][w[2]].pool # NoPool}}
poolsBothWays(g) ==
    UNION {{<<k[1], k[2], g.liquidityPools[k]>>, <<k[2], k[1], g.liquidityPools[k]>>} :
              k \in DOMAIN g.liquidityPools}

(***************************************************************************)
(* After every update, whatever the history of numbers given, vacated and  *)
(* given again, the tables agree with each other.  Beyond what Verify      *)
(* looks at: the offers of a pair are in order of price, which the search  *)
(* relies on; a pool is in both tables in both directions with the         *)
(* reserves the graph has on record; an asset without venues holds no      *)
(* number; no number is vacant twice.                                      *)
(***************************************************************************)
Consistent ==
    LET g == graph
    IN /\ Verify(g)
       /\ ~g.failed
       /\ \A table \in {g.venuesForSellingAsset, g.venuesForBuyingAsset} :
             /\ poolsIn(g, table) = poolsBothWays(g)
             /\ \A s, t \in slotsOf(table) :
                   s[1] = t[1] /\ s[2] = t[2] /\ s[3] < t[3]
                     => ~ Cheaper(offerIn(table, t).price, offerIn(table, s).price)
       /\ \A asset \in DOMAIN g.assetStringToID :
             LET id == g.assetStringToID[asset]
             IN /\ g.idToAssetString[id] = asset
                /\ DOMAIN g.venuesForSellingAsset[id] # {} \/ DOMAIN g.venuesForBuyingAsset[id] # {}
       /\ Cardinality(ToSet(g.vacantIDs)) = Len(g.vacantIDs)

\* A batch that is being applied counts as applied: nobody can look meanwhile.
poolsOf(g) == {g.liquidityPools[k] : k \in DOMAIN g.liquidityPools}
turns == IF applying = 0 THEN {} ELSE position..Len(batchedUpdates.operations)

bookOffers == OffersAfter(offersIn(graph.venuesForSellingAsset), batchedUpdates.operations, turns)
bookPools == PoolsAfter(poolsOf(graph), batchedUpdates.operations, turns)
bookQueue == IF applying = 0 THEN batchedUpdates.operations ELSE <<>>
bookCommitted == applying = 0 /\ batchedUpdates.committed
bookLedger == IF applying = 0 THEN lastLedger ELSE applying

Book == INSTANCE OfferBook WITH offers <- bookOffers, pools <- bookPools, queue <- bookQueue,
                                committed <- bookCommitted, lastLedger <- bookLedger

(***************************************************************************)
(* The graph is a book of offers and pools: what Offers and LiquidityPools *)
(* return is what the applied batches say, in order, and nothing else; a   *)
(* batch takes effect as a whole or, for an outdated ledger, not at all.   *)
(***************************************************************************)
KeepsOffers == Book!Spec
=============================================================================
