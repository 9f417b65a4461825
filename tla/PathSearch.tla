----------------------------- MODULE PathSearch -----------------------------
(***************************************************************************)
(* Path finding on the order book graph: search.go and the FindPaths and   *)
(* FindFixedPaths of graph.go (exp/orderbook).                             *)
(*                                                                         *)
(* A search holds the read lock from its first to its last look at the     *)
(* graph, so it is an operator on one graph and not a sequence of steps.   *)
(* A "selling" search starts at the destination asset and asks what each   *)
(* hop costs (FindPaths); a "buying" search starts at the source asset and *)
(* asks what each hop yields (FindFixedPaths).  The paths are kept as a    *)
(* set: no two paths to one asset have the same amount, so their order     *)
(* says nothing more.  The context that may end a search early, without a  *)
(* result, is left out.                                                    *)
(*                                                                         *)
(* A path is a value here.  The code keeps it as nodes linked by prev,     *)
(* which paths share and which search rewires in place: the model has      *)
(* which path is extended and by what, and not the aliasing of the nodes.  *)
(***************************************************************************)
EXTENDS OrderBookGraph

CONSTANT Queries   \* bound: the searches that are made of every graph

ASSUME QueriesAssumption ==
    \A q \in Queries : /\ DOMAIN q = {"direction", "asset", "amount", "targets", "ignore",
                                       "validate", "includePools", "maxPathLength"}
                       /\ q.amount \in 0..MaxInt64 /\ q.maxPathLength \in Nat
                       /\ \A a \in DOMAIN q.targets : q.targets[a] \in Int

(***************************************************************************)
(* A query: the direction, the asset it starts at and its amount, the      *)
(* assets it may end at with their balances, and the options.              *)
(*   [direction, asset, amount, targets, ignore, validate, includePools,   *)
(*    maxPathLength]                                                       *)
(***************************************************************************)
targetIDs(g, q) == {g.assetStringToID[a] : a \in DOMAIN q.targets \cap DOMAIN g.assetStringToID}

isTerminalNode(g, q, id) == id \in targetIDs(g, q)

\* Only a selling search looks at balances, and only if asked to.
includePath(g, q, id, amount) ==
    /\ isTerminalNode(g, q, id)
    /\ (q.direction = "selling" /\ q.validate) => q.targets[g.idToAssetString[id]] >= amount

betterPathAmount(q, current, alternative) ==
    IF q.direction = "selling" THEN current = 0 \/ alternative < current
    ELSE alternative > current

venues(g, q, id) ==
    IF q.direction = "selling" THEN g.venuesForSellingAsset[id] ELSE g.venuesForBuyingAsset[id]

positiveMin(a, b) == IF b <= 0 THEN a ELSE IF b < a \/ a <= 0 THEN b ELSE a
maxOf(a, b) == IF a > b THEN a ELSE b

\* The reserve of the asset numbered id, and that of the other one.
reserves(pool, id) == IF pool.assetA = id THEN <<pool.entry.reserveA, pool.entry.reserveB>>
                      ELSE <<pool.entry.reserveB, pool.entry.reserveA>>

\* 0 if the pool cannot make the trade.
consumePool(q, pool, current, amount) ==
    LET r == reserves(pool, current)
    IN IF q.direction = "selling"
       THEN CalculatePoolExpectation(r[2], r[1], amount, pool.entry.fee)
       ELSE CalculatePoolPayout(r[1], r[2], amount, pool.entry.fee)

consumeOffers(q, amount, offers) ==
    IF q.direction = "selling" THEN consumeOffersForSellingAsset(offers, q.ignore, amount)
    ELSE consumeOffersForBuyingAsset(offers, amount)

\* The better of the pool and the offers; an error only if there is no pool to fall back on.
betterVenue(q, pool, byOffers, offers) ==
    LET next == IF byOffers = SoldTooMuch THEN NoTrade ELSE byOffers
    IN IF pool = 0 /\ offers = <<>> THEN NoTrade
       ELSE IF pool = 0 /\ byOffers = SoldTooMuch THEN SoldTooMuch
       ELSE IF q.direction = "selling" THEN positiveMin(pool, next) ELSE maxOf(next, pool)

processVenues(q, current, amount, v) ==
    betterVenue(q, IF q.includePools /\ v.pool # NoPool
                   THEN consumePool(q, v.pool, current, amount) ELSE 0,
                consumeOffers(q, amount, v.offers), v.offers)

-----------------------------------------------------------------------------
(* The search *)

toPath(g, q, ids, amount) ==
    LET names == [i \in DOMAIN ids |-> g.idToAssetString[ids[i]]]
        interior == IF Len(ids) > 2 THEN SubSeq(names, 2, Len(ids) - 1) ELSE <<>>
    IN IF q.direction = "selling"
       THEN [source |-> Last(names), sourceAmount |-> amount, interior |-> Reverse(interior),
             destination |-> q.asset, destinationAmount |-> q.amount]
       ELSE [source |-> q.asset, sourceAmount |-> q.amount, interior |-> interior,
             destination |-> Last(names), destinationAmount |-> amount]

\* A path that is better than the one this iteration has to next.
improve(g, q, s, next, ids, amount) ==
    IF amount = SoldTooMuch THEN [s EXCEPT !.failed = TRUE]
    ELSE IF amount <= 0 \/ ~ betterPathAmount(q, s.updateAmount[next], amount) THEN s
    ELSE [s EXCEPT !.updateAmount[next] = amount,
                   !.updatePath[next] = ids,
                   !.paths = IF includePath(g, q, next, amount)
                             THEN @ \cup {toPath(g, q, ids, amount)} ELSE @]

\* Mutant: a path grows from the path found in the same iteration.
relax_SharedPath(g, q, i, current, s, next) ==
    IF \/ s.failed
       \/ i = q.maxPathLength /\ ~ isTerminalNode(g, q, next)
       \/ next \in ToSet(s.bestPath[current])
    THEN s
    ELSE improve(g, q, s, next, Append(s.updatePath[current], next),
                 processVenues(q, current, s.bestAmount[current], venues(g, q, current)[next]))

\* One edge: from the best path to current so far to the asset numbered next.
relax(g, q, i, current, s, next) ==
    IF \/ s.failed
       \/ i = q.maxPathLength /\ ~ isTerminalNode(g, q, next)
       \/ next \in ToSet(s.bestPath[current])
    THEN s
    ELSE improve(g, q, s, next, Append(s.bestPath[current], next),
                 processVenues(q, current, s.bestAmount[current], venues(g, q, current)[next]))

\* All edges of one asset, in any order: they lead to different assets.
relaxAll(g, q, i, s, current) ==
    LET upTo[n \in 0..Len(g.idToAssetString)] ==
            IF n = 0 THEN s
            ELSE IF n \in DOMAIN venues(g, q, current) THEN relax(g, q, i, current, upTo[n - 1], n)
            ELSE upTo[n - 1]
    IN IF s.bestAmount[current] = 0 THEN s ELSE upTo[Len(g.idToAssetString)]

\* What an iteration finds counts from the next one on.
adopt(s) == [s EXCEPT !.bestAmount = s.updateAmount, !.bestPath = s.updatePath]

\* One more hop.
iterate(g, q, s, i) ==
    LET upTo[n \in 0..Len(g.idToAssetString)] ==
            IF n = 0 THEN s ELSE relaxAll(g, q, i, upTo[n - 1], n)
    IN adopt(upTo[Len(g.idToAssetString)])

search(g, q) ==
    LET start == g.assetStringToID[q.asset]
        amounts == [id \in DOMAIN g.idToAssetString |-> IF id = start THEN q.amount ELSE 0]
        paths == [id \in DOMAIN g.idToAssetString |-> IF id = start THEN <<start>> ELSE <<>>]
        direct == IF includePath(g, q, start, q.amount)
                  THEN {toPath(g, q, <<start>>, q.amount)} ELSE {}
        rounds[i \in 0..q.maxPathLength] ==
            IF i = 0 THEN [bestAmount |-> amounts, updateAmount |-> amounts, bestPath |-> paths,
                           updatePath |-> paths, paths |-> direct, failed |-> FALSE]
            ELSE iterate(g, q, rounds[i - 1], i)
    IN rounds[q.maxPathLength]

\* Mutant: the dearest paths are kept.
sortAndFilterPaths_Dearest(q, paths, maxPathsPerAsset) ==
    LET sameEnd(p) == {r \in paths : r.source = p.source /\ r.destination = p.destination}
        before(r, p) == IF q.direction = "selling" THEN r.sourceAmount > p.sourceAmount
                        ELSE r.destinationAmount < p.destinationAmount
    IN {p \in paths : Cardinality({r \in sameEnd(p) : before(r, p)}) < maxPathsPerAsset}

\* At most maxPathsPerAsset paths for each end, but one at least: the best ones.
sortAndFilterPaths(q, paths, maxPathsPerAsset) ==
    LET sameEnd(p) == {r \in paths : r.source = p.source /\ r.destination = p.destination}
        before(r, p) == IF q.direction = "selling" THEN r.sourceAmount < p.sourceAmount
                        ELSE r.destinationAmount > p.destinationAmount
        rank(p) == Cardinality({r \in sameEnd(p) : before(r, p)})
    IN {p \in paths : rank(p) < maxOf(1, maxPathsPerAsset)}

\* FindPaths and FindFixedPaths: an asset the graph does not know has no paths.
FindPaths(g, q, maxPathsPerAsset) ==
    IF q.asset \notin DOMAIN g.assetStringToID \/ targetIDs(g, q) = {} THEN {}
    ELSE sortAndFilterPaths(q, search(g, q).paths, maxPathsPerAsset)

-----------------------------------------------------------------------------
(* What a search may return *)

\* What one pair of assets can do for an amount, by its pool or by its offers.
bestTrade(q, current, amount, v) ==
    LET byPool == IF q.includePools /\ v.pool # NoPool
                  THEN {consumePool(q, v.pool, current, amount)} ELSE {}
        trades == {x \in byPool \cup {consumeOffers(q, amount, v.offers)} : x \in 1..MaxInt64}
    IN IF trades = {} THEN NoTrade ELSE IF q.direction = "selling" THEN Min(trades) ELSE Max(trades)

hop(g, q, current, next, amount) ==
    IF amount = NoTrade THEN NoTrade
    ELSE bestTrade(q, current, amount, venuesAt(venues(g, q, current), next))

\* The amount at the end of a path of asset numbers, hop by hop; NoTrade if a hop fails.
amountAlong(g, q, ids) ==
    LET upTo[n \in 1..Len(ids)] ==
            IF n = 1 THEN q.amount
            ELSE hop(g, q, ids[n - 1], ids[n], upTo[n - 1])
    IN upTo[Len(ids)]

\* The asset numbers of a returned path, from the asset the search starts at.
idsOf(g, q, p) ==
    LET names == <<p.source>> \o p.interior
                   \o (IF p.interior = <<>> /\ p.source = p.destination
                       THEN <<>> ELSE <<p.destination>>)
        ids == [i \in DOMAIN names |-> g.assetStringToID[names[i]]]
    IN IF q.direction = "selling" THEN Reverse(ids) ELSE ids

endAmount(q, p) == IF q.direction = "selling" THEN p.sourceAmount ELSE p.destinationAmount

\* A search waits for an Apply to let go of the lock; what is queued does not matter to it.
Searchable == applying = 0 /\ batchedUpdates = batch

(***************************************************************************)
(* Every path a search returns can be walked on the graph it was searched  *)
(* on: no asset twice, no more hops than allowed, and the amount reported  *)
(* is the one the hops amount to, although the best paths are replaced     *)
(* while longer ones are being built on them.  A path that needs more than *)
(* the balance is not returned when balances are validated, and no search  *)
(* dies of errSoldTooMuch.                                                 *)
(***************************************************************************)
PathsAreReal ==
    Searchable =>
    \A q \in Queries :
        /\ q.asset \in DOMAIN graph.assetStringToID => ~ search(graph, q).failed
        /\ \A p \in FindPaths(graph, q, 3) :
             LET ids == idsOf(graph, q, p)
             IN /\ Cardinality(ToSet(ids)) = Len(ids)
                /\ Len(ids) <= q.maxPathLength + 1
                /\ amountAlong(graph, q, ids) = endAmount(q, p)
                /\ q.direction = "selling" /\ q.validate
                      => p.sourceAmount <= q.targets[p.source]

\* The walks a search could return: simple, not too long, with an amount the balances allow.
simplePaths(g, q) ==
    LET start == g.assetStringToID[q.asset]
        walks == UNION {[1..n -> DOMAIN g.idToAssetString] : n \in 1..(q.maxPathLength + 1)}
    IN {w \in walks : /\ w[1] = start /\ Cardinality(ToSet(w)) = Len(w)
                      /\ amountAlong(g, q, w) # NoTrade
                      /\ includePath(g, q, w[Len(w)], amountAlong(g, q, w))}

\* Some asset can be turned into more of itself.
profitableCycle(g, q) ==
    \E n \in 2..Len(g.idToAssetString) : \E w \in [1..n -> DOMAIN g.idToAssetString] :
        /\ Cardinality(ToSet(w)) = n
        /\ \E amount \in 1..MaxInt64 :
              LET back == amountAlong(g, [q EXCEPT !.amount = amount], Append(w, w[1]))
              IN back # NoTrade /\ back < amount

\* What an offer asks if all of it is taken, and whether the offers of a pair ask for an
\* int64 together: the sum that consumeOffersForSellingAsset does not check.
asked(o) == mulFractionRoundUp(offerSellingBound(o.amount, o.price), o.price.n, o.price.d)
sumFits(offers) ==
    LET sum[i \in 0..Len(offers)] == IF i = 0 THEN 0 ELSE sum[i - 1] + asked(offers[i])
    IN \A i \in 0..Len(offers) : sum[i] <= MaxInt64

SumsFit == \A v \in venuesOf(graph.venuesForSellingAsset) :
               sumFits(graph.venuesForSellingAsset[v[1]][v[2]].offers)

(***************************************************************************)
(* FindPaths misses no bargain.  The search only ever extends the best     *)
(* path it has to each asset, and refuses an extension that meets its own  *)
(* path; still, for every walk to an asset the sender holds, holds enough  *)
(* of where balances are validated, some returned path from that asset     *)
(* costs no more, whichever walk is longer and even when one path per      *)
(* asset is asked for, unless the book lets an asset be turned into more   *)
(* of itself.                                                              *)
(***************************************************************************)
BestPathFound ==
    Searchable =>
    \A q \in {r \in Queries : r.direction = "selling" /\ r.asset \in DOMAIN graph.assetStringToID} :
        LET found == FindPaths(graph, q, 1)
        IN \/ \A w \in simplePaths(graph, q) : \E p \in found :
                 /\ p.source = graph.idToAssetString[w[Len(w)]]
                 /\ p.sourceAmount <= amountAlong(graph, q, w)
           \/ profitableCycle(graph, q)
=============================================================================
