---------------------------- MODULE MCOrderBook ----------------------------
(* The order book with four assets, two offers that move and two pools. *)
EXTENDS PathSearch

Offer(id, seller, buying, selling, n, d, amount) ==
    [id |-> id, seller |-> seller, buying |-> buying, selling |-> selling,
     price |-> [n |-> n, d |-> d], amount |-> amount]
Pool(a, b, ra, rb) == [a |-> a, b |-> b, reserveA |-> ra, reserveB |-> rb, fee |-> 30]

MCOffers == {Offer(1, 1, 1, 2, 1, 1, 4), Offer(1, 1, 2, 3, 3, 2, 5),
             Offer(2, 2, 1, 2, 2, 3, 3), Offer(2, 2, 3, 4, 1, 2, 20)}
\* Searches from every asset to every asset, for two amounts, with up to three hops.
Query(direction, asset, amount, ignore, validate, hops) ==
    [direction |-> direction, asset |-> asset, amount |-> amount,
     targets |-> [a \in 1..4 |-> 2 * a], ignore |-> ignore, validate |-> validate,
     includePools |-> TRUE, maxPathLength |-> hops]
MCQueries == {Query("selling", a, 3, 0, FALSE, 3) : a \in 1..4}
               \cup {Query("selling", 2, 5, 1, TRUE, 2), Query("buying", 1, 4, 0, FALSE, 3),
                     Query("buying", 2, 2, 0, FALSE, 2)}
MCPools == {Pool(2, 3, 20, 10), Pool(2, 3, 5, 12), Pool(1, 3, 7, 8)}
=============================================================================
