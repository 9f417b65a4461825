------------------------------ MODULE Exchange ------------------------------
(***************************************************************************)
(* What a trade costs: the arithmetic of price/main.go on the price and    *)
(* the amount of an offer, that of exp/orderbook/pools.go on the reserves  *)
(* of a constant product pool, and how exp/orderbook/search.go walks the   *)
(* offers of one trading pair with them.                                   *)
(*                                                                         *)
(* Amounts are int64: MaxInt64 is the largest one and Int64 wraps a sum    *)
(* the way Go does.  The products are 128 and 256 bits wide in the code    *)
(* and do not overflow, so they are plain integers here.                   *)
(***************************************************************************)
EXTENDS Integers, Sequences, SequencesExt

CONSTANTS MaxInt64,        \* math.MaxInt64, or a smaller 2^n - 1
          MaxBasisPoints   \* the scale of a pool's fee

ASSUME WidthAssumption == MaxInt64 \in Nat \ {0} /\ MaxBasisPoints \in Nat \ {0}

Int64(x) == ((x + MaxInt64 + 1) % (2 * (MaxInt64 + 1))) - (MaxInt64 + 1)

\* A price is the fraction n/d of buying units for one selling unit.
Cheaper(p, q) == p.n * q.d < q.n * p.d

(***************************************************************************)
(* Results that are no amount: a conversion that overflows, a trade that   *)
(* the offers do not allow, errSoldTooMuch, and a walk that is not over.   *)
(***************************************************************************)
NoTrade == -1
Overflow == MaxInt64 + 1
SoldTooMuch == MaxInt64 + 2
Walking == MaxInt64 + 3

fits(q) == IF q > MaxInt64 THEN Overflow ELSE q
MulFractionRoundDown(x, n, d) == fits((x * n) \div d)
mulFractionRoundUp(x, n, d) == fits((x * n + d - 1) \div d)

\* How much of an offer can be taken: its amount, corrected for rounding.
offerSellingBound(amount, p) ==
    IF p.n > p.d THEN amount
    ELSE LET down == MulFractionRoundDown(amount, p.n, p.d)
         IN IF down = Overflow THEN Overflow ELSE mulFractionRoundUp(down, p.d, p.n)

\* The units taken from the offer and the units paid for them.
ConvertToBuyingUnits(amount, needed, p) ==
    LET bound == offerSellingBound(amount, p)
        taken == IF bound < needed THEN bound ELSE needed
        paid  == mulFractionRoundUp(taken, p.n, p.d)
    IN IF Overflow \in {bound, paid} THEN [paid |-> Overflow, taken |-> 0]
       ELSE [paid |-> paid, taken |-> taken]

(***************************************************************************)
(* The offers of one pair, cheapest first, are consumed in turn.  A walk   *)
(* is over when it has a result; one that runs out of offers has none.     *)
(***************************************************************************)
walkStart(amount) == [left |-> amount, total |-> 0, result |-> Walking]
walkResult(w) == IF w.result = Walking THEN NoTrade ELSE w.result

settle(left, total) ==
    [left |-> left, total |-> total,
     result |-> IF left = 0 THEN total ELSE IF left < 0 THEN SoldTooMuch ELSE Walking]

\* One offer, of someone else than ignoreOffersFrom, sells what is left to buy.
takeOffer(ignoreOffersFrom, acc, o) ==
    LET c == ConvertToBuyingUnits(o.amount, acc.left, o.price)
    IN IF acc.result # Walking \/ o.seller = ignoreOffersFrom THEN acc
       ELSE IF c.paid = Overflow THEN [acc EXCEPT !.result = NoTrade]
       ELSE settle(acc.left - c.taken, Int64(acc.total + c.paid))

\* What has to be paid for amount units of the asset these offers sell.
consumeOffersForSellingAsset(offers, ignoreOffersFrom, amount) ==
    LET walk[i \in 0..Len(offers)] ==
            IF i = 0 THEN walkStart(amount) ELSE takeOffer(ignoreOffersFrom, walk[i - 1], offers[i])
    IN walkResult(walk[Len(offers)])

\* One offer buys what is left to sell.
fillOffer(acc, o) ==
    LET sold == MulFractionRoundDown(acc.left, o.price.d, o.price.n)
        c == ConvertToBuyingUnits(o.amount, o.amount, o.price)
    IN IF acc.result # Walking THEN acc
       ELSE IF sold = 0 THEN [acc EXCEPT !.result = NoTrade]
       ELSE IF sold # Overflow /\ sold <= o.amount
            THEN [acc EXCEPT !.result = Int64(acc.total + sold)]
       ELSE IF c.paid = Overflow THEN [acc EXCEPT !.result = NoTrade]
       ELSE settle(acc.left - c.paid, Int64(acc.total + c.taken))

\* What amount units of the asset these offers buy are exchanged for.
consumeOffersForBuyingAsset(offers, amount) ==
    LET walk[i \in 0..Len(offers)] ==
            IF i = 0 THEN walkStart(amount) ELSE fillOffer(walk[i - 1], offers[i])
    IN walkResult(walk[Len(offers)])

(***************************************************************************)
(* A constant product pool: the payout for a deposit and the deposit for a *)
(* payout, 0 where the calculation is refused.  x and y are the reserves   *)
(* of the asset that goes in and of the one that comes out.                *)
(***************************************************************************)
CalculatePoolPayout(x, y, received, fee) ==
    LET f == MaxBasisPoints - fee
        denom == x * MaxBasisPoints + received * f
        payout == (y * received * f) \div denom
    IN IF received > MaxInt64 - x \/ denom = 0 \/ payout > MaxInt64 THEN 0 ELSE payout

CalculatePoolExpectation(x, y, disbursed, fee) ==
    LET f == MaxBasisPoints - fee
        denom == (y - disbursed) * f
        deposit == (x * disbursed * MaxBasisPoints + denom - 1) \div denom
    IN IF disbursed >= y \/ denom = 0 \/ deposit > MaxInt64 - x THEN 0 ELSE deposit
=============================================================================
