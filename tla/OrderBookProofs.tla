--------------------------- MODULE OrderBookProofs ---------------------------
(***************************************************************************)
(* Theorems about OrderBookGraph and PathSearch, for all offers, pools,    *)
(* prices, ledgers and searches:                                           *)
(*   BookInvariant     the inductive invariant of the graph                *)
(*   GraphKeepsOffers  the graph is the book that OfferBook describes      *)
(*   GraphConsistent   Verify would find nothing to report, and more       *)
(*   SearchIsReal      the paths a search returns can be walked            *)
(*   SearchIsBest      and for every walk there is one that costs no more  *)
(***************************************************************************)
EXTENDS PathSearch, SequenceTheorems, FiniteSetTheorems, WellFoundedInduction, TLAPS

(***************************************************************************)
(* The inductive invariant.  venuesForBuyingAsset is the transpose of      *)
(* venuesForSellingAsset, so that it is enough to say of one table what    *)
(* its edges hold.  While an update is under way an asset may have a       *)
(* number and no venues; idle names these numbers.                         *)
(***************************************************************************)
PoolVenue == [entry : Pools, assetA : Nat, assetB : Nat]
VenuesRecord == [offers : Seq(Offers), pool : PoolVenue \cup {NoPool}]
EdgeSets == UNION {[D -> VenuesRecord] : D \in SUBSET Nat}

\* The venues of a pair of numbers, whether there is an edge or not.
At(table, i, k) == IF i \in DOMAIN table THEN venuesAt(table[i], k) ELSE NoVenues
Sel(g, x, y) == At(g.venuesForSellingAsset, x, y)
Buy(g, x, y) == At(g.venuesForBuyingAsset, x, y)

\* The numbers in use, and those of them that have venues.
Live(g) == DOMAIN g.idToAssetString \ vacantCells(g)
Busy(g, i) == \E k : Sel(g, i, k) # NoVenues \/ Sel(g, k, i) # NoVenues

NumbersInv(g) ==
    /\ DOMAIN g = DOMAIN emptyGraph /\ g.failed = FALSE
    /\ g.idToAssetString \in Seq(Nat) /\ g.vacantIDs \in Seq(Nat)
    /\ \A id \in Live(g) : LET name == g.idToAssetString[id] IN
          name \in DOMAIN g.assetStringToID /\ g.assetStringToID[name] = id
    /\ \A a \in DOMAIN g.assetStringToID : LET id == g.assetStringToID[a] IN
          a # Vacant /\ id \in DOMAIN g.idToAssetString /\ g.idToAssetString[id] = a
    /\ IsInjective(g.vacantIDs) /\ ToSet(g.vacantIDs) = vacantCells(g)

TableInv(g, table) ==
    /\ table \in Seq(EdgeSets) /\ Len(table) = Len(g.idToAssetString)
    /\ \A i \in DOMAIN table : \A k \in DOMAIN table[i] : table[i][k] # NoVenues

\* An edge leads from a number in use to another one.
EdgesInv(g) ==
    /\ TableInv(g, g.venuesForSellingAsset) /\ TableInv(g, g.venuesForBuyingAsset)
    /\ \A x, y : Sel(g, x, y) # NoVenues => x \in Live(g) /\ y \in Live(g)
    /\ \A x, y : Sel(g, x, y) = Buy(g, y, x)

\* The offers of a pair have their own ids and are in order of price.
Sorted(offers) ==
    \A m, n \in DOMAIN offers : m < n =>
        offers[m].id # offers[n].id /\ ~ Cheaper(offers[n].price, offers[m].price)

\* An offer of one who sells x and buys y, on record under its id.
OnRecord(g, x, y, o) ==
    /\ o.selling = g.idToAssetString[x] /\ o.buying = g.idToAssetString[y]
    /\ o.id \in DOMAIN g.tradingPairForOffer
    /\ g.tradingPairForOffer[o.id] = [buying |-> y, selling |-> x]

OffersInv(g) ==
    /\ IsFiniteSet(DOMAIN g.tradingPairForOffer)
    /\ \A x, y : /\ Sorted(Sel(g, x, y).offers)
                 /\ \A o \in ToSet(Sel(g, x, y).offers) : OnRecord(g, x, y, o)
    /\ \A id \in DOMAIN g.tradingPairForOffer : LET pair == g.tradingPairForOffer[id] IN
          \E o \in ToSet(Sel(g, pair.selling, pair.buying).offers) : o.id = id

PoolsInv(g) ==
    /\ \A x, y : LET pool == Sel(g, x, y).pool
                     key == <<pool.assetA, pool.assetB>>
                 IN pool # NoPool => key \in DOMAIN g.liquidityPools /\ key \in {<<x, y>>, <<y, x>>}
    /\ \A key \in DOMAIN g.liquidityPools :
          LET entry == g.liquidityPools[key]
              pool == [entry |-> entry, assetA |-> key[1], assetB |-> key[2]]
          IN /\ entry \in Pools /\ key = <<key[1], key[2]>>
             /\ g.idToAssetString[key[1]] = entry.a /\ g.idToAssetString[key[2]] = entry.b
             /\ Sel(g, key[1], key[2]).pool = pool /\ Sel(g, key[2], key[1]).pool = pool

CoreInv(g) == NumbersInv(g) /\ EdgesInv(g) /\ OffersInv(g) /\ PoolsInv(g)

UsedInv(g, idle) == \A i \in Live(g) : i \in idle \/ Busy(g, i)

BookInv ==
    /\ CoreInv(graph) /\ UsedInv(graph, {})
    /\ batchedUpdates \in [operations : Seq(Book!Updates), committed : BOOLEAN]
    /\ applying \in Nat /\ position \in Nat \ {0} /\ lastLedger \in Nat /\ panicked \in BOOLEAN
    /\ applying # 0 => ~panicked

(* Tables of venues. *)

\* An edge that is not there counts as venues with no offers and no pool.
LEMMA NoVenuesIsVenues == NoVenues \in VenuesRecord /\ NoVenues.offers = <<>> /\ NoVenues.pool = NoPool
<1>1. <<>> \in Seq(Offers)
  OBVIOUS
<1> QED
  BY <1>1 DEF NoVenues, VenuesRecord

\* The venues of a pair are venues.
LEMMA AtType ==
    ASSUME NEW table \in Seq(EdgeSets)
    PROVE  /\ \A x, y : At(table, x, y) \in VenuesRecord
           /\ \A x \in DOMAIN table : DOMAIN table[x] \subseteq Nat
           /\ DOMAIN table = 1 .. Len(table) /\ Len(table) \in Nat
<1>1. DOMAIN table = 1 .. Len(table) /\ Len(table) \in Nat
  BY LenProperties
<1>2. ASSUME NEW x \in DOMAIN table PROVE \E D \in SUBSET Nat : table[x] \in [D -> VenuesRecord]
  <2>1. table[x] \in EdgeSets
    BY <1>1, <1>2, ElementOfSeq
  <2> QED
    BY <2>1 DEF EdgeSets
<1>3. ASSUME NEW x \in DOMAIN table, NEW y PROVE venuesAt(table[x], y) \in VenuesRecord
  BY <1>2, <1>3, NoVenuesIsVenues DEF venuesAt
<1>4. \A x, y : At(table, x, y) \in VenuesRecord
  BY <1>3, NoVenuesIsVenues DEF At
<1> QED
  BY <1>1, <1>2, <1>4

SetCell(table, i, k, v) == [table EXCEPT ![i] = setVenues(table[i], k, v)]

\* A changed edge changes the venues of its pair and of no other (setVenues).
LEMMA CellChanged ==
    ASSUME NEW g, NEW h, NEW table, TableInv(g, table), Len(h.idToAssetString) = Len(g.idToAssetString),
           NEW i \in DOMAIN table, NEW k \in Nat, NEW v \in VenuesRecord,
           NEW new, new = SetCell(table, i, k, v)
    PROVE  /\ TableInv(h, new) /\ DOMAIN new = DOMAIN table
           /\ \A x, y : At(new, x, y) = IF x = i /\ y = k THEN v ELSE At(table, x, y)
<1>0. table \in Seq(EdgeSets) /\ \A x \in DOMAIN table : \A y \in DOMAIN table[x] : table[x][y] # NoVenues
  BY DEF TableInv
<1>1. DOMAIN table = 1 .. Len(table) /\ Len(table) \in Nat
  BY <1>0, LenProperties
<1>2. PICK D \in SUBSET Nat : table[i] \in [D -> VenuesRecord]
  <2>1. table[i] \in EdgeSets
    BY <1>0, <1>1, ElementOfSeq
  <2> QED
    BY <2>1 DEF EdgeSets
<1>3. \E F \in SUBSET Nat : setVenues(table[i], k, v) \in [F -> VenuesRecord]
  <2>1. CASE v = NoVenues
    BY <1>2, <2>1 DEF setVenues, Without
  <2>2. CASE v # NoVenues
    <3>1. Put(table[i], k, v) \in [D \cup {k} -> VenuesRecord]
      BY <1>2 DEF Put
    <3> QED
      BY <2>2, <3>1 DEF setVenues
  <2> QED
    BY <2>1, <2>2
<1>4. setVenues(table[i], k, v) \in EdgeSets
  BY <1>3 DEF EdgeSets
<1>5. new \in Seq(EdgeSets) /\ Len(new) = Len(table)
  BY <1>0, <1>1, <1>4, ExceptSeq DEF SetCell
<1>6. DOMAIN new = DOMAIN table
  BY DEF SetCell
<1>7. \A y \in DOMAIN setVenues(table[i], k, v) : setVenues(table[i], k, v)[y] # NoVenues
  BY <1>0 DEF setVenues, Put, Without
<1>8. \A y : venuesAt(setVenues(table[i], k, v), y) = IF y = k THEN v ELSE venuesAt(table[i], y)
  BY DEF setVenues, Put, Without, venuesAt
<1>9. \A x \in DOMAIN new : new[x] = IF x = i THEN setVenues(table[i], k, v) ELSE table[x]
  BY DEF SetCell
<1>10. \A x \in DOMAIN new : \A y \in DOMAIN new[x] : new[x][y] # NoVenues
  BY <1>0, <1>6, <1>7, <1>9
<1>11. \A x, y : At(new, x, y) = IF x = i /\ y = k THEN v ELSE At(table, x, y)
  BY <1>6, <1>8, <1>9 DEF At
<1>12. TableInv(h, new)
  BY <1>5, <1>10 DEF TableInv
<1> QED
  BY <1>6, <1>11, <1>12

(* Lists of offers. *)

\* Concatenation, element by element.
LEMMA ConcatFacts ==
    \A S : \A s, t \in Seq(S) :
        /\ s \o t \in Seq(S) /\ Len(s \o t) = Len(s) + Len(t)
        /\ \A j \in 1 .. Len(s \o t) : (s \o t)[j] = IF j <= Len(s) THEN s[j] ELSE t[j - Len(s)]
BY ConcatProperties

\* RemoveAt, element by element.
LEMMA RemoveFacts ==
    ASSUME NEW S, NEW s \in Seq(S), NEW at \in 1 .. Len(s), NEW r, r = RemoveAt(s, at)
    PROVE  /\ r \in Seq(S) /\ Len(r) = Len(s) - 1
           /\ \A j \in 1 .. Len(r) : r[j] = s[IF j < at THEN j ELSE j + 1]
<1>1. Len(s) \in Nat
  OBVIOUS
<1> DEFINE p == SubSeq(s, 1, at - 1)
           q == SubSeq(s, at + 1, Len(s))
<1>2. p \in Seq(S) /\ Len(p) = at - 1 /\ \A j \in 1 .. at - 1 : p[j] = s[j]
  BY <1>1, SubSeqProperties
<1>3. q \in Seq(S) /\ Len(q) = Len(s) - at /\ \A j \in 1 .. Len(s) - at : q[j] = s[at + j]
  BY <1>1, SubSeqProperties
<1>4. r = p \o q
  BY DEF RemoveAt
<1> HIDE DEF p, q
<1>5. /\ r \in Seq(S) /\ Len(r) = Len(p) + Len(q)
      /\ \A j \in 1 .. Len(r) : r[j] = IF j <= Len(p) THEN p[j] ELSE q[j - Len(p)]
  <2>1. p \in Seq(S) /\ q \in Seq(S)
    BY <1>2, <1>3
  <2> QED
    BY <1>4, <2>1, ConcatFacts
<1> QED
  BY <1>1, <1>2, <1>3, <1>5, SMTT(30)

\* The sequence r is s with e at the place at.
Grown(S, r, s, at, e) ==
    /\ r \in Seq(S) /\ Len(r) = Len(s) + 1
    /\ \A j \in 1 .. Len(r) : r[j] = IF j < at THEN s[j] ELSE IF j = at THEN e ELSE s[j - 1]

\* InsertAt, element by element.
LEMMA InsertFacts ==
    ASSUME NEW S, NEW s \in Seq(S), NEW at \in 1 .. Len(s) + 1, NEW e \in S, NEW r, r = InsertAt(s, at, e)
    PROVE  Grown(S, r, s, at, e)
<1>1. Len(s) \in Nat
  OBVIOUS
<1> DEFINE p == SubSeq(s, 1, at - 1)
           q == SubSeq(s, at, Len(s))
<1>2. p \in Seq(S) /\ Len(p) = at - 1 /\ \A j \in 1 .. at - 1 : p[j] = s[j]
  BY <1>1, SubSeqProperties
<1>3. q \in Seq(S) /\ Len(q) = Len(s) - at + 1 /\ \A j \in 1 .. Len(s) - at + 1 : q[j] = s[at + j - 1]
  BY <1>1, SubSeqProperties
<1> HIDE DEF p, q
<1>4. r = (p \o <<e>>) \o q
  BY DEF p, q, InsertAt
<1>5. /\ p \o <<e>> \in Seq(S) /\ Len(p \o <<e>>) = at
      /\ \A j \in 1 .. at : (p \o <<e>>)[j] = IF j < at THEN s[j] ELSE e
  BY <1>2
<1> DEFINE pe == p \o <<e>>
<1> HIDE DEF pe
<1>6. pe \in Seq(S) /\ Len(pe) = at /\ r = pe \o q
  BY <1>4, <1>5 DEF pe
<1>7. /\ r \in Seq(S) /\ Len(r) = Len(pe) + Len(q)
      /\ \A j \in 1 .. Len(r) : r[j] = IF j <= Len(pe) THEN pe[j] ELSE q[j - Len(pe)]
  <2>1. pe \in Seq(S) /\ q \in Seq(S)
    BY <1>3, <1>6
  <2>2. r = pe \o q
    BY <1>6
  <2> QED
    BY <2>1, <2>2, ConcatFacts
<1>8. \A j \in 1 .. at : pe[j] = IF j < at THEN s[j] ELSE e
  BY <1>5 DEF pe
<1>9. Len(pe) = at /\ Len(q) = Len(s) - at + 1
  BY <1>3, <1>6
<1>10. Len(r) = Len(s) + 1
  BY <1>1, <1>7, <1>9
<1>11. ASSUME NEW j \in 1 .. Len(r) PROVE r[j] = IF j < at THEN s[j] ELSE IF j = at THEN e ELSE s[j - 1]
  <2>1. CASE j <= at
    BY <1>7, <1>8, <1>9, <2>1
  <2>2. CASE j > at
    <3>1. j - at \in 1 .. Len(s) - at + 1 /\ at + (j - at) - 1 = j - 1
      BY <1>1, <1>10, <2>2
    <3>2. q[j - at] = s[at + (j - at) - 1]
      BY <1>3, <3>1
    <3> QED
      BY <1>1, <1>7, <1>9, <2>2, <3>1, <3>2
  <2> QED
    BY <1>1, <1>10, <2>1, <2>2
<1> QED
  BY <1>7, <1>10, <1>11 DEF Grown

\* The least of a set of numbers is in it.
LEMMA LeastIn ==
    ASSUME NEW S \in SUBSET Nat, S # {}
    PROVE  Min(S) \in S /\ \A y \in S : Min(S) <= y
<1> DEFINE R == OpToRel(<, Nat)
<1>1. IsWellFoundedOn(R, Nat)
  BY NatLessThanWellFounded
<1>2. \A x, y \in Nat : y < x => <<y, x>> \in R
  BY DEF OpToRel
<1> HIDE DEF R
<1>3. PICK x \in S : \A y \in S : ~(<<y, x>> \in R)
  BY <1>1, WFMin
<1>4. \A y \in S : x <= y
  <2> TAKE y \in S
  <2>1. x \in Nat /\ y \in Nat
    OBVIOUS
  <2>2. ~(y < x)
    BY <1>2, <1>3, <2>1
  <2> QED
    BY <2>1, <2>2
<1> QED
  BY <1>3, <1>4 DEF Min

\* The elements of a sequence without its last one.
LEMMA FrontFacts ==
    ASSUME NEW s \in Seq(Nat), s # <<>>, IsInjective(s)
    PROVE  /\ Front(s) \in Seq(Nat) /\ IsInjective(Front(s))
           /\ ToSet(Front(s)) = ToSet(s) \ {Last(s)} /\ Last(s) \in ToSet(s) /\ Last(s) \in Nat
<1>1. Len(s) \in Nat \ {0} /\ DOMAIN s = 1 .. Len(s)
  BY EmptySeq, LenProperties
<1> DEFINE f == Front(s)
<1>2. f \in Seq(Nat) /\ Len(f) = Len(s) - 1 /\ \A j \in 1 .. Len(s) - 1 : f[j] = s[j]
  BY <1>1, SubSeqProperties DEF Front
<1>3. DOMAIN f = 1 .. Len(s) - 1
  BY <1>2
<1>4. Last(s) = s[Len(s)]
  BY DEF Last
<1> HIDE DEF f
<1>8. \A j \in DOMAIN f : j \in DOMAIN s /\ j # Len(s) /\ f[j] = s[j]
  BY <1>1, <1>2, <1>3, SMTT(30)
<1>9. \A j \in DOMAIN s : j # Len(s) => j \in DOMAIN f
  BY <1>1, <1>3
<1>10. Len(s) \in DOMAIN s
  BY <1>1
<1>5. IsInjective(f)
  BY <1>8 DEF IsInjective
<1>6. ToSet(f) = ToSet(s) \ {Last(s)}
  BY <1>4, <1>8, <1>9, <1>10 DEF IsInjective, ToSet
<1>7. Last(s) \in ToSet(s) /\ Last(s) \in Nat
  BY <1>1, <1>4 DEF ToSet
<1> QED
  BY <1>2, <1>5, <1>6, <1>7 DEF f

\* The elements of a sequence with one more.
LEMMA AppendFacts ==
    ASSUME NEW s \in Seq(Nat), NEW e \in Nat, IsInjective(s), e \notin ToSet(s)
    PROVE  /\ Append(s, e) \in Seq(Nat) /\ IsInjective(Append(s, e))
           /\ ToSet(Append(s, e)) = ToSet(s) \cup {e}
<1> DEFINE f == Append(s, e)
<1>1. f \in Seq(Nat) /\ Len(f) = Len(s) + 1 /\ f[Len(s) + 1] = e /\ \A j \in 1 .. Len(s) : f[j] = s[j]
  BY AppendProperties
<1>2. DOMAIN f = 1 .. Len(s) + 1 /\ DOMAIN s = 1 .. Len(s) /\ Len(s) \in Nat
  BY <1>1, LenProperties
<1> HIDE DEF f
<1>3. \A j \in 1 .. Len(s) : f[j] # e
  BY <1>1, <1>2 DEF ToSet
<1>4. IsInjective(f)
  BY <1>1, <1>2, <1>3 DEF IsInjective
<1>5. ToSet(f) = ToSet(s) \cup {e}
  BY <1>1, <1>2 DEF ToSet
<1> QED
  BY <1>1, <1>4, <1>5 DEF f

(* What does not touch the edges. *)

\* The fields of a graph.
LEMMA FieldNames ==
    DOMAIN emptyGraph = {"idToAssetString", "assetStringToID", "vacantIDs", "venuesForBuyingAsset",
                         "venuesForSellingAsset", "liquidityPools", "tradingPairForOffer", "failed"}
BY DEF emptyGraph

\* A pool is not the mark for no pool.
LEMMA PoolIsPool ==
    \A e, x, y : [entry |-> e, assetA |-> x, assetB |-> y] # NoPool
BY DEF NoPool

\* The same venues, with the same names for the numbers they concern.
SameBook(g, h) ==
    /\ h.tradingPairForOffer = g.tradingPairForOffer /\ h.liquidityPools = g.liquidityPools
    /\ \A x, y : Sel(h, x, y) = Sel(g, x, y)
    /\ \A x, y : Sel(g, x, y) # NoVenues => /\ h.idToAssetString[x] = g.idToAssetString[x]
                                            /\ h.idToAssetString[y] = g.idToAssetString[y]

\* A step that leaves pairs, pools and venues alone keeps what is said of offers and pools.
LEMMA Frame ==
    ASSUME NEW g, NEW h, CoreInv(g), SameBook(g, h)
    PROVE  OffersInv(h) /\ PoolsInv(h)
<1>1. OffersInv(g) /\ PoolsInv(g)
  BY DEF CoreInv
<1>2. ASSUME NEW x, NEW y, NEW o \in ToSet(Sel(h, x, y).offers) PROVE OnRecord(h, x, y, o)
  <2>1. o \in ToSet(Sel(g, x, y).offers)
    BY DEF SameBook
  <2>2. Sel(g, x, y) # NoVenues
    BY <2>1, NoVenuesIsVenues DEF ToSet
  <2>3. OnRecord(g, x, y, o)
    BY <1>1, <2>1 DEF OffersInv
  <2> QED
    BY <2>2, <2>3 DEF OnRecord, SameBook
<1>3. OffersInv(h)
  BY <1>1, <1>2 DEF OffersInv, SameBook
<1>4. ASSUME NEW key \in DOMAIN g.liquidityPools
      PROVE  /\ h.idToAssetString[key[1]] = g.idToAssetString[key[1]]
             /\ h.idToAssetString[key[2]] = g.idToAssetString[key[2]]
  <2>1. Sel(g, key[1], key[2]).pool # NoPool
    <3>1. Sel(g, key[1], key[2]).pool
            = [entry |-> g.liquidityPools[key], assetA |-> key[1], assetB |-> key[2]]
      BY <1>1 DEF PoolsInv
    <3> QED
      BY <3>1, PoolIsPool, Zenon
  <2>2. Sel(g, key[1], key[2]) # NoVenues
    BY <2>1, NoVenuesIsVenues
  <2> QED
    BY <2>2 DEF SameBook
<1>5. PoolsInv(h)
  BY <1>1, <1>4 DEF PoolsInv, SameBook
<1> QED
  BY <1>3, <1>5

\* A number is in use when its cell has a name, and vacant when it has none.
LEMMA LiveNames ==
    ASSUME NEW g
    PROVE  /\ \A i : i \in Live(g) <=> i \in DOMAIN g.idToAssetString /\ g.idToAssetString[i] # Vacant
           /\ \A i : i \in vacantCells(g) <=> i \in DOMAIN g.idToAssetString /\ g.idToAssetString[i] = Vacant
BY DEF Live, vacantCells

\* Numbers and names are each other's inverse.
LEMMA NameOfNumber ==
    ASSUME NEW g, NumbersInv(g), NEW a \in DOMAIN g.assetStringToID
    PROVE  /\ g.assetStringToID[a] \in Live(g) /\ g.idToAssetString[g.assetStringToID[a]] = a
BY LiveNames DEF NumbersInv

\* What a longer table says of a pair.
Longer(table) == Append(table, NoEdges)

\* A row without edges changes the venues of no pair.
LEMMA LongerTable ==
    ASSUME NEW g, NEW h, NEW table, NEW new, TableInv(g, table), new = Longer(table),
           Len(h.idToAssetString) = Len(g.idToAssetString) + 1
    PROVE  TableInv(h, new) /\ \A x, y : At(new, x, y) = At(table, x, y)
<1>1. table \in Seq(EdgeSets) /\ DOMAIN table = 1 .. Len(table) /\ Len(table) \in Nat
  BY LenProperties DEF TableInv
<1>2. DOMAIN NoEdges = {}
  BY DEF NoEdges
<1>3. NoEdges \in EdgeSets
  <2>1. NoEdges \in [{} -> VenuesRecord]
    BY DEF NoEdges
  <2> QED
    BY <2>1 DEF EdgeSets
<1>4. new \in Seq(EdgeSets) /\ Len(new) = Len(table) + 1 /\ new[Len(table) + 1] = NoEdges
      /\ \A j \in 1 .. Len(table) : new[j] = table[j]
  BY <1>1, <1>3, AppendProperties DEF Longer
<1>5. DOMAIN new = 1 .. Len(table) + 1
  BY <1>4, LenProperties
<1>6. \A i \in DOMAIN new : \A k \in DOMAIN new[i] : new[i][k] # NoVenues
  BY <1>1, <1>2, <1>4, <1>5 DEF TableInv
<1>7. ASSUME NEW x, NEW y PROVE At(new, x, y) = At(table, x, y)
  <2>1. CASE x \in DOMAIN table
    BY <1>1, <1>4, <1>5, <2>1 DEF At
  <2>2. CASE x = Len(table) + 1
    BY <1>1, <1>2, <1>4, <1>5, <2>2 DEF At, venuesAt
  <2>3. CASE x \notin DOMAIN new
    BY <1>1, <1>5, <2>3 DEF At
  <2> QED
    BY <1>1, <1>5, <2>1, <2>2, <2>3
<1> QED
  BY <1>4, <1>6, <1>7 DEF TableInv

\* A new or reused number for an asset leaves everything else as it is (getOrCreateAssetID).
Numbered(g, h, a) ==
    /\ a \in DOMAIN h.assetStringToID
    /\ Live(h) = Live(g) \cup {h.assetStringToID[a]}
    /\ \A i \in Live(g) : h.idToAssetString[i] = g.idToAssetString[i]
    /\ \A b \in DOMAIN g.assetStringToID :
          b \in DOMAIN h.assetStringToID /\ h.assetStringToID[b] = g.assetStringToID[b]

\* An asset that is new gets a vacant number if there is one (getOrCreateAssetID).
LEMMA NumberReused ==
    ASSUME NEW g, CoreInv(g), NEW a \in Nat \ {0}, NEW h, h = getOrCreateAssetID(g, a),
           a \notin DOMAIN g.assetStringToID, g.vacantIDs # <<>>
    PROVE  /\ NumbersInv(h) /\ EdgesInv(h) /\ Numbered(g, h, a)
           /\ h.tradingPairForOffer = g.tradingPairForOffer /\ h.liquidityPools = g.liquidityPools
           /\ \A x, y : Sel(h, x, y) = Sel(g, x, y)
<1> DEFINE id == Last(g.vacantIDs)
<1>1. NumbersInv(g) /\ EdgesInv(g) /\ DOMAIN g = DOMAIN emptyGraph
  BY DEF CoreInv, NumbersInv
<1>2. /\ Front(g.vacantIDs) \in Seq(Nat) /\ IsInjective(Front(g.vacantIDs))
      /\ ToSet(Front(g.vacantIDs)) = ToSet(g.vacantIDs) \ {id} /\ id \in ToSet(g.vacantIDs) /\ id \in Nat
  BY <1>1, FrontFacts DEF NumbersInv
<1>3. id \in DOMAIN g.idToAssetString /\ g.idToAssetString[id] = Vacant
  BY <1>1, <1>2, LiveNames DEF NumbersInv
<1> HIDE DEF id
<1>4. h = [g EXCEPT !.vacantIDs = Front(@), !.idToAssetString[id] = a, !.assetStringToID = Put(@, a, id)]
  BY DEF getOrCreateAssetID, id
<1>5. /\ DOMAIN h = DOMAIN emptyGraph /\ h.failed = g.failed
      /\ h.idToAssetString = [g.idToAssetString EXCEPT ![id] = a]
      /\ h.assetStringToID = Put(g.assetStringToID, a, id) /\ h.vacantIDs = Front(g.vacantIDs)
      /\ h.venuesForSellingAsset = g.venuesForSellingAsset /\ h.venuesForBuyingAsset = g.venuesForBuyingAsset
      /\ h.tradingPairForOffer = g.tradingPairForOffer /\ h.liquidityPools = g.liquidityPools
  BY <1>1, <1>4, FieldNames
<1>6. /\ h.idToAssetString \in Seq(Nat) /\ Len(h.idToAssetString) = Len(g.idToAssetString)
      /\ DOMAIN h.idToAssetString = DOMAIN g.idToAssetString
      /\ \A i \in DOMAIN g.idToAssetString : h.idToAssetString[i] = IF i = id THEN a ELSE g.idToAssetString[i]
  <2>1. g.idToAssetString \in Seq(Nat) /\ id \in 1 .. Len(g.idToAssetString)
    BY <1>1, <1>3, LenProperties DEF NumbersInv
  <2> QED
    BY <1>5, <2>1, ExceptSeq
<1>7. Live(h) = Live(g) \cup {id} /\ vacantCells(h) = vacantCells(g) \ {id} /\ id \notin Live(g)
  BY <1>3, <1>6, LiveNames DEF Vacant
<1>8. /\ DOMAIN h.assetStringToID = DOMAIN g.assetStringToID \cup {a} /\ h.assetStringToID[a] = id
      /\ \A b \in DOMAIN g.assetStringToID : h.assetStringToID[b] = g.assetStringToID[b]
  BY <1>5 DEF Put
<1>9. \A i \in Live(g) : h.idToAssetString[i] = g.idToAssetString[i]
  BY <1>6, <1>7, LiveNames
<1>10. Numbered(g, h, a)
  BY <1>7, <1>8, <1>9 DEF Numbered
<1>11. NumbersInv(h)
  <2>1. \A i \in Live(h) : h.idToAssetString[i] \in DOMAIN h.assetStringToID
                           /\ h.assetStringToID[h.idToAssetString[i]] = i
    BY <1>1, <1>3, <1>6, <1>7, <1>8, <1>9, SMTT(30) DEF NumbersInv
  <2>2. \A b \in DOMAIN h.assetStringToID :
          b # Vacant /\ h.assetStringToID[b] \in DOMAIN h.idToAssetString
          /\ h.idToAssetString[h.assetStringToID[b]] = b
    <3> TAKE b \in DOMAIN h.assetStringToID
    <3>1. CASE b = a
      BY <1>3, <1>6, <1>8, <3>1 DEF Vacant
    <3>2. CASE b # a
      <4>1. b \in DOMAIN g.assetStringToID /\ h.assetStringToID[b] = g.assetStringToID[b]
        BY <1>8, <3>2
      <4>2. /\ b # Vacant /\ g.assetStringToID[b] \in DOMAIN g.idToAssetString
            /\ g.idToAssetString[g.assetStringToID[b]] = b
        BY <1>1, <4>1 DEF NumbersInv
      <4> QED
        BY <1>3, <1>6, <4>1, <4>2
    <3> QED
      BY <3>1, <3>2
  <2>3. IsInjective(h.vacantIDs) /\ ToSet(h.vacantIDs) = vacantCells(h) /\ h.vacantIDs \in Seq(Nat)
    BY <1>1, <1>2, <1>5, <1>7 DEF NumbersInv
  <2> QED
    BY <1>1, <1>5, <1>6, <2>1, <2>2, <2>3 DEF NumbersInv
<1>12. \A x, y : Sel(h, x, y) = Sel(g, x, y) /\ Buy(h, x, y) = Buy(g, x, y)
  BY <1>5 DEF Sel, Buy
<1>13. EdgesInv(h)
  BY <1>1, <1>5, <1>6, <1>7, <1>12 DEF EdgesInv, TableInv
<1> QED
  BY <1>5, <1>10, <1>11, <1>12, <1>13

\* An asset that is new gets the next number if none is vacant (getOrCreateAssetID).
LEMMA NumberAdded ==
    ASSUME NEW g, CoreInv(g), NEW a \in Nat \ {0}, NEW h, h = getOrCreateAssetID(g, a),
           a \notin DOMAIN g.assetStringToID, g.vacantIDs = <<>>
    PROVE  /\ NumbersInv(h) /\ EdgesInv(h) /\ Numbered(g, h, a)
           /\ h.tradingPairForOffer = g.tradingPairForOffer /\ h.liquidityPools = g.liquidityPools
           /\ \A x, y : Sel(h, x, y) = Sel(g, x, y)
<1> DEFINE id == Len(g.idToAssetString) + 1
<1>1. NumbersInv(g) /\ EdgesInv(g) /\ DOMAIN g = DOMAIN emptyGraph
  BY DEF CoreInv, NumbersInv
<1>2. g.idToAssetString \in Seq(Nat) /\ DOMAIN g.idToAssetString = 1 .. Len(g.idToAssetString)
      /\ Len(g.idToAssetString) \in Nat
  BY <1>1, LenProperties DEF NumbersInv
<1>3. id \notin DOMAIN g.idToAssetString
  BY <1>2
<1>4. h = [g EXCEPT !.idToAssetString = Append(@, a),
                    !.venuesForBuyingAsset = Append(@, NoEdges),
                    !.venuesForSellingAsset = Append(@, NoEdges),
                    !.assetStringToID = Put(@, a, id)]
  BY DEF getOrCreateAssetID
<1>5. /\ DOMAIN h = DOMAIN emptyGraph /\ h.failed = g.failed
      /\ h.idToAssetString = Append(g.idToAssetString, a)
      /\ h.assetStringToID = Put(g.assetStringToID, a, id) /\ h.vacantIDs = g.vacantIDs
      /\ h.venuesForSellingAsset = Append(g.venuesForSellingAsset, NoEdges)
      /\ h.venuesForBuyingAsset = Append(g.venuesForBuyingAsset, NoEdges)
      /\ h.tradingPairForOffer = g.tradingPairForOffer /\ h.liquidityPools = g.liquidityPools
  BY <1>1, <1>4, FieldNames
<1>6. /\ h.idToAssetString \in Seq(Nat) /\ Len(h.idToAssetString) = id
      /\ DOMAIN h.idToAssetString = DOMAIN g.idToAssetString \cup {id}
      /\ h.idToAssetString[id] = a
      /\ \A i \in DOMAIN g.idToAssetString : h.idToAssetString[i] = g.idToAssetString[i]
  <2>1. /\ h.idToAssetString \in Seq(Nat) /\ Len(h.idToAssetString) = id
        /\ h.idToAssetString[id] = a
        /\ \A i \in 1 .. Len(g.idToAssetString) : h.idToAssetString[i] = g.idToAssetString[i]
    BY <1>2, <1>5, AppendProperties
  <2>2. DOMAIN h.idToAssetString = 1 .. id
    BY <2>1, LenProperties
  <2>3. 1 .. id = (1 .. Len(g.idToAssetString)) \cup {id}
    BY <1>2
  <2> QED
    BY <1>2, <2>1, <2>2, <2>3
<1>10. Len(h.idToAssetString) = Len(g.idToAssetString) + 1
  BY <1>6
<1> HIDE DEF id
<1>7. Live(h) = Live(g) \cup {id} /\ vacantCells(h) = vacantCells(g) /\ id \notin Live(g)
  <2>1. a # Vacant
    BY DEF Vacant
  <2>2. \A i : i \in Live(h) <=> i \in Live(g) \/ i = id
    BY <1>3, <1>6, <2>1, LiveNames
  <2>3. \A i : i \in vacantCells(h) <=> i \in vacantCells(g)
    BY <1>3, <1>6, <2>1, LiveNames
  <2> QED
    BY <1>3, <2>2, <2>3, LiveNames
<1>8. /\ DOMAIN h.assetStringToID = DOMAIN g.assetStringToID \cup {a} /\ h.assetStringToID[a] = id
      /\ \A b \in DOMAIN g.assetStringToID : h.assetStringToID[b] = g.assetStringToID[b]
  BY <1>5 DEF Put
<1>9. \A i \in Live(g) : h.idToAssetString[i] = g.idToAssetString[i]
  BY <1>6, LiveNames
<1>11. NumbersInv(h)
  <2>1. \A i \in Live(h) : h.idToAssetString[i] \in DOMAIN h.assetStringToID
                           /\ h.assetStringToID[h.idToAssetString[i]] = i
    BY <1>1, <1>6, <1>7, <1>8, <1>9, SMTT(30) DEF NumbersInv
  <2>2. \A b \in DOMAIN h.assetStringToID :
          b # Vacant /\ h.assetStringToID[b] \in DOMAIN h.idToAssetString
          /\ h.idToAssetString[h.assetStringToID[b]] = b
    <3> TAKE b \in DOMAIN h.assetStringToID
    <3>1. CASE b = a
      BY <1>6, <1>8, <3>1 DEF Vacant
    <3>2. CASE b # a
      <4>1. b \in DOMAIN g.assetStringToID /\ h.assetStringToID[b] = g.assetStringToID[b]
        BY <1>8, <3>2
      <4>2. /\ b # Vacant /\ g.assetStringToID[b] \in DOMAIN g.idToAssetString
            /\ g.idToAssetString[g.assetStringToID[b]] = b
        BY <1>1, <4>1 DEF NumbersInv
      <4> QED
        BY <1>6, <4>1, <4>2
    <3> QED
      BY <3>1, <3>2
  <2>3. IsInjective(h.vacantIDs) /\ ToSet(h.vacantIDs) = vacantCells(h) /\ h.vacantIDs \in Seq(Nat)
    BY <1>1, <1>5, <1>7 DEF NumbersInv
  <2> QED
    BY <1>1, <1>5, <1>6, <2>1, <2>2, <2>3 DEF NumbersInv
<1>12. /\ \A x, y : Sel(h, x, y) = Sel(g, x, y) /\ Buy(h, x, y) = Buy(g, x, y)
       /\ TableInv(h, h.venuesForSellingAsset) /\ TableInv(h, h.venuesForBuyingAsset)
  <2>1. TableInv(g, g.venuesForSellingAsset) /\ TableInv(g, g.venuesForBuyingAsset)
    BY <1>1 DEF EdgesInv
  <2>2. /\ TableInv(h, h.venuesForSellingAsset)
        /\ \A x, y : At(h.venuesForSellingAsset, x, y) = At(g.venuesForSellingAsset, x, y)
    <3>1. h.venuesForSellingAsset = Longer(g.venuesForSellingAsset)
      BY <1>5 DEF Longer
    <3> QED
      BY <1>10, <2>1, <3>1, LongerTable
  <2>3. /\ TableInv(h, h.venuesForBuyingAsset)
        /\ \A x, y : At(h.venuesForBuyingAsset, x, y) = At(g.venuesForBuyingAsset, x, y)
    <3>1. h.venuesForBuyingAsset = Longer(g.venuesForBuyingAsset)
      BY <1>5 DEF Longer
    <3> QED
      BY <1>10, <2>1, <3>1, LongerTable
  <2> QED
    BY <2>2, <2>3 DEF Sel, Buy
<1>13. EdgesInv(h)
  BY <1>1, <1>7, <1>12 DEF EdgesInv
<1>14. Numbered(g, h, a)
  BY <1>7, <1>8, <1>9 DEF Numbered
<1> QED
  BY <1>5, <1>11, <1>12, <1>13, <1>14

\* Busy numbers are the same as long as the venues are.
LEMMA SameBusy ==
    ASSUME NEW g, NEW h, \A x, y : Sel(h, x, y) = Sel(g, x, y)
    PROVE  \A i : Busy(h, i) <=> Busy(g, i)
BY DEF Busy

\* getOrCreateAssetID keeps the graph in order; only the number it gives may be without venues.
LEMMA NumberGiven ==
    ASSUME NEW g, CoreInv(g), NEW a \in Nat \ {0}, NEW h, h = getOrCreateAssetID(g, a)
    PROVE  /\ CoreInv(h) /\ SameBook(g, h) /\ Numbered(g, h, a)
           /\ \A idle : UsedInv(g, idle) => UsedInv(h, idle \cup {h.assetStringToID[a]})
<1>1. NumbersInv(g) /\ EdgesInv(g)
  BY DEF CoreInv
<1>2. /\ NumbersInv(h) /\ EdgesInv(h) /\ Numbered(g, h, a)
      /\ h.tradingPairForOffer = g.tradingPairForOffer /\ h.liquidityPools = g.liquidityPools
      /\ \A x, y : Sel(h, x, y) = Sel(g, x, y)
  <2>1. CASE a \in DOMAIN g.assetStringToID
    <3>1. h = g
      BY <2>1 DEF getOrCreateAssetID
    <3>2. g.assetStringToID[a] \in Live(g)
      BY <1>1, <2>1, NameOfNumber
    <3> QED
      BY <1>1, <2>1, <3>1, <3>2 DEF Numbered
  <2>2. CASE a \notin DOMAIN g.assetStringToID /\ g.vacantIDs # <<>>
    BY <2>2, NumberReused
  <2>3. CASE a \notin DOMAIN g.assetStringToID /\ g.vacantIDs = <<>>
    BY <2>3, NumberAdded
  <2> QED
    BY <2>1, <2>2, <2>3
<1>3. SameBook(g, h)
  BY <1>1, <1>2 DEF SameBook, EdgesInv, Numbered
<1>4. CoreInv(h)
  BY <1>2, <1>3, Frame DEF CoreInv
<1>5. \A idle : UsedInv(g, idle) => UsedInv(h, idle \cup {h.assetStringToID[a]})
  BY <1>2, SameBusy DEF UsedInv, Numbered
<1> QED
  BY <1>2, <1>3, <1>4, <1>5

\* A number has venues if and only if it has edges in one of the tables.
LEMMA BusyEdges ==
    ASSUME NEW g, NumbersInv(g), EdgesInv(g), NEW i \in DOMAIN g.idToAssetString
    PROVE  /\ i \in DOMAIN g.venuesForSellingAsset /\ i \in DOMAIN g.venuesForBuyingAsset
           /\ Busy(g, i) <=> DOMAIN g.venuesForBuyingAsset[i] # {} \/ DOMAIN g.venuesForSellingAsset[i] # {}
<1> DEFINE S == g.venuesForSellingAsset
           B == g.venuesForBuyingAsset
<1>1. TableInv(g, S) /\ TableInv(g, B)
  BY DEF EdgesInv
<1>2. i \in DOMAIN S /\ i \in DOMAIN B
  BY <1>1, LenProperties DEF TableInv, NumbersInv
<1>3. \A y : (y \in DOMAIN S[i] <=> Sel(g, i, y) # NoVenues) /\ (y \in DOMAIN B[i] <=> Buy(g, i, y) # NoVenues)
  BY <1>1, <1>2 DEF TableInv, At, venuesAt, Sel, Buy
<1>4. \A y : Buy(g, i, y) = Sel(g, y, i)
  BY DEF EdgesInv
<1> HIDE DEF S, B
<1>5. Busy(g, i) <=> DOMAIN B[i] # {} \/ DOMAIN S[i] # {}
  BY <1>3, <1>4 DEF Busy
<1> QED
  BY <1>2, <1>5 DEF S, B

\* The number of an asset without venues becomes vacant (maybeDeleteAsset).
LEMMA NumberVacated ==
    ASSUME NEW g, CoreInv(g), NEW id \in Live(g), ~ Busy(g, id), NEW h, h = maybeDeleteAsset(g, id)
    PROVE  /\ NumbersInv(h) /\ EdgesInv(h) /\ Live(h) = Live(g) \ {id}
           /\ h.tradingPairForOffer = g.tradingPairForOffer /\ h.liquidityPools = g.liquidityPools
           /\ \A x, y : Sel(h, x, y) = Sel(g, x, y)
           /\ \A i \in DOMAIN g.idToAssetString : i # id => h.idToAssetString[i] = g.idToAssetString[i]
<1> DEFINE name == g.idToAssetString[id]
<1>1. NumbersInv(g) /\ EdgesInv(g) /\ DOMAIN g = DOMAIN emptyGraph
  BY DEF CoreInv, NumbersInv
<1>2. id \in DOMAIN g.idToAssetString /\ name # Vacant /\ id \notin vacantCells(g) /\ id \in Nat
  <2>1. id \in DOMAIN g.idToAssetString
    BY LiveNames
  <2>2. id \in Nat
    BY <1>1, <2>1, LenProperties DEF NumbersInv
  <2> QED
    BY <2>1, <2>2, LiveNames
<1>3. h = [g EXCEPT !.assetStringToID = Without(@, name), !.idToAssetString[id] = Vacant,
                    !.vacantIDs = Append(@, id)]
  BY <1>1, <1>2, BusyEdges DEF maybeDeleteAsset
<1>4. /\ DOMAIN h = DOMAIN emptyGraph /\ h.failed = g.failed
      /\ h.idToAssetString = [g.idToAssetString EXCEPT ![id] = Vacant]
      /\ h.assetStringToID = Without(g.assetStringToID, name) /\ h.vacantIDs = Append(g.vacantIDs, id)
      /\ h.venuesForSellingAsset = g.venuesForSellingAsset /\ h.venuesForBuyingAsset = g.venuesForBuyingAsset
      /\ h.tradingPairForOffer = g.tradingPairForOffer /\ h.liquidityPools = g.liquidityPools
  BY <1>1, <1>3, FieldNames
<1>5. /\ h.idToAssetString \in Seq(Nat) /\ Len(h.idToAssetString) = Len(g.idToAssetString)
      /\ DOMAIN h.idToAssetString = DOMAIN g.idToAssetString
      /\ \A i \in DOMAIN g.idToAssetString : h.idToAssetString[i] = IF i = id THEN Vacant ELSE g.idToAssetString[i]
  <2>1. g.idToAssetString \in Seq(Nat) /\ id \in 1 .. Len(g.idToAssetString)
    BY <1>1, <1>2, LenProperties DEF NumbersInv
  <2>2. Vacant \in Nat
    BY DEF Vacant
  <2> QED
    BY <1>4, <2>1, <2>2, ExceptSeq
<1>6. Live(h) = Live(g) \ {id} /\ vacantCells(h) = vacantCells(g) \cup {id}
  <2>1. \A i : i \in Live(h) <=> i \in Live(g) /\ i # id
    BY <1>2, <1>5, LiveNames
  <2>2. \A i : i \in vacantCells(h) <=> i \in vacantCells(g) \/ i = id
    BY <1>2, <1>5, LiveNames
  <2> QED
    BY <2>1, <2>2
<1>7. /\ DOMAIN h.assetStringToID = DOMAIN g.assetStringToID \ {name}
      /\ \A b \in DOMAIN h.assetStringToID : h.assetStringToID[b] = g.assetStringToID[b]
  BY <1>4 DEF Without
<1>8. NumbersInv(h)
  <2>1. ASSUME NEW i \in Live(h)
        PROVE  h.idToAssetString[i] \in DOMAIN h.assetStringToID /\ h.assetStringToID[h.idToAssetString[i]] = i
    <3>1. i \in Live(g) /\ i # id /\ h.idToAssetString[i] = g.idToAssetString[i]
      BY <1>5, <1>6, LiveNames
    <3>2. /\ g.idToAssetString[i] \in DOMAIN g.assetStringToID /\ g.assetStringToID[g.idToAssetString[i]] = i
          /\ g.assetStringToID[name] = id
      BY <1>1, <3>1 DEF NumbersInv
    <3> QED
      BY <1>7, <3>1, <3>2
  <2>2. ASSUME NEW b \in DOMAIN h.assetStringToID
        PROVE  b # Vacant /\ h.assetStringToID[b] \in DOMAIN h.idToAssetString
               /\ h.idToAssetString[h.assetStringToID[b]] = b
    <3>1. b # name /\ b \in DOMAIN g.assetStringToID /\ h.assetStringToID[b] = g.assetStringToID[b]
      BY <1>7
    <3>2. /\ b # Vacant /\ g.assetStringToID[b] \in DOMAIN g.idToAssetString
          /\ g.idToAssetString[g.assetStringToID[b]] = b
      BY <1>1, <3>1 DEF NumbersInv
    <3> QED
      BY <1>5, <3>1, <3>2
  <2>3. IsInjective(h.vacantIDs) /\ ToSet(h.vacantIDs) = vacantCells(h) /\ h.vacantIDs \in Seq(Nat)
    <3>1. g.vacantIDs \in Seq(Nat) /\ IsInjective(g.vacantIDs) /\ ToSet(g.vacantIDs) = vacantCells(g)
      BY <1>1 DEF NumbersInv
    <3>2. id \notin ToSet(g.vacantIDs)
      BY <1>2, <3>1
    <3> QED
      BY <1>2, <1>4, <1>6, <3>1, <3>2, AppendFacts
  <2> QED
    BY <1>1, <1>4, <1>5, <2>1, <2>2, <2>3 DEF NumbersInv
<1>9. \A x, y : Sel(h, x, y) = Sel(g, x, y) /\ Buy(h, x, y) = Buy(g, x, y)
  BY <1>4 DEF Sel, Buy
<1>10. EdgesInv(h)
  BY <1>1, <1>4, <1>5, <1>6, <1>9 DEF EdgesInv, TableInv, Busy
<1> QED
  BY <1>4, <1>5, <1>6, <1>8, <1>9, <1>10

\* maybeDeleteAsset keeps the graph in order and settles whether its number is in use.
LEMMA NumberKept ==
    ASSUME NEW g, CoreInv(g), NEW id \in Live(g), NEW h, h = maybeDeleteAsset(g, id)
    PROVE  /\ CoreInv(h) /\ SameBook(g, h) /\ Live(g) \ {id} \subseteq Live(h)
           /\ \A idle : UsedInv(g, idle) => UsedInv(h, idle \ {id})
<1>1. NumbersInv(g) /\ EdgesInv(g)
  BY DEF CoreInv
<1>2. id \in DOMAIN g.idToAssetString
  BY LiveNames
<1>3. CASE Busy(g, id)
  <2>1. h = g
    BY <1>1, <1>2, <1>3, BusyEdges DEF maybeDeleteAsset
  <2> QED
    BY <1>3, <2>1 DEF SameBook, UsedInv
<1>4. CASE ~ Busy(g, id)
  <2>1. /\ NumbersInv(h) /\ EdgesInv(h) /\ Live(h) = Live(g) \ {id}
        /\ h.tradingPairForOffer = g.tradingPairForOffer /\ h.liquidityPools = g.liquidityPools
        /\ \A x, y : Sel(h, x, y) = Sel(g, x, y)
        /\ \A i \in DOMAIN g.idToAssetString : i # id => h.idToAssetString[i] = g.idToAssetString[i]
    BY <1>4, NumberVacated
  <2>2. \A x, y : Sel(g, x, y) # NoVenues => x # id /\ y # id
    BY <1>4 DEF Busy
  <2>3. SameBook(g, h)
    BY <1>1, <2>1, <2>2, LiveNames DEF SameBook, EdgesInv
  <2>4. CoreInv(h)
    BY <2>1, <2>3, Frame DEF CoreInv
  <2> QED
    BY <2>1, <2>3, <2>4, SameBusy DEF UsedInv
<1> QED
  BY <1>3, <1>4

(* The offers of a pair, in order of price. *)

\* Prices compare like the fractions they stand for.
LEMMA ProductOrder ==
    ASSUME NEW a \in Nat, NEW b \in Nat, NEW c \in Nat \ {0}
    PROVE  (a < b => a * c < b * c) /\ (a <= b => a * c <= b * c)
<1>1. \A k \in Nat : (a + k) * c = a * c + k * c
  OBVIOUS
<1>2. CASE a <= b
  <2>1. b - a \in Nat /\ a + (b - a) = b
    BY <1>2
  <2>2. b * c = a * c + (b - a) * c
    BY <1>1, <2>1
  <2>3. (b - a) * c \in Nat /\ (b - a # 0 => (b - a) * c # 0)
    BY <2>1
  <2>4. a * c \in Nat /\ b * c \in Nat
    OBVIOUS
  <2> QED
    BY <2>1, <2>2, <2>3, <2>4
<1> QED
  BY <1>2

\* Of two prices at most one is cheaper.
LEMMA CheaperAsym ==
    ASSUME NEW p, NEW q, p.n \in Nat, q.n \in Nat, p.d \in Nat, q.d \in Nat, Cheaper(p, q)
    PROVE  ~ Cheaper(q, p)
<1>1. \A a, b \in Int : a < b => ~(b < a)
  OBVIOUS
<1>2. p.n * q.d \in Int /\ q.n * p.d \in Int
  OBVIOUS
<1> QED
  BY <1>1, <1>2 DEF Cheaper

\* What is not cheaper than the dearer price is not cheaper than the cheaper one.
LEMMA CheaperOrder ==
    ASSUME NEW p, NEW q, NEW r, p.n \in Nat, q.n \in Nat, r.n \in Nat,
           p.d \in Nat \ {0}, q.d \in Nat \ {0}, r.d \in Nat \ {0},
           Cheaper(p, q), ~ Cheaper(r, q)
    PROVE  ~ Cheaper(r, p)
<1> SUFFICES ASSUME r.n * p.d < p.n * r.d
             PROVE  FALSE
  BY DEF Cheaper
<1>1. p.n * q.d < q.n * p.d /\ q.n * r.d <= r.n * q.d
  BY DEF Cheaper
<1>2. (r.n * p.d) * q.d < (p.n * r.d) * q.d
  BY ProductOrder
<1>3. (p.n * q.d) * r.d < (q.n * p.d) * r.d
  BY <1>1, ProductOrder
<1>4. (q.n * r.d) * p.d <= (r.n * q.d) * p.d
  BY <1>1, ProductOrder
<1>5. /\ (p.n * r.d) * q.d = (p.n * q.d) * r.d
      /\ (q.n * p.d) * r.d = (q.n * r.d) * p.d
      /\ (r.n * q.d) * p.d = (r.n * p.d) * q.d
  OBVIOUS
<1> QED
  BY <1>2, <1>3, <1>4, <1>5

\* The lists that edgeRemoveOffer and edgeAddOffer leave.
RemovedFrom(list, id) == RemoveAt(list, SelectInSeq(list, LAMBDA o : o.id = id))
InsertedIn(list, offer) ==
    LET dearer == SelectInSeq(list, LAMBDA o : Cheaper(offer.price, o.price))
        at == IF dearer = 0 THEN Len(list) + 1 ELSE dearer
    IN InsertAt(list, at, offer)

\* Taking an offer out of a pair's list keeps its order and all other offers.
LEMMA OfferRemoved ==
    ASSUME NEW list \in Seq(Offers), Sorted(list), NEW id, \E o \in ToSet(list) : o.id = id,
           NEW new, new = RemovedFrom(list, id)
    PROVE  new \in Seq(Offers) /\ Sorted(new) /\ ToSet(new) = {o \in ToSet(list) : o.id # id}
<1> DEFINE I == {i \in 1 .. Len(list) : list[i].id = id}
           at == SelectInSeq(list, LAMBDA o : o.id = id)
<1>1. DOMAIN list = 1 .. Len(list) /\ Len(list) \in Nat
  BY LenProperties
<1>2. at = Min(I) /\ I # {} /\ I \subseteq Nat
  BY <1>1 DEF SelectInSeq, ToSet
<1>3. at \in DOMAIN list /\ list[at].id = id
  <2>1. Min(I) \in I
    BY <1>2, LeastIn
  <2> QED
    BY <1>1, <1>2, <2>1
<1>4. new = RemoveAt(list, at)
  BY DEF RemovedFrom
<1> HIDE DEF at, I
<1>5. /\ new \in Seq(Offers) /\ Len(new) = Len(list) - 1
      /\ \A j \in 1 .. Len(new) : new[j] = list[IF j < at THEN j ELSE j + 1]
  <2>1. at \in 1 .. Len(list)
    BY <1>1, <1>3
  <2> QED
    BY <1>4, <2>1, RemoveFacts
<1>6. DOMAIN new = 1 .. Len(list) - 1
  BY <1>5, LenProperties
<1> DEFINE from(j) == IF j < at THEN j ELSE j + 1
<1>7. \A j \in DOMAIN new : from(j) \in DOMAIN list /\ from(j) # at /\ new[j] = list[from(j)]
  BY <1>1, <1>3, <1>5, <1>6
<1>8. \A m, n \in DOMAIN new : m < n => from(m) < from(n)
  BY <1>1, <1>3, <1>6
<1>9. \A k \in DOMAIN list : k # at => \E j \in DOMAIN new : from(j) = k
  <2> SUFFICES ASSUME NEW k \in DOMAIN list, k # at PROVE \E j \in DOMAIN new : from(j) = k
    OBVIOUS
  <2>1. CASE k < at
    BY <1>1, <1>3, <1>6, <2>1
  <2>2. CASE k > at
    <3>1. k - 1 \in DOMAIN new /\ from(k - 1) = k
      BY <1>1, <1>3, <1>6, <2>2
    <3> QED
      BY <3>1
  <2> QED
    BY <1>1, <1>3, <2>1, <2>2
<1> HIDE DEF from
<1>10. \A k \in DOMAIN list : k # at => list[k].id # id
  <2> SUFFICES ASSUME NEW k \in DOMAIN list, k # at PROVE list[k].id # list[at].id
    BY <1>3
  <2>1. k < at \/ at < k
    BY <1>1, <1>3
  <2> QED
    BY <1>3, <2>1 DEF Sorted
<1>11. Sorted(new)
  BY <1>7, <1>8 DEF Sorted
<1>12. ToSet(new) = {o \in ToSet(list) : o.id # id}
  <2>1. ToSet(new) \subseteq {o \in ToSet(list) : o.id # id}
    BY <1>7, <1>10 DEF ToSet
  <2>2. ASSUME NEW k \in DOMAIN list, list[k].id # id PROVE list[k] \in ToSet(new)
    <3>1. PICK j \in DOMAIN new : from(j) = k
      BY <1>3, <1>9, <2>2
    <3> QED
      BY <1>7, <3>1 DEF ToSet
  <2> QED
    BY <2>1, <2>2 DEF ToSet
<1> QED
  BY <1>5, <1>11, <1>12

\* The place of an offer that is added.
LEMMA OfferInserted ==
    ASSUME NEW list \in Seq(Offers), Sorted(list), NEW offer \in Offers,
           \A o \in ToSet(list) : o.id # offer.id, NEW new, new = InsertedIn(list, offer)
    PROVE  new \in Seq(Offers) /\ Sorted(new) /\ ToSet(new) = ToSet(list) \cup {offer}
<1> DEFINE I == {i \in 1 .. Len(list) : Cheaper(offer.price, list[i].price)}
           dearer == SelectInSeq(list, LAMBDA o : Cheaper(offer.price, o.price))
           at == IF dearer = 0 THEN Len(list) + 1 ELSE dearer
<1>1. DOMAIN list = 1 .. Len(list) /\ Len(list) \in Nat /\ \A i \in DOMAIN list : list[i] \in Offers
  BY LenProperties
<1>2. dearer = IF I # {} THEN Min(I) ELSE 0
  BY DEF SelectInSeq
<1>3. new = InsertAt(list, at, offer)
  BY DEF InsertedIn
<1> HIDE DEF dearer
<1>4. /\ at \in 1 .. Len(list) + 1
      /\ \A i \in 1 .. at - 1 : ~ Cheaper(offer.price, list[i].price)
      /\ at <= Len(list) => Cheaper(offer.price, list[at].price)
  <2>1. CASE I = {}
    <3>1. at = Len(list) + 1
      BY <1>2, <2>1
    <3> HIDE DEF at
    <3>2. \A i \in 1 .. Len(list) : ~ Cheaper(offer.price, list[i].price)
      BY <2>1
    <3> QED
      BY <1>1, <3>1, <3>2
  <2>2. CASE I # {}
    <3>1. I \in SUBSET Nat
      BY <1>1
    <3>2. Min(I) \in I /\ \A i \in I : Min(I) <= i
      BY <2>2, <3>1, LeastIn
    <3>3. Min(I) \in 1 .. Len(list) /\ Cheaper(offer.price, list[Min(I)].price)
      BY <3>2
    <3>4. at = Min(I)
      BY <1>2, <2>2, <3>3
    <3> HIDE DEF at
    <3>5. \A i \in 1 .. at - 1 : ~ Cheaper(offer.price, list[i].price)
      BY <1>1, <3>2, <3>3, <3>4
    <3> QED
      BY <1>1, <3>3, <3>4, <3>5
  <2> QED
    BY <2>1, <2>2
<1> HIDE DEF at, I
<1>5. /\ new \in Seq(Offers) /\ Len(new) = Len(list) + 1
      /\ \A j \in 1 .. Len(new) : new[j] = IF j < at THEN list[j] ELSE IF j = at THEN offer ELSE list[j - 1]
  <2>1. at \in 1 .. Len(list) + 1
    BY <1>4
  <2>2. Grown(Offers, new, list, at, offer)
    BY <1>3, <2>1, InsertFacts
  <2> QED
    BY <2>2 DEF Grown
<1>6. DOMAIN new = 1 .. Len(list) + 1
  BY <1>1, <1>5, LenProperties
<1> DEFINE from(j) == IF j < at THEN j ELSE j - 1
<1>7. \A j \in DOMAIN new : j # at => from(j) \in DOMAIN list /\ new[j] = list[from(j)]
  BY <1>1, <1>4, <1>5, <1>6
<1>8. at \in DOMAIN new /\ new[at] = offer
  BY <1>1, <1>4, <1>5, <1>6
<1>9. \A m, n \in DOMAIN new : m < n /\ m # at /\ n # at => from(m) < from(n)
  BY <1>1, <1>4, <1>6
<1>10. \A k \in DOMAIN list : \E j \in DOMAIN new : j # at /\ from(j) = k
  <2> SUFFICES ASSUME NEW k \in DOMAIN list PROVE \E j \in DOMAIN new : j # at /\ from(j) = k
    OBVIOUS
  <2>1. CASE k < at
    BY <1>1, <1>4, <1>6, <2>1
  <2>2. CASE k >= at
    <3>1. k + 1 \in DOMAIN new /\ k + 1 # at /\ from(k + 1) = k
      BY <1>1, <1>4, <1>6, <2>2
    <3> QED
      BY <3>1
  <2> QED
    BY <1>1, <1>4, <2>1, <2>2
<1>11. \A n \in DOMAIN new : n > at => ~ Cheaper(list[from(n)].price, offer.price)
  <2> SUFFICES ASSUME NEW n \in DOMAIN new, n > at PROVE ~ Cheaper(list[from(n)].price, offer.price)
    OBVIOUS
  <2>1. at \in DOMAIN list /\ from(n) \in DOMAIN list /\ at <= from(n)
    BY <1>1, <1>4, <1>6
  <2>2. Cheaper(offer.price, list[at].price)
    BY <1>1, <1>4, <2>1
  <2>3. CASE at = from(n)
    <3>1. list[at] \in Offers
      BY <1>1, <2>1
    <3>2. /\ list[at].price.n \in Nat /\ list[at].price.d \in Nat /\ offer.price.n \in Nat /\ offer.price.d \in Nat
      BY <3>1, EntriesAssumption
    <3> QED
      BY <2>2, <2>3, <3>2, CheaperAsym
  <2>4. CASE at < from(n)
    <3>1. ~ Cheaper(list[from(n)].price, list[at].price)
      BY <2>1, <2>4 DEF Sorted
    <3>2. list[at] \in Offers /\ list[from(n)] \in Offers
      BY <1>1, <2>1
    <3> QED
      BY <2>2, <3>1, <3>2, CheaperOrder, EntriesAssumption
  <2> QED
    BY <1>1, <2>1, <2>3, <2>4
<1>12. \A m \in DOMAIN new : m < at => ~ Cheaper(offer.price, list[from(m)].price)
  BY <1>1, <1>4, <1>6
<1> HIDE DEF from
<1>13. ToSet(new) = ToSet(list) \cup {offer}
  <2>1. \A j \in DOMAIN new : new[j] \in ToSet(list) \cup {offer}
    BY <1>7, <1>8 DEF ToSet
  <2>2. ASSUME NEW k \in DOMAIN list PROVE list[k] \in ToSet(new)
    <3>1. PICK j \in DOMAIN new : j # at /\ from(j) = k
      BY <1>10
    <3> QED
      BY <1>7, <3>1 DEF ToSet
  <2> QED
    BY <1>8, <2>1, <2>2 DEF ToSet
<1>14. ASSUME NEW m \in DOMAIN new, NEW n \in DOMAIN new, m < n
       PROVE  new[m].id # new[n].id /\ ~ Cheaper(new[n].price, new[m].price)
  <2>0. \A k \in DOMAIN list : list[k].id # offer.id
    BY DEF ToSet
  <2>1. CASE m = at
    <3>1. n # at /\ n > at
      BY <1>6, <1>14, <2>1
    <3> QED
      BY <1>7, <1>8, <1>11, <2>0, <2>1, <3>1
  <2>2. CASE n = at
    <3>1. m # at /\ m < at
      BY <1>6, <1>14, <2>2
    <3> QED
      BY <1>7, <1>8, <1>12, <2>0, <2>2, <3>1
  <2>3. CASE m # at /\ n # at
    BY <1>7, <1>9, <1>14, <2>3 DEF Sorted
  <2> QED
    BY <2>1, <2>2, <2>3
<1> QED
  BY <1>5, <1>13, <1>14 DEF Sorted

(* Slots, and the offers in them. *)

\* The slots of a table are the places in the lists of its pairs.
LEMMA Slots ==
    ASSUME NEW table
    PROVE  /\ \A slot : slot \in slotsOf(table) <=>
                 \E x, y, m : slot = <<x, y, m>> /\ m \in DOMAIN At(table, x, y).offers
           /\ \A x, y, m : m \in DOMAIN At(table, x, y).offers =>
                 /\ x \in DOMAIN table /\ y \in DOMAIN table[x] /\ table[x][y] = At(table, x, y)
                 /\ <<x, y, m>> \in slotsOf(table)
                 /\ offerIn(table, <<x, y, m>>) = At(table, x, y).offers[m]
<1>1. \A v : v \in venuesOf(table) <=> \E x \in DOMAIN table : \E y \in DOMAIN table[x] : v = <<x, y>>
  BY DEF venuesOf
<1>2. \A slot : slot \in slotsOf(table) <=>
          \E v \in venuesOf(table) : \E m \in DOMAIN table[v[1]][v[2]].offers : slot = <<v[1], v[2], m>>
  BY DEF slotsOf
<1>3. \A slot : slot \in slotsOf(table) <=>
          \E x \in DOMAIN table : \E y \in DOMAIN table[x] : \E m \in DOMAIN table[x][y].offers : slot = <<x, y, m>>
  <2> TAKE slot
  <2>1. ASSUME NEW v \in venuesOf(table), NEW m \in DOMAIN table[v[1]][v[2]].offers, slot = <<v[1], v[2], m>>
        PROVE  \E x \in DOMAIN table : \E y \in DOMAIN table[x] : \E n \in DOMAIN table[x][y].offers : slot = <<x, y, n>>
    <3>1. PICK x \in DOMAIN table : \E y \in DOMAIN table[x] : v = <<x, y>>
      BY <1>1
    <3>2. PICK y \in DOMAIN table[x] : v = <<x, y>>
      BY <3>1
    <3>3. v[1] = x /\ v[2] = y
      BY <3>2
    <3> QED
      BY <2>1, <3>3
  <2>2. ASSUME NEW x \in DOMAIN table, NEW y \in DOMAIN table[x], NEW m \in DOMAIN table[x][y].offers,
               slot = <<x, y, m>>
        PROVE  slot \in slotsOf(table)
    <3> DEFINE v == <<x, y>>
    <3>1. v \in venuesOf(table) /\ v[1] = x /\ v[2] = y
      BY <1>1
    <3> HIDE DEF v
    <3> QED
      BY <1>2, <2>2, <3>1
  <2> QED
    BY <1>2, <2>1, <2>2
<1>4. \A x, y, m : m \in DOMAIN At(table, x, y).offers => x \in DOMAIN table /\ y \in DOMAIN table[x]
  <2>1. DOMAIN NoVenues.offers = {}
    BY NoVenuesIsVenues
  <2> QED
    BY <2>1 DEF At, venuesAt
<1>5. \A x \in DOMAIN table : \A y \in DOMAIN table[x] : table[x][y] = At(table, x, y)
  BY DEF At, venuesAt
<1>6. \A x, y, m : m \in DOMAIN At(table, x, y).offers =>
          offerIn(table, <<x, y, m>>) = At(table, x, y).offers[m]
  BY <1>4, <1>5 DEF offerIn
<1>7. ASSUME NEW slot
      PROVE  slot \in slotsOf(table) <=> \E x, y, m : slot = <<x, y, m>> /\ m \in DOMAIN At(table, x, y).offers
  <2>1. ASSUME slot \in slotsOf(table)
        PROVE  \E x, y, m : slot = <<x, y, m>> /\ m \in DOMAIN At(table, x, y).offers
    <3>1. PICK x \in DOMAIN table : \E y \in DOMAIN table[x] : \E m \in DOMAIN table[x][y].offers : slot = <<x, y, m>>
      BY <1>3, <2>1
    <3>2. PICK y \in DOMAIN table[x] : \E m \in DOMAIN table[x][y].offers : slot = <<x, y, m>>
      BY <3>1
    <3> QED
      BY <1>5, <3>2
  <2>2. ASSUME NEW x, NEW y, NEW m, slot = <<x, y, m>>, m \in DOMAIN At(table, x, y).offers
        PROVE  slot \in slotsOf(table)
    <3>1. x \in DOMAIN table /\ y \in DOMAIN table[x] /\ table[x][y] = At(table, x, y)
      BY <1>4, <1>5, <2>2
    <3> QED
      BY <1>3, <2>2, <3>1
  <2> QED
    BY <2>1, <2>2
<1>8. \A x, y, m : m \in DOMAIN At(table, x, y).offers => <<x, y, m>> \in slotsOf(table)
  BY <1>7
<1> QED
  BY <1>4, <1>5, <1>6, <1>7, <1>8

\* The offer in a slot is the one at that place of the pair's list.
LEMMA SlotOffer ==
    ASSUME NEW table, NEW x, NEW y, NEW m \in DOMAIN At(table, x, y).offers
    PROVE  offerIn(table, <<x, y, m>>) = At(table, x, y).offers[m]
<1>1. DOMAIN NoVenues.offers = {}
  BY NoVenuesIsVenues
<1>2. x \in DOMAIN table /\ table[x][y] = At(table, x, y)
  BY <1>1 DEF At, venuesAt
<1> QED
  BY <1>2 DEF offerIn

\* An offer is in a table if it is at some place of the list of some pair.
LEMMA OffersOfTable ==
    ASSUME NEW table
    PROVE  \A o : o \in offersIn(table) <=> \E x, y : o \in ToSet(At(table, x, y).offers)
<1>1. \A o : o \in offersIn(table) <=> \E slot \in slotsOf(table) : o = offerIn(table, slot)
  BY DEF offersIn
<1> SUFFICES ASSUME NEW o PROVE o \in offersIn(table) <=> \E x, y : o \in ToSet(At(table, x, y).offers)
  OBVIOUS
<1>2. ASSUME o \in offersIn(table) PROVE \E x, y : o \in ToSet(At(table, x, y).offers)
  <2>1. PICK slot \in slotsOf(table) : o = offerIn(table, slot)
    BY <1>1, <1>2
  <2>2. PICK x, y, m : slot = <<x, y, m>> /\ m \in DOMAIN At(table, x, y).offers
    BY <2>1, Slots
  <2>3. o = At(table, x, y).offers[m]
    BY <2>1, <2>2, Slots
  <2> QED
    BY <2>2, <2>3 DEF ToSet
<1>3. ASSUME NEW x, NEW y, o \in ToSet(At(table, x, y).offers) PROVE o \in offersIn(table)
  <2>2. PICK m \in DOMAIN At(table, x, y).offers : At(table, x, y).offers[m] = o
    BY <1>3 DEF ToSet
  <2>3. offerIn(table, <<x, y, m>>) = o
    BY <2>2, SlotOffer
  <2>4. <<x, y, m>> \in slotsOf(table)
    BY <2>2, Slots, Zenon
  <2> QED
    BY <1>1, <2>3, <2>4
<1> QED
  BY <1>2, <1>3

InBook(g, o) == \E x, y : o \in ToSet(Sel(g, x, y).offers)

\* offersIn lists the offers that some pair has.
LEMMA OffersListed ==
    ASSUME NEW g
    PROVE  \A o : o \in offersIn(g.venuesForSellingAsset) <=> InBook(g, o)
BY OffersOfTable DEF InBook, Sel

(* What touches one pair. *)

\* Two graphs that differ in the venues of those who sell x and buy y.
OneEdge(g, h, x, y, v) == \A a, b : Sel(h, a, b) = IF a = x /\ b = y THEN v ELSE Sel(g, a, b)

\* Both tables know of the new venues of one who sells x and buys y.
LEMMA EdgeChanged ==
    ASSUME NEW g, NEW h, NumbersInv(g), EdgesInv(g), NEW x \in Live(g), NEW y \in Live(g),
           NEW v \in VenuesRecord, h.idToAssetString = g.idToAssetString,
           h.venuesForSellingAsset = SetCell(g.venuesForSellingAsset, x, y, v),
           h.venuesForBuyingAsset = SetCell(g.venuesForBuyingAsset, y, x, v)
    PROVE  EdgesInv(h) /\ Live(h) = Live(g) /\ OneEdge(g, h, x, y, v)
<1>1. TableInv(g, g.venuesForSellingAsset) /\ TableInv(g, g.venuesForBuyingAsset)
  BY DEF EdgesInv
<1>2. x \in DOMAIN g.idToAssetString /\ y \in DOMAIN g.idToAssetString
  BY LiveNames
<1>3. x \in Nat /\ y \in Nat
  BY <1>2, LenProperties DEF NumbersInv
<1>4. x \in DOMAIN g.venuesForSellingAsset /\ y \in DOMAIN g.venuesForBuyingAsset
  BY <1>2, BusyEdges
<1>5. /\ TableInv(h, h.venuesForSellingAsset)
      /\ \A a, b : At(h.venuesForSellingAsset, a, b)
                     = IF a = x /\ b = y THEN v ELSE At(g.venuesForSellingAsset, a, b)
  BY <1>1, <1>3, <1>4, CellChanged
<1>6. /\ TableInv(h, h.venuesForBuyingAsset)
      /\ \A a, b : At(h.venuesForBuyingAsset, a, b)
                     = IF a = y /\ b = x THEN v ELSE At(g.venuesForBuyingAsset, a, b)
  BY <1>1, <1>3, <1>4, CellChanged
<1>7. Live(h) = Live(g)
  BY DEF Live, vacantCells
<1>8. \A a, b : Sel(h, a, b) = IF a = x /\ b = y THEN v ELSE Sel(g, a, b)
  BY <1>5 DEF Sel
<1>9. \A a, b : Buy(h, a, b) = IF a = y /\ b = x THEN v ELSE Buy(g, a, b)
  BY <1>6 DEF Buy
<1>10. EdgesInv(h)
  BY <1>5, <1>6, <1>7, <1>8, <1>9 DEF EdgesInv
<1> QED
  BY <1>7, <1>8, <1>10 DEF OneEdge

\* The pools depend on the names and on the pools of the pairs only.
LEMMA PoolsFrame ==
    ASSUME NEW g, NEW h, PoolsInv(g), h.liquidityPools = g.liquidityPools,
           h.idToAssetString = g.idToAssetString, \A x, y : Sel(h, x, y).pool = Sel(g, x, y).pool
    PROVE  PoolsInv(h)
BY DEF PoolsInv

\* A step that changes the offers of one pair keeps what is said of pools.
LEMMA PoolsLeft ==
    ASSUME NEW g, NEW h, NEW x, NEW y, NEW v, OneEdge(g, h, x, y, v), v.pool = Sel(g, x, y).pool,
           PoolsInv(g), h.liquidityPools = g.liquidityPools, h.idToAssetString = g.idToAssetString
    PROVE  PoolsInv(h)
<1>1. \A a, b : Sel(h, a, b).pool = Sel(g, a, b).pool
  BY DEF OneEdge
<1> QED
  BY <1>1, PoolsFrame

\* All lists of offers are in order.
AllSorted(g) == \A a, b : Sorted(Sel(g, a, b).offers)

\* They stay in order if the one that changes does.
LEMMA StaysSorted ==
    ASSUME NEW g, NEW h, NEW x, NEW y, NEW v, OneEdge(g, h, x, y, v), Sorted(v.offers), AllSorted(g)
    PROVE  AllSorted(h)
BY DEF OneEdge, AllSorted

\* What does not change any list of offers keeps what is said of offers.
LEMMA OffersFrame ==
    ASSUME NEW g, NEW h, OffersInv(g), h.tradingPairForOffer = g.tradingPairForOffer,
           h.idToAssetString = g.idToAssetString, \A x, y : Sel(h, x, y).offers = Sel(g, x, y).offers
    PROVE  OffersInv(h)
BY DEF OffersInv, OnRecord

\* What does not change names and numbers keeps what is said of them.
LEMMA NumbersFrame ==
    ASSUME NEW g, NEW h, NumbersInv(g), DOMAIN h = DOMAIN emptyGraph, h.failed = g.failed,
           h.idToAssetString = g.idToAssetString, h.assetStringToID = g.assetStringToID,
           h.vacantIDs = g.vacantIDs
    PROVE  NumbersInv(h)
BY DEF NumbersInv, Live, vacantCells

WithOffers(v, list) == [v EXCEPT !.offers = list]
WithPool(v, pool) == [v EXCEPT !.pool = pool]

\* Venues with their offers, or their pool, replaced.
LEMMA ChangedVenues ==
    ASSUME NEW v \in VenuesRecord
    PROVE  /\ \A list \in Seq(Offers) : /\ WithOffers(v, list) \in VenuesRecord
                                        /\ WithOffers(v, list).offers = list /\ WithOffers(v, list).pool = v.pool
           /\ \A pool \in PoolVenue \cup {NoPool} :
                 /\ WithPool(v, pool) \in VenuesRecord
                 /\ WithPool(v, pool).pool = pool /\ WithPool(v, pool).offers = v.offers
BY DEF WithOffers, WithPool, VenuesRecord

\* The venues of a pair are venues.
LEMMA SelType ==
    ASSUME NEW g, EdgesInv(g)
    PROVE  \A x, y : /\ Sel(g, x, y) \in VenuesRecord /\ Sel(g, x, y).offers \in Seq(Offers)
                     /\ Sel(g, x, y).pool \in PoolVenue \cup {NoPool}
<1>1. g.venuesForSellingAsset \in Seq(EdgeSets)
  BY DEF EdgesInv, TableInv
<1>2. \A x, y : Sel(g, x, y) \in VenuesRecord
  BY <1>1, AtType DEF Sel
<1> QED
  BY <1>2 DEF VenuesRecord

\* A pair that has an offer is a pair of different numbers in use.
LEMMA OfferPair ==
    ASSUME NEW g, CoreInv(g), NEW x, NEW y, NEW o \in ToSet(Sel(g, x, y).offers)
    PROVE  x \in Live(g) /\ y \in Live(g) /\ x # y /\ o \in Offers
<1>1. Sel(g, x, y) # NoVenues
  BY NoVenuesIsVenues DEF ToSet
<1>2. x \in Live(g) /\ y \in Live(g)
  BY <1>1 DEF CoreInv, EdgesInv
<1>3. Sel(g, x, y).offers \in Seq(Offers)
  BY SelType DEF CoreInv
<1>4. o \in Offers
  BY <1>3, LenProperties DEF ToSet
<1>5. OnRecord(g, x, y, o)
  BY DEF CoreInv, OffersInv
<1>6. o.selling # o.buying
  BY <1>4, EntriesAssumption
<1> QED
  BY <1>2, <1>4, <1>5, <1>6 DEF OnRecord

\* What a graph leaves unchanged when it loses the offer id, whose pair has the venues v then.
Loses(g, h, id, x, y, v) ==
    /\ DOMAIN h = DOMAIN emptyGraph /\ h.failed = g.failed
    /\ h.idToAssetString = g.idToAssetString /\ h.assetStringToID = g.assetStringToID
    /\ h.vacantIDs = g.vacantIDs /\ h.liquidityPools = g.liquidityPools
    /\ h.tradingPairForOffer = Without(g.tradingPairForOffer, id)
    /\ h.venuesForSellingAsset = SetCell(g.venuesForSellingAsset, x, y, v)
    /\ h.venuesForBuyingAsset = SetCell(g.venuesForBuyingAsset, y, x, v)

\* The venues v have all offers of w but the one numbered id.
AllBut(v, w, id) == \A o : o \in ToSet(v.offers) <=> o \in ToSet(w.offers) /\ o.id # id

\* The graph h is in order and the book in it has all offers but that one.
Lost(g, h, id, x, y) ==
    /\ CoreInv(h) /\ Live(h) = Live(g)
    /\ \A o : InBook(h, o) <=> InBook(g, o) /\ o.id # id
    /\ \A idle : UsedInv(g, idle) => UsedInv(h, idle \cup {x, y})

\* A graph that loses one offer stays in order.
LEMMA OfferLost ==
    ASSUME NEW g, CoreInv(g), NEW id \in DOMAIN g.tradingPairForOffer, NEW x \in Live(g), NEW y \in Live(g),
           g.tradingPairForOffer[id].selling = x, g.tradingPairForOffer[id].buying = y,
           NEW v \in VenuesRecord, v.pool = Sel(g, x, y).pool, Sorted(v.offers),
           AllBut(v, Sel(g, x, y), id), NEW h, Loses(g, h, id, x, y, v)
    PROVE  Lost(g, h, id, x, y)
<1>1. NumbersInv(g) /\ EdgesInv(g) /\ OffersInv(g) /\ PoolsInv(g)
  BY DEF CoreInv
<1>e. EdgesInv(h) /\ Live(h) = Live(g) /\ OneEdge(g, h, x, y, v)
  BY <1>1, EdgeChanged DEF Loses
<1>o. OneEdge(g, h, x, y, v)
  BY <1>e
<1>8. /\ EdgesInv(h) /\ Live(h) = Live(g)
      /\ \A a, b : Sel(h, a, b) = IF a = x /\ b = y THEN v ELSE Sel(g, a, b)
  BY <1>e DEF OneEdge
<1>9. PoolsInv(h)
  BY <1>1, <1>o, PoolsLeft DEF Loses
<1>10. NumbersInv(h)
  BY <1>1, NumbersFrame DEF Loses
<1>11. DOMAIN h.tradingPairForOffer = DOMAIN g.tradingPairForOffer \ {id}
       /\ \A i \in DOMAIN h.tradingPairForOffer : h.tradingPairForOffer[i] = g.tradingPairForOffer[i]
  BY DEF Without, Loses
<1>12. \A a, b : Sorted(Sel(h, a, b).offers)
  <2>1. AllSorted(g)
    BY <1>1 DEF OffersInv, AllSorted
  <2>2. AllSorted(h)
    BY <1>o, <2>1, StaysSorted
  <2> QED
    BY <2>2 DEF AllSorted
<1>13. \A a, b : \A o \in ToSet(Sel(g, a, b).offers) : o.id = id => a = x /\ b = y
  <2> SUFFICES ASSUME NEW a, NEW b, NEW o \in ToSet(Sel(g, a, b).offers), o.id = id
               PROVE  a = x /\ b = y
    OBVIOUS
  <2>1. OnRecord(g, a, b, o)
    BY <1>1 DEF OffersInv
  <2>2. g.tradingPairForOffer[id] = [buying |-> b, selling |-> a]
    BY <2>1 DEF OnRecord
  <2> QED
    BY <2>2
<1>14. \A a, b : \A o : o \in ToSet(Sel(h, a, b).offers) <=> o \in ToSet(Sel(g, a, b).offers) /\ o.id # id
  <2> SUFFICES ASSUME NEW a, NEW b, NEW o
               PROVE  o \in ToSet(Sel(h, a, b).offers) <=> o \in ToSet(Sel(g, a, b).offers) /\ o.id # id
    OBVIOUS
  <2>2. CASE a = x /\ b = y
    <3>1. Sel(h, a, b) = v /\ Sel(g, a, b) = Sel(g, x, y)
      BY <1>8, <2>2
    <3> QED
      BY <3>1 DEF AllBut
  <2>3. CASE ~(a = x /\ b = y)
    BY <1>8, <1>13, <2>3
  <2> QED
    BY <2>2, <2>3
<1>15. \A a, b : \A o \in ToSet(Sel(h, a, b).offers) : OnRecord(h, a, b, o)
  <2> SUFFICES ASSUME NEW a, NEW b, NEW o \in ToSet(Sel(h, a, b).offers)
               PROVE  OnRecord(h, a, b, o)
    OBVIOUS
  <2>0. o \in ToSet(Sel(g, a, b).offers) /\ o.id # id
    BY <1>14
  <2>1. OnRecord(g, a, b, o) /\ o.id # id
    BY <1>1, <2>0 DEF OffersInv
  <2> QED
    BY <1>11, <2>1 DEF OnRecord, Loses
<1>16. ASSUME NEW i \in DOMAIN h.tradingPairForOffer
       PROVE  \E o \in ToSet(Sel(h, h.tradingPairForOffer[i].selling, h.tradingPairForOffer[i].buying).offers) : o.id = i
  <2>1. i # id /\ i \in DOMAIN g.tradingPairForOffer /\ h.tradingPairForOffer[i] = g.tradingPairForOffer[i]
    BY <1>11
  <2>2. PICK o \in ToSet(Sel(g, g.tradingPairForOffer[i].selling, g.tradingPairForOffer[i].buying).offers) : o.id = i
    BY <1>1, <2>1 DEF OffersInv
  <2> QED
    BY <1>14, <2>1, <2>2
<1>17. IsFiniteSet(DOMAIN h.tradingPairForOffer)
  BY <1>1, <1>11, FS_RemoveElement DEF OffersInv
<1>18. OffersInv(h)
  BY <1>12, <1>15, <1>16, <1>17 DEF OffersInv
<1>19. \A o : InBook(h, o) <=> InBook(g, o) /\ o.id # id
  BY <1>14 DEF InBook
<1>20. \A idle : UsedInv(g, idle) => UsedInv(h, idle \cup {x, y})
  <2> SUFFICES ASSUME NEW idle, UsedInv(g, idle), NEW i \in Live(h), i \notin idle, i # x, i # y
               PROVE  Busy(h, i)
    BY DEF UsedInv
  <2>1. Busy(g, i)
    BY <1>8 DEF UsedInv
  <2> QED
    BY <1>8, <2>1 DEF Busy
<1> QED
  BY <1>8, <1>9, <1>10, <1>18, <1>19, <1>20 DEF CoreInv, Lost

\* An offer that is taken out of the tables and off the record.
LEMMA OfferTaken ==
    ASSUME NEW g, CoreInv(g), NEW id \in DOMAIN g.tradingPairForOffer, NEW x, NEW y,
           x = g.tradingPairForOffer[id].selling, y = g.tradingPairForOffer[id].buying,
           NEW h, DOMAIN h = DOMAIN emptyGraph, h.failed = g.failed,
           h.idToAssetString = g.idToAssetString, h.assetStringToID = g.assetStringToID,
           h.vacantIDs = g.vacantIDs, h.liquidityPools = g.liquidityPools,
           h.tradingPairForOffer = Without(g.tradingPairForOffer, id),
           NEW v, v = WithOffers(Sel(g, x, y), RemovedFrom(Sel(g, x, y).offers, id)),
           h.venuesForSellingAsset = SetCell(g.venuesForSellingAsset, x, y, v),
           h.venuesForBuyingAsset = SetCell(g.venuesForBuyingAsset, y, x, v)
    PROVE  /\ CoreInv(h) /\ Live(h) = Live(g)
           /\ \A o : InBook(h, o) <=> InBook(g, o) /\ o.id # id
           /\ \A idle : UsedInv(g, idle) => UsedInv(h, idle \cup {x, y})
<1> DEFINE list == Sel(g, x, y).offers
           new == RemovedFrom(list, id)
<1>1. NumbersInv(g) /\ EdgesInv(g) /\ OffersInv(g) /\ PoolsInv(g)
  BY DEF CoreInv
<1>2. \E o \in ToSet(list) : o.id = id
  BY <1>1 DEF OffersInv
<1>3. x \in Live(g) /\ y \in Live(g)
  BY <1>2, OfferPair
<1>4. Sorted(list)
  BY <1>1 DEF OffersInv
<1>5. list \in Seq(Offers) /\ Sel(g, x, y) \in VenuesRecord
  BY <1>1, SelType
<1>6. new \in Seq(Offers) /\ Sorted(new) /\ ToSet(new) = {o \in ToSet(list) : o.id # id}
  <2> HIDE DEF list
  <2> QED
    BY <1>2, <1>4, <1>5, OfferRemoved
<1>7. v \in VenuesRecord /\ v.offers = new /\ v.pool = Sel(g, x, y).pool
  <2> HIDE DEF new
  <2>1. v = WithOffers(Sel(g, x, y), new)
    BY DEF new
  <2> QED
    BY <1>5, <1>6, <2>1, ChangedVenues
<1>8. Loses(g, h, id, x, y, v)
  BY DEF Loses
<1>9. Sorted(v.offers) /\ AllBut(v, Sel(g, x, y), id)
  <2>1. Sel(g, x, y).offers = list
    OBVIOUS
  <2> HIDE DEF new, list
  <2> QED
    BY <1>6, <1>7, <2>1 DEF AllBut
<1>10. Lost(g, h, id, x, y)
  BY <1>3, <1>7, <1>8, <1>9, OfferLost
<1> QED
  BY <1>10 DEF Lost

\* What the numbers of a pair without use leave to the book.
LEMMA PairKept ==
    ASSUME NEW g, CoreInv(g), NEW x \in Live(g), NEW y \in Live(g), x # y, UsedInv(g, {x, y}),
           NEW h, h = maybeDeleteAsset(maybeDeleteAsset(g, x), y)
    PROVE  CoreInv(h) /\ UsedInv(h, {}) /\ SameBook(g, h)
<1> DEFINE k == maybeDeleteAsset(g, x)
<1>1. CoreInv(k) /\ SameBook(g, k) /\ Live(g) \ {x} \subseteq Live(k) /\ UsedInv(k, {x, y} \ {x})
  BY NumberKept
<1> HIDE DEF k
<1>2. h = maybeDeleteAsset(k, y)
  BY DEF k
<1>3. y \in Live(k)
  BY <1>1
<1>4. CoreInv(h) /\ SameBook(k, h) /\ UsedInv(h, ({x, y} \ {x}) \ {y})
  BY <1>1, <1>2, <1>3, NumberKept
<1>5. ({x, y} \ {x}) \ {y} = {}
  OBVIOUS
<1>6. UsedInv(h, {})
  BY <1>4, <1>5
<1>7. SameBook(g, h)
  BY <1>1, <1>4 DEF SameBook
<1> QED
  BY <1>4, <1>6, <1>7

\* The edge operations replace the venues of one pair.
LEMMA EdgeOperations ==
    /\ \A edges, key, id : edgeRemoveOffer(edges, key, id)
         = LET v == venuesAt(edges, key) IN setVenues(edges, key, WithOffers(v, RemovedFrom(v.offers, id)))
    /\ \A edges, key, offer : edgeAddOffer(edges, key, offer)
         = LET v == venuesAt(edges, key) IN setVenues(edges, key, WithOffers(v, InsertedIn(v.offers, offer)))
    /\ \A edges, key, pool : edgeAddPool(edges, key, pool) = setVenues(edges, key, WithPool(venuesAt(edges, key), pool))
    /\ \A edges, key : edgeRemovePool(edges, key) = setVenues(edges, key, WithPool(venuesAt(edges, key), NoPool))
BY DEF edgeRemoveOffer, edgeAddOffer, edgeAddPool, edgeRemovePool, WithOffers, WithPool, RemovedFrom, InsertedIn

\* The venues of a pair of numbers in use, from either table.
LEMMA PairVenues ==
    ASSUME NEW g, NumbersInv(g), EdgesInv(g), NEW x \in Live(g), NEW y \in Live(g)
    PROVE  /\ venuesAt(g.venuesForSellingAsset[x], y) = Sel(g, x, y)
           /\ venuesAt(g.venuesForBuyingAsset[y], x) = Sel(g, x, y)
<1>1. x \in DOMAIN g.idToAssetString /\ y \in DOMAIN g.idToAssetString
  BY LiveNames
<1>2. x \in DOMAIN g.venuesForSellingAsset /\ y \in DOMAIN g.venuesForBuyingAsset
  BY <1>1, BusyEdges
<1>3. Sel(g, x, y) = Buy(g, y, x)
  BY DEF EdgesInv
<1> QED
  BY <1>2, <1>3 DEF Sel, Buy, At

\* An offer that is on record can be removed, and nothing else goes with it (removeOffer).
LEMMA RemoveOfferKeeps ==
    ASSUME NEW g, CoreInv(g), UsedInv(g, {}), NEW id \in DOMAIN g.tradingPairForOffer,
           NEW h, h = removeOffer(g, id)
    PROVE  /\ CoreInv(h) /\ UsedInv(h, {}) /\ h.liquidityPools = g.liquidityPools
           /\ \A o : InBook(h, o) <=> InBook(g, o) /\ o.id # id
           /\ id \notin DOMAIN h.tradingPairForOffer
<1> DEFINE x == g.tradingPairForOffer[id].selling
           y == g.tradingPairForOffer[id].buying
           g1 == [g EXCEPT !.tradingPairForOffer = Without(@, id)]
           g2 == [g1 EXCEPT !.venuesForSellingAsset[x] = edgeRemoveOffer(@, y, id)]
           g3 == [g2 EXCEPT !.venuesForBuyingAsset[y] = edgeRemoveOffer(@, x, id)]
           v == WithOffers(Sel(g, x, y), RemovedFrom(Sel(g, x, y).offers, id))
<1>1. NumbersInv(g) /\ EdgesInv(g) /\ DOMAIN g = DOMAIN emptyGraph
  BY DEF CoreInv, NumbersInv
<1>2. PICK o \in ToSet(Sel(g, x, y).offers) : o.id = id
  BY DEF CoreInv, OffersInv
<1>3. x \in Live(g) /\ y \in Live(g) /\ x # y
  BY <1>2, OfferPair
<1>4. /\ venuesAt(g.venuesForSellingAsset[x], y) = Sel(g, x, y)
      /\ venuesAt(g.venuesForBuyingAsset[y], x) = Sel(g, x, y)
  BY <1>1, <1>3, PairVenues
<1>5. h = maybeDeleteAsset(maybeDeleteAsset(g3, y), x)
  <2>1. /\ edgeHasOffer(g.venuesForSellingAsset[x], y, id)
        /\ edgeHasOffer(g.venuesForBuyingAsset[y], x, id)
    BY <1>2, <1>4 DEF edgeHasOffer
  <2> QED
    BY <2>1 DEF removeOffer
<1>6. /\ edgeRemoveOffer(g.venuesForSellingAsset[x], y, id) = setVenues(g.venuesForSellingAsset[x], y, v)
      /\ edgeRemoveOffer(g.venuesForBuyingAsset[y], x, id) = setVenues(g.venuesForBuyingAsset[y], x, v)
  BY <1>4, EdgeOperations
<1> HIDE DEF v, x, y
<1>7. /\ DOMAIN g3 = DOMAIN emptyGraph /\ g3.failed = g.failed
      /\ g3.idToAssetString = g.idToAssetString /\ g3.assetStringToID = g.assetStringToID
      /\ g3.vacantIDs = g.vacantIDs /\ g3.liquidityPools = g.liquidityPools
      /\ g3.tradingPairForOffer = Without(g.tradingPairForOffer, id)
      /\ g3.venuesForSellingAsset = SetCell(g.venuesForSellingAsset, x, y, v)
      /\ g3.venuesForBuyingAsset = SetCell(g.venuesForBuyingAsset, y, x, v)
  BY <1>1, <1>6, FieldNames DEF SetCell
<1> HIDE DEF g1, g2, g3
<1>8. /\ CoreInv(g3) /\ Live(g3) = Live(g) /\ \A p : InBook(g3, p) <=> InBook(g, p) /\ p.id # id
      /\ UsedInv(g3, {} \cup {x, y})
  BY <1>7, OfferTaken DEF v, x, y
<1>9. UsedInv(g3, {y, x})
  <2>1. {} \cup {x, y} = {y, x}
    OBVIOUS
  <2> QED
    BY <1>8, <2>1
<1>10. CoreInv(h) /\ UsedInv(h, {}) /\ SameBook(g3, h)
  BY <1>3, <1>5, <1>8, <1>9, PairKept
<1>11. \A p : InBook(h, p) <=> InBook(g, p) /\ p.id # id
  BY <1>8, <1>10 DEF SameBook, InBook
<1>12. h.liquidityPools = g.liquidityPools /\ h.tradingPairForOffer = Without(g.tradingPairForOffer, id)
  BY <1>7, <1>10 DEF SameBook
<1> QED
  BY <1>10, <1>11, <1>12 DEF Without

\* An offer that is put into the tables and on record.
LEMMA OfferPut ==
    ASSUME NEW g, CoreInv(g), NEW offer \in Offers, offer.id \notin DOMAIN g.tradingPairForOffer,
           NEW x \in Live(g), NEW y \in Live(g),
           g.idToAssetString[x] = offer.selling, g.idToAssetString[y] = offer.buying,
           NEW h, DOMAIN h = DOMAIN emptyGraph, h.failed = g.failed,
           h.idToAssetString = g.idToAssetString, h.assetStringToID = g.assetStringToID,
           h.vacantIDs = g.vacantIDs, h.liquidityPools = g.liquidityPools,
           h.tradingPairForOffer = Put(g.tradingPairForOffer, offer.id, [buying |-> y, selling |-> x]),
           NEW v, v = WithOffers(Sel(g, x, y), InsertedIn(Sel(g, x, y).offers, offer)),
           h.venuesForSellingAsset = SetCell(g.venuesForSellingAsset, x, y, v),
           h.venuesForBuyingAsset = SetCell(g.venuesForBuyingAsset, y, x, v)
    PROVE  /\ CoreInv(h)
           /\ \A o : InBook(h, o) <=> InBook(g, o) \/ o = offer
           /\ \A idle : UsedInv(g, idle) => UsedInv(h, idle \ {x, y})
<1> DEFINE list == Sel(g, x, y).offers
           new == InsertedIn(list, offer)
<1>1. NumbersInv(g) /\ EdgesInv(g) /\ OffersInv(g) /\ PoolsInv(g)
  BY DEF CoreInv
<1>2. \A a, b : \A o \in ToSet(Sel(g, a, b).offers) : OnRecord(g, a, b, o) /\ o.id # offer.id
  <2>1. \A a, b : \A o \in ToSet(Sel(g, a, b).offers) : OnRecord(g, a, b, o)
    BY <1>1 DEF OffersInv
  <2>2. \A a, b, o : OnRecord(g, a, b, o) => o.id # offer.id
    BY DEF OnRecord
  <2> QED
    BY <2>1, <2>2
<1>4. Sorted(list)
  BY <1>1 DEF OffersInv
<1>5. list \in Seq(Offers) /\ Sel(g, x, y) \in VenuesRecord
  BY <1>1, SelType
<1>6. new \in Seq(Offers) /\ Sorted(new) /\ ToSet(new) = ToSet(list) \cup {offer}
  <2>1. \A o \in ToSet(list) : o.id # offer.id
    BY <1>2
  <2> HIDE DEF list
  <2> QED
    BY <1>4, <1>5, <2>1, OfferInserted
<1>7. v \in VenuesRecord /\ v.offers = new /\ v.pool = Sel(g, x, y).pool
  <2> HIDE DEF new
  <2>1. v = WithOffers(Sel(g, x, y), new)
    BY DEF new
  <2> QED
    BY <1>5, <1>6, <2>1, ChangedVenues
<1>8. /\ EdgesInv(h) /\ Live(h) = Live(g)
      /\ \A a, b : Sel(h, a, b) = IF a = x /\ b = y THEN v ELSE Sel(g, a, b)
  <2>1. EdgesInv(h) /\ Live(h) = Live(g) /\ OneEdge(g, h, x, y, v)
    BY <1>1, <1>7, EdgeChanged
  <2> QED
    BY <2>1 DEF OneEdge
<1>9. PoolsInv(h)
  <2>1. \A a, b : Sel(h, a, b).pool = Sel(g, a, b).pool
    BY <1>7, <1>8
  <2> QED
    BY <1>1, <2>1, PoolsFrame
<1>10. NumbersInv(h)
  BY <1>1, NumbersFrame
<1>11. /\ DOMAIN h.tradingPairForOffer = DOMAIN g.tradingPairForOffer \cup {offer.id}
       /\ h.tradingPairForOffer[offer.id] = [buying |-> y, selling |-> x]
       /\ \A i \in DOMAIN g.tradingPairForOffer : h.tradingPairForOffer[i] = g.tradingPairForOffer[i]
  BY DEF Put
<1>12. \A a, b : Sorted(Sel(h, a, b).offers)
  <2> HIDE DEF new
  <2>1. \A a, b : Sorted(Sel(g, a, b).offers)
    BY <1>1 DEF OffersInv
  <2> QED
    BY <1>6, <1>7, <1>8, <2>1
<1>14. \A a, b : \A o : o \in ToSet(Sel(h, a, b).offers)
                          <=> o \in ToSet(Sel(g, a, b).offers) \/ (a = x /\ b = y /\ o = offer)
  <2>1. Sel(g, x, y).offers = list
    OBVIOUS
  <2> HIDE DEF new, list
  <2> SUFFICES ASSUME NEW a, NEW b, NEW o
               PROVE  o \in ToSet(Sel(h, a, b).offers)
                        <=> o \in ToSet(Sel(g, a, b).offers) \/ (a = x /\ b = y /\ o = offer)
    OBVIOUS
  <2>2. CASE a = x /\ b = y
    <3>1. Sel(h, a, b).offers = new /\ Sel(g, a, b).offers = list
      BY <1>7, <1>8, <2>1, <2>2
    <3> QED
      BY <1>6, <2>2, <3>1
  <2>3. CASE ~(a = x /\ b = y)
    BY <1>8, <2>3
  <2> QED
    BY <2>2, <2>3
<1>15. \A a, b : \A o \in ToSet(Sel(h, a, b).offers) : OnRecord(h, a, b, o)
  <2> SUFFICES ASSUME NEW a, NEW b, NEW o \in ToSet(Sel(h, a, b).offers)
               PROVE  OnRecord(h, a, b, o)
    OBVIOUS
  <2>1. CASE o \in ToSet(Sel(g, a, b).offers)
    <3>1. OnRecord(g, a, b, o) /\ o.id # offer.id
      BY <1>2, <2>1
    <3> QED
      BY <1>11, <3>1 DEF OnRecord
  <2>2. CASE a = x /\ b = y /\ o = offer
    BY <1>11, <2>2 DEF OnRecord
  <2> QED
    BY <1>14, <2>1, <2>2
<1>16. ASSUME NEW i \in DOMAIN h.tradingPairForOffer
       PROVE  \E o \in ToSet(Sel(h, h.tradingPairForOffer[i].selling, h.tradingPairForOffer[i].buying).offers) : o.id = i
  <2>1. CASE i \in DOMAIN g.tradingPairForOffer
    <3>1. PICK o \in ToSet(Sel(g, g.tradingPairForOffer[i].selling, g.tradingPairForOffer[i].buying).offers) : o.id = i
      BY <1>1, <2>1 DEF OffersInv
    <3> QED
      BY <1>11, <1>14, <2>1, <3>1
  <2>2. CASE i = offer.id
    <3>1. h.tradingPairForOffer[i].selling = x /\ h.tradingPairForOffer[i].buying = y
      BY <1>11, <2>2
    <3> QED
      BY <1>14, <2>2, <3>1
  <2> QED
    BY <1>11, <2>1, <2>2
<1>17. IsFiniteSet(DOMAIN h.tradingPairForOffer)
  BY <1>1, <1>11, FS_AddElement DEF OffersInv
<1>18. OffersInv(h)
  BY <1>12, <1>15, <1>16, <1>17 DEF OffersInv
<1>19. \A o : InBook(h, o) <=> InBook(g, o) \/ o = offer
  BY <1>14 DEF InBook
<1>20. \A idle : UsedInv(g, idle) => UsedInv(h, idle \ {x, y})
  <2> SUFFICES ASSUME NEW idle, UsedInv(g, idle), NEW i \in Live(h), i \notin idle \ {x, y}
               PROVE  Busy(h, i)
    BY DEF UsedInv
  <2>1. CASE i \in {x, y}
    <3>1. offer \in ToSet(Sel(h, x, y).offers)
      BY <1>14
    <3>2. Sel(h, x, y) # NoVenues
      BY <3>1, NoVenuesIsVenues DEF ToSet
    <3> QED
      BY <2>1, <3>2 DEF Busy
  <2>2. CASE i \notin {x, y}
    <3>1. Busy(g, i)
      BY <1>8, <2>2 DEF UsedInv
    <3> QED
      BY <1>8, <2>2, <3>1 DEF Busy
  <2> QED
    BY <2>1, <2>2
<1> QED
  BY <1>8, <1>9, <1>10, <1>18, <1>19, <1>20 DEF CoreInv

\* Numbers for two assets.
PairIdle(g, x, y) == UsedInv(g, {x, y})

\* Two assets given numbers one after the other: both are in use, and only they may be without venues.
LEMMA PairNumbered ==
    ASSUME NEW g, CoreInv(g), UsedInv(g, {}), NEW a \in Nat \ {0}, NEW b \in Nat \ {0},
           NEW h, h = getOrCreateAssetID(getOrCreateAssetID(g, a), b)
    PROVE  /\ CoreInv(h) /\ SameBook(g, h)
           /\ PairIdle(h, h.assetStringToID[a], h.assetStringToID[b])
           /\ h.assetStringToID[a] \in Live(h) /\ h.idToAssetString[h.assetStringToID[a]] = a
           /\ h.assetStringToID[b] \in Live(h) /\ h.idToAssetString[h.assetStringToID[b]] = b
<1> DEFINE k == getOrCreateAssetID(g, a)
           i == k.assetStringToID[a]
           j == h.assetStringToID[b]
<1>1. CoreInv(k) /\ SameBook(g, k) /\ Numbered(g, k, a) /\ UsedInv(k, {} \cup {i})
  BY NumberGiven
<1> HIDE DEF k
<1>2. h = getOrCreateAssetID(k, b)
  BY DEF k
<1>3. CoreInv(h) /\ SameBook(k, h) /\ Numbered(k, h, b) /\ UsedInv(h, ({} \cup {i}) \cup {j})
  BY <1>1, <1>2, NumberGiven
<1>4. a \in DOMAIN h.assetStringToID /\ h.assetStringToID[a] = i /\ b \in DOMAIN h.assetStringToID
  BY <1>1, <1>3 DEF Numbered
<1>5. ({} \cup {i}) \cup {j} = {i, j}
  OBVIOUS
<1>6. SameBook(g, h)
  BY <1>1, <1>3 DEF SameBook
<1>7. NumbersInv(h)
  BY <1>3 DEF CoreInv
<1>8. UsedInv(h, {i, j})
  BY <1>3, <1>5
<1>9. /\ h.assetStringToID[a] \in Live(h) /\ h.idToAssetString[h.assetStringToID[a]] = a
      /\ h.assetStringToID[b] \in Live(h) /\ h.idToAssetString[h.assetStringToID[b]] = b
  BY <1>4, <1>7, NameOfNumber
<1> QED
  BY <1>3, <1>4, <1>6, <1>8, <1>9 DEF PairIdle

\* An offer replaces the one with its id (addOffer).
LEMMA AddOfferKeeps ==
    ASSUME NEW g, CoreInv(g), UsedInv(g, {}), NEW offer \in Offers, NEW h, h = addOffer(g, offer)
    PROVE  /\ CoreInv(h) /\ UsedInv(h, {}) /\ h.liquidityPools = g.liquidityPools
           /\ \A o : InBook(h, o) <=> (InBook(g, o) /\ o.id # offer.id) \/ o = offer
<1> DEFINE g1 == IF offer.id \in DOMAIN g.tradingPairForOffer THEN removeOffer(g, offer.id) ELSE g
           g2 == getOrCreateAssetID(getOrCreateAssetID(g1, offer.buying), offer.selling)
           y == g2.assetStringToID[offer.buying]
           x == g2.assetStringToID[offer.selling]
           v == WithOffers(Sel(g2, x, y), InsertedIn(Sel(g2, x, y).offers, offer))
<1>1. /\ CoreInv(g1) /\ UsedInv(g1, {}) /\ g1.liquidityPools = g.liquidityPools
      /\ \A o : InBook(g1, o) <=> InBook(g, o) /\ o.id # offer.id
      /\ offer.id \notin DOMAIN g1.tradingPairForOffer
  <2>1. CASE offer.id \in DOMAIN g.tradingPairForOffer
    BY <2>1, RemoveOfferKeeps
  <2>2. CASE offer.id \notin DOMAIN g.tradingPairForOffer
    <3>1. \A o : InBook(g, o) => o.id # offer.id
      <4>1. \A a, b : \A o \in ToSet(Sel(g, a, b).offers) : OnRecord(g, a, b, o)
        BY DEF CoreInv, OffersInv
      <4>2. \A a, b, o : OnRecord(g, a, b, o) => o.id # offer.id
        BY <2>2 DEF OnRecord
      <4> QED
        BY <4>1, <4>2 DEF InBook
    <3> QED
      BY <2>2, <3>1
  <2> QED
    BY <2>1, <2>2
<1>2. g1.failed = FALSE
  BY <1>1 DEF CoreInv, NumbersInv
<1>3. h = [g2 EXCEPT
             !.tradingPairForOffer = Put(@, offer.id, [buying |-> y, selling |-> x]),
             !.venuesForSellingAsset[x] = edgeAddOffer(@, y, offer),
             !.venuesForBuyingAsset[y] = edgeAddOffer(@, x, offer)]
  BY <1>2 DEF addOffer
<1> HIDE DEF g1
<1>4. offer.buying \in Nat \ {0} /\ offer.selling \in Nat \ {0} /\ offer.buying # offer.selling
  BY EntriesAssumption
<1>5. /\ CoreInv(g2) /\ SameBook(g1, g2) /\ UsedInv(g2, {y, x})
      /\ y \in Live(g2) /\ g2.idToAssetString[y] = offer.buying
      /\ x \in Live(g2) /\ g2.idToAssetString[x] = offer.selling
  <2> DEFINE a == offer.buying
             b == offer.selling
  <2>1. g2 = getOrCreateAssetID(getOrCreateAssetID(g1, a), b)
    OBVIOUS
  <2>2. CoreInv(g1) /\ UsedInv(g1, {}) /\ a \in Nat \ {0} /\ b \in Nat \ {0}
    BY <1>1, <1>4
  <2>3. y = g2.assetStringToID[a] /\ x = g2.assetStringToID[b]
    OBVIOUS
  <2> HIDE DEF g2, a, b, x, y
  <2>4. /\ CoreInv(g2) /\ SameBook(g1, g2)
        /\ PairIdle(g2, g2.assetStringToID[a], g2.assetStringToID[b])
        /\ g2.assetStringToID[a] \in Live(g2) /\ g2.idToAssetString[g2.assetStringToID[a]] = a
        /\ g2.assetStringToID[b] \in Live(g2) /\ g2.idToAssetString[g2.assetStringToID[b]] = b
    BY <2>1, <2>2, PairNumbered
  <2> QED
    BY <2>3, <2>4 DEF a, b, PairIdle
<1> HIDE DEF g2, x, y
<1>6. NumbersInv(g2) /\ EdgesInv(g2) /\ DOMAIN g2 = DOMAIN emptyGraph
  BY <1>5 DEF CoreInv, NumbersInv
<1>7. /\ edgeAddOffer(g2.venuesForSellingAsset[x], y, offer) = setVenues(g2.venuesForSellingAsset[x], y, v)
      /\ edgeAddOffer(g2.venuesForBuyingAsset[y], x, offer) = setVenues(g2.venuesForBuyingAsset[y], x, v)
  <2>1. /\ venuesAt(g2.venuesForSellingAsset[x], y) = Sel(g2, x, y)
        /\ venuesAt(g2.venuesForBuyingAsset[y], x) = Sel(g2, x, y)
    BY <1>5, <1>6, PairVenues
  <2> QED
    BY <2>1, EdgeOperations
<1> HIDE DEF v
<1>8. /\ DOMAIN h = DOMAIN emptyGraph /\ h.failed = g2.failed
      /\ h.idToAssetString = g2.idToAssetString /\ h.assetStringToID = g2.assetStringToID
      /\ h.vacantIDs = g2.vacantIDs /\ h.liquidityPools = g2.liquidityPools
      /\ h.tradingPairForOffer = Put(g2.tradingPairForOffer, offer.id, [buying |-> y, selling |-> x])
      /\ h.venuesForSellingAsset = SetCell(g2.venuesForSellingAsset, x, y, v)
      /\ h.venuesForBuyingAsset = SetCell(g2.venuesForBuyingAsset, y, x, v)
  BY <1>3, <1>6, <1>7, FieldNames DEF SetCell
<1>9. /\ g2.tradingPairForOffer = g1.tradingPairForOffer /\ g2.liquidityPools = g1.liquidityPools
      /\ \A o : InBook(g2, o) <=> InBook(g1, o)
  BY <1>5 DEF SameBook, InBook
<1>10. /\ CoreInv(h) /\ \A o : InBook(h, o) <=> InBook(g2, o) \/ o = offer
       /\ UsedInv(h, {y, x} \ {x, y})
  <2>1. offer.id \notin DOMAIN g2.tradingPairForOffer
    BY <1>1, <1>9
  <2> QED
    BY <1>5, <1>8, <2>1, OfferPut DEF v
<1>11. {y, x} \ {x, y} = {}
  OBVIOUS
<1>12. UsedInv(h, {})
  BY <1>10, <1>11
<1> QED
  BY <1>1, <1>8, <1>9, <1>10, <1>12

(* Pools. *)

\* Two tables that differ in the venues of one pair.
OneCell(new, table, i, k, v) ==
    \A a, b : At(new, a, b) = IF a = i /\ b = k THEN v ELSE At(table, a, b)

\* CellChanged in these terms.
LEMMA CellSet ==
    ASSUME NEW g, NEW h, NEW table, TableInv(g, table), Len(h.idToAssetString) = Len(g.idToAssetString),
           NEW i \in DOMAIN table, NEW k \in Nat, NEW v \in VenuesRecord,
           NEW new, new = SetCell(table, i, k, v)
    PROVE  TableInv(h, new) /\ DOMAIN new = DOMAIN table /\ OneCell(new, table, i, k, v)
BY CellChanged DEF OneCell

\* Two edges of one table.
SetTwo(table, x, y, v, w) == SetCell(SetCell(table, x, y, v), y, x, w)

\* A table in which the venues of a pair are set in both directions.
LEMMA TwoCellsChanged ==
    ASSUME NEW g, NEW h, NEW table, TableInv(g, table), Len(h.idToAssetString) = Len(g.idToAssetString),
           NEW x \in DOMAIN table, NEW y \in DOMAIN table, x \in Nat, y \in Nat, x # y,
           NEW v \in VenuesRecord, NEW w \in VenuesRecord, NEW new, new = SetTwo(table, x, y, v, w)
    PROVE  /\ TableInv(h, new)
           /\ \A a, b : At(new, a, b) = IF a = x /\ b = y THEN v
                                        ELSE IF a = y /\ b = x THEN w ELSE At(table, a, b)
<1> DEFINE mid == SetCell(table, x, y, v)
<1>0. mid = SetCell(table, x, y, v)
  OBVIOUS
<1>2. new = SetCell(mid, y, x, w)
  BY DEF SetTwo
<1> HIDE DEF mid
<1>1. TableInv(h, mid) /\ DOMAIN mid = DOMAIN table /\ OneCell(mid, table, x, y, v)
  BY <1>0, CellSet
<1>3. TableInv(h, new) /\ OneCell(new, mid, y, x, w)
  BY <1>1, <1>2, CellSet
<1> QED
  BY <1>1, <1>3 DEF OneCell

\* Both directions of a pair in both tables.
Between(a, b, x, y) == (a = x /\ b = y) \/ (a = y /\ b = x)

\* A pool set, or cleared, on both edges of a pair in both tables: they stay each other's transpose.
LEMMA PoolEdges ==
    ASSUME NEW g, NEW h, NumbersInv(g), EdgesInv(g), NEW x \in Live(g), NEW y \in Live(g), x # y,
           NEW pool \in PoolVenue \cup {NoPool}, h.idToAssetString = g.idToAssetString,
           NEW v, NEW w, v = WithPool(Sel(g, x, y), pool), w = WithPool(Sel(g, y, x), pool),
           h.venuesForSellingAsset = SetTwo(g.venuesForSellingAsset, x, y, v, w),
           h.venuesForBuyingAsset = SetTwo(g.venuesForBuyingAsset, x, y, w, v)
    PROVE  /\ EdgesInv(h) /\ Live(h) = Live(g)
           /\ \A a, b : Sel(h, a, b) = IF Between(a, b, x, y) THEN WithPool(Sel(g, a, b), pool) ELSE Sel(g, a, b)
<1>1. TableInv(g, g.venuesForSellingAsset) /\ TableInv(g, g.venuesForBuyingAsset)
  BY DEF EdgesInv
<1>2. x \in DOMAIN g.idToAssetString /\ y \in DOMAIN g.idToAssetString
  BY LiveNames
<1>3. x \in Nat /\ y \in Nat
  BY <1>2, LenProperties DEF NumbersInv
<1>4. /\ x \in DOMAIN g.venuesForSellingAsset /\ y \in DOMAIN g.venuesForSellingAsset
      /\ x \in DOMAIN g.venuesForBuyingAsset /\ y \in DOMAIN g.venuesForBuyingAsset
  BY <1>2, BusyEdges
<1>5. v \in VenuesRecord /\ w \in VenuesRecord
  BY SelType, ChangedVenues
<1>8. /\ TableInv(h, h.venuesForSellingAsset)
      /\ \A a, b : At(h.venuesForSellingAsset, a, b)
           = IF a = x /\ b = y THEN v ELSE IF a = y /\ b = x THEN w ELSE At(g.venuesForSellingAsset, a, b)
  BY <1>1, <1>3, <1>4, <1>5, TwoCellsChanged
<1>9. /\ TableInv(h, h.venuesForBuyingAsset)
      /\ \A a, b : At(h.venuesForBuyingAsset, a, b)
           = IF a = x /\ b = y THEN w ELSE IF a = y /\ b = x THEN v ELSE At(g.venuesForBuyingAsset, a, b)
  BY <1>1, <1>3, <1>4, <1>5, TwoCellsChanged
<1>10. Live(h) = Live(g)
  BY DEF Live, vacantCells
<1>11. \A a, b : Sel(h, a, b) = IF a = x /\ b = y THEN v ELSE IF a = y /\ b = x THEN w ELSE Sel(g, a, b)
  BY <1>8 DEF Sel
<1>12. \A a, b : Buy(h, a, b) = IF a = x /\ b = y THEN w ELSE IF a = y /\ b = x THEN v ELSE Buy(g, a, b)
  BY <1>9 DEF Buy
<1>13. EdgesInv(h)
  BY <1>8, <1>9, <1>10, <1>11, <1>12 DEF EdgesInv
<1>14. \A a, b : Sel(h, a, b) = IF Between(a, b, x, y) THEN WithPool(Sel(g, a, b), pool) ELSE Sel(g, a, b)
  BY <1>11 DEF Between
<1> QED
  BY <1>10, <1>13, <1>14

\* A pool that is set or unset concerns neither the offers nor other pairs.
LEMMA PoolSet ==
    ASSUME NEW g, CoreInv(g), NEW x \in Live(g), NEW y \in Live(g), x # y,
           NEW pool \in PoolVenue \cup {NoPool},
           NEW h, DOMAIN h = DOMAIN emptyGraph, h.failed = g.failed,
           h.idToAssetString = g.idToAssetString, h.assetStringToID = g.assetStringToID,
           h.vacantIDs = g.vacantIDs, h.tradingPairForOffer = g.tradingPairForOffer,
           NEW v, NEW w, v = WithPool(Sel(g, x, y), pool), w = WithPool(Sel(g, y, x), pool),
           h.venuesForSellingAsset = SetTwo(g.venuesForSellingAsset, x, y, v, w),
           h.venuesForBuyingAsset = SetTwo(g.venuesForBuyingAsset, x, y, w, v)
    PROVE  /\ NumbersInv(h) /\ EdgesInv(h) /\ OffersInv(h) /\ Live(h) = Live(g)
           /\ \A a, b : Sel(h, a, b).pool = IF Between(a, b, x, y) THEN pool ELSE Sel(g, a, b).pool
           /\ \A o : InBook(h, o) <=> InBook(g, o)
           /\ PairIdle(g, x, y) => PairIdle(h, x, y)
<1>1. NumbersInv(g) /\ EdgesInv(g) /\ OffersInv(g)
  BY DEF CoreInv
<1>2. /\ EdgesInv(h) /\ Live(h) = Live(g)
      /\ \A a, b : Sel(h, a, b) = IF Between(a, b, x, y) THEN WithPool(Sel(g, a, b), pool) ELSE Sel(g, a, b)
  BY <1>1, PoolEdges
<1>3. NumbersInv(h)
  BY <1>1, NumbersFrame
<1>4. \A a, b : WithPool(Sel(g, a, b), pool).pool = pool /\ WithPool(Sel(g, a, b), pool).offers = Sel(g, a, b).offers
  BY <1>1, SelType, ChangedVenues
<1>5. \A a, b : Sel(h, a, b).pool = IF Between(a, b, x, y) THEN pool ELSE Sel(g, a, b).pool
  BY <1>2, <1>4
<1>6. \A a, b : Sel(h, a, b).offers = Sel(g, a, b).offers
  BY <1>2, <1>4
<1>7. OffersInv(h)
  BY <1>1, <1>6, OffersFrame
<1>8. \A o : InBook(h, o) <=> InBook(g, o)
  BY <1>6 DEF InBook
<1>9. ASSUME PairIdle(g, x, y) PROVE PairIdle(h, x, y)
  <2> SUFFICES ASSUME NEW i \in Live(h), i # x, i # y PROVE Busy(h, i)
    BY DEF PairIdle, UsedInv
  <2>1. Busy(g, i)
    BY <1>2, <1>9 DEF PairIdle, UsedInv
  <2> QED
    BY <1>2, <2>1 DEF Busy, Between
<1> QED
  BY <1>2, <1>3, <1>5, <1>7, <1>8, <1>9

\* What PoolsInv says of a pool on record.
LEMMA PoolOnRecord ==
    ASSUME NEW g, CoreInv(g), NEW key \in DOMAIN g.liquidityPools
    PROVE  /\ g.liquidityPools[key] \in Pools /\ key = <<key[1], key[2]>>
           /\ g.idToAssetString[key[1]] = g.liquidityPools[key].a
           /\ g.idToAssetString[key[2]] = g.liquidityPools[key].b
           /\ key[1] \in Live(g) /\ key[2] \in Live(g)
           /\ g.assetStringToID[g.liquidityPools[key].a] = key[1]
           /\ g.assetStringToID[g.liquidityPools[key].b] = key[2]
<1>1. /\ g.liquidityPools[key] \in Pools /\ key = <<key[1], key[2]>>
      /\ g.idToAssetString[key[1]] = g.liquidityPools[key].a
      /\ g.idToAssetString[key[2]] = g.liquidityPools[key].b
      /\ Sel(g, key[1], key[2]).pool
           = [entry |-> g.liquidityPools[key], assetA |-> key[1], assetB |-> key[2]]
  BY DEF CoreInv, PoolsInv
<1>2. Sel(g, key[1], key[2]).pool # NoPool
  BY <1>1, PoolIsPool, Zenon
<1>3. Sel(g, key[1], key[2]) # NoVenues
  BY <1>2, NoVenuesIsVenues
<1>4. key[1] \in Live(g) /\ key[2] \in Live(g)
  BY <1>3 DEF CoreInv, EdgesInv
<1> QED
  BY <1>1, <1>4 DEF CoreInv, NumbersInv

\* The keys of other pools belong to other pairs.
LEMMA OtherPools ==
    ASSUME NEW g, CoreInv(g), NEW x \in Live(g), NEW y \in Live(g),
           g.idToAssetString[x] < g.idToAssetString[y], NEW key \in DOMAIN g.liquidityPools, key # <<x, y>>
    PROVE  /\ ~ Between(key[1], key[2], x, y) /\ ~ Between(key[2], key[1], x, y)
           /\ ~ (/\ g.liquidityPools[key].a = g.idToAssetString[x]
                 /\ g.liquidityPools[key].b = g.idToAssetString[y])
<1> DEFINE p == g.liquidityPools[key]
<1>1. /\ p \in Pools /\ key = <<key[1], key[2]>>
      /\ g.idToAssetString[key[1]] = p.a /\ g.idToAssetString[key[2]] = p.b
      /\ g.assetStringToID[p.a] = key[1] /\ g.assetStringToID[p.b] = key[2]
  BY PoolOnRecord
<1>2. p.a \in Nat /\ p.b \in Nat /\ p.a < p.b
  BY <1>1, EntriesAssumption
<1>3. ~ (key[1] = x /\ key[2] = y)
  BY <1>1
<1>4. ~ (key[1] = y /\ key[2] = x)
  <2> SUFFICES ASSUME key[1] = y, key[2] = x PROVE FALSE
    OBVIOUS
  <2>1. g.idToAssetString[x] = p.b /\ g.idToAssetString[y] = p.a
    BY <1>1
  <2> QED
    BY <1>2, <2>1
<1>5. ~ (p.a = g.idToAssetString[x] /\ p.b = g.idToAssetString[y])
  <2>1. g.assetStringToID[g.idToAssetString[x]] = x /\ g.assetStringToID[g.idToAssetString[y]] = y
    BY DEF CoreInv, NumbersInv
  <2> QED
    BY <1>1, <1>3, <2>1
<1> QED
  BY <1>3, <1>4, <1>5 DEF Between

\* The pools of a graph are those it has on record.
LEMMA PoolMembers ==
    ASSUME NEW g
    PROVE  \A p : p \in poolsOf(g) <=> \E key \in DOMAIN g.liquidityPools : p = g.liquidityPools[key]
BY DEF poolsOf

\* A pool on record under its pair and on the edges of the pair keeps the graph in order.
LEMMA PoolAdded ==
    ASSUME NEW g, CoreInv(g), NEW x \in Live(g), NEW y \in Live(g), NEW entry \in Pools,
           g.idToAssetString[x] = entry.a, g.idToAssetString[y] = entry.b, PairIdle(g, x, y),
           NEW h, NumbersInv(h), EdgesInv(h), OffersInv(h), Live(h) = Live(g), PairIdle(h, x, y),
           h.idToAssetString = g.idToAssetString,
           h.liquidityPools = Put(g.liquidityPools, <<x, y>>, entry),
           NEW pool, pool = [entry |-> entry, assetA |-> x, assetB |-> y],
           \A a, b : Sel(h, a, b).pool = IF Between(a, b, x, y) THEN pool ELSE Sel(g, a, b).pool
    PROVE  /\ CoreInv(h) /\ UsedInv(h, {})
           /\ \A p : p \in poolsOf(h) <=> (p \in poolsOf(g) /\ ~ (p.a = entry.a /\ p.b = entry.b)) \/ p = entry
<1>1. entry.a \in Nat /\ entry.b \in Nat /\ entry.a < entry.b
  BY EntriesAssumption
<1>2. /\ DOMAIN h.liquidityPools = DOMAIN g.liquidityPools \cup {<<x, y>>}
      /\ h.liquidityPools[<<x, y>>] = entry
      /\ \A key \in DOMAIN g.liquidityPools : key # <<x, y>> => h.liquidityPools[key] = g.liquidityPools[key]
  BY DEF Put
<1>3. \A key \in DOMAIN g.liquidityPools : key # <<x, y>> =>
          /\ ~ Between(key[1], key[2], x, y) /\ ~ Between(key[2], key[1], x, y)
          /\ ~ (g.liquidityPools[key].a = entry.a /\ g.liquidityPools[key].b = entry.b)
  BY <1>1, OtherPools
<1>4. pool # NoPool
  BY PoolIsPool, Zenon
<1>5. ASSUME NEW a, NEW b, Sel(h, a, b).pool # NoPool
      PROVE  LET key == <<Sel(h, a, b).pool.assetA, Sel(h, a, b).pool.assetB>>
             IN key \in DOMAIN h.liquidityPools /\ key \in {<<a, b>>, <<b, a>>}
  <2>1. CASE Between(a, b, x, y)
    <3>1. Sel(h, a, b).pool.assetA = x /\ Sel(h, a, b).pool.assetB = y
      BY <2>1
    <3> QED
      BY <1>2, <2>1, <3>1 DEF Between
  <2>2. CASE ~ Between(a, b, x, y)
    <3>1. Sel(h, a, b).pool = Sel(g, a, b).pool
      BY <2>2
    <3> QED
      BY <1>2, <1>5, <3>1 DEF CoreInv, PoolsInv
  <2> QED
    BY <2>1, <2>2
<1>6. ASSUME NEW key \in DOMAIN h.liquidityPools
      PROVE  LET e == h.liquidityPools[key]
                 p == [entry |-> e, assetA |-> key[1], assetB |-> key[2]]
             IN /\ e \in Pools /\ key = <<key[1], key[2]>>
                /\ h.idToAssetString[key[1]] = e.a /\ h.idToAssetString[key[2]] = e.b
                /\ Sel(h, key[1], key[2]).pool = p /\ Sel(h, key[2], key[1]).pool = p
  <2>1. CASE key = <<x, y>>
    <3>1. key[1] = x /\ key[2] = y /\ h.liquidityPools[key] = entry
      BY <1>2, <2>1
    <3>2. Between(x, y, x, y) /\ Between(y, x, x, y)
      BY DEF Between
    <3> QED
      BY <2>1, <3>1, <3>2
  <2>2. CASE key # <<x, y>>
    <3>1. key \in DOMAIN g.liquidityPools /\ h.liquidityPools[key] = g.liquidityPools[key]
      BY <1>2, <2>2
    <3>2. /\ Sel(h, key[1], key[2]).pool = Sel(g, key[1], key[2]).pool
          /\ Sel(h, key[2], key[1]).pool = Sel(g, key[2], key[1]).pool
      BY <1>3, <2>2, <3>1
    <3> QED
      BY <3>1, <3>2 DEF CoreInv, PoolsInv
  <2> QED
    BY <2>1, <2>2
<1>7. PoolsInv(h)
  BY <1>5, <1>6 DEF PoolsInv
<1>8. UsedInv(h, {})
  <2>1. Sel(h, x, y).pool # NoPool
    BY <1>4 DEF Between
  <2>2. Sel(h, x, y) # NoVenues
    BY <2>1, NoVenuesIsVenues
  <2>3. Busy(h, x) /\ Busy(h, y)
    BY <2>2 DEF Busy
  <2> QED
    BY <2>3 DEF PairIdle, UsedInv
<1>9. ASSUME NEW p
      PROVE  p \in poolsOf(h) <=> (p \in poolsOf(g) /\ ~ (p.a = entry.a /\ p.b = entry.b)) \/ p = entry
  <2>1. ASSUME NEW key \in DOMAIN h.liquidityPools, p = h.liquidityPools[key]
        PROVE  (p \in poolsOf(g) /\ ~ (p.a = entry.a /\ p.b = entry.b)) \/ p = entry
    BY <1>2, <1>3, <2>1, PoolMembers
  <2>2. ASSUME NEW key \in DOMAIN g.liquidityPools, p = g.liquidityPools[key], ~ (p.a = entry.a /\ p.b = entry.b)
        PROVE  p \in poolsOf(h)
    <3>1. key # <<x, y>>
      <4> SUFFICES ASSUME key = <<x, y>> PROVE FALSE
        OBVIOUS
      <4>1. key[1] = x /\ key[2] = y
        OBVIOUS
      <4> QED
        BY <2>2, <4>1, PoolOnRecord
    <3> QED
      BY <1>2, <2>2, <3>1, PoolMembers
  <2>3. entry \in poolsOf(h)
    BY <1>2, PoolMembers
  <2> QED
    BY <2>1, <2>2, <2>3, PoolMembers
<1> QED
  BY <1>7, <1>8, <1>9 DEF CoreInv

\* A pool taken off the record and off the edges of its pair keeps the graph in order.
LEMMA PoolDropped ==
    ASSUME NEW g, CoreInv(g), NEW x \in Live(g), NEW y \in Live(g),
           g.idToAssetString[x] < g.idToAssetString[y],
           NEW h, NumbersInv(h), EdgesInv(h), OffersInv(h),
           h.idToAssetString = g.idToAssetString, h.liquidityPools = Without(g.liquidityPools, <<x, y>>),
           \A a, b : Sel(h, a, b).pool = IF Between(a, b, x, y) THEN NoPool ELSE Sel(g, a, b).pool
    PROVE  /\ CoreInv(h)
           /\ \A p : p \in poolsOf(h) <=>
                 p \in poolsOf(g) /\ ~ (p.a = g.idToAssetString[x] /\ p.b = g.idToAssetString[y])
<1>2. /\ DOMAIN h.liquidityPools = DOMAIN g.liquidityPools \ {<<x, y>>}
      /\ \A key \in DOMAIN h.liquidityPools : h.liquidityPools[key] = g.liquidityPools[key]
  BY DEF Without
<1>3. \A key \in DOMAIN g.liquidityPools : key # <<x, y>> =>
          /\ ~ Between(key[1], key[2], x, y) /\ ~ Between(key[2], key[1], x, y)
          /\ ~ (/\ g.liquidityPools[key].a = g.idToAssetString[x]
                /\ g.liquidityPools[key].b = g.idToAssetString[y])
  BY OtherPools
<1>5. ASSUME NEW a, NEW b, Sel(h, a, b).pool # NoPool
      PROVE  LET key == <<Sel(h, a, b).pool.assetA, Sel(h, a, b).pool.assetB>>
             IN key \in DOMAIN h.liquidityPools /\ key \in {<<a, b>>, <<b, a>>}
  <2> DEFINE key == <<Sel(h, a, b).pool.assetA, Sel(h, a, b).pool.assetB>>
  <2>1. ~ Between(a, b, x, y) /\ Sel(h, a, b).pool = Sel(g, a, b).pool
    BY <1>5
  <2>2. key \in DOMAIN g.liquidityPools /\ key \in {<<a, b>>, <<b, a>>}
    BY <1>5, <2>1 DEF CoreInv, PoolsInv
  <2> HIDE DEF key
  <2>3. key # <<x, y>>
    BY <2>1, <2>2 DEF Between
  <2>4. key \in DOMAIN h.liquidityPools
    BY <1>2, <2>2, <2>3
  <2> QED
    BY <2>2, <2>4 DEF key
<1>6. ASSUME NEW key \in DOMAIN h.liquidityPools
      PROVE  LET e == h.liquidityPools[key]
                 p == [entry |-> e, assetA |-> key[1], assetB |-> key[2]]
             IN /\ e \in Pools /\ key = <<key[1], key[2]>>
                /\ h.idToAssetString[key[1]] = e.a /\ h.idToAssetString[key[2]] = e.b
                /\ Sel(h, key[1], key[2]).pool = p /\ Sel(h, key[2], key[1]).pool = p
  <2>1. key \in DOMAIN g.liquidityPools /\ key # <<x, y>> /\ h.liquidityPools[key] = g.liquidityPools[key]
    BY <1>2
  <2>2. /\ Sel(h, key[1], key[2]).pool = Sel(g, key[1], key[2]).pool
        /\ Sel(h, key[2], key[1]).pool = Sel(g, key[2], key[1]).pool
    BY <1>3, <2>1
  <2> QED
    BY <2>1, <2>2 DEF CoreInv, PoolsInv
<1>7. PoolsInv(h)
  BY <1>5, <1>6 DEF PoolsInv
<1>9. ASSUME NEW p
      PROVE  p \in poolsOf(h) <=>
                 p \in poolsOf(g) /\ ~ (p.a = g.idToAssetString[x] /\ p.b = g.idToAssetString[y])
  <2>1. ASSUME NEW key \in DOMAIN h.liquidityPools, p = h.liquidityPools[key]
        PROVE  p \in poolsOf(g) /\ ~ (p.a = g.idToAssetString[x] /\ p.b = g.idToAssetString[y])
    BY <1>2, <1>3, <2>1, PoolMembers
  <2>2. ASSUME NEW key \in DOMAIN g.liquidityPools, p = g.liquidityPools[key],
               ~ (p.a = g.idToAssetString[x] /\ p.b = g.idToAssetString[y])
        PROVE  p \in poolsOf(h)
    <3>1. key # <<x, y>>
      <4> SUFFICES ASSUME key = <<x, y>> PROVE FALSE
        OBVIOUS
      <4>1. key[1] = x /\ key[2] = y
        OBVIOUS
      <4> QED
        BY <2>2, <4>1, PoolOnRecord
    <3>2. key \in DOMAIN h.liquidityPools /\ h.liquidityPools[key] = p
      BY <1>2, <2>2, <3>1
    <3> QED
      BY <3>2, PoolMembers
  <2> QED
    BY <2>1, <2>2, PoolMembers
<1> QED
  BY <1>7, <1>9 DEF CoreInv

\* The two EXCEPTs of both in addPool and removePool.
BothAdd(table, x, y, pool) == [table EXCEPT ![x] = edgeAddPool(@, y, pool), ![y] = edgeAddPool(@, x, pool)]
BothRemove(table, x, y) == [table EXCEPT ![x] = edgeRemovePool(@, y), ![y] = edgeRemovePool(@, x)]

\* They change the pool of the pair in both directions.
LEMMA BothCells ==
    ASSUME NEW table, NEW x, NEW y, x # y, NEW pool
    PROVE  LET new == SetTwo(table, x, y, WithPool(venuesAt(table[x], y), pool), WithPool(venuesAt(table[y], x), pool))
           IN /\ BothAdd(table, x, y, pool) = new
              /\ pool = NoPool => BothRemove(table, x, y) = new
<1> DEFINE v == WithPool(venuesAt(table[x], y), pool)
           w == WithPool(venuesAt(table[y], x), pool)
<1>1. /\ edgeAddPool(table[x], y, pool) = setVenues(table[x], y, v)
      /\ edgeAddPool(table[y], x, pool) = setVenues(table[y], x, w)
      /\ pool = NoPool => /\ edgeRemovePool(table[x], y) = setVenues(table[x], y, v)
                          /\ edgeRemovePool(table[y], x) = setVenues(table[y], x, w)
  BY EdgeOperations
<1> HIDE DEF v, w
<1>2. BothAdd(table, x, y, pool) = SetTwo(table, x, y, v, w)
  BY <1>1 DEF SetTwo, SetCell, BothAdd
<1>3. pool = NoPool => BothRemove(table, x, y) = SetTwo(table, x, y, v, w)
  BY <1>1 DEF SetTwo, SetCell, BothRemove
<1> QED
  BY <1>2, <1>3 DEF v, w

\* The graph with numbers for the assets of a pool, and its other fields.
LEMMA PoolGraph ==
    ASSUME NEW g, CoreInv(g), UsedInv(g, {}), NEW entry, entry.a \in Nat \ {0}, entry.b \in Nat, entry.a < entry.b,
           NEW g1, g1 = poolFromEntry(g, entry).graph, NEW x, NEW y,
           x = poolFromEntry(g, entry).assetA, y = poolFromEntry(g, entry).assetB
    PROVE  /\ CoreInv(g1) /\ SameBook(g, g1) /\ PairIdle(g1, x, y) /\ x # y
           /\ x \in Live(g1) /\ g1.idToAssetString[x] = entry.a
           /\ y \in Live(g1) /\ g1.idToAssetString[y] = entry.b
           /\ NumbersInv(g1) /\ EdgesInv(g1) /\ DOMAIN g1 = DOMAIN emptyGraph
           /\ venuesAt(g1.venuesForSellingAsset[x], y) = Sel(g1, x, y)
           /\ venuesAt(g1.venuesForSellingAsset[y], x) = Sel(g1, y, x)
           /\ venuesAt(g1.venuesForBuyingAsset[x], y) = Sel(g1, y, x)
           /\ venuesAt(g1.venuesForBuyingAsset[y], x) = Sel(g1, x, y)
<1> DEFINE a == entry.a
           b == entry.b
<1>1. g1 = getOrCreateAssetID(getOrCreateAssetID(g, a), b) /\ x = g1.assetStringToID[a] /\ y = g1.assetStringToID[b]
  BY DEF poolFromEntry
<1>2. a \in Nat \ {0} /\ b \in Nat \ {0} /\ a # b
  OBVIOUS
<1> HIDE DEF a, b
<1>3. /\ CoreInv(g1) /\ SameBook(g, g1) /\ PairIdle(g1, g1.assetStringToID[a], g1.assetStringToID[b])
      /\ g1.assetStringToID[a] \in Live(g1) /\ g1.idToAssetString[g1.assetStringToID[a]] = a
      /\ g1.assetStringToID[b] \in Live(g1) /\ g1.idToAssetString[g1.assetStringToID[b]] = b
  BY <1>1, <1>2, PairNumbered
<1>4. /\ PairIdle(g1, x, y) /\ x # y /\ x \in Live(g1) /\ g1.idToAssetString[x] = entry.a
      /\ y \in Live(g1) /\ g1.idToAssetString[y] = entry.b
  BY <1>1, <1>2, <1>3 DEF a, b
<1>5. NumbersInv(g1) /\ EdgesInv(g1) /\ DOMAIN g1 = DOMAIN emptyGraph
  BY <1>3 DEF CoreInv, NumbersInv
<1>6. /\ venuesAt(g1.venuesForSellingAsset[x], y) = Sel(g1, x, y)
      /\ venuesAt(g1.venuesForSellingAsset[y], x) = Sel(g1, y, x)
      /\ venuesAt(g1.venuesForBuyingAsset[x], y) = Sel(g1, y, x)
      /\ venuesAt(g1.venuesForBuyingAsset[y], x) = Sel(g1, x, y)
  BY <1>4, <1>5, PairVenues
<1> QED
  BY <1>3, <1>4, <1>5, <1>6

\* A pool replaces the one with its assets (addPool).
LEMMA AddPoolKeeps ==
    ASSUME NEW g, CoreInv(g), UsedInv(g, {}), NEW entry \in Pools, NEW h, h = addPool(g, entry)
    PROVE  /\ CoreInv(h) /\ UsedInv(h, {}) /\ \A o : InBook(h, o) <=> InBook(g, o)
           /\ \A p : p \in poolsOf(h) <=> (p \in poolsOf(g) /\ ~ (p.a = entry.a /\ p.b = entry.b)) \/ p = entry
<1> DEFINE g1 == poolFromEntry(g, entry).graph
           x == poolFromEntry(g, entry).assetA
           y == poolFromEntry(g, entry).assetB
           pool == [entry |-> entry, assetA |-> x, assetB |-> y]
           v == WithPool(Sel(g1, x, y), pool)
           w == WithPool(Sel(g1, y, x), pool)
           both(table) == BothAdd(table, x, y, pool)
<1>1. entry.a \in Nat \ {0} /\ entry.b \in Nat /\ entry.a < entry.b
  BY EntriesAssumption
<1>2. h = [g1 EXCEPT !.liquidityPools = Put(@, <<x, y>>, entry),
                     !.venuesForBuyingAsset = both(@), !.venuesForSellingAsset = both(@)]
  BY DEF addPool, BothAdd
<1>3. g1 = poolFromEntry(g, entry).graph /\ x = poolFromEntry(g, entry).assetA /\ y = poolFromEntry(g, entry).assetB
  OBVIOUS
<1> HIDE DEF g1, x, y
<1>4. /\ CoreInv(g1) /\ SameBook(g, g1) /\ PairIdle(g1, x, y) /\ x # y
      /\ x \in Live(g1) /\ g1.idToAssetString[x] = entry.a
      /\ y \in Live(g1) /\ g1.idToAssetString[y] = entry.b
      /\ NumbersInv(g1) /\ EdgesInv(g1) /\ DOMAIN g1 = DOMAIN emptyGraph
      /\ venuesAt(g1.venuesForSellingAsset[x], y) = Sel(g1, x, y)
      /\ venuesAt(g1.venuesForSellingAsset[y], x) = Sel(g1, y, x)
      /\ venuesAt(g1.venuesForBuyingAsset[x], y) = Sel(g1, y, x)
      /\ venuesAt(g1.venuesForBuyingAsset[y], x) = Sel(g1, x, y)
  BY <1>1, <1>3, PoolGraph
<1>5. x \in Nat /\ y \in Nat
  BY <1>4, LiveNames, LenProperties DEF NumbersInv
<1>6. pool \in PoolVenue
  BY <1>5 DEF PoolVenue
<1>7. /\ DOMAIN h = DOMAIN emptyGraph /\ h.failed = g1.failed
      /\ h.idToAssetString = g1.idToAssetString /\ h.assetStringToID = g1.assetStringToID
      /\ h.vacantIDs = g1.vacantIDs /\ h.tradingPairForOffer = g1.tradingPairForOffer
      /\ h.liquidityPools = Put(g1.liquidityPools, <<x, y>>, entry)
      /\ h.venuesForSellingAsset = both(g1.venuesForSellingAsset)
      /\ h.venuesForBuyingAsset = both(g1.venuesForBuyingAsset)
  <2> HIDE DEF both
  <2> QED
    BY <1>2, <1>4, FieldNames
<1>14. pool = [entry |-> entry, assetA |-> x, assetB |-> y]
  OBVIOUS
<1> HIDE DEF pool
<1>8. /\ h.venuesForSellingAsset = SetTwo(g1.venuesForSellingAsset, x, y, v, w)
      /\ h.venuesForBuyingAsset = SetTwo(g1.venuesForBuyingAsset, x, y, w, v)
  <2>1. \A table : both(table) = SetTwo(table, x, y, WithPool(venuesAt(table[x], y), pool), WithPool(venuesAt(table[y], x), pool))
    BY <1>4, BothCells
  <2> HIDE DEF both
  <2> QED
    BY <1>4, <1>7, <2>1
<1> HIDE DEF both
<1>9. /\ NumbersInv(h) /\ EdgesInv(h) /\ OffersInv(h) /\ Live(h) = Live(g1)
      /\ \A a, b : Sel(h, a, b).pool = IF Between(a, b, x, y) THEN pool ELSE Sel(g1, a, b).pool
      /\ \A o : InBook(h, o) <=> InBook(g1, o)
      /\ PairIdle(h, x, y)
  <2>1. pool \in PoolVenue \cup {NoPool}
    BY <1>6
  <2> QED
    BY <1>4, <1>7, <1>8, <2>1, PoolSet
<1>10. /\ CoreInv(h) /\ UsedInv(h, {})
       /\ \A p : p \in poolsOf(h) <=> (p \in poolsOf(g1) /\ ~ (p.a = entry.a /\ p.b = entry.b)) \/ p = entry
  BY <1>4, <1>7, <1>9, <1>14, PoolAdded
<1>11. poolsOf(g1) = poolsOf(g)
  BY <1>4 DEF SameBook, poolsOf
<1>12. \A o : InBook(g1, o) <=> InBook(g, o)
  BY <1>4 DEF SameBook, InBook
<1> QED
  BY <1>9, <1>10, <1>11, <1>12

\* The pool of two assets goes, and its assets with it if nothing else trades them (removePool).
LEMMA RemovePoolKeeps ==
    ASSUME NEW g, CoreInv(g), UsedInv(g, {}), NEW entry, entry.a \in Nat \ {0}, entry.b \in Nat, entry.a < entry.b,
           NEW h, h = removePool(g, entry)
    PROVE  /\ CoreInv(h) /\ UsedInv(h, {}) /\ \A o : InBook(h, o) <=> InBook(g, o)
           /\ \A p : p \in poolsOf(h) <=> p \in poolsOf(g) /\ ~ (p.a = entry.a /\ p.b = entry.b)
<1> DEFINE g1 == poolFromEntry(g, entry).graph
           x == poolFromEntry(g, entry).assetA
           y == poolFromEntry(g, entry).assetB
           v == WithPool(Sel(g1, x, y), NoPool)
           w == WithPool(Sel(g1, y, x), NoPool)
           both(table) == BothRemove(table, x, y)
           g2 == [g1 EXCEPT !.liquidityPools = Without(@, <<x, y>>),
                            !.venuesForBuyingAsset = both(@), !.venuesForSellingAsset = both(@)]
<1>2. h = maybeDeleteAsset(maybeDeleteAsset(g2, x), y)
  BY DEF removePool, BothRemove
<1>3. g1 = poolFromEntry(g, entry).graph /\ x = poolFromEntry(g, entry).assetA /\ y = poolFromEntry(g, entry).assetB
  OBVIOUS
<1> HIDE DEF g1, x, y
<1>4. /\ CoreInv(g1) /\ SameBook(g, g1) /\ PairIdle(g1, x, y) /\ x # y
      /\ x \in Live(g1) /\ g1.idToAssetString[x] = entry.a
      /\ y \in Live(g1) /\ g1.idToAssetString[y] = entry.b
      /\ NumbersInv(g1) /\ EdgesInv(g1) /\ DOMAIN g1 = DOMAIN emptyGraph
      /\ venuesAt(g1.venuesForSellingAsset[x], y) = Sel(g1, x, y)
      /\ venuesAt(g1.venuesForSellingAsset[y], x) = Sel(g1, y, x)
      /\ venuesAt(g1.venuesForBuyingAsset[x], y) = Sel(g1, y, x)
      /\ venuesAt(g1.venuesForBuyingAsset[y], x) = Sel(g1, x, y)
  BY <1>3, PoolGraph
<1>7. /\ DOMAIN g2 = DOMAIN emptyGraph /\ g2.failed = g1.failed
      /\ g2.idToAssetString = g1.idToAssetString /\ g2.assetStringToID = g1.assetStringToID
      /\ g2.vacantIDs = g1.vacantIDs /\ g2.tradingPairForOffer = g1.tradingPairForOffer
      /\ g2.liquidityPools = Without(g1.liquidityPools, <<x, y>>)
      /\ g2.venuesForSellingAsset = both(g1.venuesForSellingAsset)
      /\ g2.venuesForBuyingAsset = both(g1.venuesForBuyingAsset)
  <2> HIDE DEF both
  <2> QED
    BY <1>4, FieldNames
<1> HIDE DEF g2
<1>8. /\ g2.venuesForSellingAsset = SetTwo(g1.venuesForSellingAsset, x, y, v, w)
      /\ g2.venuesForBuyingAsset = SetTwo(g1.venuesForBuyingAsset, x, y, w, v)
  <2>1. \A table : both(table) = SetTwo(table, x, y, WithPool(venuesAt(table[x], y), NoPool), WithPool(venuesAt(table[y], x), NoPool))
    BY <1>4, BothCells
  <2> HIDE DEF both
  <2> QED
    BY <1>4, <1>7, <2>1
<1> HIDE DEF both
<1>9. /\ NumbersInv(g2) /\ EdgesInv(g2) /\ OffersInv(g2) /\ Live(g2) = Live(g1)
      /\ \A a, b : Sel(g2, a, b).pool = IF Between(a, b, x, y) THEN NoPool ELSE Sel(g1, a, b).pool
      /\ \A o : InBook(g2, o) <=> InBook(g1, o)
      /\ PairIdle(g2, x, y)
  <2>1. NoPool \in PoolVenue \cup {NoPool}
    OBVIOUS
  <2> QED
    BY <1>4, <1>7, <1>8, <2>1, PoolSet
<1>10. /\ CoreInv(g2)
       /\ \A p : p \in poolsOf(g2) <=> p \in poolsOf(g1) /\ ~ (p.a = g1.idToAssetString[x] /\ p.b = g1.idToAssetString[y])
  BY <1>4, <1>7, <1>9, PoolDropped
<1>11. poolsOf(g1) = poolsOf(g)
  BY <1>4 DEF SameBook, poolsOf
<1>12. \A o : InBook(g1, o) <=> InBook(g, o)
  BY <1>4 DEF SameBook, InBook
<1>13. CoreInv(h) /\ UsedInv(h, {}) /\ SameBook(g2, h)
  BY <1>2, <1>4, <1>9, <1>10, PairKept DEF PairIdle
<1>14. poolsOf(h) = poolsOf(g2) /\ \A o : InBook(h, o) <=> InBook(g2, o)
  BY <1>13 DEF SameBook, poolsOf, InBook
<1> QED
  BY <1>4, <1>9, <1>10, <1>11, <1>12, <1>13, <1>14

(* One update of the batch. *)

\* The four kinds of update a batch may hold.
LEMMA UpdateKinds ==
    ASSUME NEW op \in Book!Updates
    PROVE  \/ op.kind = "addOffer" /\ op.entry \in Offers
           \/ op.kind = "removeOffer" /\ \E o \in Offers : op.entry = [id |-> o.id]
           \/ op.kind = "addPool" /\ op.entry \in Pools
           \/ op.kind = "removePool" /\ \E p \in Pools : op.entry = [a |-> p.a, b |-> p.b]
BY DEF Book!Updates, Book!Op

\* An offer that the graph has no pair for is in none of its lists.
LEMMA NoPairNoOffer ==
    ASSUME NEW g, CoreInv(g), NEW o, InBook(g, o)
    PROVE  o.id \in DOMAIN g.tradingPairForOffer
BY DEF CoreInv, OffersInv, OnRecord, InBook

\* An update leaves a consistent graph and changes what it concerns, nothing else (applyOperation).
LEMMA OperationKeeps ==
    ASSUME NEW g, CoreInv(g), UsedInv(g, {}), NEW op \in Book!Updates, NEW h, h = applyOperation(g, op)
    PROVE  /\ CoreInv(h) /\ UsedInv(h, {})
           /\ \A o : InBook(h, o) <=> \/ InBook(g, o) /\ ~ ConcernsOffer(op, o)
                                      \/ op.kind = "addOffer" /\ o = op.entry
           /\ \A p : p \in poolsOf(h) <=> \/ p \in poolsOf(g) /\ ~ ConcernsPool(op, p)
                                          \/ op.kind = "addPool" /\ p = op.entry
<1>1. CASE op.kind = "addOffer" /\ op.entry \in Offers
  <2>1. h = addOffer(g, op.entry)
    BY <1>1 DEF applyOperation
  <2>2. /\ CoreInv(h) /\ UsedInv(h, {}) /\ h.liquidityPools = g.liquidityPools
        /\ \A o : InBook(h, o) <=> (InBook(g, o) /\ o.id # op.entry.id) \/ o = op.entry
    BY <1>1, <2>1, AddOfferKeeps
  <2>3. poolsOf(h) = poolsOf(g)
    BY <2>2 DEF poolsOf
  <2>4. \A o : (ConcernsOffer(op, o) <=> o.id = op.entry.id) /\ ~ ConcernsPool(op, o)
    BY <1>1 DEF ConcernsOffer, ConcernsPool
  <2> QED
    BY <1>1, <2>2, <2>3, <2>4
<1>2. ASSUME op.kind = "removeOffer", NEW r \in Offers, op.entry = [id |-> r.id]
      PROVE  /\ CoreInv(h) /\ UsedInv(h, {})
             /\ \A o : InBook(h, o) <=> InBook(g, o) /\ ~ ConcernsOffer(op, o)
             /\ \A p : p \in poolsOf(h) <=> p \in poolsOf(g) /\ ~ ConcernsPool(op, p)
  <2>1. h = IF op.entry.id \in DOMAIN g.tradingPairForOffer THEN removeOffer(g, op.entry.id) ELSE g
    BY <1>2 DEF applyOperation
  <2>2. /\ CoreInv(h) /\ UsedInv(h, {}) /\ h.liquidityPools = g.liquidityPools
        /\ \A o : InBook(h, o) <=> InBook(g, o) /\ o.id # op.entry.id
    <3>1. CASE op.entry.id \in DOMAIN g.tradingPairForOffer
      BY <2>1, <3>1, RemoveOfferKeeps
    <3>2. CASE op.entry.id \notin DOMAIN g.tradingPairForOffer
      BY <2>1, <3>2, NoPairNoOffer
    <3> QED
      BY <3>1, <3>2
  <2>3. poolsOf(h) = poolsOf(g)
    BY <2>2 DEF poolsOf
  <2>4. \A o : (ConcernsOffer(op, o) <=> o.id = op.entry.id) /\ ~ ConcernsPool(op, o)
    BY <1>2 DEF ConcernsOffer, ConcernsPool
  <2> QED
    BY <2>2, <2>3, <2>4
<1>3. CASE op.kind = "addPool" /\ op.entry \in Pools
  <2>1. h = addPool(g, op.entry)
    BY <1>3 DEF applyOperation
  <2>2. /\ CoreInv(h) /\ UsedInv(h, {}) /\ \A o : InBook(h, o) <=> InBook(g, o)
        /\ \A p : p \in poolsOf(h) <=> (p \in poolsOf(g) /\ ~ (p.a = op.entry.a /\ p.b = op.entry.b)) \/ p = op.entry
    BY <1>3, <2>1, AddPoolKeeps
  <2>4. \A p : (ConcernsPool(op, p) <=> p.a = op.entry.a /\ p.b = op.entry.b) /\ ~ ConcernsOffer(op, p)
    BY <1>3 DEF ConcernsOffer, ConcernsPool
  <2> QED
    BY <1>3, <2>2, <2>4
<1>4. ASSUME op.kind = "removePool", NEW r \in Pools, op.entry = [a |-> r.a, b |-> r.b]
      PROVE  /\ CoreInv(h) /\ UsedInv(h, {})
             /\ \A o : InBook(h, o) <=> InBook(g, o) /\ ~ ConcernsOffer(op, o)
             /\ \A p : p \in poolsOf(h) <=> p \in poolsOf(g) /\ ~ ConcernsPool(op, p)
  <2>1. h = removePool(g, op.entry)
    BY <1>4 DEF applyOperation
  <2>2. op.entry.a = r.a /\ op.entry.b = r.b
    BY <1>4
  <2>3. op.entry.a \in Nat \ {0} /\ op.entry.b \in Nat /\ op.entry.a < op.entry.b
    BY <2>2, EntriesAssumption
  <2>4. /\ CoreInv(h) /\ UsedInv(h, {}) /\ \A o : InBook(h, o) <=> InBook(g, o)
        /\ \A p : p \in poolsOf(h) <=> p \in poolsOf(g) /\ ~ (p.a = op.entry.a /\ p.b = op.entry.b)
    BY <2>1, <2>3, RemovePoolKeeps
  <2>5. \A p : (ConcernsPool(op, p) <=> p.a = op.entry.a /\ p.b = op.entry.b) /\ ~ ConcernsOffer(op, p)
    BY <1>4 DEF ConcernsOffer, ConcernsPool
  <2> QED
    BY <2>4, <2>5
<1> QED
  <2>1. op.kind = "removeOffer" \/ op.kind = "removePool" => op.kind # "addOffer" /\ op.kind # "addPool"
    OBVIOUS
  <2> QED
    BY <1>1, <1>2, <1>3, <1>4, <2>1, UpdateKinds

\* The graph is consistent before anything is known.
LEMMA EmptyKeeps == CoreInv(emptyGraph) /\ UsedInv(emptyGraph, {}) /\ (\A o : ~ InBook(emptyGraph, o)) /\ poolsOf(emptyGraph) = {}
<1> DEFINE g == emptyGraph
<1>1. /\ g.idToAssetString = <<>> /\ g.assetStringToID = <<>> /\ g.vacantIDs = <<>>
      /\ g.venuesForSellingAsset = <<>> /\ g.venuesForBuyingAsset = <<>>
      /\ g.liquidityPools = <<>> /\ g.tradingPairForOffer = <<>> /\ g.failed = FALSE
      /\ DOMAIN g = DOMAIN emptyGraph
  BY DEF emptyGraph
<1> HIDE DEF g
<1>2. DOMAIN <<>> = {} /\ Len(<<>>) = 0 /\ <<>> \in Seq(Nat) /\ <<>> \in Seq(EdgeSets)
  OBVIOUS
<1>3. Live(g) = {} /\ vacantCells(g) = {}
  BY <1>1, <1>2 DEF Live, vacantCells
<1>4. ToSet(g.vacantIDs) = {} /\ IsInjective(g.vacantIDs)
  BY <1>1, <1>2 DEF ToSet, IsInjective
<1>5. \A x, y : Sel(g, x, y) = NoVenues /\ Buy(g, x, y) = NoVenues
  BY <1>1, <1>2 DEF Sel, Buy, At
<1>6. NumbersInv(g)
  BY <1>1, <1>2, <1>3, <1>4 DEF NumbersInv
<1>7. EdgesInv(g)
  BY <1>1, <1>2, <1>5 DEF EdgesInv, TableInv
<1>8. OffersInv(g)
  <2>1. IsFiniteSet(DOMAIN g.tradingPairForOffer)
    BY <1>1, <1>2, FS_EmptySet
  <2>2. \A x, y : DOMAIN Sel(g, x, y).offers = {} /\ ToSet(Sel(g, x, y).offers) = {}
    BY <1>2, <1>5, NoVenuesIsVenues DEF ToSet
  <2> QED
    BY <1>1, <1>2, <2>1, <2>2 DEF OffersInv, Sorted
<1>9. PoolsInv(g)
  BY <1>1, <1>2, <1>5, NoVenuesIsVenues DEF PoolsInv
<1>10. UsedInv(g, {}) /\ \A o : ~ InBook(g, o)
  BY <1>2, <1>3, <1>5, NoVenuesIsVenues DEF UsedInv, InBook, ToSet
<1>11. poolsOf(g) = {}
  BY <1>1, <1>2 DEF poolsOf
<1> QED
  BY <1>6, <1>7, <1>8, <1>9, <1>10, <1>11 DEF CoreInv, g

(* The inductive invariant holds. *)

Queue == batchedUpdates \in [operations : Seq(Book!Updates), committed : BOOLEAN]
Counters ==
    /\ applying \in Nat /\ position \in Nat \ {0} /\ lastLedger \in Nat /\ panicked \in BOOLEAN
    /\ applying # 0 => ~panicked

\* The parts of the invariant.
LEMMA BookInvParts == BookInv <=> CoreInv(graph) /\ UsedInv(graph, {}) /\ Queue /\ Counters
BY DEF BookInv, Queue, Counters

\* A new batch is a batch.
LEMMA EmptyQueue == batch \in [operations : Seq(Book!Updates), committed : BOOLEAN]
<1>1. <<>> \in Seq(Book!Updates)
  OBVIOUS
<1> QED
  BY <1>1 DEF batch

\* What AddOffer, RemoveOffer, AddLiquidityPool and RemoveLiquidityPool queue is an update.
LEMMA QueuedUpdates ==
    /\ \A o \in Offers : /\ [kind |-> "addOffer", entry |-> o] \in Book!Updates
                         /\ [kind |-> "removeOffer", entry |-> [id |-> o.id]] \in Book!Updates
    /\ \A p \in Pools : /\ [kind |-> "addPool", entry |-> p] \in Book!Updates
                        /\ [kind |-> "removePool", entry |-> [a |-> p.a, b |-> p.b]] \in Book!Updates
BY DEF Book!Updates, Book!Op

\* Every update that is queued is one of the four kinds.
LEMMA NextCases ==
    ASSUME Next
    PROVE  \/ \E op \in Book!Updates : enqueue(op)
           \/ Discard
           \/ \E ledger \in 1 .. MaxLedger : applyTwice \/ applyOutdated(ledger) \/ Apply(ledger)
           \/ applyNext \/ applyReturns \/ Clear
<1>1. ASSUME NEW o \in Offers, AddOffers(o) \/ RemoveOffer(o.id) PROVE \E op \in Book!Updates : enqueue(op)
  BY <1>1, QueuedUpdates DEF AddOffers, RemoveOffer
<1>2. ASSUME NEW p \in Pools, AddLiquidityPools(p) \/ RemoveLiquidityPool(p) PROVE \E op \in Book!Updates : enqueue(op)
  BY <1>2, QueuedUpdates DEF AddLiquidityPools, RemoveLiquidityPool
<1> QED
  BY <1>1, <1>2 DEF Next

\* The update that Apply has come to, and the graph it leaves.
LEMMA TurnTaken ==
    ASSUME BookInv, applyNext
    PROVE  /\ position \in 1 .. Len(batchedUpdates.operations)
           /\ batchedUpdates.operations[position] \in Book!Updates
           /\ graph' = applyOperation(graph, batchedUpdates.operations[position])
           /\ CoreInv(graph') /\ UsedInv(graph', {})
           /\ panicked' = FALSE /\ applying' = applying
<1> DEFINE ops == batchedUpdates.operations
           op == ops[position]
           h == applyOperation(graph, op)
<1>1. position \in 1 .. Len(ops) /\ ops \in Seq(Book!Updates)
  BY DEF BookInv, applyNext
<1>2. op \in Book!Updates
  BY <1>1, ElementOfSeq
<1>3. CoreInv(graph) /\ UsedInv(graph, {})
  BY DEF BookInv
<1>4. h = applyOperation(graph, op)
  OBVIOUS
<1>5. graph' = h /\ panicked' = h.failed /\ applying' = IF h.failed THEN 0 ELSE applying
  BY DEF applyNext
<1> HIDE DEF h
<1>6. CoreInv(h) /\ UsedInv(h, {})
  BY <1>2, <1>3, <1>4, OperationKeeps
<1>7. h.failed = FALSE
  BY <1>6 DEF CoreInv, NumbersInv
<1> QED
  BY <1>1, <1>2, <1>4, <1>5, <1>6, <1>7

\* The inductive invariant is preserved, action by action.
LEMMA BookInvStep == BookInv /\ [Next]_vars => BookInv'
<1> SUFFICES ASSUME BookInv, [Next]_vars PROVE BookInv'
  OBVIOUS
<1>0. CoreInv(graph) /\ UsedInv(graph, {}) /\ Queue /\ Counters
  BY BookInvParts
<1>p. BookInv' <=> CoreInv(graph') /\ UsedInv(graph', {}) /\ Queue' /\ Counters'
  BY DEF BookInv, Queue, Counters
<1>1. ASSUME NEW op \in Book!Updates, enqueue(op) PROVE BookInv'
  <2>1. graph' = graph /\ Counters'
    BY <1>0, <1>1 DEF enqueue, Counters
  <2>2. Append(batchedUpdates.operations, op) \in Seq(Book!Updates)
    BY <1>0, AppendProperties DEF Queue
  <2>3. Queue'
    BY <1>0, <1>1, <2>2 DEF enqueue, Queue
  <2> QED
    BY <1>0, <1>p, <2>1, <2>3
<1>2. CASE Discard
  BY <1>0, <1>2, <1>p, EmptyQueue DEF Discard, Queue, Counters
<1>3. CASE applyTwice
  BY <1>0, <1>3, <1>p DEF applyTwice, Ready, Queue, Counters
<1>4. ASSUME NEW ledger \in 1 .. MaxLedger, applyOutdated(ledger) PROVE BookInv'
  BY <1>0, <1>4, <1>p DEF applyOutdated, Queue, Counters
<1>5. ASSUME NEW ledger \in 1 .. MaxLedger, Apply(ledger) PROVE BookInv'
  <2>1. ledger \in Nat
    BY EntriesAssumption
  <2>2. graph' = graph /\ Queue'
    BY <1>0, <1>5 DEF Apply, Queue
  <2>3. applying' = ledger /\ position' = 1 /\ lastLedger' = lastLedger /\ panicked' = panicked /\ ~panicked
    BY <1>5 DEF Apply, Ready
  <2>4. Counters'
    BY <1>0, <2>1, <2>3 DEF Counters
  <2> QED
    BY <1>0, <1>p, <2>2, <2>4
<1>6. CASE applyNext
  <2>1. CoreInv(graph') /\ UsedInv(graph', {}) /\ panicked' = FALSE /\ applying' = applying
    BY <1>6, TurnTaken
  <2>2. Queue' /\ position' \in Nat \ {0} /\ lastLedger' \in Nat
    BY <1>0, <1>6 DEF applyNext, Queue, Counters
  <2> QED
    BY <1>0, <1>p, <2>1, <2>2 DEF Counters
<1>7. CASE applyReturns
  BY <1>0, <1>7, <1>p, EmptyQueue DEF applyReturns, Queue, Counters
<1>8. CASE Clear
  BY <1>0, <1>8, <1>p, EmptyQueue, EmptyKeeps DEF Clear, Queue, Counters
<1>9. CASE UNCHANGED vars
  BY <1>0, <1>9, <1>p DEF vars, Queue, Counters
<1> QED
  BY <1>1, <1>2, <1>3, <1>4, <1>5, <1>6, <1>7, <1>8, <1>9, NextCases

\* The graph satisfies its inductive invariant at every step, between two updates of a batch too.
THEOREM BookInvariant == Spec => []BookInv
<1>1. Init => BookInv
  <2> SUFFICES ASSUME Init PROVE BookInv
    OBVIOUS
  <2>1. CoreInv(graph) /\ UsedInv(graph, {})
    BY EmptyKeeps DEF Init
  <2>2. Queue
    BY EmptyQueue DEF Init, Queue
  <2>3. applying \in Nat /\ position \in Nat \ {0} /\ lastLedger \in Nat
    BY DEF Init
  <2>4. panicked \in BOOLEAN /\ ~panicked
    BY DEF Init
  <2> QED
    BY <2>1, <2>2, <2>3, <2>4, BookInvParts DEF Counters
<1> QED
  BY <1>1, BookInvStep, PTL DEF Spec

(* The graph is the book that OfferBook describes. *)

\* What the updates whose turn is yet to come make of the offers and of the pools.
LEMMA AfterMembers ==
    ASSUME NEW S, NEW queue, NEW T
    PROVE  /\ \A o : o \in OffersAfter(S, queue, T) <=>
                 \/ o \in S /\ \A i \in T : ~ ConcernsOffer(queue[i], o)
                 \/ \E t \in T : /\ queue[t].kind = "addOffer" /\ o = queue[t].entry
                                 /\ \A u \in T : u > t => ~ ConcernsOffer(queue[u], o)
           /\ \A p : p \in PoolsAfter(S, queue, T) <=>
                 \/ p \in S /\ \A i \in T : ~ ConcernsPool(queue[i], p)
                 \/ \E t \in T : /\ queue[t].kind = "addPool" /\ p = queue[t].entry
                                 /\ \A u \in T : u > t => ~ ConcernsPool(queue[u], p)
BY DEF OffersAfter, PoolsAfter

\* A batch that has no turn left changes nothing.
LEMMA NoTurns ==
    ASSUME NEW S, NEW queue
    PROVE  OffersAfter(S, queue, {}) = S /\ PoolsAfter(S, queue, {}) = S
BY DEF OffersAfter, PoolsAfter

\* The turns left are the next one and those after it.
LEMMA FirstTurn ==
    ASSUME NEW n \in Nat, NEW i \in 1 .. n
    PROVE  /\ i .. n = {i} \cup ((i + 1) .. n)
           /\ \A u \in (i + 1) .. n : u \in i .. n /\ u > i /\ ~ (i > u)
           /\ i \in i .. n
OBVIOUS

\* The first of the updates takes effect at once: the rest make the same of what it leaves.
LEMMA OffersTurn ==
    ASSUME NEW S, NEW R, NEW queue, NEW n \in Nat, NEW i \in 1 .. n,
           \A o : o \in R <=> \/ o \in S /\ ~ ConcernsOffer(queue[i], o)
                              \/ queue[i].kind = "addOffer" /\ o = queue[i].entry
    PROVE  OffersAfter(R, queue, (i + 1) .. n) = OffersAfter(S, queue, i .. n)
<1> DEFINE T == i .. n
           U == (i + 1) .. n
<1>1. T = {i} \cup U /\ (\A u \in U : u \in T /\ u > i /\ ~ (i > u)) /\ i \in T
  BY FirstTurn
<1> HIDE DEF T, U
<1>2. ASSUME NEW o PROVE o \in OffersAfter(R, queue, U) <=> o \in OffersAfter(S, queue, T)
  <2> DEFINE last(t, V) == /\ queue[t].kind = "addOffer" /\ o = queue[t].entry
                           /\ \A u \in V : u > t => ~ ConcernsOffer(queue[u], o)
  <2>1. \A t \in U : last(t, U) <=> last(t, T)
    BY <1>1
  <2>2. last(i, T) <=> queue[i].kind = "addOffer" /\ o = queue[i].entry /\ \A u \in U : ~ ConcernsOffer(queue[u], o)
    <3>1. ~ (i > i)
      OBVIOUS
    <3> QED
      BY <1>1, <3>1
  <2>3. (\E t \in T : last(t, T)) <=> last(i, T) \/ \E t \in U : last(t, U)
    <3> HIDE DEF last
    <3> QED
      BY <1>1, <2>1
  <2>4. (\A j \in T : ~ ConcernsOffer(queue[j], o))
          <=> ~ ConcernsOffer(queue[i], o) /\ \A j \in U : ~ ConcernsOffer(queue[j], o)
    BY <1>1
  <2>5. o \in OffersAfter(R, queue, U) <=>
            (o \in R /\ \A j \in U : ~ ConcernsOffer(queue[j], o)) \/ \E t \in U : last(t, U)
    BY AfterMembers
  <2>6. o \in OffersAfter(S, queue, T) <=>
            (o \in S /\ \A j \in T : ~ ConcernsOffer(queue[j], o)) \/ \E t \in T : last(t, T)
    BY AfterMembers
  <2> HIDE DEF last
  <2> QED
    BY <2>2, <2>3, <2>4, <2>5, <2>6
<1> QED
  BY <1>2 DEF T, U

\* The pools after the turns left are the pools after the next turn and then those after it.
LEMMA PoolsTurn ==
    ASSUME NEW S, NEW R, NEW queue, NEW n \in Nat, NEW i \in 1 .. n,
           \A p : p \in R <=> \/ p \in S /\ ~ ConcernsPool(queue[i], p)
                              \/ queue[i].kind = "addPool" /\ p = queue[i].entry
    PROVE  PoolsAfter(R, queue, (i + 1) .. n) = PoolsAfter(S, queue, i .. n)
<1> DEFINE T == i .. n
           U == (i + 1) .. n
<1>1. T = {i} \cup U /\ (\A u \in U : u \in T /\ u > i /\ ~ (i > u)) /\ i \in T
  BY FirstTurn
<1> HIDE DEF T, U
<1>2. ASSUME NEW p PROVE p \in PoolsAfter(R, queue, U) <=> p \in PoolsAfter(S, queue, T)
  <2> DEFINE last(t, V) == /\ queue[t].kind = "addPool" /\ p = queue[t].entry
                           /\ \A u \in V : u > t => ~ ConcernsPool(queue[u], p)
  <2>1. \A t \in U : last(t, U) <=> last(t, T)
    BY <1>1
  <2>2. last(i, T) <=> queue[i].kind = "addPool" /\ p = queue[i].entry /\ \A u \in U : ~ ConcernsPool(queue[u], p)
    <3>1. ~ (i > i)
      OBVIOUS
    <3> QED
      BY <1>1, <3>1
  <2>3. (\E t \in T : last(t, T)) <=> last(i, T) \/ \E t \in U : last(t, U)
    <3> HIDE DEF last
    <3> QED
      BY <1>1, <2>1
  <2>4. (\A j \in T : ~ ConcernsPool(queue[j], p))
          <=> ~ ConcernsPool(queue[i], p) /\ \A j \in U : ~ ConcernsPool(queue[j], p)
    BY <1>1
  <2>5. p \in PoolsAfter(R, queue, U) <=>
            (p \in R /\ \A j \in U : ~ ConcernsPool(queue[j], p)) \/ \E t \in U : last(t, U)
    BY AfterMembers
  <2>6. p \in PoolsAfter(S, queue, T) <=>
            (p \in S /\ \A j \in T : ~ ConcernsPool(queue[j], p)) \/ \E t \in T : last(t, T)
    BY AfterMembers
  <2> HIDE DEF last
  <2> QED
    BY <2>2, <2>3, <2>4, <2>5, <2>6
<1> QED
  BY <1>2 DEF T, U

\* Between two batches the book is what the graph holds.
LEMMA BookAtRest ==
    ASSUME Queue, applying = 0
    PROVE  /\ bookOffers = offersIn(graph.venuesForSellingAsset) /\ bookPools = poolsOf(graph)
           /\ bookQueue = batchedUpdates.operations /\ bookCommitted = batchedUpdates.committed
           /\ bookLedger = lastLedger
<1>1. batchedUpdates.committed \in BOOLEAN
  BY DEF Queue
<1>2. bookCommitted = batchedUpdates.committed
  BY <1>1 DEF bookCommitted
<1> QED
  BY <1>2, NoTurns DEF bookOffers, bookPools, bookQueue, bookLedger, turns

\* The same of the state after a step.
LEMMA BookAtRestNext ==
    ASSUME Queue', applying' = 0
    PROVE  /\ bookOffers' = offersIn(graph'.venuesForSellingAsset) /\ bookPools' = poolsOf(graph')
           /\ bookQueue' = batchedUpdates'.operations /\ bookCommitted' = batchedUpdates'.committed
           /\ bookLedger' = lastLedger'
<1>1. batchedUpdates'.committed \in BOOLEAN
  BY DEF Queue
<1>2. bookCommitted' = batchedUpdates'.committed
  BY <1>1 DEF bookCommitted
<1>3. bookQueue' = batchedUpdates'.operations /\ bookLedger' = lastLedger'
  BY DEF bookQueue, bookLedger
<1> QED
  BY <1>2, <1>3, NoTurns DEF bookOffers, bookPools, turns, offersIn, slotsOf, venuesOf, offerIn, poolsOf

\* While a batch is applied, the book is what the graph will hold.
LEMMA BookApplying ==
    ASSUME applying # 0
    PROVE  LET T == position .. Len(batchedUpdates.operations) IN
             /\ bookOffers = OffersAfter(offersIn(graph.venuesForSellingAsset), batchedUpdates.operations, T)
             /\ bookPools = PoolsAfter(poolsOf(graph), batchedUpdates.operations, T)
             /\ bookQueue = <<>> /\ bookCommitted = FALSE /\ bookLedger = applying
BY DEF bookOffers, bookPools, bookQueue, bookCommitted, bookLedger, turns

\* The same of the state after a step.
LEMMA BookApplyingNext ==
    ASSUME applying' # 0
    PROVE  LET T == position' .. Len(batchedUpdates'.operations) IN
             /\ bookOffers' = OffersAfter(offersIn(graph'.venuesForSellingAsset), batchedUpdates'.operations, T)
             /\ bookPools' = PoolsAfter(poolsOf(graph'), batchedUpdates'.operations, T)
             /\ bookQueue' = <<>> /\ bookCommitted' = FALSE /\ bookLedger' = applying'
BY DEF bookOffers, bookPools, bookQueue, bookCommitted, bookLedger, turns

\* The abstract book applies the updates as OrderBookGraph's mapping does.
LEMMA SameUpdates ==
    \A S, queue, T : /\ Book!OffersAfter(S, queue, T) = OffersAfter(S, queue, T)
                     /\ Book!PoolsAfter(S, queue, T) = PoolsAfter(S, queue, T)
BY DEF OffersAfter, PoolsAfter, ConcernsOffer, ConcernsPool,
       Book!OffersAfter, Book!PoolsAfter, Book!ConcernsOffer, Book!ConcernsPool

\* A step of the graph is a step of the book, or none: a batch takes effect when Apply starts on it.
LEMMA BookStep ==
    ASSUME BookInv, BookInv', [Next]_vars
    PROVE  [Book!Next]_(Book!vars)
<1>0. Queue /\ Counters /\ Queue' /\ Counters'
  BY DEF BookInv, Queue, Counters
<1> DEFINE same == /\ bookOffers' = bookOffers /\ bookPools' = bookPools /\ bookQueue' = bookQueue
                   /\ bookCommitted' = bookCommitted /\ bookLedger' = bookLedger
<1>1. ASSUME NEW op \in Book!Updates, enqueue(op) PROVE [Book!Next]_(Book!vars)
  <2>1. applying = 0 /\ applying' = 0 /\ ~panicked /\ graph' = graph /\ lastLedger' = lastLedger /\ panicked' = panicked
    BY <1>1 DEF enqueue, Ready
  <2>2. /\ Len(batchedUpdates.operations) < MaxBatch
        /\ batchedUpdates' = [batchedUpdates EXCEPT !.operations = Append(@, op)]
    BY <1>1 DEF enqueue
  <2>3. /\ batchedUpdates'.operations = Append(batchedUpdates.operations, op)
        /\ batchedUpdates'.committed = batchedUpdates.committed
    BY <1>0, <2>2 DEF Queue
  <2>4. /\ bookOffers' = bookOffers /\ bookPools' = bookPools /\ bookQueue' = Append(bookQueue, op)
        /\ bookCommitted' = bookCommitted /\ bookLedger' = bookLedger /\ Len(bookQueue) < MaxBatch
    BY <1>0, <2>1, <2>2, <2>3, BookAtRest, BookAtRestNext
  <2>5. Book!Enqueue(op)
    BY <2>1, <2>4 DEF Book!Enqueue
  <2> QED
    BY <2>5 DEF Book!Next
<1>2. CASE Discard
  <2>1. /\ applying = 0 /\ applying' = 0 /\ ~panicked /\ graph' = graph /\ lastLedger' = lastLedger
        /\ panicked' = panicked /\ batchedUpdates' = batch
    BY <1>2 DEF Discard, Ready
  <2>2. batch.operations = <<>> /\ batch.committed = FALSE
    BY DEF batch
  <2>3. /\ bookOffers' = bookOffers /\ bookPools' = bookPools /\ bookQueue' = <<>>
        /\ bookCommitted' = FALSE /\ bookLedger' = bookLedger
    BY <1>0, <2>1, <2>2, BookAtRest, BookAtRestNext
  <2>4. Book!Discard
    BY <2>1, <2>3 DEF Book!Discard
  <2> QED
    BY <2>4 DEF Book!Next
<1>3. ASSUME NEW ledger \in 1 .. MaxLedger, applyTwice PROVE [Book!Next]_(Book!vars)
  <2>1. /\ applying = 0 /\ applying' = 0 /\ ~panicked /\ graph' = graph /\ lastLedger' = lastLedger
        /\ panicked' = TRUE /\ batchedUpdates' = batchedUpdates /\ batchedUpdates.committed
    BY <1>3 DEF applyTwice, Ready
  <2>2. same /\ bookCommitted
    BY <1>0, <2>1, BookAtRest, BookAtRestNext
  <2>3. Book!Apply(ledger)
    BY <2>1, <2>2 DEF Book!Apply
  <2> QED
    BY <2>3 DEF Book!Next
<1>4. ASSUME NEW ledger \in 1 .. MaxLedger, applyOutdated(ledger) PROVE [Book!Next]_(Book!vars)
  <2>1. /\ applying = 0 /\ applying' = 0 /\ ~panicked /\ graph' = graph /\ lastLedger' = lastLedger
        /\ panicked' = panicked /\ ~batchedUpdates.committed
        /\ batchedUpdates' = [batchedUpdates EXCEPT !.committed = TRUE]
    BY <1>4 DEF applyOutdated, Ready
  <2>2. lastLedger > 0 /\ ledger <= lastLedger
    BY <1>4 DEF applyOutdated
  <2>3. batchedUpdates'.operations = batchedUpdates.operations /\ batchedUpdates'.committed = TRUE
    BY <1>0, <2>1 DEF Queue
  <2>4. /\ bookOffers' = bookOffers /\ bookPools' = bookPools /\ bookQueue' = bookQueue
        /\ bookCommitted' = TRUE /\ ~bookCommitted /\ bookLedger' = bookLedger /\ bookLedger = lastLedger
    BY <1>0, <2>1, <2>3, BookAtRest, BookAtRestNext
  <2>5. bookLedger > 0 /\ ledger <= bookLedger
    BY <2>2, <2>4
  <2>6. Book!Apply(ledger)
    BY <2>1, <2>4, <2>5 DEF Book!Apply
  <2> QED
    BY <2>6 DEF Book!Next
<1>5. ASSUME NEW ledger \in 1 .. MaxLedger, Apply(ledger) PROVE [Book!Next]_(Book!vars)
  <2>1. /\ applying = 0 /\ applying' = ledger /\ position' = 1 /\ ~panicked /\ graph' = graph
        /\ panicked' = panicked /\ ~batchedUpdates.committed
        /\ batchedUpdates' = [batchedUpdates EXCEPT !.committed = TRUE]
    BY <1>5 DEF Apply, Ready
  <2>2. ledger > lastLedger /\ ledger # 0
    <3>1. lastLedger \in Nat /\ ledger \in Int /\ ledger >= 1 /\ ~ (lastLedger > 0 /\ ledger <= lastLedger)
      BY <1>0, <1>5, EntriesAssumption DEF Apply, Counters
    <3> QED
      BY <3>1
  <2>3. batchedUpdates'.operations = batchedUpdates.operations
    BY <1>0, <2>1 DEF Queue
  <2>4. 1 .. Len(batchedUpdates.operations) = DOMAIN batchedUpdates.operations
    BY <1>0, LenProperties DEF Queue
  <2>5. applying' # 0
    BY <2>1, <2>2
  <2>6. /\ bookOffers = offersIn(graph.venuesForSellingAsset) /\ bookPools = poolsOf(graph)
        /\ bookQueue = batchedUpdates.operations /\ ~bookCommitted /\ bookLedger = lastLedger
    BY <1>0, <2>1, BookAtRest
  <2>7. LET T == 1 .. Len(batchedUpdates.operations) IN
        /\ bookOffers' = OffersAfter(offersIn(graph.venuesForSellingAsset), batchedUpdates.operations, T)
        /\ bookPools' = PoolsAfter(poolsOf(graph), batchedUpdates.operations, T)
        /\ bookQueue' = <<>> /\ bookCommitted' = FALSE /\ bookLedger' = ledger
    BY <2>1, <2>3, <2>5, BookApplyingNext
  <2>8. /\ bookOffers' = OffersAfter(bookOffers, bookQueue, DOMAIN bookQueue)
        /\ bookPools' = PoolsAfter(bookPools, bookQueue, DOMAIN bookQueue)
    BY <2>4, <2>6, <2>7
  <2>9. bookCommitted' = bookCommitted
    BY <2>6, <2>7 DEF bookCommitted
  <2>10. ledger > bookLedger
    BY <2>2, <2>6
  <2>11. Book!Apply(ledger)
    BY <2>1, <2>6, <2>7, <2>8, <2>9, <2>10, SameUpdates, Zenon DEF Book!Apply
  <2> QED
    BY <2>11 DEF Book!Next
<1>6. CASE applyNext
  <2> DEFINE ops == batchedUpdates.operations
  <2>1. /\ position \in 1 .. Len(ops) /\ ops[position] \in Book!Updates /\ applying # 0 /\ applying' # 0
        /\ graph' = applyOperation(graph, ops[position])
        /\ panicked' = FALSE /\ panicked = FALSE /\ applying' = applying
    <3>1. applying # 0 /\ panicked = FALSE
      BY <1>0, <1>6 DEF applyNext, Counters
    <3> QED
      BY <1>6, <3>1, TurnTaken
  <2>2. batchedUpdates' = batchedUpdates /\ position' = position + 1
    BY <1>6 DEF applyNext
  <2>3. Len(ops) \in Nat
    BY <1>0, LenProperties DEF Queue
  <2>4. /\ \A o : InBook(graph', o) <=> \/ InBook(graph, o) /\ ~ ConcernsOffer(ops[position], o)
                                        \/ ops[position].kind = "addOffer" /\ o = ops[position].entry
        /\ \A p : p \in poolsOf(graph') <=> \/ p \in poolsOf(graph) /\ ~ ConcernsPool(ops[position], p)
                                            \/ ops[position].kind = "addPool" /\ p = ops[position].entry
    <3>1. CoreInv(graph) /\ UsedInv(graph, {})
      BY DEF BookInv
    <3> QED
      BY <2>1, <3>1, OperationKeeps
  <2> DEFINE S == offersIn(graph.venuesForSellingAsset)
             R == offersIn(graph'.venuesForSellingAsset)
  <2>5. \A o : o \in R <=> \/ o \in S /\ ~ ConcernsOffer(ops[position], o)
                           \/ ops[position].kind = "addOffer" /\ o = ops[position].entry
    BY <2>4, OffersListed
  <2> HIDE DEF S, R, ops
  <2>6. OffersAfter(R, ops, (position + 1) .. Len(ops)) = OffersAfter(S, ops, position .. Len(ops))
    BY <2>1, <2>3, <2>5, OffersTurn
  <2>7. PoolsAfter(poolsOf(graph'), ops, (position + 1) .. Len(ops)) = PoolsAfter(poolsOf(graph), ops, position .. Len(ops))
    BY <2>1, <2>3, <2>4, PoolsTurn
  <2>8. /\ bookOffers' = OffersAfter(R, ops, (position + 1) .. Len(ops))
        /\ bookPools' = PoolsAfter(poolsOf(graph'), ops, (position + 1) .. Len(ops))
        /\ bookQueue' = <<>> /\ bookCommitted' = FALSE /\ bookLedger' = applying
    BY <2>1, <2>2, BookApplyingNext DEF ops, R
  <2>9. /\ bookOffers = OffersAfter(S, ops, position .. Len(ops))
        /\ bookPools = PoolsAfter(poolsOf(graph), ops, position .. Len(ops))
        /\ bookQueue = <<>> /\ bookCommitted = FALSE /\ bookLedger = applying
    BY <2>1, BookApplying DEF ops, S
  <2>10. same /\ panicked' = panicked
    BY <2>1, <2>6, <2>7, <2>8, <2>9
  <2> QED
    BY <2>10 DEF Book!vars
<1>7. CASE applyReturns
  <2>1. /\ applying # 0 /\ applying' = 0 /\ lastLedger' = applying /\ graph' = graph
        /\ panicked' = panicked /\ batchedUpdates' = batch
        /\ position > Len(batchedUpdates.operations)
    BY <1>7 DEF applyReturns
  <2>2. batch.operations = <<>> /\ batch.committed = FALSE
    BY DEF batch
  <2>3. position .. Len(batchedUpdates.operations) = {}
    <3>1. position \in Nat /\ Len(batchedUpdates.operations) \in Nat
      BY <1>0, LenProperties DEF Queue, Counters
    <3> QED
      BY <2>1, <3>1
  <2>4. /\ bookOffers = offersIn(graph.venuesForSellingAsset) /\ bookPools = poolsOf(graph)
        /\ bookQueue = <<>> /\ bookCommitted = FALSE /\ bookLedger = applying
    BY <2>1, <2>3, BookApplying, NoTurns
  <2>5. same
    BY <1>0, <2>1, <2>2, <2>4, BookAtRestNext
  <2> QED
    BY <2>1, <2>5 DEF Book!vars
<1>8. CASE Clear
  <2>1. /\ applying = 0 /\ applying' = 0 /\ ~panicked /\ graph' = emptyGraph /\ lastLedger' = 0
        /\ panicked' = panicked /\ batchedUpdates' = batch
    BY <1>8 DEF Clear, Ready
  <2>2. batch.operations = <<>> /\ batch.committed = FALSE
    BY DEF batch
  <2>3. offersIn(emptyGraph.venuesForSellingAsset) = {} /\ poolsOf(emptyGraph) = {}
    BY EmptyKeeps, OffersListed
  <2>4. /\ bookOffers' = {} /\ bookPools' = {} /\ bookQueue' = <<>>
        /\ bookCommitted' = FALSE /\ bookLedger' = 0
    BY <1>0, <2>1, <2>2, <2>3, BookAtRestNext
  <2>5. Book!Clear
    BY <2>1, <2>4 DEF Book!Clear
  <2> QED
    BY <2>5 DEF Book!Next
<1>9. CASE UNCHANGED vars
  <2>1. same /\ panicked' = panicked
    BY <1>9 DEF vars, bookOffers, bookPools, bookQueue, bookCommitted, bookLedger, turns
  <2> QED
    BY <2>1 DEF Book!vars
<1> QED
  BY <1>1, <1>2, <1>3, <1>4, <1>5, <1>6, <1>7, <1>8, <1>9, NextCases

(***************************************************************************)
(* For all offers and pools, batches and ledgers: what Offers and          *)
(* LiquidityPools return is what the applied batches say, in order.        *)
(***************************************************************************)
THEOREM GraphKeepsOffers == Spec => KeepsOffers
<1>1. Init => Book!Init
  <2> SUFFICES ASSUME Init PROVE Book!Init
    OBVIOUS
  <2>1. /\ graph = emptyGraph /\ batchedUpdates = batch /\ applying = 0 /\ lastLedger = 0 /\ panicked = FALSE
    BY DEF Init
  <2>2. batch.operations = <<>> /\ batch.committed = FALSE
    BY DEF batch
  <2>3. offersIn(emptyGraph.venuesForSellingAsset) = {} /\ poolsOf(emptyGraph) = {}
    BY EmptyKeeps, OffersListed
  <2>4. Queue
    BY <2>1, EmptyQueue DEF Queue
  <2>5. bookOffers = {} /\ bookPools = {} /\ bookQueue = <<>> /\ bookCommitted = FALSE /\ bookLedger = 0
    BY <2>1, <2>2, <2>3, <2>4, BookAtRest
  <2> QED
    BY <2>1, <2>5 DEF Book!Init
<1>2. BookInv /\ BookInv' /\ [Next]_vars => [Book!Next]_(Book!vars)
  BY BookStep
<1> QED
  BY <1>1, <1>2, BookInvariant, PTL DEF Spec, KeepsOffers, Book!Spec

(* What the invariant says of Verify and beyond. *)

\* What verifyTable asks of an offer and of a pool in the cell of x and y.
OfferFits(g, own, other, x, y, o) ==
    /\ o[own] = g.idToAssetString[x] /\ o[other] = g.idToAssetString[y]
    /\ o.id \in DOMAIN g.tradingPairForOffer
    /\ g.tradingPairForOffer[o.id][own] = x /\ g.tradingPairForOffer[o.id][other] = y
PoolFits(g, x, y, pool) ==
    pool # NoPool => /\ {pool.assetA, pool.assetB} = {x, y}
                     /\ g.assetStringToID[pool.entry.a] = pool.assetA
                     /\ g.assetStringToID[pool.entry.b] = pool.assetB

\* A table is verified if its venues are those of pairs in use, in order, on record and no offer is there twice.
LEMMA TableVerified ==
    ASSUME NEW g, NEW table, TableInv(g, table), NEW own, NEW other,
           \A x, y : At(table, x, y) # NoVenues => x \in Live(g) /\ y \in Live(g),
           \A x, y : Sorted(At(table, x, y).offers),
           \A x, y : \A o \in ToSet(At(table, x, y).offers) : OfferFits(g, own, other, x, y, o),
           \A x, y : PoolFits(g, x, y, At(table, x, y).pool)
    PROVE  verifyTable(g, table, own, other)
<1>1. Len(table) = Len(g.idToAssetString)
  BY DEF TableInv
<1>2. ASSUME NEW id \in DOMAIN table, g.idToAssetString[id] = Vacant PROVE DOMAIN table[id] = {}
  <2>1. \A y : At(table, id, y) = NoVenues
    BY <1>2, LiveNames
  <2>2. \A y \in DOMAIN table[id] : At(table, id, y) # NoVenues
    BY DEF TableInv, At, venuesAt
  <2>3. \A y : y \notin DOMAIN table[id]
    BY <2>1, <2>2
  <2> QED
    BY <2>3
<1>3. ASSUME NEW slot \in slotsOf(table)
      PROVE  /\ OfferFits(g, own, other, slot[1], slot[2], offerIn(table, slot))
             /\ \A s \in slotsOf(table) \ {slot} : offerIn(table, s).id # offerIn(table, slot).id
  <2>1. PICK x, y, m : slot = <<x, y, m>> /\ m \in DOMAIN At(table, x, y).offers
    BY Slots
  <2> DEFINE o == offerIn(table, slot)
  <2>2. o = At(table, x, y).offers[m] /\ slot[1] = x /\ slot[2] = y
    BY <2>1, SlotOffer
  <2>3. o \in ToSet(At(table, x, y).offers)
    BY <2>1, <2>2 DEF ToSet
  <2>4. ASSUME NEW s \in slotsOf(table), offerIn(table, s).id = o.id PROVE s = slot
    <3>1. PICK a, b, n : s = <<a, b, n>> /\ n \in DOMAIN At(table, a, b).offers
      BY Slots
    <3>2. offerIn(table, s) = At(table, a, b).offers[n]
      BY <3>1, SlotOffer
    <3>3. offerIn(table, s) \in ToSet(At(table, a, b).offers)
      BY <3>1, <3>2 DEF ToSet
    <3>4. a = x /\ b = y
      <4>1. OfferFits(g, own, other, a, b, offerIn(table, s)) /\ OfferFits(g, own, other, x, y, o)
        BY <2>3, <3>3
      <4> HIDE DEF o
      <4> QED
        BY <2>4, <4>1 DEF OfferFits
    <3>5. TableInv(g, table) /\ m \in Int /\ n \in Int
      <4>1. At(table, x, y) \in VenuesRecord
        BY AtType DEF TableInv
      <4>2. At(table, x, y).offers \in Seq(Offers)
        BY <4>1 DEF VenuesRecord
      <4>3. DOMAIN At(table, x, y).offers = 1 .. Len(At(table, x, y).offers)
        BY <4>2, LenProperties
      <4> QED
        BY <2>1, <3>1, <3>4, <4>3
    <3>6. ~ (m < n) /\ ~ (n < m)
      BY <2>1, <2>2, <2>4, <3>1, <3>2, <3>4 DEF Sorted
    <3> QED
      BY <2>1, <3>1, <3>4, <3>5, <3>6
  <2> HIDE DEF o
  <2> QED
    BY <2>2, <2>3, <2>4 DEF o
<1>4. ASSUME NEW v \in venuesOf(table)
      PROVE  PoolFits(g, v[1], v[2], table[v[1]][v[2]].pool)
  <2>1. PICK x, y : x \in DOMAIN table /\ y \in DOMAIN table[x] /\ v = <<x, y>>
    BY DEF venuesOf
  <2>2. v[1] = x /\ v[2] = y /\ table[x][y] = At(table, x, y)
    BY <2>1 DEF At, venuesAt
  <2> QED
    BY <2>2
<1>5. \A slot \in slotsOf(table) :
          LET o == offerIn(table, slot)
          IN /\ o[own] = g.idToAssetString[slot[1]] /\ o[other] = g.idToAssetString[slot[2]]
             /\ o.id \in DOMAIN g.tradingPairForOffer
             /\ g.tradingPairForOffer[o.id][own] = slot[1]
             /\ g.tradingPairForOffer[o.id][other] = slot[2]
             /\ \A s \in slotsOf(table) \ {slot} : offerIn(table, s).id # o.id
  BY <1>3 DEF OfferFits
<1>6. \A v \in venuesOf(table) :
          LET pool == table[v[1]][v[2]].pool
          IN pool # NoPool => /\ {pool.assetA, pool.assetB} = {v[1], v[2]}
                              /\ g.assetStringToID[pool.entry.a] = pool.assetA
                              /\ g.assetStringToID[pool.entry.b] = pool.assetB
  BY <1>4, Zenon DEF PoolFits
<1> QED
  BY <1>1, <1>2, <1>5, <1>6, Zenon DEF verifyTable

\* The selling table holds Sel and the buying table its transpose: both pass verifyTable.
LEMMA BothVerified ==
    ASSUME NEW g, CoreInv(g)
    PROVE  /\ verifyTable(g, g.venuesForSellingAsset, "selling", "buying")
           /\ verifyTable(g, g.venuesForBuyingAsset, "buying", "selling")
<1> DEFINE S == g.venuesForSellingAsset
           B == g.venuesForBuyingAsset
<1>1. NumbersInv(g) /\ EdgesInv(g) /\ OffersInv(g) /\ PoolsInv(g)
  BY DEF CoreInv
<1>2. \A x, y : At(S, x, y) = Sel(g, x, y) /\ At(B, x, y) = Sel(g, y, x)
  BY <1>1 DEF EdgesInv, Sel, Buy
<1>3. TableInv(g, S) /\ TableInv(g, B)
  BY <1>1 DEF EdgesInv
<1>4. \A x, y : Sel(g, x, y) # NoVenues => x \in Live(g) /\ y \in Live(g)
  BY <1>1 DEF EdgesInv
<1>5. \A x, y : Sorted(Sel(g, x, y).offers)
  BY <1>1 DEF OffersInv
<1>6. ASSUME NEW x, NEW y, NEW o \in ToSet(Sel(g, x, y).offers)
      PROVE  OfferFits(g, "selling", "buying", x, y, o) /\ OfferFits(g, "buying", "selling", y, x, o)
  <2>1. OnRecord(g, x, y, o)
    BY <1>1 DEF OffersInv
  <2>2. /\ o["selling"] = g.idToAssetString[x] /\ o["buying"] = g.idToAssetString[y]
        /\ o.id \in DOMAIN g.tradingPairForOffer
        /\ g.tradingPairForOffer[o.id] = [buying |-> y, selling |-> x]
    BY <2>1 DEF OnRecord
  <2>3. g.tradingPairForOffer[o.id]["selling"] = x /\ g.tradingPairForOffer[o.id]["buying"] = y
    BY <2>2
  <2> QED
    BY <2>2, <2>3 DEF OfferFits
<1>7. ASSUME NEW x, NEW y
      PROVE  PoolFits(g, x, y, Sel(g, x, y).pool) /\ PoolFits(g, y, x, Sel(g, x, y).pool)
  <2> DEFINE pool == Sel(g, x, y).pool
             a == pool.assetA
             b == pool.assetB
  <2> SUFFICES ASSUME pool # NoPool PROVE PoolFits(g, x, y, pool) /\ PoolFits(g, y, x, pool)
    BY DEF PoolFits
  <2>1. <<a, b>> \in DOMAIN g.liquidityPools /\ <<a, b>> \in {<<x, y>>, <<y, x>>}
    BY <1>1 DEF PoolsInv
  <2>2. (a = x /\ b = y) \/ (a = y /\ b = x)
    BY <2>1
  <2>3. /\ Sel(g, a, b).pool.entry = g.liquidityPools[<<a, b>>] /\ Sel(g, b, a).pool = Sel(g, a, b).pool
        /\ g.liquidityPools[<<a, b>>] \in Pools
        /\ g.idToAssetString[a] = g.liquidityPools[<<a, b>>].a /\ g.idToAssetString[b] = g.liquidityPools[<<a, b>>].b
    <3> DEFINE key == <<a, b>>
    <3>1. key[1] = a /\ key[2] = b /\ key \in DOMAIN g.liquidityPools
      BY <2>1
    <3> HIDE DEF key, a, b
    <3>2. LET entry == g.liquidityPools[key]
              p == [entry |-> entry, assetA |-> a, assetB |-> b]
          IN /\ entry \in Pools
             /\ g.idToAssetString[a] = entry.a /\ g.idToAssetString[b] = entry.b
             /\ Sel(g, a, b).pool = p /\ Sel(g, b, a).pool = p
      BY <1>1, <3>1 DEF PoolsInv
    <3> QED
      BY <3>2 DEF key
  <2>4. pool.entry = g.liquidityPools[<<a, b>>]
    BY <2>2, <2>3
  <2>5. a \in Live(g) /\ b \in Live(g)
    <3>1. Sel(g, x, y) # NoVenues
      BY NoVenuesIsVenues
    <3> QED
      BY <1>4, <2>2, <3>1
  <2>6. g.assetStringToID[pool.entry.a] = a /\ g.assetStringToID[pool.entry.b] = b
    <3>1. g.assetStringToID[g.idToAssetString[a]] = a /\ g.assetStringToID[g.idToAssetString[b]] = b
      BY <1>1, <2>5 DEF NumbersInv
    <3> QED
      BY <2>3, <2>4, <3>1
  <2>7. {a, b} = {x, y}
    BY <2>2
  <2> QED
    BY <2>6, <2>7 DEF PoolFits
<1> HIDE DEF S, B
<1>8. verifyTable(g, S, "selling", "buying")
  BY <1>2, <1>3, <1>4, <1>5, <1>6, <1>7, TableVerified
<1>9. verifyTable(g, B, "buying", "selling")
  BY <1>2, <1>3, <1>4, <1>5, <1>6, <1>7, TableVerified
<1> QED
  BY <1>8, <1>9 DEF S, B

\* Every offer has one pair on record and every pair on record one offer.
LEMMA OffersCounted ==
    ASSUME NEW g, CoreInv(g)
    PROVE  /\ Cardinality(offersIn(g.venuesForSellingAsset)) = Cardinality(DOMAIN g.tradingPairForOffer)
           /\ offersIn(g.venuesForBuyingAsset) = offersIn(g.venuesForSellingAsset)
<1> DEFINE S == g.venuesForSellingAsset
           O == offersIn(S)
           T == DOMAIN g.tradingPairForOffer
           f == [o \in O |-> o.id]
<1>1. EdgesInv(g) /\ OffersInv(g) /\ IsFiniteSet(T)
  BY DEF CoreInv, OffersInv
<1>2. \A o : o \in O <=> InBook(g, o)
  BY OffersListed
<1>3. \A o \in O : o.id \in T
  BY <1>2, NoPairNoOffer
<1>4. ASSUME NEW o \in O, NEW q \in O, o.id = q.id PROVE o = q
  <2>1. PICK x, y : o \in ToSet(Sel(g, x, y).offers)
    BY <1>2 DEF InBook
  <2>2. PICK a, b : q \in ToSet(Sel(g, a, b).offers)
    BY <1>2 DEF InBook
  <2>3. OnRecord(g, x, y, o) /\ OnRecord(g, a, b, q)
    BY <1>1, <2>1, <2>2 DEF OffersInv
  <2>4. a = x /\ b = y
    <3>1. [buying |-> y, selling |-> x] = [buying |-> b, selling |-> a]
      BY <1>4, <2>3 DEF OnRecord
    <3> QED
      BY <3>1
  <2> DEFINE list == Sel(g, x, y).offers
  <2>5. PICK m \in DOMAIN list : list[m] = o
    BY <2>1 DEF ToSet
  <2>6. PICK n \in DOMAIN list : list[n] = q
    BY <2>2, <2>4 DEF ToSet
  <2>7. list \in Seq(Offers)
    BY <1>1, SelType DEF VenuesRecord
  <2>8. m \in Int /\ n \in Int
    BY <2>5, <2>6, <2>7, LenProperties
  <2>9. Sorted(list)
    BY <1>1 DEF OffersInv
  <2>10. ~ (m < n) /\ ~ (n < m)
    BY <1>4, <2>5, <2>6, <2>9 DEF Sorted
  <2> QED
    BY <2>5, <2>6, <2>8, <2>10
<1>5. ASSUME NEW id \in T PROVE \E o \in O : o.id = id
  BY <1>1, <1>2 DEF OffersInv, InBook
<1> HIDE DEF O, T
<1>6. f \in Injection(O, T)
  BY <1>3, <1>4 DEF Injection, IsInjective
<1>7. f \in Surjection(O, T)
  BY <1>3, <1>5 DEF Surjection
<1>8. Cardinality(O) = Cardinality(T)
  <2> HIDE DEF f
  <2> QED
    BY <1>1, <1>6, <1>7, FS_Injection
<1>9. offersIn(g.venuesForBuyingAsset) = O
  <2>1. \A x, y : At(g.venuesForBuyingAsset, y, x) = Sel(g, x, y)
    BY <1>1 DEF EdgesInv, Buy
  <2>2. \A o : o \in offersIn(g.venuesForBuyingAsset) <=> InBook(g, o)
    BY <2>1, OffersOfTable DEF InBook
  <2> QED
    BY <1>2, <2>2
<1> QED
  BY <1>8, <1>9 DEF O, T

\* The pool of a pair, if it has one, is the one on record for the pair.
LEMMA PoolOfPair ==
    ASSUME NEW g, CoreInv(g), NEW x, NEW y, Sel(g, x, y).pool # NoPool
    PROVE  \E key \in DOMAIN g.liquidityPools :
              /\ (key[1] = x /\ key[2] = y) \/ (key[1] = y /\ key[2] = x)
              /\ Sel(g, x, y).pool.entry = g.liquidityPools[key]
              /\ Sel(g, y, x).pool = Sel(g, x, y).pool
<1> DEFINE pool == Sel(g, x, y).pool
           key == <<pool.assetA, pool.assetB>>
<1>1. key \in DOMAIN g.liquidityPools /\ key \in {<<x, y>>, <<y, x>>}
  BY DEF CoreInv, PoolsInv
<1>2. (key[1] = x /\ key[2] = y) \/ (key[1] = y /\ key[2] = x)
  BY <1>1
<1> HIDE DEF key
<1>3. LET entry == g.liquidityPools[key]
          p == [entry |-> entry, assetA |-> key[1], assetB |-> key[2]]
      IN Sel(g, key[1], key[2]).pool = p /\ Sel(g, key[2], key[1]).pool = p
  BY <1>1 DEF CoreInv, PoolsInv
<1>4. Sel(g, x, y).pool.entry = g.liquidityPools[key] /\ Sel(g, y, x).pool = Sel(g, x, y).pool
  BY <1>2, <1>3
<1> QED
  BY <1>1, <1>2, <1>4

\* A table of either kind holds the pools on record, each in both directions.
LEMMA PoolsOfTable ==
    ASSUME NEW g, CoreInv(g), NEW table, \A x, y : At(table, x, y).pool = Sel(g, x, y).pool
    PROVE  poolsIn(g, table) = poolsBothWays(g)
<1>1. \A v : v \in venuesOf(table) <=> \E x \in DOMAIN table : \E y \in DOMAIN table[x] : v = <<x, y>>
  BY DEF venuesOf
<1>2. \A e : e \in poolsIn(g, table) <=>
          \E v \in venuesOf(table) : /\ table[v[1]][v[2]].pool # NoPool
                                     /\ e = <<v[1], v[2], table[v[1]][v[2]].pool.entry>>
  BY DEF poolsIn
<1>3. \A e : e \in poolsBothWays(g) <=>
          \E k \in DOMAIN g.liquidityPools :
             e = <<k[1], k[2], g.liquidityPools[k]>> \/ e = <<k[2], k[1], g.liquidityPools[k]>>
  BY DEF poolsBothWays
<1>4. \A x \in DOMAIN table : \A y \in DOMAIN table[x] : table[x][y].pool = Sel(g, x, y).pool
  BY DEF At, venuesAt
<1>5. ASSUME NEW x, NEW y, Sel(g, x, y).pool # NoPool PROVE x \in DOMAIN table /\ y \in DOMAIN table[x]
  <2>1. At(table, x, y).pool # NoPool
    BY <1>5
  <2> QED
    BY <2>1, NoVenuesIsVenues DEF At, venuesAt
<1>6. ASSUME NEW e \in poolsIn(g, table) PROVE e \in poolsBothWays(g)
  <2>1. PICK v \in venuesOf(table) : /\ table[v[1]][v[2]].pool # NoPool
                                     /\ e = <<v[1], v[2], table[v[1]][v[2]].pool.entry>>
    BY <1>2
  <2>2. PICK x, y : x \in DOMAIN table /\ y \in DOMAIN table[x] /\ v = <<x, y>>
    BY <1>1
  <2>3. v[1] = x /\ v[2] = y /\ table[x][y].pool = Sel(g, x, y).pool
    BY <1>4, <2>2
  <2>4. Sel(g, x, y).pool # NoPool /\ e = <<x, y, Sel(g, x, y).pool.entry>>
    BY <2>1, <2>3
  <2>5. PICK key \in DOMAIN g.liquidityPools :
              /\ (key[1] = x /\ key[2] = y) \/ (key[1] = y /\ key[2] = x)
              /\ Sel(g, x, y).pool.entry = g.liquidityPools[key]
    BY <2>4, PoolOfPair
  <2> QED
    BY <1>3, <2>4, <2>5
<1>7. ASSUME NEW x, NEW y, Sel(g, x, y).pool # NoPool
      PROVE  <<x, y, Sel(g, x, y).pool.entry>> \in poolsIn(g, table)
  <2> DEFINE v == <<x, y>>
  <2>1. v \in venuesOf(table) /\ v[1] = x /\ v[2] = y
    BY <1>1, <1>5, <1>7
  <2>2. table[x][y].pool = Sel(g, x, y).pool
    BY <1>4, <1>5, <1>7
  <2> HIDE DEF v
  <2> QED
    BY <1>2, <1>7, <2>1, <2>2
<1>8. ASSUME NEW e \in poolsBothWays(g) PROVE e \in poolsIn(g, table)
  <2>1. PICK k \in DOMAIN g.liquidityPools :
             e = <<k[1], k[2], g.liquidityPools[k]>> \/ e = <<k[2], k[1], g.liquidityPools[k]>>
    BY <1>3
  <2> DEFINE p == [entry |-> g.liquidityPools[k], assetA |-> k[1], assetB |-> k[2]]
  <2>2. Sel(g, k[1], k[2]).pool = p /\ Sel(g, k[2], k[1]).pool = p
    BY DEF CoreInv, PoolsInv
  <2>3. p # NoPool /\ p.entry = g.liquidityPools[k]
    BY PoolIsPool
  <2> HIDE DEF p
  <2> QED
    BY <1>7, <2>1, <2>2, <2>3
<1> QED
  BY <1>6, <1>8

\* The pools on the edges of each table are those on record, each in both directions.
LEMMA PoolsRecorded ==
    ASSUME NEW g, CoreInv(g)
    PROVE  /\ poolsIn(g, g.venuesForSellingAsset) = poolsBothWays(g)
           /\ poolsIn(g, g.venuesForBuyingAsset) = poolsBothWays(g)
<1>1. \A x, y : Sel(g, y, x).pool = Sel(g, x, y).pool
  BY PoolOfPair
<1>2. \A x, y : /\ At(g.venuesForSellingAsset, x, y).pool = Sel(g, x, y).pool
                /\ At(g.venuesForBuyingAsset, x, y).pool = Sel(g, x, y).pool
  BY <1>1 DEF CoreInv, EdgesInv, Sel, Buy
<1> QED
  BY <1>2, PoolsOfTable

\* The offers of a pair are in order of price in a table of sorted lists.
LEMMA SlotsSorted ==
    ASSUME NEW table, \A x, y : Sorted(At(table, x, y).offers),
           NEW s \in slotsOf(table), NEW t \in slotsOf(table), s[1] = t[1], s[2] = t[2], s[3] < t[3]
    PROVE  ~ Cheaper(offerIn(table, t).price, offerIn(table, s).price)
<1>1. PICK x, y, m : s = <<x, y, m>> /\ m \in DOMAIN At(table, x, y).offers
  BY Slots
<1>2. PICK a, b, n : t = <<a, b, n>> /\ n \in DOMAIN At(table, a, b).offers
  BY Slots
<1>3. a = x /\ b = y /\ m < n
  BY <1>1, <1>2
<1>4. offerIn(table, s) = At(table, x, y).offers[m]
  BY <1>1, SlotOffer
<1>5. offerIn(table, t) = At(table, x, y).offers[n]
  BY <1>2, <1>3, SlotOffer
<1> QED
  BY <1>1, <1>2, <1>3, <1>4, <1>5 DEF Sorted

\* A sequence that repeats nothing has as many elements as places.
LEMMA InjectiveCounted ==
    ASSUME NEW s \in Seq(Nat), IsInjective(s)
    PROVE  Cardinality(ToSet(s)) = Len(s)
<1> DEFINE D == 1 .. Len(s)
<1>1. DOMAIN s = D /\ Len(s) \in Nat
  BY LenProperties
<1>2. IsFiniteSet(D) /\ Cardinality(D) = Len(s)
  <2>1. IsFiniteSet(D) /\ Cardinality(D) = IF 1 > Len(s) THEN 0 ELSE Len(s) - 1 + 1
    BY <1>1, FS_Interval
  <2> QED
    BY <1>1, <2>1
<1> HIDE DEF D
<1>3. s \in Surjection(D, ToSet(s)) /\ s \in Injection(D, ToSet(s))
  <2>1. s = [i \in D |-> s[i]]
    BY <1>1
  <2>2. s \in [D -> ToSet(s)]
    BY <1>1, <2>1 DEF ToSet
  <2> QED
    BY <1>1, <2>2 DEF Surjection, Injection, ToSet, IsInjective
<1> QED
  BY <1>2, <1>3, FS_Surjection

\* The list of vacant numbers names each of them once.
LEMMA VacantCounted ==
    ASSUME NEW g, CoreInv(g)
    PROVE  /\ Len(g.vacantIDs) = Cardinality(vacantCells(g))
           /\ Cardinality(ToSet(g.vacantIDs)) = Len(g.vacantIDs)
           /\ ToSet(g.vacantIDs) = vacantCells(g)
<1>1. g.vacantIDs \in Seq(Nat) /\ IsInjective(g.vacantIDs) /\ ToSet(g.vacantIDs) = vacantCells(g)
  BY DEF CoreInv, NumbersInv
<1> QED
  BY <1>1, InjectiveCounted

(***************************************************************************)
(* For all offers and pools and every sequence of batches: whatever the    *)
(* history of numbers given, vacated and given again, the two tables, the  *)
(* numbers, the pairs on record and the pools agree with each other.       *)
(***************************************************************************)
THEOREM GraphConsistent == Spec => []Consistent
<1>1. BookInv => Consistent
  <2> SUFFICES ASSUME BookInv PROVE Consistent
    OBVIOUS
  <2> DEFINE g == graph
             S == g.venuesForSellingAsset
             B == g.venuesForBuyingAsset
  <2>1. CoreInv(g) /\ UsedInv(g, {})
    BY DEF BookInv
  <2>2. NumbersInv(g) /\ EdgesInv(g) /\ OffersInv(g)
    BY <2>1 DEF CoreInv
  <2>3. \A id \in DOMAIN g.idToAssetString \ vacantCells(g) :
          /\ g.idToAssetString[id] \in DOMAIN g.assetStringToID
          /\ g.assetStringToID[g.idToAssetString[id]] = id
    BY <2>2 DEF NumbersInv, Live
  <2>4. Verify(g)
    <3>1. verifyTable(g, S, "selling", "buying") /\ verifyTable(g, B, "buying", "selling")
      BY <2>1, BothVerified
    <3>2. Cardinality(offersIn(S)) = Cardinality(DOMAIN g.tradingPairForOffer) /\ offersIn(B) = offersIn(S)
      BY <2>1, OffersCounted
    <3>3. Len(g.vacantIDs) = Cardinality(vacantCells(g)) /\ ToSet(g.vacantIDs) \subseteq vacantCells(g)
      BY <2>1, VacantCounted
    <3> QED
      BY <2>3, <3>1, <3>2, <3>3 DEF Verify
  <2>5. ~ g.failed /\ Cardinality(ToSet(g.vacantIDs)) = Len(g.vacantIDs)
    BY <2>1, <2>2, VacantCounted DEF NumbersInv
  <2>6. ASSUME NEW table \in {S, B}
        PROVE  /\ poolsIn(g, table) = poolsBothWays(g)
               /\ \A s, t \in slotsOf(table) :
                     s[1] = t[1] /\ s[2] = t[2] /\ s[3] < t[3]
                       => ~ Cheaper(offerIn(table, t).price, offerIn(table, s).price)
    <3>1. poolsIn(g, table) = poolsBothWays(g)
      BY <2>1, PoolsRecorded
    <3>2. \A x, y : Sorted(At(table, x, y).offers)
      BY <2>2 DEF EdgesInv, OffersInv, Sel, Buy
    <3> QED
      BY <3>1, <3>2, SlotsSorted
  <2>7. ASSUME NEW asset \in DOMAIN g.assetStringToID
        PROVE  LET id == g.assetStringToID[asset]
               IN /\ g.idToAssetString[id] = asset
                  /\ DOMAIN S[id] # {} \/ DOMAIN B[id] # {}
    <3> DEFINE id == g.assetStringToID[asset]
    <3>1. id \in Live(g) /\ g.idToAssetString[id] = asset
      BY <2>2, NameOfNumber
    <3>2. Busy(g, id) /\ id \in DOMAIN g.idToAssetString
      BY <2>1, <3>1, LiveNames DEF UsedInv
    <3> HIDE DEF id
    <3>3. DOMAIN S[id] # {} \/ DOMAIN B[id] # {}
      BY <2>2, <3>2, BusyEdges
    <3> QED
      BY <3>1, <3>3 DEF id
  <2> QED
    BY <2>4, <2>5, <2>6, <2>7 DEF Consistent
<1> QED
  BY <1>1, BookInvariant, PTL

-----------------------------------------------------------------------------
(* What a trade may come to. *)

\* Division rounds down.
LEMMA QuotientFacts ==
    \A a \in Int, b \in Nat \ {0} : (a \div b) \in Int /\ b * (a \div b) <= a /\ a < b * (a \div b) + b
OBVIOUS

\* A sum wrapped to 64 bits is no larger than MaxInt64.
LEMMA Int64Range == \A x \in Int : Int64(x) \in Int /\ Int64(x) <= MaxInt64
<1> DEFINE k == 2 * (MaxInt64 + 1)
<1>1. k \in Nat \ {0} /\ MaxInt64 \in Nat
  BY WidthAssumption
<1> SUFFICES ASSUME NEW x \in Int PROVE Int64(x) \in Int /\ Int64(x) <= MaxInt64
  OBVIOUS
<1> DEFINE y == x + MaxInt64 + 1
<1>2. y \in Int
  BY <1>1
<1>3. Int64(x) = (y % k) - (MaxInt64 + 1) /\ k = 2 * MaxInt64 + 2
  BY <1>1 DEF Int64
<1> HIDE DEF y, k
<1>4. y % k \in Int /\ y % k < k
  BY <1>1, <1>2
<1> QED
  BY <1>1, <1>3, <1>4

\* An amount is no larger than MaxInt64; SoldTooMuch is larger.
Amount(x) == x \in Int /\ x <= MaxInt64

\* The prices and the amount of an offer (stellar-core's rules).
LEMMA OfferNumbers ==
    ASSUME NEW o \in Offers
    PROVE  o.price.n \in Nat \ {0} /\ o.price.d \in Nat \ {0} /\ o.amount \in Nat /\ o.amount <= MaxInt64
BY EntriesAssumption, WidthAssumption

\* The two roundings of price * amount.
LEMMA FractionFacts ==
    ASSUME NEW x \in Int, NEW n \in Nat \ {0}, NEW d \in Nat \ {0}
    PROVE  /\ MulFractionRoundDown(x, n, d) \in Int /\ mulFractionRoundUp(x, n, d) \in Int
           /\ MulFractionRoundDown(x, n, d) = fits((x * n) \div d)
           /\ mulFractionRoundUp(x, n, d) # Overflow => mulFractionRoundUp(x, n, d) = (x * n + d - 1) \div d
<1>1. x * n \in Int /\ x * n + d - 1 \in Int
  OBVIOUS
<1>2. (x * n) \div d \in Int /\ (x * n + d - 1) \div d \in Int
  BY <1>1, QuotientFacts
<1> QED
  BY <1>2, WidthAssumption DEF MulFractionRoundDown, mulFractionRoundUp, fits, Overflow

\* No more is taken from an offer than is needed, and what is paid for it is rounded up.
LEMMA ConversionFacts ==
    ASSUME NEW amount \in Nat, NEW needed \in Nat, NEW p, p.n \in Nat \ {0}, p.d \in Nat \ {0},
           NEW c, c = ConvertToBuyingUnits(amount, needed, p)
    PROVE  /\ c.paid \in Int /\ c.taken \in Int /\ c.taken <= needed
           /\ c.paid # Overflow => c.paid = (c.taken * p.n + p.d - 1) \div p.d
<1> DEFINE bound == offerSellingBound(amount, p)
           taken == IF bound < needed THEN bound ELSE needed
           paid == mulFractionRoundUp(taken, p.n, p.d)
<1>1. bound \in Int
  <2> DEFINE down == MulFractionRoundDown(amount, p.n, p.d)
  <2>0. amount \in Int
    OBVIOUS
  <2>1. down \in Int
    BY <2>0, FractionFacts
  <2>2. mulFractionRoundUp(down, p.d, p.n) \in Int
    BY <2>1, FractionFacts
  <2>3. bound = IF p.n > p.d THEN amount
                ELSE IF down = Overflow THEN Overflow ELSE mulFractionRoundUp(down, p.d, p.n)
    BY DEF offerSellingBound
  <2> HIDE DEF down, bound
  <2> QED
    BY <2>2, <2>3, WidthAssumption DEF Overflow
<1>2. c = IF Overflow \in {bound, paid} THEN [paid |-> Overflow, taken |-> 0] ELSE [paid |-> paid, taken |-> taken]
  BY DEF ConvertToBuyingUnits
<1> HIDE DEF bound
<1>3. taken \in Int /\ taken <= needed
  BY <1>1
<1>4. paid \in Int /\ (paid # Overflow => paid = (taken * p.n + p.d - 1) \div p.d)
  BY <1>3, FractionFacts
<1>5. Overflow \in Int
  BY WidthAssumption DEF Overflow
<1> HIDE DEF taken, paid
<1>6. CASE Overflow \in {bound, paid}
  <2>1. c.paid = Overflow /\ c.taken = 0
    BY <1>2, <1>6
  <2> QED
    BY <1>5, <2>1
<1>7. CASE Overflow \notin {bound, paid}
  <2>1. c.paid = paid /\ c.taken = taken
    BY <1>2, <1>7
  <2> QED
    BY <1>3, <1>4, <2>1
<1> QED
  BY <1>6, <1>7

\* Who sells more than an offer holds is not paid for it more than he has: errSoldTooMuch cannot happen.
LEMMA PaidFromLeft ==
    ASSUME NEW left \in Nat, NEW n \in Nat \ {0}, NEW d \in Nat \ {0}, NEW taken \in Int,
           NEW sold \in Int, sold = (left * d) \div n, taken <= sold,
           NEW paid \in Int, paid = (taken * n + d - 1) \div d
    PROVE  paid <= left
<1>1. n * sold <= left * d /\ left * d \in Nat
  BY QuotientFacts
<1>2. d * paid <= taken * n + d - 1
  <2>1. taken * n + d - 1 \in Int
    OBVIOUS
  <2> QED
    BY <2>1, QuotientFacts
<1>3. taken * n <= n * sold
  <2>1. sold - taken \in Nat
    OBVIOUS
  <2>2. (sold - taken) * n \in Nat
    BY <2>1
  <2>3. n * sold = taken * n + (sold - taken) * n
    BY <2>1
  <2> QED
    BY <2>2, <2>3
<1>4. d * paid <= left * d + d - 1
  BY <1>1, <1>2, <1>3
<1> SUFFICES ASSUME paid > left PROVE FALSE
  OBVIOUS
<1>5. paid - left - 1 \in Nat
  OBVIOUS
<1>6. d * (paid - left - 1) \in Nat
  BY <1>5
<1>7. d * paid = left * d + d + d * (paid - left - 1)
  BY <1>5
<1> QED
  BY <1>4, <1>6, <1>7

\* The walk along the offers of a pair never has less than nothing left.
WalkInv(w) ==
    /\ w = [left |-> w.left, total |-> w.total, result |-> w.result]
    /\ w.left \in Nat /\ w.total \in Int /\ (w.result = Walking \/ Amount(w.result))

\* After an offer the walk goes on with what is left, or ends with the total.
LEMMA SettleKeeps ==
    ASSUME NEW left \in Nat, NEW total, Amount(total)
    PROVE  WalkInv(settle(left, total))
BY DEF settle, WalkInv, Amount

\* No trade is not an amount too large.
LEMMA NoTradeAmount == Amount(NoTrade)
BY WidthAssumption DEF Amount, NoTrade

\* A walk may end with any amount.
LEMMA EndWalk ==
    ASSUME NEW w, WalkInv(w), NEW x, Amount(x)
    PROVE  WalkInv([w EXCEPT !.result = x])
BY DEF WalkInv

\* One offer of a walk that sells (the loop of consumeOffersForSellingAsset).
LEMMA TakeKeeps ==
    ASSUME NEW w, WalkInv(w), NEW o \in Offers, NEW ignore
    PROVE  WalkInv(takeOffer(ignore, w, o))
<1> DEFINE c == ConvertToBuyingUnits(o.amount, w.left, o.price)
<1>1. w.left \in Nat /\ w.total \in Int
  BY DEF WalkInv
<1>2. c.paid \in Int /\ c.taken \in Int /\ c.taken <= w.left
  <2>1. o.price.n \in Nat \ {0} /\ o.price.d \in Nat \ {0} /\ o.amount \in Nat
    BY OfferNumbers
  <2>2. c = ConvertToBuyingUnits(o.amount, w.left, o.price)
    OBVIOUS
  <2> HIDE DEF c
  <2> QED
    BY <1>1, <2>1, <2>2, ConversionFacts
<1>3. takeOffer(ignore, w, o) =
          IF w.result # Walking \/ o.seller = ignore THEN w
          ELSE IF c.paid = Overflow THEN [w EXCEPT !.result = NoTrade]
          ELSE settle(w.left - c.taken, Int64(w.total + c.paid))
  BY DEF takeOffer
<1> HIDE DEF c
<1>4. WalkInv([w EXCEPT !.result = NoTrade])
  BY EndWalk, NoTradeAmount
<1>5. WalkInv(settle(w.left - c.taken, Int64(w.total + c.paid)))
  <2>1. w.left - c.taken \in Nat /\ w.total + c.paid \in Int
    BY <1>1, <1>2
  <2>2. Amount(Int64(w.total + c.paid))
    BY <2>1, Int64Range DEF Amount
  <2> QED
    BY <2>1, <2>2, SettleKeeps
<1> QED
  BY <1>3, <1>4, <1>5

\* One offer of a walk that buys (the loop of consumeOffersForBuyingAsset).
LEMMA FillKeeps ==
    ASSUME NEW w, WalkInv(w), NEW o \in Offers
    PROVE  WalkInv(fillOffer(w, o))
<1> DEFINE sold == MulFractionRoundDown(w.left, o.price.d, o.price.n)
           c == ConvertToBuyingUnits(o.amount, o.amount, o.price)
           raw == (w.left * o.price.d) \div o.price.n
<1>1. w.left \in Nat /\ w.total \in Int
  BY DEF WalkInv
<1>2. o.price.n \in Nat \ {0} /\ o.price.d \in Nat \ {0} /\ o.amount \in Nat /\ o.amount <= MaxInt64
  BY OfferNumbers
<1>3. /\ c.paid \in Int /\ c.taken \in Int /\ c.taken <= o.amount
      /\ c.paid # Overflow => c.paid = (c.taken * o.price.n + o.price.d - 1) \div o.price.d
  <2>1. c = ConvertToBuyingUnits(o.amount, o.amount, o.price)
    OBVIOUS
  <2> HIDE DEF c
  <2> QED
    BY <1>2, <2>1, ConversionFacts
<1>4. raw \in Int /\ sold \in Int /\ sold = fits(raw)
  <2>1. w.left \in Int /\ w.left * o.price.d \in Int
    BY <1>1, <1>2
  <2>2. raw \in Int
    BY <1>2, <2>1, QuotientFacts
  <2>3. sold \in Int /\ sold = fits(raw)
    BY <1>2, <2>1, FractionFacts
  <2> QED
    BY <2>2, <2>3
<1>5. fillOffer(w, o) =
          IF w.result # Walking THEN w
          ELSE IF sold = 0 THEN [w EXCEPT !.result = NoTrade]
          ELSE IF sold # Overflow /\ sold <= o.amount THEN [w EXCEPT !.result = Int64(w.total + sold)]
          ELSE IF c.paid = Overflow THEN [w EXCEPT !.result = NoTrade]
          ELSE settle(w.left - c.paid, Int64(w.total + c.taken))
  BY DEF fillOffer
<1>r. raw = (w.left * o.price.d) \div o.price.n
  OBVIOUS
<1> HIDE DEF c, sold, raw
<1>6. WalkInv([w EXCEPT !.result = NoTrade])
  BY EndWalk, NoTradeAmount
<1>7. WalkInv([w EXCEPT !.result = Int64(w.total + sold)])
  <2>1. w.total + sold \in Int
    BY <1>1, <1>4
  <2>2. Amount(Int64(w.total + sold))
    BY <2>1, Int64Range DEF Amount
  <2> QED
    BY <2>2, EndWalk
<1>8. ASSUME ~ (sold # Overflow /\ sold <= o.amount), c.paid # Overflow
      PROVE  WalkInv(settle(w.left - c.paid, Int64(w.total + c.taken)))
  <2>1. o.amount < raw
    BY <1>2, <1>4, <1>8, WidthAssumption DEF fits, Overflow
  <2>2. c.taken <= raw
    BY <1>2, <1>3, <1>4, <2>1
  <2>3. c.paid <= w.left
    BY <1>1, <1>2, <1>3, <1>4, <1>8, <1>r, <2>2, PaidFromLeft
  <2>4. w.left - c.paid \in Nat /\ w.total + c.taken \in Int
    BY <1>1, <1>3, <2>3
  <2>5. Amount(Int64(w.total + c.taken))
    BY <2>4, Int64Range DEF Amount
  <2> QED
    BY <2>4, <2>5, SettleKeeps
<1> QED
  BY <1>5, <1>6, <1>7, <1>8

(* Recursion on numbers. *)

\* A set of numbers with zero and with every successor has all numbers.
LEMMA Induction ==
    ASSUME NEW S \in SUBSET Nat, 0 \in S, \A n \in S : n + 1 \in S
    PROVE  S = Nat
<1> SUFFICES ASSUME Nat \ S # {} PROVE FALSE
  OBVIOUS
<1> DEFINE T == Nat \ S
           m == Min(T)
<1>1. m \in T /\ \A y \in T : m <= y
  BY LeastIn
<1> HIDE DEF m
<1>2. m \in Nat /\ m # 0
  BY <1>1
<1>3. m - 1 \in Nat /\ ~ (m <= m - 1) /\ (m - 1) + 1 = m
  BY <1>2
<1>4. m - 1 \in S
  BY <1>1, <1>3
<1> QED
  BY <1>1, <1>3, <1>4

SellWalk(f, ignore, amount, offers, n) ==
    f = [i \in 0 .. n |-> IF i = 0 THEN walkStart(amount) ELSE takeOffer(ignore, f[i - 1], offers[i])]
BuyWalk(f, amount, offers, n) ==
    f = [i \in 0 .. n |-> IF i = 0 THEN walkStart(amount) ELSE fillOffer(f[i - 1], offers[i])]

\* The recursive function of consumeOffersForSellingAsset exists.
LEMMA SellWalkExists ==
    ASSUME NEW ignore, NEW amount, NEW offers
    PROVE  \A n \in Nat : \E f : SellWalk(f, ignore, amount, offers, n)
<1> DEFINE S == {n \in Nat : \E f : SellWalk(f, ignore, amount, offers, n)}
<1>1. 0 \in S
  <2>1. SellWalk([i \in 0 .. 0 |-> walkStart(amount)], ignore, amount, offers, 0)
    BY DEF SellWalk
  <2> QED
    BY <2>1
<1>2. ASSUME NEW n \in S PROVE n + 1 \in S
  <2>1. PICK f : SellWalk(f, ignore, amount, offers, n)
    OBVIOUS
  <2> DEFINE h == [i \in 0 .. n + 1 |-> IF i = n + 1 THEN takeOffer(ignore, f[n], offers[n + 1]) ELSE f[i]]
  <2>2. \A i \in 0 .. n + 1 : h[i] = IF i = 0 THEN walkStart(amount) ELSE takeOffer(ignore, h[i - 1], offers[i])
    BY <2>1 DEF SellWalk
  <2>3. SellWalk(h, ignore, amount, offers, n + 1)
    BY <2>2 DEF SellWalk
  <2> HIDE DEF h
  <2> QED
    BY <2>3
<1> HIDE DEF S
<1>3. S = Nat
  BY <1>1, <1>2, Induction DEF S
<1> QED
  BY <1>3 DEF S

\* The recursive function of consumeOffersForBuyingAsset exists.
LEMMA BuyWalkExists ==
    ASSUME NEW amount, NEW offers
    PROVE  \A n \in Nat : \E f : BuyWalk(f, amount, offers, n)
<1> DEFINE S == {n \in Nat : \E f : BuyWalk(f, amount, offers, n)}
<1>1. 0 \in S
  <2>1. BuyWalk([i \in 0 .. 0 |-> walkStart(amount)], amount, offers, 0)
    BY DEF BuyWalk
  <2> QED
    BY <2>1
<1>2. ASSUME NEW n \in S PROVE n + 1 \in S
  <2>1. PICK f : BuyWalk(f, amount, offers, n)
    OBVIOUS
  <2> DEFINE h == [i \in 0 .. n + 1 |-> IF i = n + 1 THEN fillOffer(f[n], offers[n + 1]) ELSE f[i]]
  <2>2. \A i \in 0 .. n + 1 : h[i] = IF i = 0 THEN walkStart(amount) ELSE fillOffer(h[i - 1], offers[i])
    BY <2>1 DEF BuyWalk
  <2>3. BuyWalk(h, amount, offers, n + 1)
    BY <2>2 DEF BuyWalk
  <2> HIDE DEF h
  <2> QED
    BY <2>3
<1> HIDE DEF S
<1>3. S = Nat
  BY <1>1, <1>2, Induction DEF S
<1> QED
  BY <1>3 DEF S

\* A property that the first value has and every step keeps holds of all values of the recursion.
LEMMA Carried ==
    ASSUME NEW n \in Nat, NEW X, NEW f, f[0] \in X, \A i \in 1 .. n : f[i - 1] \in X => f[i] \in X
    PROVE  f[n] \in X
<1> DEFINE S == {i \in Nat : i <= n => f[i] \in X}
<1>1. 0 \in S
  OBVIOUS
<1>2. ASSUME NEW i \in S PROVE i + 1 \in S
  <2>1. i + 1 <= n => i + 1 \in 1 .. n /\ i <= n /\ (i + 1) - 1 = i
    OBVIOUS
  <2> QED
    BY <2>1
<1> HIDE DEF S
<1>3. S = Nat
  BY <1>1, <1>2, Induction DEF S
<1> QED
  BY <1>3 DEF S

Walks == {w \in [left : Int, total : Int, result : Int] : WalkInv(w)}

\* What the offers of a pair come to is an amount: no walk ends with SoldTooMuch.
LEMMA OffersTrade ==
    ASSUME NEW offers \in Seq(Offers), NEW amount \in Nat, NEW ignore
    PROVE  /\ Amount(consumeOffersForSellingAsset(offers, ignore, amount))
           /\ Amount(consumeOffersForBuyingAsset(offers, amount))
<1> DEFINE n == Len(offers)
<1>1. n \in Nat /\ \A i \in 1 .. n : offers[i] \in Offers
  BY LenProperties, ElementOfSeq
<1>2. \A w : WalkInv(w) => w \in Walks
  BY WidthAssumption DEF Walks, WalkInv, Amount, Walking
<1>3. WalkInv(walkStart(amount))
  BY DEF walkStart, WalkInv
<1>4. \A w \in Walks : Amount(walkResult(w))
  BY NoTradeAmount DEF Walks, WalkInv, walkResult
<1>5. Amount(consumeOffersForSellingAsset(offers, ignore, amount))
  <2> DEFINE f == CHOOSE f : SellWalk(f, ignore, amount, offers, n)
  <2>1. consumeOffersForSellingAsset(offers, ignore, amount) = walkResult(f[n])
    BY DEF consumeOffersForSellingAsset, SellWalk
  <2>2. SellWalk(f, ignore, amount, offers, n)
    BY <1>1, SellWalkExists
  <2> HIDE DEF f, n
  <2>3. f[0] = walkStart(amount) /\ \A i \in 1 .. n : f[i] = takeOffer(ignore, f[i - 1], offers[i])
    BY <1>1, <2>2 DEF SellWalk
  <2>4. f[0] \in Walks
    BY <1>2, <1>3, <2>3
  <2>5. \A i \in 1 .. n : f[i - 1] \in Walks => f[i] \in Walks
    BY <1>1, <1>2, <2>3, TakeKeeps DEF Walks
  <2>6. f[n] \in Walks
    BY <1>1, <2>4, <2>5, Carried
  <2> QED
    BY <1>4, <2>1, <2>6
<1>6. Amount(consumeOffersForBuyingAsset(offers, amount))
  <2> DEFINE f == CHOOSE f : BuyWalk(f, amount, offers, n)
  <2>1. consumeOffersForBuyingAsset(offers, amount) = walkResult(f[n])
    BY DEF consumeOffersForBuyingAsset, BuyWalk
  <2>2. BuyWalk(f, amount, offers, n)
    BY <1>1, BuyWalkExists
  <2> HIDE DEF f, n
  <2>3. f[0] = walkStart(amount) /\ \A i \in 1 .. n : f[i] = fillOffer(f[i - 1], offers[i])
    BY <1>1, <2>2 DEF BuyWalk
  <2>4. f[0] \in Walks
    BY <1>2, <1>3, <2>3
  <2>5. \A i \in 1 .. n : f[i - 1] \in Walks => f[i] \in Walks
    BY <1>1, <1>2, <2>3, FillKeeps DEF Walks
  <2>6. f[n] \in Walks
    BY <1>1, <2>4, <2>5, Carried
  <2> QED
    BY <1>4, <2>1, <2>6
<1> QED
  BY <1>5, <1>6

\* Products of natural numbers.
LEMMA ProductPositive ==
    /\ \A a, b \in Nat : a * b \in Nat
    /\ \A a, b \in Nat \ {0} : a * b \in Nat \ {0}
OBVIOUS

\* What a pool can do for an amount is an amount.
LEMMA PoolTrade ==
    ASSUME NEW q, NEW pool \in PoolVenue, NEW current, NEW amount \in Nat
    PROVE  Amount(consumePool(q, pool, current, amount))
<1> DEFINE e == pool.entry
           f == MaxBasisPoints - e.fee
<1>1. /\ e.reserveA \in Nat /\ e.reserveB \in Nat /\ f \in Nat \ {0} /\ e.fee \in Nat
      /\ e.reserveA <= MaxInt64 /\ e.reserveB <= MaxInt64
      /\ MaxInt64 \in Nat /\ MaxBasisPoints \in Nat \ {0}
  <2>1. e \in Pools
    BY DEF PoolVenue
  <2>2. e.fee \in 0 .. (MaxBasisPoints - 1) /\ e.reserveA \in 0 .. MaxInt64 /\ e.reserveB \in 0 .. MaxInt64
    BY <2>1, EntriesAssumption
  <2> HIDE DEF e
  <2> QED
    BY <2>2, WidthAssumption
<1> HIDE DEF f
<1>f. f = MaxBasisPoints - e.fee
  BY DEF f
<1> HIDE DEF e
<1>2. ASSUME NEW x \in Nat, NEW y \in Nat PROVE Amount(CalculatePoolPayout(x, y, amount, e.fee))
  <2> DEFINE denom == x * MaxBasisPoints + amount * f
             payout == (y * amount * f) \div denom
  <2>1. denom \in Nat /\ y * amount * f \in Int
    BY <1>1, ProductPositive
  <2>2. CalculatePoolPayout(x, y, amount, e.fee) =
            IF amount > MaxInt64 - x \/ denom = 0 \/ payout > MaxInt64 THEN 0 ELSE payout
    BY <1>f DEF CalculatePoolPayout
  <2>3. denom # 0 => payout \in Int
    <3> HIDE DEF denom
    <3> QED
      BY <2>1, QuotientFacts
  <2> HIDE DEF denom, payout
  <2> QED
    BY <1>1, <2>2, <2>3 DEF Amount
<1>3. ASSUME NEW x \in Nat, NEW y \in Nat PROVE Amount(CalculatePoolExpectation(x, y, amount, e.fee))
  <2> DEFINE denom == (y - amount) * f
             num == x * amount * MaxBasisPoints + denom - 1
             deposit == num \div denom
  <2>1. amount < y => denom \in Nat \ {0}
    <3>1. amount < y => y - amount \in Nat \ {0}
      OBVIOUS
    <3> QED
      BY <1>1, <3>1, ProductPositive
  <2>2. CalculatePoolExpectation(x, y, amount, e.fee) =
            IF amount >= y \/ denom = 0 \/ deposit > MaxInt64 - x THEN 0 ELSE deposit
    BY <1>f DEF CalculatePoolExpectation
  <2>3. amount < y => deposit \in Int
    <3> HIDE DEF denom
    <3>1. amount < y => num \in Int
      BY <1>1, <2>1, ProductPositive
    <3> HIDE DEF num
    <3> QED
      BY <2>1, <3>1, QuotientFacts
  <2> HIDE DEF denom, deposit
  <2> QED
    BY <1>1, <2>2, <2>3 DEF Amount
<1>4. reserves(pool, current)[1] \in Nat /\ reserves(pool, current)[2] \in Nat
  BY <1>1 DEF reserves, e
<1> QED
  BY <1>2, <1>3, <1>4 DEF consumePool, e

\* A least element is the minimum.
LEMMA MinIs ==
    ASSUME NEW S \in SUBSET Int, NEW r \in S, \A y \in S : r <= y
    PROVE  Min(S) = r
<1>1. Min(S) \in S /\ \A y \in S : Min(S) <= y
  BY DEF Min
<1>2. Min(S) \in Int /\ r \in Int /\ Min(S) <= r /\ r <= Min(S)
  BY <1>1
<1> QED
  BY <1>2

\* A greatest element is the maximum.
LEMMA MaxIs ==
    ASSUME NEW S \in SUBSET Int, NEW r \in S, \A y \in S : r >= y
    PROVE  Max(S) = r
<1>1. Max(S) \in S /\ \A y \in S : Max(S) >= y
  BY DEF Max
<1>2. Max(S) \in Int /\ r \in Int /\ Max(S) >= r /\ r >= Max(S)
  BY <1>1
<1> QED
  BY <1>2

\* The search takes what is best for the amount: processVenues and bestTrade agree.
LEMMA VenueTrade ==
    ASSUME NEW q, NEW current, NEW amount \in Nat, NEW v \in VenuesRecord,
           NEW r, r = processVenues(q, current, amount, v)
    PROVE  /\ r # SoldTooMuch /\ r \in Int /\ r <= MaxInt64
           /\ r > 0 => bestTrade(q, current, amount, v) = r
<1> DEFINE usePool == q.includePools /\ v.pool # NoPool
           byPool == consumePool(q, v.pool, current, amount)
           pool == IF usePool THEN byPool ELSE 0
           byOffers == consumeOffers(q, amount, v.offers)
           options == (IF usePool THEN {byPool} ELSE {}) \cup {byOffers}
           trades == {x \in options : x \in 1 .. MaxInt64}
<1>0. v.offers \in Seq(Offers) /\ (v.pool = NoPool \/ v.pool \in PoolVenue) /\ MaxInt64 \in Nat
  BY WidthAssumption DEF VenuesRecord
<1>1. byOffers \in Int /\ byOffers <= MaxInt64
  BY <1>0, OffersTrade DEF consumeOffers, Amount
<1>2. usePool => byPool \in Int /\ byPool <= MaxInt64
  BY <1>0, PoolTrade DEF Amount
<1>3. pool \in Int /\ pool <= MaxInt64
  BY <1>0, <1>2
<1>4. r = betterVenue(q, pool, byOffers, v.offers)
  BY DEF processVenues
<1>5. bestTrade(q, current, amount, v) =
          IF trades = {} THEN NoTrade ELSE IF q.direction = "selling" THEN Min(trades) ELSE Max(trades)
  BY DEF bestTrade
<1>6. byOffers # SoldTooMuch /\ NoTrade = -1
  BY <1>0, <1>1 DEF SoldTooMuch, NoTrade
<1>7. /\ \A x \in trades : x \in Int /\ x > 0 /\ (x = byOffers \/ x = pool)
      /\ byOffers > 0 => byOffers \in trades
      /\ pool > 0 => pool \in trades
  BY <1>0, <1>1, <1>2
<1> HIDE DEF usePool, byPool, pool, byOffers, options, trades
<1>8. r = IF pool = 0 /\ v.offers = <<>> THEN NoTrade
          ELSE IF q.direction = "selling" THEN positiveMin(pool, byOffers) ELSE maxOf(byOffers, pool)
  BY <1>4, <1>6 DEF betterVenue
<1>9. r \in Int /\ r <= MaxInt64 /\ r # SoldTooMuch
  BY <1>0, <1>1, <1>3, <1>6, <1>8 DEF positiveMin, maxOf, SoldTooMuch
<1>10. ASSUME r > 0 PROVE bestTrade(q, current, amount, v) = r
  <2>1. trades \in SUBSET Int
    BY <1>7
  <2>2. CASE q.direction = "selling"
    <3>1. r = positiveMin(pool, byOffers)
      BY <1>6, <1>8, <1>10, <2>2
    <3>2. r \in trades /\ \A x \in trades : r <= x
      BY <1>1, <1>3, <1>7, <1>10, <3>1 DEF positiveMin
    <3>3. Min(trades) = r
      BY <2>1, <3>2, MinIs
    <3> QED
      BY <1>5, <2>2, <3>2, <3>3
  <2>3. CASE q.direction # "selling"
    <3>1. r = maxOf(byOffers, pool)
      BY <1>6, <1>8, <1>10, <2>3
    <3>2. r \in trades /\ \A x \in trades : r >= x
      BY <1>1, <1>3, <1>7, <1>10, <3>1 DEF maxOf
    <3>3. Max(trades) = r
      BY <2>1, <3>2, MaxIs
    <3> QED
      BY <1>5, <2>3, <3>2, <3>3
  <2> QED
    BY <2>2, <2>3
<1> QED
  BY <1>9, <1>10

(* The amount along a path. *)

Along(f, g, q, ids, n) ==
    f = [i \in 1 .. n |-> IF i = 1 THEN q.amount ELSE hop(g, q, ids[i - 1], ids[i], f[i - 1])]

\* The recursive function of amountAlong exists.
LEMMA AlongExists ==
    ASSUME NEW g, NEW q, NEW ids
    PROVE  \A n \in Nat : \E f : Along(f, g, q, ids, n)
<1> DEFINE S == {n \in Nat : \E f : Along(f, g, q, ids, n)}
<1>1. 0 \in S
  <2>1. Along([i \in 1 .. 0 |-> q.amount], g, q, ids, 0)
    BY DEF Along
  <2> QED
    BY <2>1
<1>2. ASSUME NEW n \in S PROVE n + 1 \in S
  <2>1. PICK f : Along(f, g, q, ids, n)
    OBVIOUS
  <2> DEFINE h == [i \in 1 .. n + 1 |-> IF i <= n THEN f[i] ELSE IF i = 1 THEN q.amount
                                        ELSE hop(g, q, ids[i - 1], ids[i], f[i - 1])]
  <2>2. \A i \in 1 .. n + 1 : h[i] = IF i = 1 THEN q.amount ELSE hop(g, q, ids[i - 1], ids[i], h[i - 1])
    BY <2>1 DEF Along
  <2>3. Along(h, g, q, ids, n + 1)
    BY <2>2 DEF Along
  <2> HIDE DEF h
  <2> QED
    BY <2>3
<1> HIDE DEF S
<1>3. S = Nat
  BY <1>1, <1>2, Induction DEF S
<1> QED
  BY <1>3 DEF S

\* f lists the amounts at each asset of a path.
Amounts(f, g, q, ids) ==
    /\ amountAlong(g, q, ids) = f[Len(ids)] /\ f[1] = q.amount
    /\ \A i \in 2 .. Len(ids) : f[i] = hop(g, q, ids[i - 1], ids[i], f[i - 1])

\* amountAlong is the last of the amounts, each the trade of the one before it.
LEMMA AlongFacts ==
    ASSUME NEW g, NEW q, NEW ids, Len(ids) \in Nat \ {0}
    PROVE  \E f : Amounts(f, g, q, ids)
<1> DEFINE n == Len(ids)
           f == CHOOSE f : Along(f, g, q, ids, n)
<1>1. amountAlong(g, q, ids) = f[n]
  BY DEF amountAlong, Along
<1>2. Along(f, g, q, ids, n)
  BY AlongExists
<1> HIDE DEF f
<1>3. f[1] = q.amount /\ \A i \in 2 .. n : f[i] = hop(g, q, ids[i - 1], ids[i], f[i - 1])
  BY <1>2 DEF Along
<1> QED
  BY <1>1, <1>3 DEF Amounts

\* A path that ends where it starts amounts to what is asked for.
LEMMA AlongStart ==
    ASSUME NEW g, NEW q, NEW x
    PROVE  amountAlong(g, q, <<x>>) = q.amount
<1>1. Len(<<x>>) = 1
  OBVIOUS
<1> QED
  BY <1>1, AlongFacts DEF Amounts

\* One more hop trades the amount at the end of the path.
LEMMA AlongAppend ==
    ASSUME NEW g, NEW q, NEW ids \in Seq(Nat), ids # <<>>, NEW next \in Nat
    PROVE  amountAlong(g, q, Append(ids, next)) = hop(g, q, ids[Len(ids)], next, amountAlong(g, q, ids))
<1> DEFINE n == Len(ids)
           new == Append(ids, next)
<1>1. n \in Nat \ {0}
  BY EmptySeq, LenProperties
<1>2. Len(new) = n + 1 /\ new[n + 1] = next /\ \A i \in 1 .. n : new[i] = ids[i]
  BY AppendProperties
<1> HIDE DEF n, new
<1>3. PICK f : /\ amountAlong(g, q, ids) = f[n] /\ f[1] = q.amount
               /\ \A i \in 2 .. n : f[i] = hop(g, q, ids[i - 1], ids[i], f[i - 1])
  <2>1. PICK f : Amounts(f, g, q, ids)
    BY <1>1, AlongFacts DEF n
  <2> QED
    BY <2>1 DEF Amounts, n
<1>4. PICK h : /\ amountAlong(g, q, new) = h[n + 1] /\ h[1] = q.amount
               /\ \A i \in 2 .. n + 1 : h[i] = hop(g, q, new[i - 1], new[i], h[i - 1])
  <2>1. Len(new) \in Nat \ {0}
    BY <1>1, <1>2
  <2>2. PICK h : Amounts(h, g, q, new)
    BY <2>1, AlongFacts
  <2> QED
    BY <1>2, <2>2 DEF Amounts
<1> DEFINE S == {i \in Nat : i + 1 <= n => f[i + 1] = h[i + 1]}
<1>5. 0 \in S
  BY <1>3, <1>4
<1>6. ASSUME NEW i \in S PROVE i + 1 \in S
  <2> SUFFICES ASSUME i + 2 <= n PROVE f[i + 2] = h[i + 2]
    OBVIOUS
  <2>1. f[i + 1] = h[i + 1]
    BY <1>1
  <2>2. /\ i + 2 \in 2 .. n /\ i + 2 \in 2 .. n + 1 /\ (i + 2) - 1 = i + 1
        /\ i + 1 \in 1 .. n /\ i + 2 \in 1 .. n
    BY <1>1
  <2>3. new[i + 1] = ids[i + 1] /\ new[i + 2] = ids[i + 2]
    BY <1>2, <2>2
  <2>4. f[i + 2] = hop(g, q, ids[i + 1], ids[i + 2], f[i + 1])
    BY <1>3, <2>2
  <2>5. h[i + 2] = hop(g, q, new[i + 1], new[i + 2], h[i + 1])
    BY <1>4, <2>2
  <2> QED
    BY <2>1, <2>3, <2>4, <2>5
<1> HIDE DEF S
<1>7. S = Nat
  BY <1>5, <1>6, Induction DEF S
<1>8. f[n] = h[n]
  <2>1. n - 1 \in Nat /\ (n - 1) + 1 = n /\ n <= n
    BY <1>1
  <2>2. n - 1 \in S
    BY <1>7, <2>1
  <2> QED
    BY <2>1, <2>2 DEF S
<1>9. h[n + 1] = hop(g, q, new[n], new[n + 1], h[n])
  <2>1. n + 1 \in 2 .. n + 1 /\ (n + 1) - 1 = n
    BY <1>1
  <2> QED
    BY <1>4, <2>1
<1>10. new[n] = ids[n]
  BY <1>1, <1>2
<1> QED
  BY <1>2, <1>3, <1>4, <1>8, <1>9, <1>10 DEF n, new

(* The search. *)

\* ids leads from the asset the search starts at to id, over at most hops pairs and no asset twice.
Reached(g, q, ids, amount, hops, id) ==
    /\ ids \in Seq(Live(g)) /\ Len(ids) \in 1 .. (hops + 1)
    /\ ids[1] = g.assetStringToID[q.asset] /\ ids[Len(ids)] = id
    /\ IsInjective(ids) /\ amountAlong(g, q, ids) = amount

Found(g, q, p, hops) ==
    \E ids, amount : /\ p = toPath(g, q, ids, amount)
                     /\ Reached(g, q, ids, amount, hops, ids[Len(ids)])
                     /\ includePath(g, q, ids[Len(ids)], amount)

Numbers(g) == DOMAIN g.idToAssetString

\* Of what an iteration starts from and what it finds, the amounts are those of the paths.
Tables(g, q, amounts, paths, hops) ==
    /\ amounts \in [Numbers(g) -> 0 .. MaxInt64] /\ paths \in [Numbers(g) -> Seq(Nat)]
    /\ \A id \in Numbers(g) : amounts[id] # 0 => Reached(g, q, paths[id], amounts[id], hops, id)

SearchFields == {"bestAmount", "updateAmount", "bestPath", "updatePath", "paths", "failed"}

SearchInv(g, q, hops, next, s) ==
    /\ DOMAIN s = SearchFields /\ s.failed = FALSE
    /\ Tables(g, q, s.bestAmount, s.bestPath, hops)
    /\ Tables(g, q, s.updateAmount, s.updatePath, next)
    /\ \A p \in s.paths : Found(g, q, p, next)

\* An edge leads to a number in use and holds venues.
LEMMA EdgeFacts ==
    ASSUME NEW g, CoreInv(g), NEW q, NEW current \in Numbers(g), NEW next \in DOMAIN venues(g, q, current)
    PROVE  /\ next \in Live(g) /\ next \in Numbers(g)
           /\ venues(g, q, current)[next] \in VenuesRecord
           /\ venuesAt(venues(g, q, current), next) = venues(g, q, current)[next]
<1> DEFINE S == g.venuesForSellingAsset
           B == g.venuesForBuyingAsset
           v == venues(g, q, current)[next]
<1>1. EdgesInv(g) /\ TableInv(g, S) /\ TableInv(g, B) /\ g.idToAssetString \in Seq(Nat)
  BY DEF CoreInv, EdgesInv, NumbersInv
<1>2. current \in DOMAIN S /\ current \in DOMAIN B
  BY <1>1, LenProperties DEF TableInv, Numbers
<1>3. venuesAt(venues(g, q, current), next) = v
  BY DEF venuesAt
<1>4. v # NoVenues /\ (v = At(S, current, next) \/ v = At(B, current, next))
  BY <1>1, <1>2 DEF venues, TableInv, At, venuesAt
<1>5. v = Sel(g, current, next) \/ v = Sel(g, next, current)
  BY <1>1, <1>4 DEF EdgesInv, Sel, Buy
<1>6. next \in Live(g)
  BY <1>1, <1>4, <1>5 DEF EdgesInv
<1>7. v \in VenuesRecord
  BY <1>1, <1>5, SelType
<1> QED
  BY <1>3, <1>6, <1>7, LiveNames DEF Numbers

\* The numbers of a graph are 1 to the length of its list of names.
LEMMA NumbersAreNat ==
    ASSUME NEW g, CoreInv(g)
    PROVE  /\ Live(g) \subseteq Numbers(g) /\ Numbers(g) = 1 .. Len(g.idToAssetString)
           /\ Len(g.idToAssetString) \in Nat
<1>1. g.idToAssetString \in Seq(Nat)
  BY DEF CoreInv, NumbersInv
<1> QED
  BY <1>1, LenProperties, LiveNames DEF Numbers

\* An asset that the path has not met makes a longer path (relax).
LEMMA LongerPath ==
    ASSUME NEW g, CoreInv(g), NEW q, NEW current \in Numbers(g), NEW hops \in Nat,
           NEW ids, NEW amount \in 1 .. MaxInt64, Reached(g, q, ids, amount, hops, current),
           NEW next \in DOMAIN venues(g, q, current), next \notin ToSet(ids),
           NEW r, r = processVenues(q, current, amount, venues(g, q, current)[next])
    PROVE  /\ r \in Int /\ r <= MaxInt64 /\ r # SoldTooMuch
           /\ Append(ids, next) \in Seq(Nat)
           /\ r > 0 => Reached(g, q, Append(ids, next), r, hops + 1, next)
<1> DEFINE v == venues(g, q, current)[next]
           n == Len(ids)
           new == Append(ids, next)
<1>1. /\ next \in Live(g) /\ v \in VenuesRecord /\ venuesAt(venues(g, q, current), next) = v
  BY EdgeFacts
<1>2. amount \in Nat /\ amount # NoTrade /\ MaxInt64 \in Nat
  BY WidthAssumption DEF NoTrade
<1>3. r = processVenues(q, current, amount, v)
  OBVIOUS
<1> HIDE DEF v
<1>4. r # SoldTooMuch /\ r \in Int /\ r <= MaxInt64 /\ (r > 0 => bestTrade(q, current, amount, v) = r)
  BY <1>1, <1>2, <1>3, VenueTrade
<1>5. /\ ids \in Seq(Live(g)) /\ n \in 1 .. (hops + 1) /\ ids[1] = g.assetStringToID[q.asset]
      /\ ids[n] = current /\ IsInjective(ids) /\ amountAlong(g, q, ids) = amount
  BY DEF Reached
<1>6. Live(g) \subseteq Nat
  BY NumbersAreNat
<1>7. ids \in Seq(Nat) /\ next \in Nat /\ ids # <<>>
  <2>1. \A i \in 1 .. n : ids[i] \in Nat
    BY <1>5, <1>6, ElementOfSeq
  <2>2. ids = [i \in 1 .. n |-> ids[i]] /\ n \in Nat
    BY <1>5
  <2>3. ids \in Seq(Nat)
    BY <2>1, <2>2, IsASeq
  <2> QED
    BY <1>1, <1>5, <1>6, <2>3
<1>8. amountAlong(g, q, new) = hop(g, q, current, next, amount)
  BY <1>5, <1>7, AlongAppend
<1>9. hop(g, q, current, next, amount) = bestTrade(q, current, amount, v)
  BY <1>1, <1>2 DEF hop
<1>10. new \in Seq(Nat) /\ IsInjective(new)
  BY <1>5, <1>7, AppendFacts
<1>11. new \in Seq(Live(g)) /\ Len(new) = n + 1 /\ new[n + 1] = next /\ \A i \in 1 .. n : new[i] = ids[i]
  BY <1>1, <1>5, AppendProperties
<1> HIDE DEF new, n
<1>12. Len(new) \in 1 .. (hops + 1 + 1) /\ new[1] = ids[1] /\ new[Len(new)] = next
  BY <1>5, <1>11
<1>13. r > 0 => Reached(g, q, new, r, hops + 1, next)
  BY <1>4, <1>5, <1>8, <1>9, <1>10, <1>11, <1>12 DEF Reached
<1> QED
  BY <1>4, <1>10, <1>13 DEF new

\* A better path to next is entered in what the iteration finds, and among the results if it ends well (improve).
LEMMA ImproveKeeps ==
    ASSUME NEW g, NEW q, NEW hops, NEW more, NEW s, SearchInv(g, q, hops, more, s), NEW next \in Numbers(g),
           NEW ids \in Seq(Nat), NEW r \in Int, r <= MaxInt64, r # SoldTooMuch,
           r > 0 => Reached(g, q, ids, r, more, next),
           NEW t, t = improve(g, q, s, next, ids, r)
    PROVE  SearchInv(g, q, hops, more, t) /\ t.bestAmount = s.bestAmount
<1>1. CASE t = s
  BY <1>1
<1>2. CASE t # s
  <2>1. /\ r > 0
        /\ t = [s EXCEPT !.updateAmount[next] = r, !.updatePath[next] = ids,
                         !.paths = IF includePath(g, q, next, r) THEN @ \cup {toPath(g, q, ids, r)} ELSE @]
    BY <1>2 DEF improve
  <2>2. Reached(g, q, ids, r, more, next) /\ ids[Len(ids)] = next
    BY <2>1 DEF Reached
  <2> DEFINE amounts == [s.updateAmount EXCEPT ![next] = r]
             paths == [s.updatePath EXCEPT ![next] = ids]
             results == IF includePath(g, q, next, r) THEN s.paths \cup {toPath(g, q, ids, r)} ELSE s.paths
  <2>3. /\ DOMAIN s = SearchFields /\ s.failed = FALSE
        /\ Tables(g, q, s.bestAmount, s.bestPath, hops)
        /\ Tables(g, q, s.updateAmount, s.updatePath, more)
        /\ \A p \in s.paths : Found(g, q, p, more)
    BY DEF SearchInv
  <2>4. /\ DOMAIN t = SearchFields /\ t.failed = FALSE
        /\ t.bestAmount = s.bestAmount /\ t.bestPath = s.bestPath
        /\ t.updateAmount = amounts /\ t.updatePath = paths /\ t.paths = results
    BY <2>1, <2>3 DEF SearchFields
  <2>5. Tables(g, q, amounts, paths, more)
    <3>1. r \in 0 .. MaxInt64
      BY <2>1
    <3>2. amounts \in [Numbers(g) -> 0 .. MaxInt64] /\ paths \in [Numbers(g) -> Seq(Nat)]
      BY <2>3, <3>1 DEF Tables
    <3>3. ASSUME NEW id \in Numbers(g), amounts[id] # 0
          PROVE  Reached(g, q, paths[id], amounts[id], more, id)
      BY <2>2, <2>3, <3>3 DEF Tables
    <3> QED
      BY <3>2, <3>3 DEF Tables
  <2>6. \A p \in results : Found(g, q, p, more)
    BY <2>2, <2>3 DEF Found
  <2> HIDE DEF amounts, paths, results
  <2> QED
    BY <2>3, <2>4, <2>5, <2>6 DEF SearchInv
<1> QED
  BY <1>1, <1>2

\* One edge (relax).
LEMMA RelaxKeeps ==
    ASSUME NEW g, CoreInv(g), NEW q, NEW hops \in Nat, NEW i, NEW s, SearchInv(g, q, hops, hops + 1, s),
           NEW current \in Numbers(g), s.bestAmount[current] # 0, NEW next \in DOMAIN venues(g, q, current),
           NEW t, t = relax(g, q, i, current, s, next)
    PROVE  SearchInv(g, q, hops, hops + 1, t) /\ t.bestAmount = s.bestAmount
<1> DEFINE r == processVenues(q, current, s.bestAmount[current], venues(g, q, current)[next])
           ids == Append(s.bestPath[current], next)
<1>1. CASE t = s
  BY <1>1
<1>2. CASE t # s
  <2>1. next \notin ToSet(s.bestPath[current]) /\ t = improve(g, q, s, next, ids, r)
    BY <1>2 DEF relax
  <2>2. Tables(g, q, s.bestAmount, s.bestPath, hops)
    BY DEF SearchInv
  <2>3. Reached(g, q, s.bestPath[current], s.bestAmount[current], hops, current)
    BY <2>2 DEF Tables
  <2>4. s.bestAmount[current] \in 1 .. MaxInt64
    <3>1. s.bestAmount[current] \in 0 .. MaxInt64
      BY <2>2 DEF Tables
    <3> QED
      BY <3>1, WidthAssumption
  <2>5. r \in Int /\ r <= MaxInt64 /\ r # SoldTooMuch /\ ids \in Seq(Nat)
        /\ (r > 0 => Reached(g, q, ids, r, hops + 1, next))
    BY <2>1, <2>3, <2>4, LongerPath
  <2>6. next \in Numbers(g)
    BY EdgeFacts
  <2> HIDE DEF r, ids
  <2> QED
    BY <2>1, <2>5, <2>6, ImproveKeeps
<1> QED
  BY <1>1, <1>2

\* What relaxAll does for one number.
edge(g, q, i, current, s, next) ==
    IF next \in DOMAIN venues(g, q, current) THEN relax(g, q, i, current, s, next) ELSE s

\* The values of the recursions of relaxAll, iterate and search, and that they exist.
Edges(f, g, q, i, s, current, n) ==
    f = [k \in 0 .. n |-> IF k = 0 THEN s ELSE edge(g, q, i, current, f[k - 1], k)]

\* The recursive function of relaxAll exists.
LEMMA EdgesExist ==
    ASSUME NEW g, NEW q, NEW i, NEW s, NEW current
    PROVE  \A n \in Nat : \E f : Edges(f, g, q, i, s, current, n)
<1> DEFINE S == {n \in Nat : \E f : Edges(f, g, q, i, s, current, n)}
<1>1. 0 \in S
  <2>1. Edges([k \in 0 .. 0 |-> s], g, q, i, s, current, 0)
    BY DEF Edges
  <2> QED
    BY <2>1
<1>2. ASSUME NEW n \in S PROVE n + 1 \in S
  <2>1. PICK f : Edges(f, g, q, i, s, current, n)
    OBVIOUS
  <2> DEFINE h == [k \in 0 .. n + 1 |-> IF k = n + 1 THEN edge(g, q, i, current, f[n], n + 1) ELSE f[k]]
  <2>2. \A k \in 0 .. n + 1 : h[k] = IF k = 0 THEN s ELSE edge(g, q, i, current, h[k - 1], k)
    BY <2>1 DEF Edges
  <2>3. Edges(h, g, q, i, s, current, n + 1)
    BY <2>2 DEF Edges
  <2> HIDE DEF h
  <2> QED
    BY <2>3
<1> HIDE DEF S
<1>3. S = Nat
  BY <1>1, <1>2, Induction DEF S
<1> QED
  BY <1>3 DEF S


Sweep(f, g, q, i, s, n) ==
    f = [k \in 0 .. n |-> IF k = 0 THEN s ELSE relaxAll(g, q, i, f[k - 1], k)]

\* The recursive function of iterate exists.
LEMMA SweepExists ==
    ASSUME NEW g, NEW q, NEW i, NEW s
    PROVE  \A n \in Nat : \E f : Sweep(f, g, q, i, s, n)
<1> DEFINE S == {n \in Nat : \E f : Sweep(f, g, q, i, s, n)}
<1>1. 0 \in S
  <2>1. Sweep([k \in 0 .. 0 |-> s], g, q, i, s, 0)
    BY DEF Sweep
  <2> QED
    BY <2>1
<1>2. ASSUME NEW n \in S PROVE n + 1 \in S
  <2>1. PICK f : Sweep(f, g, q, i, s, n)
    OBVIOUS
  <2> DEFINE h == [k \in 0 .. n + 1 |-> IF k = n + 1 THEN relaxAll(g, q, i, f[n], n + 1) ELSE f[k]]
  <2>2. \A k \in 0 .. n + 1 : h[k] = IF k = 0 THEN s ELSE relaxAll(g, q, i, h[k - 1], k)
    BY <2>1 DEF Sweep
  <2>3. Sweep(h, g, q, i, s, n + 1)
    BY <2>2 DEF Sweep
  <2> HIDE DEF h
  <2> QED
    BY <2>3
<1> HIDE DEF S
<1>3. S = Nat
  BY <1>1, <1>2, Induction DEF S
<1> QED
  BY <1>3 DEF S


Rounds(f, g, q, s, n) ==
    f = [k \in 0 .. n |-> IF k = 0 THEN s ELSE iterate(g, q, f[k - 1], k)]

\* The recursive function of search exists.
LEMMA RoundsExist ==
    ASSUME NEW g, NEW q, NEW s
    PROVE  \A n \in Nat : \E f : Rounds(f, g, q, s, n)
<1> DEFINE S == {n \in Nat : \E f : Rounds(f, g, q, s, n)}
<1>1. 0 \in S
  <2>1. Rounds([k \in 0 .. 0 |-> s], g, q, s, 0)
    BY DEF Rounds
  <2> QED
    BY <2>1
<1>2. ASSUME NEW n \in S PROVE n + 1 \in S
  <2>1. PICK f : Rounds(f, g, q, s, n)
    OBVIOUS
  <2> DEFINE h == [k \in 0 .. n + 1 |-> IF k = n + 1 THEN iterate(g, q, f[n], n + 1) ELSE f[k]]
  <2>2. \A k \in 0 .. n + 1 : h[k] = IF k = 0 THEN s ELSE iterate(g, q, h[k - 1], k)
    BY <2>1 DEF Rounds
  <2>3. Rounds(h, g, q, s, n + 1)
    BY <2>2 DEF Rounds
  <2> HIDE DEF h
  <2> QED
    BY <2>3
<1> HIDE DEF S
<1>3. S = Nat
  BY <1>1, <1>2, Induction DEF S
<1> QED
  BY <1>3 DEF S


\* All edges of one asset (relaxAll).
LEMMA RelaxAllKeeps ==
    ASSUME NEW g, CoreInv(g), NEW q, NEW hops \in Nat, NEW i, NEW s, SearchInv(g, q, hops, hops + 1, s),
           NEW current \in Numbers(g)
    PROVE  SearchInv(g, q, hops, hops + 1, relaxAll(g, q, i, s, current))
<1> DEFINE n == Len(g.idToAssetString)
           f == CHOOSE f : Edges(f, g, q, i, s, current, n)
           S == {k \in Nat : k <= n => /\ SearchInv(g, q, hops, hops + 1, f[k])
                                      /\ f[k].bestAmount = s.bestAmount}
<1>1. relaxAll(g, q, i, s, current) = IF s.bestAmount[current] = 0 THEN s ELSE f[n]
  BY DEF relaxAll, Edges, edge
<1>2. n \in Nat
  BY NumbersAreNat
<1>3. Edges(f, g, q, i, s, current, n)
  BY <1>2, EdgesExist
<1> HIDE DEF f, n
<1>4. f[0] = s /\ \A k \in 1 .. n : f[k] = edge(g, q, i, current, f[k - 1], k)
  BY <1>2, <1>3 DEF Edges
<1> SUFFICES ASSUME s.bestAmount[current] # 0 PROVE SearchInv(g, q, hops, hops + 1, f[n])
  BY <1>1
<1>5. 0 \in S
  BY <1>4
<1>6. ASSUME NEW k \in S PROVE k + 1 \in S
  <2> SUFFICES ASSUME k + 1 <= n
               PROVE  SearchInv(g, q, hops, hops + 1, f[k + 1]) /\ f[k + 1].bestAmount = s.bestAmount
    OBVIOUS
  <2>1. k + 1 \in 1 .. n /\ k <= n /\ (k + 1) - 1 = k
    BY <1>2
  <2>2. SearchInv(g, q, hops, hops + 1, f[k]) /\ f[k].bestAmount = s.bestAmount
    BY <2>1
  <2>3. f[k + 1] = edge(g, q, i, current, f[k], k + 1)
    BY <1>4, <2>1
  <2>4. CASE k + 1 \in DOMAIN venues(g, q, current)
    <3>1. f[k + 1] = relax(g, q, i, current, f[k], k + 1)
      BY <2>3, <2>4 DEF edge
    <3>2. f[k].bestAmount[current] # 0
      BY <2>2
    <3> QED
      BY <2>2, <2>4, <3>1, <3>2, RelaxKeeps
  <2>5. CASE k + 1 \notin DOMAIN venues(g, q, current)
    BY <2>2, <2>3, <2>5 DEF edge
  <2> QED
    BY <2>4, <2>5
<1> HIDE DEF S
<1>7. S = Nat
  BY <1>5, <1>6, Induction DEF S
<1> QED
  BY <1>2, <1>7 DEF S

\* What was reached or found in fewer hops is reached or found in more.
LEMMA MoreHops ==
    ASSUME NEW g, NEW q, NEW hops \in Nat
    PROVE  /\ \A ids, amount, id : Reached(g, q, ids, amount, hops, id) => Reached(g, q, ids, amount, hops + 1, id)
           /\ \A p : Found(g, q, p, hops) => Found(g, q, p, hops + 1)
<1>1. \A k : k \in 1 .. (hops + 1) => k \in 1 .. ((hops + 1) + 1)
  OBVIOUS
<1>2. ASSUME NEW ids, NEW amount, NEW id, Reached(g, q, ids, amount, hops, id)
      PROVE  Reached(g, q, ids, amount, hops + 1, id)
  BY <1>1, <1>2 DEF Reached
<1> QED
  BY <1>2 DEF Found

\* One more hop (iterate).
LEMMA IterateKeeps ==
    ASSUME NEW g, CoreInv(g), NEW q, NEW hops \in Nat, NEW i, NEW s, SearchInv(g, q, hops, hops, s)
    PROVE  SearchInv(g, q, hops + 1, hops + 1, iterate(g, q, s, i))
<1> DEFINE n == Len(g.idToAssetString)
           f == CHOOSE f : Sweep(f, g, q, i, s, n)
           S == {k \in Nat : k <= n => SearchInv(g, q, hops, hops + 1, f[k])}
<1>1. iterate(g, q, s, i) = adopt(f[n])
  BY DEF iterate, Sweep
<1>2. n \in Nat /\ Numbers(g) = 1 .. n
  BY NumbersAreNat
<1>3. Sweep(f, g, q, i, s, n)
  BY <1>2, SweepExists
<1> HIDE DEF f, n
<1>4. f[0] = s /\ \A k \in 1 .. n : f[k] = relaxAll(g, q, i, f[k - 1], k)
  BY <1>2, <1>3 DEF Sweep
<1>5. 0 \in S
  <2>1. Tables(g, q, s.updateAmount, s.updatePath, hops + 1)
    BY MoreHops DEF SearchInv, Tables
  <2>2. SearchInv(g, q, hops, hops + 1, s)
    BY <2>1, MoreHops DEF SearchInv
  <2> QED
    BY <1>4, <2>2
<1>6. ASSUME NEW k \in S PROVE k + 1 \in S
  <2> SUFFICES ASSUME k + 1 <= n PROVE SearchInv(g, q, hops, hops + 1, f[k + 1])
    OBVIOUS
  <2>1. k + 1 \in 1 .. n /\ k <= n /\ (k + 1) - 1 = k
    BY <1>2
  <2>2. SearchInv(g, q, hops, hops + 1, f[k]) /\ f[k + 1] = relaxAll(g, q, i, f[k], k + 1)
    BY <1>4, <2>1
  <2> QED
    BY <1>2, <2>1, <2>2, RelaxAllKeeps
<1> HIDE DEF S
<1>7. S = Nat
  BY <1>5, <1>6, Induction DEF S
<1>8. SearchInv(g, q, hops, hops + 1, f[n])
  BY <1>2, <1>7 DEF S
<1> DEFINE u == f[n]
           t == adopt(u)
<1> HIDE DEF u
<1>9. DOMAIN u = SearchFields /\ u.failed = FALSE /\ SearchInv(g, q, hops, hops + 1, u)
  BY <1>8 DEF SearchInv, u
<1>10. /\ DOMAIN t = SearchFields /\ t.failed = FALSE /\ t.bestAmount = u.updateAmount /\ t.bestPath = u.updatePath
       /\ t.updateAmount = u.updateAmount /\ t.updatePath = u.updatePath /\ t.paths = u.paths
  BY <1>9 DEF adopt, SearchFields
<1> HIDE DEF t
<1>11. SearchInv(g, q, hops + 1, hops + 1, t)
  BY <1>9, <1>10 DEF SearchInv
<1> QED
  BY <1>1, <1>11 DEF t, u

(* A whole search. *)

\* The state a search starts from.
searchStart(g, q) ==
    LET start == g.assetStringToID[q.asset]
        amounts == [id \in DOMAIN g.idToAssetString |-> IF id = start THEN q.amount ELSE 0]
        paths == [id \in DOMAIN g.idToAssetString |-> IF id = start THEN <<start>> ELSE <<>>]
        direct == IF includePath(g, q, start, q.amount)
                  THEN {toPath(g, q, <<start>>, q.amount)} ELSE {}
    IN [bestAmount |-> amounts, updateAmount |-> amounts, bestPath |-> paths,
        updatePath |-> paths, paths |-> direct, failed |-> FALSE]

\* The asset a search starts at is reached without a hop, at the amount asked for.
LEMMA StartReached ==
    ASSUME NEW g, CoreInv(g), NEW q, q.asset \in DOMAIN g.assetStringToID,
           NEW start, start = g.assetStringToID[q.asset]
    PROVE  /\ start \in Numbers(g) /\ <<start>> \in Seq(Nat)
           /\ Reached(g, q, <<start>>, q.amount, 0, start)
<1>1. start \in Live(g)
  BY NameOfNumber DEF CoreInv
<1>2. start \in Numbers(g) /\ start \in Nat
  BY <1>1, NumbersAreNat
<1>3. <<start>> \in Seq(Live(g)) /\ Len(<<start>>) = 1 /\ <<start>>[1] = start /\ IsInjective(<<start>>)
  BY <1>1 DEF IsInjective
<1>4. amountAlong(g, q, <<start>>) = q.amount
  BY AlongStart
<1> QED
  BY <1>2, <1>3, <1>4 DEF Reached

\* The state a search starts from is in order.
LEMMA StartInv ==
    ASSUME NEW g, CoreInv(g), NEW q, q.asset \in DOMAIN g.assetStringToID, q.amount \in 0 .. MaxInt64
    PROVE  SearchInv(g, q, 0, 0, searchStart(g, q))
<1> DEFINE start == g.assetStringToID[q.asset]
           amounts == [id \in DOMAIN g.idToAssetString |-> IF id = start THEN q.amount ELSE 0]
           paths == [id \in DOMAIN g.idToAssetString |-> IF id = start THEN <<start>> ELSE <<>>]
           direct == IF includePath(g, q, start, q.amount)
                     THEN {toPath(g, q, <<start>>, q.amount)} ELSE {}
           s == searchStart(g, q)
<1>1. start \in Numbers(g) /\ <<start>> \in Seq(Nat) /\ Reached(g, q, <<start>>, q.amount, 0, start)
  BY StartReached
<1>2. s = [bestAmount |-> amounts, updateAmount |-> amounts, bestPath |-> paths,
           updatePath |-> paths, paths |-> direct, failed |-> FALSE]
  BY DEF searchStart
<1>3. <<start>>[Len(<<start>>)] = start
  OBVIOUS
<1> HIDE DEF start
<1>4. Tables(g, q, amounts, paths, 0)
  <2>1. 0 \in 0 .. MaxInt64 /\ <<>> \in Seq(Nat)
    BY WidthAssumption
  <2>2. amounts \in [Numbers(g) -> 0 .. MaxInt64] /\ paths \in [Numbers(g) -> Seq(Nat)]
    BY <1>1, <2>1 DEF Numbers
  <2>3. ASSUME NEW id \in Numbers(g), amounts[id] # 0
        PROVE  Reached(g, q, paths[id], amounts[id], 0, id)
    BY <1>1, <2>3 DEF Numbers
  <2> QED
    BY <2>2, <2>3 DEF Tables
<1>5. \A p \in direct : Found(g, q, p, 0)
  BY <1>1, <1>3 DEF Found
<1> HIDE DEF amounts, paths, direct, s
<1>6. /\ DOMAIN s = SearchFields /\ s.failed = FALSE /\ s.bestAmount = amounts /\ s.updateAmount = amounts
      /\ s.bestPath = paths /\ s.updatePath = paths /\ s.paths = direct
  BY <1>2 DEF SearchFields
<1> QED
  BY <1>4, <1>5, <1>6 DEF SearchInv, s

\* A search does not fail, and what it returns it has reached in maxPathLength hops.
LEMMA SearchFinds ==
    ASSUME NEW g, CoreInv(g), NEW q, q.asset \in DOMAIN g.assetStringToID, q.amount \in 0 .. MaxInt64,
           q.maxPathLength \in Nat
    PROVE  /\ search(g, q).failed = FALSE
           /\ \A p \in search(g, q).paths : Found(g, q, p, q.maxPathLength)
<1> DEFINE n == q.maxPathLength
           s == searchStart(g, q)
           f == CHOOSE f : Rounds(f, g, q, s, n)
           S == {k \in Nat : k <= n => SearchInv(g, q, k, k, f[k])}
<1>1. search(g, q) = f[n]
  BY DEF search, Rounds, searchStart
<1>2. Rounds(f, g, q, s, n)
  BY RoundsExist
<1>3. SearchInv(g, q, 0, 0, s) /\ n \in Nat
  BY StartInv
<1> HIDE DEF f, s, n
<1>4. f[0] = s /\ \A k \in 1 .. n : f[k] = iterate(g, q, f[k - 1], k)
  BY <1>2, <1>3 DEF Rounds
<1>5. 0 \in S
  BY <1>3, <1>4
<1>6. ASSUME NEW k \in S PROVE k + 1 \in S
  <2> SUFFICES ASSUME k + 1 <= n PROVE SearchInv(g, q, k + 1, k + 1, f[k + 1])
    OBVIOUS
  <2>1. k + 1 \in 1 .. n /\ k <= n /\ (k + 1) - 1 = k /\ k \in Nat
    BY <1>3
  <2>2. SearchInv(g, q, k, k, f[k]) /\ f[k + 1] = iterate(g, q, f[k], k + 1)
    BY <1>4, <2>1
  <2> QED
    BY <2>1, <2>2, IterateKeeps
<1> HIDE DEF S
<1>7. S = Nat
  BY <1>5, <1>6, Induction DEF S
<1>8. SearchInv(g, q, n, n, f[n])
  BY <1>3, <1>7 DEF S
<1> QED
  BY <1>1, <1>8 DEF SearchInv, n

(* A returned path names the assets of the path that was found. *)

\* A first element, a middle and a last element, element by element.
LEMMA JoinedSeq ==
    ASSUME NEW x \in Nat, NEW y \in Nat, NEW mid \in Seq(Nat), NEW s, s = <<x>> \o mid \o <<y>>
    PROVE  /\ DOMAIN s = 1 .. Len(mid) + 2 /\ s[1] = x /\ s[Len(mid) + 2] = y
           /\ \A i \in 1 .. Len(mid) : s[i + 1] = mid[i]
<1> DEFINE r == <<x>> \o mid
<1>1. <<x>> \in Seq(Nat) /\ Len(<<x>>) = 1 /\ <<x>>[1] = x /\ <<y>> \in Seq(Nat) /\ Len(<<y>>) = 1 /\ <<y>>[1] = y
  OBVIOUS
<1>2. /\ r \in Seq(Nat) /\ Len(r) = 1 + Len(mid)
      /\ \A i \in 1 .. 1 + Len(mid) : r[i] = IF i <= 1 THEN <<x>>[i] ELSE mid[i - 1]
  BY <1>1, ConcatProperties
<1>3. s = r \o <<y>>
  OBVIOUS
<1> HIDE DEF r
<1>4. /\ s \in Seq(Nat) /\ Len(s) = Len(r) + 1
      /\ \A i \in 1 .. Len(r) + 1 : s[i] = IF i <= Len(r) THEN r[i] ELSE <<y>>[i - Len(r)]
  BY <1>1, <1>2, <1>3, ConcatProperties
<1>5. Len(mid) \in Nat /\ DOMAIN s = 1 .. Len(s)
  BY <1>4, LenProperties
<1>6. s[1] = x
  <2>1. 1 \in 1 .. Len(r) + 1 /\ 1 <= Len(r) /\ 1 \in 1 .. 1 + Len(mid)
    BY <1>2, <1>5
  <2> QED
    BY <1>1, <1>2, <1>4, <2>1
<1>7. s[Len(mid) + 2] = y
  <2>1. /\ Len(mid) + 2 \in 1 .. Len(r) + 1 /\ ~ (Len(mid) + 2 <= Len(r)) /\ (Len(mid) + 2) - Len(r) = 1
    BY <1>2, <1>5
  <2> QED
    BY <1>1, <1>4, <2>1
<1>8. ASSUME NEW i \in 1 .. Len(mid) PROVE s[i + 1] = mid[i]
  <2>1. /\ i + 1 \in 1 .. Len(r) + 1 /\ i + 1 <= Len(r) /\ i + 1 \in 1 .. 1 + Len(mid)
        /\ ~ (i + 1 <= 1) /\ (i + 1) - 1 = i
    BY <1>2, <1>5
  <2> QED
    BY <1>2, <1>4, <2>1
<1> QED
  BY <1>2, <1>4, <1>5, <1>6, <1>7, <1>8

\* The names of a path's assets, and those between its ends.
namesOf(g, ids) == [i \in DOMAIN ids |-> g.idToAssetString[ids[i]]]
interiorOf(g, ids) == IF Len(ids) > 2 THEN SubSeq(namesOf(g, ids), 2, Len(ids) - 1) ELSE <<>>

\* The names of the assets of a path are different, and give their numbers back.
LEMMA PathNames ==
    ASSUME NEW g, CoreInv(g), NEW ids \in Seq(Live(g)), IsInjective(ids), Len(ids) >= 1,
           NEW names, names = namesOf(g, ids), NEW mid, mid = interiorOf(g, ids)
    PROVE  /\ names \in Seq(Nat) /\ Len(names) = Len(ids) /\ DOMAIN ids = 1 .. Len(ids) /\ Len(ids) \in Nat
           /\ \A i \in 1 .. Len(ids) : g.assetStringToID[names[i]] = ids[i]
           /\ Len(ids) > 1 => names[1] # names[Len(ids)]
           /\ mid \in Seq(Nat) /\ Len(mid) = IF Len(ids) > 2 THEN Len(ids) - 2 ELSE 0
           /\ \A i \in 1 .. Len(mid) : mid[i] = names[i + 1]
<1> DEFINE n == Len(ids)
<1>1. NumbersInv(g)
  BY DEF CoreInv
<1>2. n \in Nat /\ DOMAIN ids = 1 .. n /\ \A i \in 1 .. n : ids[i] \in Live(g)
  BY LenProperties, ElementOfSeq
<1>3. names = [i \in 1 .. n |-> g.idToAssetString[ids[i]]]
  BY <1>2 DEF namesOf
<1>4. \A id \in Live(g) : g.idToAssetString[id] \in Nat /\ g.assetStringToID[g.idToAssetString[id]] = id
  BY <1>1, LiveNames, LenProperties, ElementOfSeq DEF NumbersInv
<1>5. \A i \in 1 .. n : names[i] \in Nat /\ g.assetStringToID[names[i]] = ids[i]
  BY <1>2, <1>3, <1>4
<1>6. names \in Seq(Nat) /\ Len(names) = n
  BY <1>2, <1>3, <1>5, IsASeq, LenProperties
<1>7. n > 1 => names[1] # names[n]
  <2>1. n > 1 => ids[1] # ids[n]
    BY <1>2 DEF IsInjective
  <2> QED
    BY <1>2, <1>5, <2>1
<1>8. CASE n > 2
  <2>1. mid = SubSeq(names, 2, n - 1)
    BY <1>8 DEF interiorOf
  <2>2. 2 \in 1 .. Len(names) + 1 /\ n - 1 \in 1 .. Len(names) /\ n - 1 \in Int /\ 2 \in Int
    BY <1>2, <1>6, <1>8
  <2>3. /\ mid \in Seq(Nat) /\ Len(mid) = n - 2 /\ \A i \in 1 .. n - 2 : mid[i] = names[i + 1]
    <3>1. /\ SubSeq(names, 2, n - 1) \in Seq(Nat)
          /\ Len(SubSeq(names, 2, n - 1)) = IF 2 <= n - 1 THEN (n - 1) - 2 + 1 ELSE 0
          /\ \A i \in 1 .. (n - 1) - 2 + 1 : SubSeq(names, 2, n - 1)[i] = names[2 + i - 1]
      BY <1>6, <1>8, <2>2, SubSeqProperties
    <3>2. (n - 1) - 2 + 1 = n - 2 /\ 2 <= n - 1 /\ \A i \in 1 .. n - 2 : 2 + i - 1 = i + 1
      BY <1>2, <1>8
    <3> QED
      BY <2>1, <3>1, <3>2
  <2> QED
    BY <1>2, <1>5, <1>6, <1>7, <1>8, <2>3
<1>9. CASE ~ (n > 2)
  <2>1. mid = <<>> /\ mid \in Seq(Nat) /\ Len(mid) = 0
    BY <1>9 DEF interiorOf
  <2> QED
    BY <1>2, <1>5, <1>6, <1>7, <1>9, <2>1
<1> QED
  BY <1>8, <1>9

\* Reverse, element by element.
LEMMA ReverseFacts ==
    ASSUME NEW s \in Seq(Nat), NEW t, t = Reverse(s)
    PROVE  /\ t \in Seq(Nat) /\ Len(t) = Len(s) /\ DOMAIN t = 1 .. Len(s)
           /\ \A i \in 1 .. Len(s) : t[i] = s[Len(s) - i + 1]
<1>1. Len(s) \in Nat /\ t = [i \in 1 .. Len(s) |-> s[Len(s) - i + 1]]
  BY LenProperties DEF Reverse
<1>2. \A i \in 1 .. Len(s) : s[Len(s) - i + 1] \in Nat
  <2>1. \A i \in 1 .. Len(s) : Len(s) - i + 1 \in 1 .. Len(s)
    BY <1>1
  <2> QED
    BY <2>1, ElementOfSeq
<1>3. t \in Seq(Nat)
  BY <1>1, <1>2, IsASeq
<1> QED
  BY <1>1, <1>3, LenProperties

\* The numbers of a returned path are those of the path that was found, in either direction (toPath).
LEMMA RoundTrip ==
    ASSUME NEW g, CoreInv(g), NEW q, q.asset \in DOMAIN g.assetStringToID, NEW ids, NEW amount, NEW hops,
           Reached(g, q, ids, amount, hops, ids[Len(ids)]), hops \in Nat,
           NEW p, p = toPath(g, q, ids, amount)
    PROVE  /\ idsOf(g, q, p) = ids /\ endAmount(q, p) = amount
           /\ q.direction = "selling" => /\ p.source = g.idToAssetString[ids[Len(ids)]]
                                         /\ p.sourceAmount = amount
<1> DEFINE n == Len(ids)
           names == namesOf(g, ids)
           mid == interiorOf(g, ids)
           all == <<p.source>> \o p.interior
                    \o (IF p.interior = <<>> /\ p.source = p.destination THEN <<>> ELSE <<p.destination>>)
           back == [i \in DOMAIN all |-> g.assetStringToID[all[i]]]
<1>1. /\ ids \in Seq(Live(g)) /\ n \in Nat /\ n >= 1 /\ IsInjective(ids) /\ ids[1] = g.assetStringToID[q.asset]
  BY DEF Reached
<1>2. /\ names \in Seq(Nat) /\ Len(names) = n /\ DOMAIN ids = 1 .. n
      /\ \A i \in 1 .. n : g.assetStringToID[names[i]] = ids[i]
      /\ n > 1 => names[1] # names[n]
      /\ mid \in Seq(Nat) /\ Len(mid) = IF n > 2 THEN n - 2 ELSE 0
      /\ \A i \in 1 .. Len(mid) : mid[i] = names[i + 1]
  BY <1>1, PathNames
<1>3. names[1] = q.asset /\ names[n] = g.idToAssetString[ids[n]]
  <2>1. g.idToAssetString[ids[1]] = q.asset
    BY <1>1, NameOfNumber DEF CoreInv
  <2>2. 1 \in DOMAIN ids /\ n \in DOMAIN ids
    BY <1>1, <1>2
  <2> QED
    BY <2>1, <2>2 DEF namesOf
<1>4. p = IF q.direction = "selling"
          THEN [source |-> names[n], sourceAmount |-> amount, interior |-> Reverse(mid),
                destination |-> q.asset, destinationAmount |-> q.amount]
          ELSE [source |-> q.asset, sourceAmount |-> q.amount, interior |-> mid,
                destination |-> names[n], destinationAmount |-> amount]
  <2>1. Last(names) = names[n]
    BY <1>2 DEF Last
  <2> QED
    BY <2>1 DEF toPath, namesOf, interiorOf
<1>5. idsOf(g, q, p) = IF q.direction = "selling" THEN Reverse(back) ELSE back
  BY DEF idsOf
<1>6. ids = [i \in 1 .. n |-> ids[i]] /\ names[1] \in Nat /\ names[n] \in Nat
  BY <1>1, <1>2, ElementOfSeq
<1>n. n = 1 \/ n > 1
  <2>1. \A k \in Nat : k >= 1 => k = 1 \/ k > 1
    OBVIOUS
  <2> HIDE DEF n
  <2> QED
    BY <1>1, <2>1
<1>m. mid \in Seq(Nat)
  BY <1>2
<1> HIDE DEF names, mid, all
<1>7. endAmount(q, p) = amount /\ (q.direction = "selling" => p.source = names[n] /\ p.sourceAmount = amount)
  BY <1>4 DEF endAmount
<1>8. CASE q.direction = "selling"
  <2>1. p.source = names[n] /\ p.interior = Reverse(mid) /\ p.destination = names[1]
    BY <1>3, <1>4, <1>8
  <2> DEFINE rev == Reverse(mid)
  <2>2. rev \in Seq(Nat) /\ Len(rev) = Len(mid) /\ \A i \in 1 .. Len(mid) : rev[i] = mid[Len(mid) - i + 1]
    BY <1>2, ReverseFacts, ZenonT(30)
  <2> HIDE DEF rev
  <2>3. DOMAIN all = 1 .. n /\ \A i \in 1 .. n : all[i] = names[n - i + 1]
    <3>1. CASE n = 1
      <4>1. rev = <<>> /\ names[n] = names[1]
        BY <1>2, <2>2, <3>1, EmptySeq
      <4>2. all = <<names[1]>>
        BY <2>1, <4>1, <1>6 DEF rev, all
      <4>3. DOMAIN all = 1 .. 1 /\ all[1] = names[1] /\ (1 - 1) + 1 = 1
        BY <4>2
      <4> QED
        BY <3>1, <4>3
    <3>2. CASE n > 1
      <4>1. all = <<names[n]>> \o rev \o <<names[1]>>
        BY <1>2, <2>1, <3>2 DEF rev, all
      <4>2. Len(mid) = n - 2 /\ Len(mid) \in Nat
        BY <1>1, <1>2, <3>2, SMTT(30)
      <4>3. /\ DOMAIN all = 1 .. Len(mid) + 2 /\ all[1] = names[n] /\ all[Len(mid) + 2] = names[1]
            /\ \A i \in 1 .. Len(mid) : all[i + 1] = rev[i]
        BY <1>6, <2>2, <4>1, JoinedSeq, SMTT(30)
      <4>4. ASSUME NEW i \in 1 .. n PROVE all[i] = names[n - i + 1]
        <5>1. CASE i = 1
          BY <1>1, <4>3, <5>1
        <5>2. CASE i = n
          BY <1>1, <4>2, <4>3, <5>2
        <5>3. CASE i # 1 /\ i # n
          <6>1. /\ i - 1 \in 1 .. Len(mid) /\ (i - 1) + 1 = i /\ Len(mid) - (i - 1) + 1 = n - i
                /\ n - i \in 1 .. Len(mid)
            BY <1>1, <4>2, <5>3
          <6>2. all[i] = rev[i - 1]
            BY <4>3, <6>1
          <6>3. rev[i - 1] = mid[n - i]
            BY <2>2, <6>1
          <6> QED
            BY <1>2, <6>1, <6>2, <6>3
        <5> QED
          BY <5>1, <5>2, <5>3
      <4> QED
        BY <4>2, <4>3, <4>4
    <3> QED
      BY <1>n, <3>1, <3>2
  <2>4. back = [i \in 1 .. n |-> ids[n - i + 1]]
    <3>1. \A i \in 1 .. n : n - i + 1 \in 1 .. n
      BY <1>1
    <3>2. \A i \in 1 .. n : g.assetStringToID[all[i]] = ids[n - i + 1]
      BY <1>2, <2>3, <3>1
    <3> QED
      BY <2>3, <3>2
  <2> HIDE DEF back
  <2>5. Reverse(back) = ids
    <3>1. Len(back) = n
      BY <1>1, <2>4
    <3>2. Reverse(back) = [i \in 1 .. n |-> back[n - i + 1]]
      BY <3>1 DEF Reverse
    <3>3. \A i \in 1 .. n : back[n - i + 1] = ids[i]
      <4>1. \A i \in 1 .. n : n - i + 1 \in 1 .. n /\ n - (n - i + 1) + 1 = i
        BY <1>1
      <4> QED
        BY <2>4, <4>1
    <3> QED
      BY <1>6, <3>2, <3>3
  <2> QED
    BY <1>3, <1>5, <1>7, <1>8, <2>5
<1>9. CASE q.direction # "selling"
  <2>1. p.source = names[1] /\ p.interior = mid /\ p.destination = names[n]
    BY <1>3, <1>4, <1>9
  <2>2. DOMAIN all = 1 .. n /\ \A i \in 1 .. n : all[i] = names[i]
    <3>1. CASE n = 1
      <4>1. mid = <<>> /\ names[n] = names[1]
        BY <1>2, <3>1, EmptySeq
      <4>2. all = <<names[1]>>
        BY <2>1, <4>1, <1>6 DEF all
      <4>3. DOMAIN all = 1 .. 1 /\ all[1] = names[1]
        BY <4>2
      <4> QED
        BY <3>1, <4>3
    <3>2. CASE n > 1
      <4>1. all = <<names[1]>> \o mid \o <<names[n]>>
        BY <1>2, <2>1, <3>2 DEF all
      <4>2. Len(mid) = n - 2 /\ Len(mid) \in Nat
        BY <1>1, <1>2, <3>2, SMTT(30)
      <4>3. /\ DOMAIN all = 1 .. Len(mid) + 2 /\ all[1] = names[1] /\ all[Len(mid) + 2] = names[n]
            /\ \A i \in 1 .. Len(mid) : all[i + 1] = mid[i]
        BY <1>6, <1>m, <4>1, JoinedSeq, SMTT(30)
      <4>4. ASSUME NEW i \in 1 .. n PROVE all[i] = names[i]
        <5>1. CASE i = 1 \/ i = n
          BY <1>1, <4>2, <4>3, <5>1
        <5>2. CASE i # 1 /\ i # n
          <6>1. i - 1 \in 1 .. Len(mid) /\ (i - 1) + 1 = i
            BY <1>1, <4>2, <5>2
          <6> QED
            BY <1>2, <4>3, <6>1
        <5> QED
          BY <5>1, <5>2
      <4> QED
        BY <4>2, <4>3, <4>4
    <3> QED
      BY <1>n, <3>1, <3>2
  <2>3. back = [i \in 1 .. n |-> ids[i]]
    BY <1>2, <2>2, SMTT(30)
  <2> QED
    BY <1>5, <1>6, <1>7, <1>9, <2>3
<1> QED
  BY <1>8, <1>9

\* What is found can be walked, and is affordable when balances count.
LEMMA FoundIsReal ==
    ASSUME NEW g, CoreInv(g), NEW q, q.asset \in DOMAIN g.assetStringToID, q.maxPathLength \in Nat,
           NEW p, Found(g, q, p, q.maxPathLength), NEW ids, ids = idsOf(g, q, p),
           \A a \in DOMAIN q.targets : q.targets[a] \in Int
    PROVE  /\ Cardinality(ToSet(ids)) = Len(ids) /\ Len(ids) <= q.maxPathLength + 1
           /\ amountAlong(g, q, ids) = endAmount(q, p)
           /\ q.direction = "selling" /\ q.validate => p.sourceAmount <= q.targets[p.source]
<1>1. PICK w, amount : /\ p = toPath(g, q, w, amount)
                       /\ Reached(g, q, w, amount, q.maxPathLength, w[Len(w)])
                       /\ includePath(g, q, w[Len(w)], amount)
  BY DEF Found
<1>2. /\ ids = w /\ endAmount(q, p) = amount
      /\ q.direction = "selling" => p.source = g.idToAssetString[w[Len(w)]] /\ p.sourceAmount = amount
  BY <1>1, RoundTrip
<1>3. /\ w \in Seq(Live(g)) /\ Len(w) \in 1 .. (q.maxPathLength + 1)
      /\ IsInjective(w) /\ amountAlong(g, q, w) = amount
  BY <1>1 DEF Reached
<1>4. w \in Seq(Nat)
  BY <1>3, NumbersAreNat, SeqMonotonic
<1>5. Cardinality(ToSet(w)) = Len(w)
  BY <1>3, <1>4, InjectiveCounted
<1>6. q.direction = "selling" /\ q.validate => p.sourceAmount <= q.targets[p.source]
  <2> SUFFICES ASSUME q.direction = "selling", q.validate PROVE amount <= q.targets[p.source]
    BY <1>2
  <2>1. isTerminalNode(g, q, w[Len(w)]) /\ q.targets[g.idToAssetString[w[Len(w)]]] >= amount
    BY <1>1 DEF includePath
  <2> QED
    BY <1>2, <2>1
<1> QED
  BY <1>2, <1>3, <1>5, <1>6

(***************************************************************************)
(* For all offers, pools, books and searches: no search of FindPaths or    *)
(* FindFixedPaths fails, and each path returned visits no asset twice, is  *)
(* no longer than allowed, amounts hop by hop to what is reported, and is  *)
(* within the balance where balances are validated.                        *)
(***************************************************************************)
THEOREM SearchIsReal == Spec => []PathsAreReal
<1>1. BookInv => PathsAreReal
  <2> SUFFICES ASSUME BookInv, NEW q \in Queries
               PROVE  /\ q.asset \in DOMAIN graph.assetStringToID => ~ search(graph, q).failed
                      /\ \A p \in FindPaths(graph, q, 3) :
                           LET ids == idsOf(graph, q, p)
                           IN /\ Cardinality(ToSet(ids)) = Len(ids)
                              /\ Len(ids) <= q.maxPathLength + 1
                              /\ amountAlong(graph, q, ids) = endAmount(q, p)
                              /\ q.direction = "selling" /\ q.validate
                                    => p.sourceAmount <= q.targets[p.source]
    BY DEF PathsAreReal
  <2>1. CoreInv(graph)
    BY DEF BookInv
  <2>2. /\ q.amount \in 0 .. MaxInt64 /\ q.maxPathLength \in Nat
        /\ \A a \in DOMAIN q.targets : q.targets[a] \in Int
    BY QueriesAssumption
  <2>3. q.asset \in DOMAIN graph.assetStringToID => ~ search(graph, q).failed
    BY <2>1, <2>2, SearchFinds
  <2>4. ASSUME NEW p \in FindPaths(graph, q, 3)
        PROVE  Found(graph, q, p, q.maxPathLength) /\ q.asset \in DOMAIN graph.assetStringToID
    <3>1. /\ q.asset \in DOMAIN graph.assetStringToID
          /\ p \in sortAndFilterPaths(q, search(graph, q).paths, 3)
      BY DEF FindPaths
    <3>2. p \in search(graph, q).paths
      BY <3>1 DEF sortAndFilterPaths
    <3> QED
      BY <2>1, <2>2, <3>1, <3>2, SearchFinds
  <2>5. ASSUME NEW p \in FindPaths(graph, q, 3), NEW ids, ids = idsOf(graph, q, p)
        PROVE  /\ Cardinality(ToSet(ids)) = Len(ids) /\ Len(ids) <= q.maxPathLength + 1
               /\ amountAlong(graph, q, ids) = endAmount(q, p)
               /\ q.direction = "selling" /\ q.validate => p.sourceAmount <= q.targets[p.source]
    BY <2>1, <2>2, <2>4, <2>5, FoundIsReal
  <2> QED
    BY <2>3, <2>5
<1> QED
  BY <1>1, BookInvariant, PTL

(* What more of an asset costs. *)

\* A smaller number times the same one, and divided by it.
LEMMA ProductGrows == \A x, y \in Int, n \in Nat : x <= y => x * n <= y * n
<1> SUFFICES ASSUME NEW x \in Int, NEW y \in Int, NEW n \in Nat, x <= y PROVE x * n <= y * n
  OBVIOUS
<1>1. y - x \in Nat
  OBVIOUS
<1>2. (y - x) * n \in Nat
  BY <1>1, ProductPositive
<1>3. y * n = x * n + (y - x) * n
  OBVIOUS
<1> QED
  BY <1>2, <1>3

\* A quotient is the largest number that times the divisor does not exceed the dividend.
LEMMA QuotientIs ==
    ASSUME NEW a \in Int, NEW b \in Nat \ {0}, NEW k \in Int, b * k <= a
    PROVE  k <= a \div b
<1> DEFINE z == a \div b
<1>1. z \in Int /\ a < b * z + b
  BY QuotientFacts
<1> HIDE DEF z
<1> SUFFICES ASSUME z < k PROVE FALSE
  BY <1>1 DEF z
<1>2. z + 1 <= k /\ z + 1 \in Int
  BY <1>1
<1>3. (z + 1) * b <= k * b
  BY <1>2, ProductGrows
<1>4. (z + 1) * b = b * z + b /\ k * b = b * k
  BY <1>1
<1> QED
  BY <1>1, <1>3, <1>4

\* A larger dividend has a larger quotient.
LEMMA QuotientGrows ==
    ASSUME NEW a \in Int, NEW c \in Int, NEW b \in Nat \ {0}, a <= c
    PROVE  a \div b <= c \div b
<1> DEFINE z == a \div b
<1>1. z \in Int /\ b * z <= a
  BY QuotientFacts
<1> HIDE DEF z
<1>2. b * z \in Int /\ b * z <= c
  BY <1>1
<1> QED
  BY <1>1, <1>2, QuotientIs DEF z

\* Rounding up: more costs no less, and what is not nothing is not free.
LEMMA RoundUpGrows ==
    ASSUME NEW x \in Int, NEW y \in Int, x <= y, NEW n \in Nat \ {0}, NEW d \in Nat \ {0}
    PROVE  /\ mulFractionRoundUp(x, n, d) <= mulFractionRoundUp(y, n, d)
           /\ x >= 0 => mulFractionRoundUp(x, n, d) >= 0
           /\ x >= 1 => mulFractionRoundUp(x, n, d) >= 1
           /\ mulFractionRoundUp(x, n, d) <= MaxInt64 + 1
<1> DEFINE a == x * n + d - 1
           c == y * n + d - 1
<1>1. a \in Int /\ c \in Int /\ a <= c /\ (x >= 0 => a >= 0) /\ (x >= 1 => a >= d)
  <2>1. x * n \in Int /\ y * n \in Int /\ x * n <= y * n
    BY ProductGrows
  <2>2. x >= 0 => 0 * n <= x * n
    BY ProductGrows
  <2>3. x >= 1 => 1 * n <= x * n
    BY ProductGrows
  <2> QED
    BY <2>1, <2>2, <2>3
<1> HIDE DEF a, c
<1>2. a \div d \in Int /\ c \div d \in Int /\ a \div d <= c \div d
  BY <1>1, QuotientFacts, QuotientGrows
<1>3. x >= 0 => 0 <= a \div d
  <2>1. x >= 0 => d * 0 <= a
    BY <1>1
  <2> QED
    BY <1>1, <2>1, QuotientIs
<1>4. x >= 1 => 1 <= a \div d
  <2>1. x >= 1 => d * 1 <= a
    BY <1>1
  <2> QED
    BY <1>1, <2>1, QuotientIs
<1>5. mulFractionRoundUp(x, n, d) = fits(a \div d) /\ mulFractionRoundUp(y, n, d) = fits(c \div d)
  BY DEF mulFractionRoundUp, a, c
<1> QED
  BY <1>2, <1>3, <1>4, <1>5, WidthAssumption DEF fits, Overflow

\* Rounding up what is not negative.
LEMMA RoundUpSize ==
    ASSUME NEW x \in Nat, NEW n \in Nat \ {0}, NEW d \in Nat \ {0}
    PROVE  /\ mulFractionRoundUp(x, n, d) \in Nat /\ mulFractionRoundUp(x, n, d) <= MaxInt64 + 1
           /\ x >= 1 => mulFractionRoundUp(x, n, d) >= 1
<1> DEFINE r == mulFractionRoundUp(x, n, d)
<1>1. x \in Int /\ x <= x /\ x >= 0
  OBVIOUS
<1>2. r \in Int
  BY <1>1, FractionFacts
<1>3. r >= 0 /\ r <= MaxInt64 + 1 /\ (x >= 1 => r >= 1)
  BY <1>1, RoundUpGrows
<1> HIDE DEF r
<1>4. r \in Nat
  BY <1>2, <1>3
<1> QED
  BY <1>3, <1>4 DEF r

\* A sum that fits into an int64 does not wrap around.
LEMMA Int64Fits == \A x \in 0 .. MaxInt64 : Int64(x) = x
<1> SUFFICES ASSUME NEW x \in 0 .. MaxInt64 PROVE Int64(x) = x
  OBVIOUS
<1> DEFINE k == 2 * (MaxInt64 + 1)
           y == x + MaxInt64 + 1
<1>1. MaxInt64 \in Nat /\ x \in Nat /\ x <= MaxInt64
  BY WidthAssumption
<1>2. k \in Nat \ {0} /\ y \in Nat /\ y < k
  BY <1>1
<1>3. Int64(x) = (y % k) - (MaxInt64 + 1)
  BY DEF Int64
<1>d. y = x + MaxInt64 + 1
  OBVIOUS
<1> HIDE DEF k, y
<1>4. y % k = y
  BY <1>2
<1> QED
  BY <1>1, <1>2, <1>3, <1>4, <1>d

least(a, b) == IF a < b THEN a ELSE b

\* What can be taken of an offer, and what an offer asks for all of it.
LEMMA AskedFacts ==
    ASSUME NEW o \in Offers
    PROVE  offerSellingBound(o.amount, o.price) \in Nat /\ asked(o) \in Nat
<1> DEFINE p == o.price
           bound == offerSellingBound(o.amount, p)
           down == MulFractionRoundDown(o.amount, p.n, p.d)
<1>1. p.n \in Nat \ {0} /\ p.d \in Nat \ {0} /\ o.amount \in Nat /\ MaxInt64 \in Nat
  BY OfferNumbers, WidthAssumption
<1>2. down \in Nat
  <2> DEFINE a == o.amount * p.n
  <2>1. a \in Nat
    BY <1>1, ProductPositive
  <2>2. down = fits(a \div p.d)
    BY DEF MulFractionRoundDown
  <2> HIDE DEF a, down
  <2>3. p.d * 0 <= a
    BY <1>1, <2>1
  <2>4. 0 <= a \div p.d /\ a \div p.d \in Int
    BY <1>1, <2>1, <2>3, QuotientIs, QuotientFacts
  <2> QED
    BY <1>1, <2>2, <2>4 DEF fits, Overflow
<1>3. bound = IF p.n > p.d THEN o.amount
              ELSE IF down = Overflow THEN Overflow ELSE mulFractionRoundUp(down, p.d, p.n)
  BY DEF offerSellingBound
<1> HIDE DEF down
<1>4. mulFractionRoundUp(down, p.d, p.n) \in Nat
  BY <1>1, <1>2, RoundUpSize
<1>5. bound \in Nat
  BY <1>1, <1>3, <1>4 DEF Overflow
<1> HIDE DEF bound
<1>6. mulFractionRoundUp(bound, p.n, p.d) \in Nat
  BY <1>1, <1>5, RoundUpSize
<1> QED
  BY <1>5, <1>6 DEF asked, bound

\* Of an offer the buyer takes what he needs or all of it, and pays no more than it asks.
LEMMA TakenFacts ==
    ASSUME NEW o \in Offers, NEW needed \in Nat, NEW c, c = ConvertToBuyingUnits(o.amount, needed, o.price),
           NEW bound, bound = offerSellingBound(o.amount, o.price),
           NEW paid, paid = mulFractionRoundUp(least(bound, needed), o.price.n, o.price.d)
    PROVE  /\ bound \in Nat /\ paid \in Nat /\ paid <= asked(o) /\ asked(o) \in Nat
           /\ least(bound, needed) >= 1 => paid >= 1
           /\ c.paid = Overflow <=> bound = Overflow \/ paid = Overflow
           /\ c.paid # Overflow => c.taken = least(bound, needed) /\ c.paid = paid /\ paid <= MaxInt64
<1>1. o.price.n \in Nat \ {0} /\ o.price.d \in Nat \ {0} /\ MaxInt64 \in Nat
  BY OfferNumbers, WidthAssumption
<1>2. bound \in Nat /\ asked(o) \in Nat
  BY AskedFacts
<1> DEFINE taken == least(bound, needed)
<1>3. taken \in Nat /\ taken <= bound
  BY <1>2 DEF least
<1>4. c = IF Overflow \in {bound, paid} THEN [paid |-> Overflow, taken |-> 0] ELSE [paid |-> paid, taken |-> taken]
  BY DEF ConvertToBuyingUnits, least
<1>5. paid = mulFractionRoundUp(taken, o.price.n, o.price.d)
  OBVIOUS
<1> HIDE DEF taken
<1>6. /\ paid <= mulFractionRoundUp(bound, o.price.n, o.price.d) /\ paid >= 0 /\ (taken >= 1 => paid >= 1)
      /\ paid <= MaxInt64 + 1
  <2>1. taken \in Int /\ bound \in Int
    BY <1>2, <1>3
  <2>2. paid <= mulFractionRoundUp(bound, o.price.n, o.price.d)
    BY <1>1, <1>3, <1>5, <2>1, RoundUpGrows
  <2>3. paid \in Nat /\ paid <= MaxInt64 + 1 /\ (taken >= 1 => paid >= 1)
    BY <1>1, <1>3, <1>5, RoundUpSize
  <2> QED
    BY <2>2, <2>3
<1>7. paid \in Nat
  BY <1>1, <1>3, <1>5, RoundUpSize
<1>8. paid <= asked(o)
  BY <1>6 DEF asked
<1>9. paid # Overflow => paid <= MaxInt64
  BY <1>1, <1>6, <1>7 DEF Overflow
<1>10. CASE Overflow \in {bound, paid}
  <2>1. c.paid = Overflow
    BY <1>4, <1>10
  <2> QED
    BY <1>2, <1>6, <1>7, <1>8, <1>10, <2>1 DEF taken
<1>11. CASE Overflow \notin {bound, paid}
  <2>1. c.paid = paid /\ c.taken = taken
    BY <1>4, <1>11
  <2> QED
    BY <1>2, <1>6, <1>7, <1>8, <1>9, <1>11, <2>1 DEF taken
<1> QED
  BY <1>10, <1>11

\* w buys no more than v, of offers that ask for t together, and has paid no more.
Ahead(w, v, t) ==
    /\ WalkInv(w) /\ WalkInv(v)
    /\ \/ v.result = NoTrade
       \/ /\ v.result = Walking /\ v.total \in 0 .. t /\ v.left >= 1
          /\ \/ w.result = Walking /\ w.total = v.total /\ w.left >= 1 /\ w.left <= v.left
             \/ w.result \in 1 .. v.total
       \/ v.result # Walking /\ w.result \in 1 .. v.result

\* The walk after one offer.
LEMMA SettleFacts ==
    ASSUME NEW left \in Nat, NEW total \in Int, NEW w, w = settle(left, total)
    PROVE  w.left = left /\ w.total = total /\ w.result = IF left = 0 THEN total ELSE Walking
BY DEF settle

\* The buyer of less stays ahead (the loop of consumeOffersForSellingAsset, twice).
LEMMA StaysAhead ==
    ASSUME NEW w, NEW v, NEW t \in Nat, Ahead(w, v, t), NEW o \in Offers, NEW ignore,
           t + asked(o) <= MaxInt64
    PROVE  Ahead(takeOffer(ignore, w, o), takeOffer(ignore, v, o), t + asked(o))
<1> DEFINE w1 == takeOffer(ignore, w, o)
           v1 == takeOffer(ignore, v, o)
           t1 == t + asked(o)
           bound == offerSellingBound(o.amount, o.price)
           pay(x) == mulFractionRoundUp(x, o.price.n, o.price.d)
           cw == ConvertToBuyingUnits(o.amount, w.left, o.price)
           cv == ConvertToBuyingUnits(o.amount, v.left, o.price)
<1>1. /\ WalkInv(w) /\ WalkInv(v) /\ w.left \in Nat /\ v.left \in Nat /\ w.total \in Int /\ v.total \in Int
      /\ MaxInt64 \in Nat
  BY WidthAssumption DEF Ahead, WalkInv
<1>2. WalkInv(w1) /\ WalkInv(v1)
  BY <1>1, TakeKeeps
<1>3. bound \in Nat /\ asked(o) \in Nat
  BY AskedFacts
<1>4. v1 = IF v.result # Walking \/ o.seller = ignore THEN v
           ELSE IF cv.paid = Overflow THEN [v EXCEPT !.result = NoTrade]
           ELSE settle(v.left - cv.taken, Int64(v.total + cv.paid))
  BY DEF takeOffer
<1>5. w1 = IF w.result # Walking \/ o.seller = ignore THEN w
           ELSE IF cw.paid = Overflow THEN [w EXCEPT !.result = NoTrade]
           ELSE settle(w.left - cw.taken, Int64(w.total + cw.paid))
  BY DEF takeOffer
<1> DEFINE pv == pay(least(bound, v.left))
           pw == pay(least(bound, w.left))
<1>6. /\ pv \in Nat /\ pv <= asked(o) /\ (least(bound, v.left) >= 1 => pv >= 1)
      /\ cv.paid = Overflow <=> bound = Overflow \/ pv = Overflow
      /\ cv.paid # Overflow => cv.taken = least(bound, v.left) /\ cv.paid = pv /\ pv <= MaxInt64
  <2> HIDE DEF cv, bound, pv
  <2> QED
    BY <1>1, TakenFacts DEF cv, bound, pv
<1>7. /\ pw \in Nat /\ pw <= asked(o) /\ (least(bound, w.left) >= 1 => pw >= 1)
      /\ cw.paid = Overflow <=> bound = Overflow \/ pw = Overflow
      /\ cw.paid # Overflow => cw.taken = least(bound, w.left) /\ cw.paid = pw /\ pw <= MaxInt64
  <2> HIDE DEF cw, bound, pw
  <2> QED
    BY <1>1, TakenFacts DEF cw, bound, pw
<1>8. w.left <= v.left => pw <= pv
  <2>1. w.left <= v.left => least(bound, w.left) <= least(bound, v.left)
    BY <1>1, <1>3 DEF least
  <2>2. o.price.n \in Nat \ {0} /\ o.price.d \in Nat \ {0} /\ least(bound, w.left) \in Int /\ least(bound, v.left) \in Int
    BY <1>1, <1>3, OfferNumbers DEF least
  <2> QED
    BY <2>1, <2>2, RoundUpGrows
<1>10. bound < w.left /\ bound < v.left => pw = pv
  BY DEF least
<1> HIDE DEF w1, v1, bound, cw, cv, pv, pw
<1>11. CASE v.result = NoTrade
  <2>1. v1 = v
    BY <1>4, <1>1, <1>11 DEF NoTrade, Walking
  <2> QED
    BY <1>2, <1>11, <2>1 DEF Ahead, v1, w1
<1>12. CASE v.result # NoTrade /\ v.result # Walking
  <2>1. v1 = v /\ w.result \in 1 .. v.result /\ v.result <= MaxInt64 /\ v.result \in Int
    BY <1>1, <1>4, <1>12 DEF Ahead, WalkInv, Amount
  <2>2. w.result # Walking
    BY <1>1, <1>12, <2>1 DEF Walking
  <2>3. w1 = w
    BY <1>5, <2>2
  <2> QED
    BY <1>2, <1>12, <2>1, <2>3 DEF Ahead, v1, w1
<1>13. CASE v.result = Walking
  <2>0. NoTrade # Walking /\ v.result # NoTrade
    BY <1>1, <1>13 DEF NoTrade, Walking
  <2>1. /\ v.total \in 0 .. t /\ v.left >= 1
        /\ \/ w.result = Walking /\ w.total = v.total /\ w.left >= 1 /\ w.left <= v.left
           \/ w.result \in 1 .. v.total
    BY <1>13, <2>0 DEF Ahead
  <2>2. CASE o.seller = ignore
    <3>1. w1 = w /\ v1 = v
      BY <1>4, <1>5, <2>2
    <3>2. v.total \in 0 .. t1
      BY <1>3, <2>1
    <3> QED
      BY <1>1, <1>13, <2>1, <3>1, <3>2 DEF Ahead, v1, w1
  <2>3. CASE o.seller # ignore /\ cv.paid = Overflow
    <3>1. v1.result = NoTrade
      BY <1>1, <1>4, <1>13, <2>3 DEF WalkInv
    <3> QED
      BY <1>2, <3>1 DEF Ahead, v1, w1
  <2>4. CASE o.seller # ignore /\ cv.paid # Overflow
    <3> DEFINE vt == v.total + pv
               vl == v.left - least(bound, v.left)
    <3>1. vt \in 0 .. t1 /\ vt <= MaxInt64 /\ vt \in Nat
      BY <1>1, <1>3, <1>6, <2>1
    <3>2. vl \in Nat
      BY <1>1, <1>3 DEF least
    <3>3. v1 = settle(vl, Int64(vt))
      BY <1>4, <1>6, <1>13, <2>4
    <3>4. Int64(vt) = vt
      <4>1. vt \in 0 .. MaxInt64
        BY <1>1, <3>1
      <4> QED
        BY <4>1, Int64Fits
    <3> HIDE DEF vt, vl
    <3>5. v1.left = vl /\ v1.total = vt /\ v1.result = IF vl = 0 THEN vt ELSE Walking
      BY <3>1, <3>2, <3>3, <3>4, SettleFacts
    <3>6. vt # Walking /\ vt # NoTrade
      BY <1>1, <3>1 DEF Walking, NoTrade
    <3>7. ASSUME w1.result \in 1 .. vt PROVE Ahead(w1, v1, t1)
      <4>1. CASE vl = 0
        <5>1. v1.result = vt
          BY <3>5, <4>1
        <5> QED
          BY <1>2, <3>6, <3>7, <5>1 DEF Ahead
      <4>2. CASE vl # 0
        <5>1. v1.result = Walking /\ v1.left >= 1 /\ v1.total = vt
          BY <3>2, <3>5, <4>2
        <5> QED
          BY <1>2, <3>1, <3>7, <5>1 DEF Ahead
      <4> QED
        BY <4>1, <4>2
    <3>8. CASE w.result \in 1 .. v.total
      <4>1. w.result # Walking
        BY <1>1, <1>3, <2>1, <3>1, <3>8, <1>6 DEF Walking, vt
      <4>2. w1 = w
        BY <1>5, <4>1
      <4>3. w1.result \in 1 .. vt
        BY <1>1, <1>6, <3>8, <4>2 DEF vt
      <4> QED
        BY <3>7, <4>3 DEF v1, w1
    <3>9. CASE w.result = Walking /\ w.total = v.total /\ w.left >= 1 /\ w.left <= v.left
      <4>1. pw <= pv /\ pv <= MaxInt64 /\ bound # Overflow /\ pw # Overflow /\ cw.paid # Overflow
        BY <1>1, <1>6, <1>7, <1>8, <2>4, <3>9 DEF Overflow
      <4> DEFINE wt == w.total + pw
                 wl == w.left - least(bound, w.left)
      <4>2. wt \in Nat /\ wt <= vt /\ wt <= MaxInt64
        BY <1>1, <1>6, <1>7, <2>1, <3>1, <3>9, <4>1 DEF vt
      <4>3. wl \in Nat
        BY <1>1, <1>3 DEF least
      <4>4. w1 = settle(wl, Int64(wt))
        BY <1>5, <1>7, <2>4, <3>9, <4>1
      <4>5. Int64(wt) = wt
        <5>1. wt \in 0 .. MaxInt64
          BY <1>1, <4>2
        <5> QED
          BY <5>1, Int64Fits
      <4> HIDE DEF wt, wl
      <4>6. w1.left = wl /\ w1.total = wt /\ w1.result = IF wl = 0 THEN wt ELSE Walking
        BY <4>2, <4>3, <4>4, <4>5, SettleFacts
      <4>7. CASE bound < w.left
        <5>1. bound < v.left /\ pw = pv
          BY <1>1, <1>3, <1>10, <3>9, <4>7
        <5>2. wl = w.left - bound /\ vl = v.left - bound
          BY <4>7, <5>1 DEF least, wl, vl
        <5>3. wl >= 1 /\ vl >= 1 /\ wl <= vl /\ wl # 0 /\ vl # 0
          BY <1>1, <1>3, <3>9, <4>7, <5>2
        <5>4. wt = vt
          BY <3>9, <5>1 DEF wt, vt
        <5>5. w1.result = Walking /\ v1.result = Walking
          BY <3>5, <4>6, <5>3
        <5> QED
          BY <1>2, <3>1, <3>5, <4>6, <5>3, <5>4, <5>5 DEF Ahead, v1, w1
      <4>8. CASE ~ (bound < w.left)
        <5>1. wl = 0
          BY <1>1, <4>8 DEF least, wl
        <5>2. least(bound, w.left) >= 1
          BY <1>1, <3>9, <4>8 DEF least
        <5>3. wt >= 1
          BY <1>1, <1>7, <2>1, <3>9, <5>2 DEF wt
        <5>4. w1.result \in 1 .. vt
          BY <3>1, <4>2, <4>6, <5>1, <5>3
        <5> QED
          BY <3>7, <5>4 DEF v1, w1
      <4> QED
        BY <4>7, <4>8
    <3> QED
      BY <2>1, <3>8, <3>9
  <2> QED
    BY <2>2, <2>3, <2>4
<1> QED
  BY <1>11, <1>12, <1>13

Sums(f, offers, n) == f = [i \in 0 .. n |-> IF i = 0 THEN 0 ELSE f[i - 1] + asked(offers[i])]

\* The recursive function of sumFits exists.
LEMMA SumsExist ==
    ASSUME NEW offers
    PROVE  \A n \in Nat : \E f : Sums(f, offers, n)
<1> DEFINE S == {n \in Nat : \E f : Sums(f, offers, n)}
<1>1. 0 \in S
  <2>1. Sums([i \in 0 .. 0 |-> 0], offers, 0)
    BY DEF Sums
  <2> QED
    BY <2>1
<1>2. ASSUME NEW n \in S PROVE n + 1 \in S
  <2>1. PICK f : Sums(f, offers, n)
    OBVIOUS
  <2> DEFINE h == [i \in 0 .. n + 1 |-> IF i = n + 1 THEN f[n] + asked(offers[n + 1]) ELSE f[i]]
  <2>2. \A i \in 0 .. n + 1 : h[i] = IF i = 0 THEN 0 ELSE h[i - 1] + asked(offers[i])
    BY <2>1 DEF Sums
  <2>3. Sums(h, offers, n + 1)
    BY <2>2 DEF Sums
  <2> HIDE DEF h
  <2> QED
    BY <2>3
<1> HIDE DEF S
<1>3. S = Nat
  BY <1>1, <1>2, Induction DEF S
<1> QED
  BY <1>3 DEF S

\* The walk of consumeOffersForSellingAsset, offer by offer.
LEMMA SellWalkFacts ==
    ASSUME NEW offers \in Seq(Offers), NEW ignore, NEW amount
    PROVE  \E f : /\ consumeOffersForSellingAsset(offers, ignore, amount) = walkResult(f[Len(offers)])
                  /\ f[0] = walkStart(amount)
                  /\ \A i \in 1 .. Len(offers) : f[i] = takeOffer(ignore, f[i - 1], offers[i])
<1> DEFINE n == Len(offers)
           f == CHOOSE f : SellWalk(f, ignore, amount, offers, n)
<1>0. n \in Nat
  BY LenProperties
<1>1. consumeOffersForSellingAsset(offers, ignore, amount) = walkResult(f[n])
  BY DEF consumeOffersForSellingAsset, SellWalk
<1>2. SellWalk(f, ignore, amount, offers, n)
  BY <1>0, SellWalkExists
<1> HIDE DEF f, n
<1>3. f[0] = walkStart(amount) /\ \A i \in 1 .. n : f[i] = takeOffer(ignore, f[i - 1], offers[i])
  BY <1>0, <1>2 DEF SellWalk
<1> QED
  BY <1>1, <1>3 DEF n

\* From the same offers less can be bought if more can, and costs no more.
LEMMA OffersGrow ==
    ASSUME NEW offers \in Seq(Offers), sumFits(offers), NEW ignore,
           NEW less \in Nat \ {0}, NEW more \in Nat, less <= more,
           consumeOffersForSellingAsset(offers, ignore, more) \in 1 .. MaxInt64
    PROVE  consumeOffersForSellingAsset(offers, ignore, less)
               \in 1 .. consumeOffersForSellingAsset(offers, ignore, more)
<1> DEFINE n == Len(offers)
           x == consumeOffersForSellingAsset(offers, ignore, less)
           y == consumeOffersForSellingAsset(offers, ignore, more)
           sum == CHOOSE sum : Sums(sum, offers, n)
<1>1. n \in Nat /\ \A i \in 1 .. n : offers[i] \in Offers
  BY LenProperties, ElementOfSeq
<1>2. \A i \in 0 .. n : sum[i] <= MaxInt64
  BY DEF sumFits, Sums
<1>3. Sums(sum, offers, n)
  BY <1>1, SumsExist
<1>4. PICK f : /\ x = walkResult(f[n]) /\ f[0] = walkStart(less)
               /\ \A i \in 1 .. n : f[i] = takeOffer(ignore, f[i - 1], offers[i])
  BY SellWalkFacts
<1>5. PICK h : /\ y = walkResult(h[n]) /\ h[0] = walkStart(more)
               /\ \A i \in 1 .. n : h[i] = takeOffer(ignore, h[i - 1], offers[i])
  BY SellWalkFacts
<1> HIDE DEF sum, n, x, y
<1>6. sum[0] = 0 /\ \A i \in 1 .. n : sum[i] = sum[i - 1] + asked(offers[i])
  BY <1>1, <1>3 DEF Sums
<1> DEFINE S == {i \in Nat : i <= n => sum[i] \in Nat /\ Ahead(f[i], h[i], sum[i])}
<1>7. 0 \in S
  <2>1. WalkInv(walkStart(less)) /\ WalkInv(walkStart(more))
    BY DEF walkStart, WalkInv
  <2>2. /\ walkStart(more).result = Walking /\ walkStart(more).total = 0 /\ walkStart(more).left = more
        /\ walkStart(less).result = Walking /\ walkStart(less).total = 0 /\ walkStart(less).left = less
    BY DEF walkStart
  <2>3. more >= 1 /\ less >= 1 /\ 0 \in 0 .. 0
    OBVIOUS
  <2>4. Ahead(walkStart(less), walkStart(more), 0)
    BY <2>1, <2>2, <2>3 DEF Ahead
  <2> QED
    BY <1>4, <1>5, <1>6, <2>4
<1>8. ASSUME NEW i \in S PROVE i + 1 \in S
  <2> SUFFICES ASSUME i + 1 <= n PROVE sum[i + 1] \in Nat /\ Ahead(f[i + 1], h[i + 1], sum[i + 1])
    OBVIOUS
  <2>1. i + 1 \in 1 .. n /\ i + 1 \in 0 .. n /\ i <= n /\ (i + 1) - 1 = i
    BY <1>1
  <2>2. sum[i] \in Nat /\ Ahead(f[i], h[i], sum[i])
    BY <2>1
  <2>3. offers[i + 1] \in Offers /\ asked(offers[i + 1]) \in Nat
    BY <1>1, <2>1, AskedFacts
  <2>4. sum[i + 1] = sum[i] + asked(offers[i + 1]) /\ sum[i + 1] <= MaxInt64
    BY <1>2, <1>6, <2>1
  <2>5. /\ f[i + 1] = takeOffer(ignore, f[i], offers[i + 1])
        /\ h[i + 1] = takeOffer(ignore, h[i], offers[i + 1])
    BY <1>4, <1>5, <2>1
  <2>6. Ahead(f[i + 1], h[i + 1], sum[i + 1])
    BY <2>2, <2>3, <2>4, <2>5, StaysAhead
  <2> QED
    BY <2>2, <2>3, <2>4, <2>6
<1> HIDE DEF S
<1>9. S = Nat
  BY <1>7, <1>8, Induction DEF S
<1>10. Ahead(f[n], h[n], sum[n])
  BY <1>1, <1>9 DEF S
<1> DEFINE w == f[n]
           v == h[n]
<1>11. y \in 1 .. MaxInt64 /\ MaxInt64 \in Nat
  BY WidthAssumption DEF y
<1>12. v.result # Walking /\ v.result # NoTrade /\ y = v.result
  BY <1>5, <1>11 DEF walkResult, NoTrade
<1>13. w.result \in 1 .. v.result
  BY <1>10, <1>12 DEF Ahead
<1>14. w.result # Walking
  BY <1>11, <1>12, <1>13 DEF Walking
<1>15. x = w.result
  BY <1>4, <1>14 DEF walkResult
<1> QED
  BY <1>12, <1>13, <1>15 DEF x, y

\* Nothing costs nothing.
LEMMA RoundUpZero ==
    ASSUME NEW n \in Nat \ {0}, NEW d \in Nat \ {0}
    PROVE  mulFractionRoundUp(0, n, d) = 0
<1> DEFINE z == (d - 1) \div d
<1>1. z \in Int /\ d * z <= d - 1
  BY QuotientFacts
<1>2. mulFractionRoundUp(0, n, d) = fits(z)
  <2>1. 0 * n + d - 1 = d - 1
    OBVIOUS
  <2> QED
    BY <2>1 DEF mulFractionRoundUp
<1>3. 0 <= z
  <2>1. d * 0 <= d - 1 /\ d - 1 \in Int
    OBVIOUS
  <2> QED
    BY <2>1, QuotientIs
<1> HIDE DEF z
<1>4. z < 1
  <2> SUFFICES ASSUME 1 <= z PROVE FALSE
    BY <1>1
  <2>1. 1 * d <= z * d
    BY <1>1, ProductGrows
  <2> QED
    BY <1>1, <2>1
<1>5. z = 0
  BY <1>1, <1>3, <1>4
<1> QED
  BY <1>2, <1>5, WidthAssumption DEF fits

\* Who needs nothing makes no trade with offers.
LEMMA OffersZero ==
    ASSUME NEW offers \in Seq(Offers), NEW ignore
    PROVE  consumeOffersForSellingAsset(offers, ignore, 0) \notin 1 .. MaxInt64
<1> DEFINE n == Len(offers)
           X == {w \in Walks : w.left = 0 /\ w.total = 0 /\ w.result \in {Walking, 0, NoTrade}}
<1>1. n \in Nat /\ \A i \in 1 .. n : offers[i] \in Offers
  BY LenProperties, ElementOfSeq
<1>2. PICK f : /\ consumeOffersForSellingAsset(offers, ignore, 0) = walkResult(f[n]) /\ f[0] = walkStart(0)
               /\ \A i \in 1 .. n : f[i] = takeOffer(ignore, f[i - 1], offers[i])
  BY SellWalkFacts
<1> HIDE DEF n
<1>3. \A w : WalkInv(w) => w \in Walks
  BY WidthAssumption DEF Walks, WalkInv, Amount, Walking
<1>4. f[0] \in X
  <2>1. WalkInv(walkStart(0))
    BY DEF walkStart, WalkInv
  <2> QED
    BY <1>2, <1>3, <2>1 DEF walkStart
<1>5. ASSUME NEW w \in X, NEW o \in Offers PROVE takeOffer(ignore, w, o) \in X
  <2> DEFINE c == ConvertToBuyingUnits(o.amount, w.left, o.price)
             t == takeOffer(ignore, w, o)
             bound == offerSellingBound(o.amount, o.price)
  <2>1. WalkInv(w) /\ w.left = 0 /\ w.total = 0
    BY DEF Walks
  <2>2. t \in Walks
    BY <1>3, <2>1, TakeKeeps
  <2>3. t = IF w.result # Walking \/ o.seller = ignore THEN w
            ELSE IF c.paid = Overflow THEN [w EXCEPT !.result = NoTrade]
            ELSE settle(w.left - c.taken, Int64(w.total + c.paid))
    BY DEF takeOffer
  <2>4. c.paid # Overflow => c.taken = 0 /\ c.paid = 0
    <3>1. bound \in Nat
      BY AskedFacts
    <3>2. least(bound, 0) = 0
      BY <3>1 DEF least
    <3>3. mulFractionRoundUp(least(bound, 0), o.price.n, o.price.d) = 0
      BY <3>2, OfferNumbers, RoundUpZero
    <3>4. c = ConvertToBuyingUnits(o.amount, 0, o.price)
      BY <2>1
    <3> HIDE DEF c, bound
    <3>5. c.paid # Overflow => c.taken = least(bound, 0) /\ c.paid = 0
      BY <3>3, <3>4, TakenFacts DEF bound
    <3> QED
      BY <3>2, <3>5
  <2> HIDE DEF c, t, bound
  <2>5. CASE w.result # Walking \/ o.seller = ignore
    BY <2>3, <2>5 DEF t
  <2>6. CASE w.result = Walking /\ o.seller # ignore /\ c.paid = Overflow
    <3>1. t = [w EXCEPT !.result = NoTrade]
      BY <2>3, <2>6
    <3>2. t.left = 0 /\ t.total = 0 /\ t.result = NoTrade
      BY <2>1, <3>1 DEF WalkInv
    <3> QED
      BY <2>2, <3>2 DEF t
  <2>7. CASE w.result = Walking /\ o.seller # ignore /\ c.paid # Overflow
    <3>1. t = settle(0, Int64(0))
      BY <2>1, <2>3, <2>4, <2>7
    <3>2. Int64(0) = 0
      BY Int64Fits, WidthAssumption
    <3>3. t.left = 0 /\ t.total = 0 /\ t.result = 0
      BY <3>1, <3>2, SettleFacts
    <3> QED
      BY <2>2, <3>3 DEF t
  <2> QED
    BY <2>5, <2>6, <2>7
<1> HIDE DEF X
<1>6. f[n] \in X
  BY <1>1, <1>2, <1>4, <1>5, Carried
<1>7. walkResult(f[n]) \in {0, NoTrade}
  BY <1>6 DEF X, walkResult
<1> QED
  BY <1>2, <1>7 DEF NoTrade

\* Without offers there is no trade with them.
LEMMA OffersNone ==
    ASSUME NEW offers \in Seq(Offers), NEW ignore, NEW amount
    PROVE  Len(offers) = 0 => consumeOffersForSellingAsset(offers, ignore, amount) = NoTrade
<1>1. PICK f : /\ consumeOffersForSellingAsset(offers, ignore, amount) = walkResult(f[Len(offers)])
               /\ f[0] = walkStart(amount)
               /\ \A i \in 1 .. Len(offers) : f[i] = takeOffer(ignore, f[i - 1], offers[i])
  BY SellWalkFacts
<1>2. Len(offers) = 0 => consumeOffersForSellingAsset(offers, ignore, amount) = walkResult(walkStart(amount))
  BY <1>1
<1> QED
  BY <1>2 DEF walkResult, walkStart

\* A quotient that is rounded up is the smallest number that times the divisor suffices.
LEMMA CeilingIs ==
    ASSUME NEW a \in Int, NEW d \in Nat \ {0}, NEW k \in Int
    PROVE  (a + d - 1) \div d <= k <=> a <= d * k
<1> DEFINE z == (a + d - 1) \div d
<1>1. a + d - 1 \in Int
  OBVIOUS
<1>2. z \in Int /\ d * z <= a + d - 1 /\ a + d - 1 < d * z + d
  BY <1>1, QuotientFacts
<1> HIDE DEF z
<1>3. z <= k => a <= d * k
  <2>1. z <= k => z * d <= k * d
    BY <1>2, ProductGrows
  <2>2. z * d = d * z /\ k * d = d * k /\ d * z \in Int /\ d * k \in Int
    BY <1>2
  <2> QED
    BY <1>2, <2>1, <2>2
<1>4. ASSUME k < z PROVE ~ (a <= d * k)
  <2>1. (k + 1) * d <= z * d
    BY <1>2, <1>4, ProductGrows
  <2>2. (k + 1) * d = d * k + d /\ z * d = d * z /\ d * k \in Int /\ d * z \in Int
    BY <1>2
  <2> QED
    BY <1>2, <2>1, <2>2
<1> QED
  BY <1>2, <1>3, <1>4 DEF z

\* A pool gives less if it gives more, and asks no more for it; nothing is no trade.
LEMMA ExpectationGrows ==
    ASSUME NEW x \in Nat, NEW y \in Nat, NEW fee \in 0 .. (MaxBasisPoints - 1),
           NEW less \in Nat \ {0}, NEW more \in Nat, less <= more
    PROVE  /\ CalculatePoolExpectation(x, y, more, fee) \in 1 .. MaxInt64
                => CalculatePoolExpectation(x, y, less, fee) \in 1 .. CalculatePoolExpectation(x, y, more, fee)
           /\ CalculatePoolExpectation(x, y, 0, fee) \notin 1 .. MaxInt64
<1> DEFINE f == MaxBasisPoints - fee
           D(v) == (y - v) * f
           N(v) == x * v * MaxBasisPoints
           dep(v) == (N(v) + D(v) - 1) \div D(v)
           E(v) == CalculatePoolExpectation(x, y, v, fee)
<1>1. f \in Nat \ {0} /\ MaxInt64 \in Nat /\ MaxBasisPoints \in Nat \ {0}
  BY WidthAssumption
<1>2. \A v \in Nat : E(v) = IF v >= y \/ D(v) = 0 \/ dep(v) > MaxInt64 - x THEN 0 ELSE dep(v)
  BY DEF CalculatePoolExpectation
<1> HIDE DEF f
<1>3. \A v \in Nat : v < y => D(v) \in Nat \ {0}
  <2> TAKE v \in Nat
  <2>1. v < y => y - v \in Nat \ {0}
    OBVIOUS
  <2> QED
    BY <1>1, <2>1, ProductPositive
<1>4. \A v \in Nat : N(v) \in Nat
  BY <1>1, ProductPositive
<1>5. N(0) = 0
  BY <1>1
<1>6. \A v \in Nat, k \in Int : v < y => (dep(v) \in Int /\ (dep(v) <= k <=> N(v) <= D(v) * k))
  <2> TAKE v \in Nat, k \in Int
  <2> HAVE v < y
  <2>1. D(v) \in Nat \ {0} /\ N(v) \in Int
    BY <1>3, <1>4
  <2> HIDE DEF D, N
  <2>2. dep(v) <= k <=> N(v) <= D(v) * k
    BY <2>1, CeilingIs
  <2>3. N(v) + D(v) - 1 \in Int
    BY <2>1
  <2>4. dep(v) \in Int
    BY <2>1, <2>3, QuotientFacts
  <2> QED
    BY <2>2, <2>4
<1>7. N(less) <= N(more) /\ (x >= 1 => N(less) >= 1) /\ (x = 0 => N(more) = 0)
  <2>1. less * (x * MaxBasisPoints) <= more * (x * MaxBasisPoints)
    BY <1>1, ProductPositive, ProductGrows
  <2>2. N(less) = less * (x * MaxBasisPoints) /\ N(more) = more * (x * MaxBasisPoints)
    BY <1>1
  <2>3. x >= 1 => N(less) \in Nat \ {0}
    BY <1>1, ProductPositive
  <2>4. x = 0 => N(more) = 0
    BY <1>1
  <2> QED
    BY <2>1, <2>2, <2>3, <2>4
<1>8. more < y => less < y /\ D(more) <= D(less)
  <2> SUFFICES ASSUME more < y PROVE D(more) <= D(less)
    OBVIOUS
  <2>1. y - more <= y - less /\ y - more \in Int /\ y - less \in Int
    OBVIOUS
  <2> QED
    BY <1>1, <2>1, ProductGrows
<1> HIDE DEF D, N, dep, E
<1>9. E(0) \notin 1 .. MaxInt64
  <2>1. 0 < y => D(0) \in Nat \ {0} /\ dep(0) \in Int /\ dep(0) <= 0
    <3>1. 0 < y => D(0) \in Nat \ {0}
      BY <1>3
    <3>2. 0 < y => N(0) <= D(0) * 0
      BY <1>5, <3>1
    <3> QED
      BY <1>6, <3>1, <3>2
  <2> QED
    BY <1>2, <2>1
<1>10. ASSUME E(more) \in 1 .. MaxInt64 PROVE E(less) \in 1 .. E(more)
  <2>0. /\ E(more) # 0
        /\ E(more) = IF more >= y \/ D(more) = 0 \/ dep(more) > MaxInt64 - x THEN 0 ELSE dep(more)
    BY <1>2, <1>10
  <2>1. more < y /\ less < y /\ E(more) = dep(more) /\ dep(more) <= MaxInt64 - x
    <3>1. more < y /\ E(more) = dep(more) /\ ~ (dep(more) > MaxInt64 - x)
      BY <2>0
    <3>2. dep(more) \in Int
      BY <1>6, <3>1
    <3> QED
      BY <1>1, <1>8, <3>1, <3>2
  <2>2. D(more) \in Nat \ {0} /\ D(less) \in Nat \ {0} /\ dep(less) \in Int
    BY <1>3, <1>6, <2>1
  <2> DEFINE k == dep(more)
  <2>3. k \in Int /\ k >= 1
    BY <1>10, <2>1
  <2> HIDE DEF k
  <2>4. N(more) <= D(more) * k
    BY <1>6, <2>1, <2>3 DEF k
  <2>5. k * D(more) <= k * D(less)
    <3>1. D(more) * k <= D(less) * k
      BY <1>8, <2>1, <2>2, <2>3, ProductGrows
    <3> QED
      BY <2>2, <2>3, <3>1
  <2>6. N(less) <= D(less) * k
    <3>1. k * D(more) = D(more) * k /\ k * D(less) = D(less) * k /\ D(more) * k \in Int /\ D(less) * k \in Int
      BY <2>2, <2>3
    <3> QED
      BY <1>4, <1>7, <2>4, <2>5, <3>1
  <2>7. dep(less) <= k
    BY <1>6, <2>1, <2>3, <2>6
  <2>8. x >= 1
    <3> SUFFICES ASSUME x = 0 PROVE FALSE
      OBVIOUS
    <3>1. N(more) <= D(more) * 0
      BY <1>7, <2>2
    <3>2. k <= 0
      BY <1>6, <2>1, <3>1 DEF k
    <3> QED
      BY <2>3, <3>2
  <2>9. dep(less) >= 1
    <3> SUFFICES ASSUME dep(less) <= 0 PROVE FALSE
      BY <2>2
    <3>1. N(less) <= D(less) * 0
      BY <1>6, <2>1
    <3> QED
      BY <1>4, <1>7, <2>2, <2>8, <3>1
  <2>10. E(less) = dep(less)
    BY <1>1, <1>2, <2>1, <2>2, <2>3, <2>7 DEF k
  <2> QED
    BY <2>1, <2>2, <2>3, <2>7, <2>9, <2>10 DEF k
<1> QED
  BY <1>9, <1>10 DEF E

\* The same of a pool of the graph.
LEMMA PoolGrows ==
    ASSUME NEW q, q.direction = "selling", NEW pool \in PoolVenue, NEW current,
           NEW less \in Nat \ {0}, NEW more \in Nat, less <= more
    PROVE  /\ consumePool(q, pool, current, more) \in 1 .. MaxInt64
                => consumePool(q, pool, current, less) \in 1 .. consumePool(q, pool, current, more)
           /\ consumePool(q, pool, current, 0) \notin 1 .. MaxInt64
<1> DEFINE e == pool.entry
           r == reserves(pool, current)
<1>1. e.fee \in 0 .. (MaxBasisPoints - 1) /\ e.reserveA \in 0 .. MaxInt64 /\ e.reserveB \in 0 .. MaxInt64
  <2>1. e \in Pools
    BY DEF PoolVenue
  <2> QED
    BY <2>1, EntriesAssumption
<1>2. r[1] \in Nat /\ r[2] \in Nat
  BY <1>1, WidthAssumption DEF reserves
<1>3. \A v : consumePool(q, pool, current, v) = CalculatePoolExpectation(r[2], r[1], v, e.fee)
  BY DEF consumePool
<1> HIDE DEF e, r
<1> QED
  BY <1>1, <1>2, <1>3, ExpectationGrows

\* What a pair can do for an amount.
Trades(q, current, amount, v) ==
    {x \in 1 .. MaxInt64 :
        \/ x = consumeOffersForSellingAsset(v.offers, q.ignore, amount)
        \/ q.includePools /\ v.pool # NoPool /\ x = consumePool(q, v.pool, current, amount)}

\* bestTrade is the cheapest of them.
LEMMA CheapestTrade ==
    ASSUME NEW q, q.direction = "selling", NEW current, NEW amount, NEW v
    PROVE  LET T == Trades(q, current, amount, v)
               b == bestTrade(q, current, amount, v)
           IN /\ T = {} => b = NoTrade
              /\ T # {} => b \in T /\ \A x \in T : b <= x
              /\ b \in 1 .. MaxInt64 \/ b = NoTrade
              /\ b # NoTrade => T # {}
<1> DEFINE T == Trades(q, current, amount, v)
           b == bestTrade(q, current, amount, v)
<1>1. b = IF T = {} THEN NoTrade ELSE Min(T)
  <2>1. {x \in (IF q.includePools /\ v.pool # NoPool THEN {consumePool(q, v.pool, current, amount)} ELSE {})
                 \cup {consumeOffers(q, amount, v.offers)} : x \in 1 .. MaxInt64} = T
    BY DEF Trades, consumeOffers
  <2> QED
    BY <2>1 DEF bestTrade
<1>2. T \in SUBSET Nat /\ T \subseteq 1 .. MaxInt64
  BY WidthAssumption DEF Trades
<1> HIDE DEF T, b
<1>3. T # {} => Min(T) \in T /\ \A x \in T : Min(T) <= x
  BY <1>2, LeastIn
<1>4. NoTrade \notin 1 .. MaxInt64
  BY DEF NoTrade
<1> QED
  BY <1>1, <1>2, <1>3 DEF T, b

\* For less every pair does no worse; nothing is no trade.
LEMMA TradeGrows ==
    ASSUME NEW q, q.direction = "selling", NEW current, NEW v \in VenuesRecord, sumFits(v.offers),
           NEW less \in Nat \ {0}, NEW more \in Nat, less <= more
    PROVE  /\ bestTrade(q, current, more, v) # NoTrade
                => bestTrade(q, current, less, v) \in 1 .. bestTrade(q, current, more, v)
           /\ bestTrade(q, current, 0, v) = NoTrade
<1> DEFINE T(a) == Trades(q, current, a, v)
           b(a) == bestTrade(q, current, a, v)
           byOffers(a) == consumeOffersForSellingAsset(v.offers, q.ignore, a)
           byPool(a) == consumePool(q, v.pool, current, a)
           pooled == q.includePools /\ v.pool # NoPool
<1>1. v.offers \in Seq(Offers) /\ (v.pool # NoPool => v.pool \in PoolVenue) /\ MaxInt64 \in Nat
  BY WidthAssumption DEF VenuesRecord
<1>2. byOffers(more) \in 1 .. MaxInt64 => byOffers(less) \in 1 .. byOffers(more)
  BY <1>1, OffersGrow
<1>3. byOffers(0) \notin 1 .. MaxInt64
  BY <1>1, OffersZero
<1>4. pooled => /\ byPool(more) \in 1 .. MaxInt64 => byPool(less) \in 1 .. byPool(more)
                /\ byPool(0) \notin 1 .. MaxInt64
  BY <1>1, PoolGrows
<1>5. \A a, x : x \in T(a) <=> x \in 1 .. MaxInt64 /\ (x = byOffers(a) \/ (pooled /\ x = byPool(a)))
  BY DEF Trades
<1>6. \A a : /\ T(a) = {} => b(a) = NoTrade
             /\ T(a) # {} => b(a) \in T(a) /\ \A x \in T(a) : b(a) <= x
             /\ b(a) # NoTrade => T(a) # {}
  BY CheapestTrade
<1> HIDE DEF T, b, byOffers, byPool, pooled
<1>7. T(0) = {}
  BY <1>3, <1>4, <1>5
<1>8. ASSUME b(more) # NoTrade PROVE b(less) \in 1 .. b(more)
  <2>1. b(more) \in T(more)
    BY <1>6, <1>8
  <2>2. PICK x \in T(less) : x <= b(more)
    <3>1. b(more) \in 1 .. MaxInt64
      BY <1>5, <2>1
    <3>2. CASE b(more) = byOffers(more)
      <4>1. byOffers(less) \in 1 .. byOffers(more)
        BY <1>2, <3>1, <3>2
      <4>2. byOffers(less) \in 1 .. MaxInt64 /\ byOffers(less) <= b(more)
        BY <1>1, <3>1, <3>2, <4>1
      <4> QED
        BY <1>5, <4>2
    <3>3. CASE pooled /\ b(more) = byPool(more)
      <4>1. byPool(less) \in 1 .. byPool(more)
        BY <1>4, <3>1, <3>3
      <4>2. byPool(less) \in 1 .. MaxInt64 /\ byPool(less) <= b(more)
        BY <1>1, <3>1, <3>3, <4>1
      <4> QED
        BY <1>5, <3>3, <4>2
    <3> QED
      BY <1>5, <2>1, <3>2, <3>3
  <2>3. b(less) \in T(less) /\ b(less) <= x
    BY <1>6, <2>2
  <2>4. b(less) \in 1 .. MaxInt64 /\ b(more) \in 1 .. MaxInt64 /\ x \in 1 .. MaxInt64
    BY <1>5, <2>1, <2>2, <2>3
  <2> QED
    BY <1>1, <2>2, <2>3, <2>4
<1> QED
  BY <1>6, <1>7, <1>8 DEF b

\* If there is a trade the search makes the best one; a pair without venues has none.
LEMMA VenueBest ==
    ASSUME NEW q, q.direction = "selling", NEW current, NEW amount \in Nat, NEW v \in VenuesRecord
    PROVE  /\ bestTrade(q, current, amount, v) # NoTrade
                => processVenues(q, current, amount, v) = bestTrade(q, current, amount, v)
           /\ bestTrade(q, current, amount, NoVenues) = NoTrade
<1> DEFINE b == bestTrade(q, current, amount, v)
           r == processVenues(q, current, amount, v)
           byOffers == consumeOffersForSellingAsset(v.offers, q.ignore, amount)
           pool == IF q.includePools /\ v.pool # NoPool THEN consumePool(q, v.pool, current, amount) ELSE 0
<1>1. v.offers \in Seq(Offers) /\ NoVenues.offers \in Seq(Offers) /\ Len(NoVenues.offers) = 0 /\ NoVenues.pool = NoPool
      /\ MaxInt64 \in Nat
  BY NoVenuesIsVenues, WidthAssumption DEF VenuesRecord, NoVenues
<1>2. bestTrade(q, current, amount, NoVenues) = NoTrade
  <2>1. consumeOffersForSellingAsset(NoVenues.offers, q.ignore, amount) = NoTrade
    BY <1>1, OffersNone
  <2>2. Trades(q, current, amount, NoVenues) = {}
    BY <1>1, <2>1 DEF Trades, NoTrade
  <2> QED
    BY <2>2, CheapestTrade
<1>3. ASSUME b # NoTrade PROVE r > 0
  <2>1. b \in Trades(q, current, amount, v)
    BY <1>3, CheapestTrade
  <2>2. b \in 1 .. MaxInt64 /\ (b = byOffers \/ b = pool)
    BY <2>1 DEF Trades
  <2>3. r = betterVenue(q, pool, byOffers, v.offers)
    BY DEF processVenues, consumeOffers
  <2>4. byOffers \in Int /\ byOffers <= MaxInt64
    BY <1>1, OffersTrade DEF Amount
  <2>5. pool \in Int
    <3>1. v.pool # NoPool => v.pool \in PoolVenue
      BY DEF VenuesRecord
    <3>2. v.pool # NoPool => consumePool(q, v.pool, current, amount) \in Int
      BY <3>1, PoolTrade DEF Amount
    <3> QED
      BY <3>2
  <2>6. v.offers = <<>> => byOffers = NoTrade
    <3>1. v.offers = <<>> => Len(v.offers) = 0
      OBVIOUS
    <3> QED
      BY <1>1, <3>1, OffersNone
  <2> HIDE DEF b, r, byOffers, pool
  <2>7. ~ (pool = 0 /\ v.offers = <<>>)
    BY <2>2, <2>6 DEF NoTrade
  <2>8. byOffers # SoldTooMuch
    BY <1>1, <2>4 DEF SoldTooMuch
  <2>9. r = positiveMin(pool, byOffers)
    BY <2>3, <2>7, <2>8 DEF betterVenue
  <2> QED
    BY <1>1, <2>2, <2>4, <2>5, <2>9 DEF positiveMin
<1>4. r > 0 => b = r
  BY VenueTrade
<1> QED
  BY <1>2, <1>3, <1>4

(* Walks, prefixes and cycles. *)

\* The first n amounts follow from one another, hop by hop.
Follows(g, q, ids, f, n) == \A i \in 2 .. n : f[i] = hop(g, q, ids[i - 1], ids[i], f[i - 1])

\* Amounts that follow from one another end in amountAlong.
LEMMA AlongIs ==
    ASSUME NEW g, NEW q, NEW ids, Len(ids) \in Nat \ {0}, NEW h, h[1] = q.amount,
           Follows(g, q, ids, h, Len(ids))
    PROVE  amountAlong(g, q, ids) = h[Len(ids)]
<1> DEFINE n == Len(ids)
<1>1. PICK f : /\ amountAlong(g, q, ids) = f[n] /\ f[1] = q.amount
               /\ \A i \in 2 .. n : f[i] = hop(g, q, ids[i - 1], ids[i], f[i - 1])
  BY AlongFacts DEF Amounts
<1>2. n \in Nat \ {0} /\ \A i \in 2 .. n : h[i] = hop(g, q, ids[i - 1], ids[i], h[i - 1])
  BY DEF Follows
<1> HIDE DEF n
<1> DEFINE S == {i \in Nat : i + 1 <= n => f[i + 1] = h[i + 1]}
<1>3. 0 \in S
  BY <1>1
<1>4. ASSUME NEW i \in S PROVE i + 1 \in S
  <2> SUFFICES ASSUME i + 2 <= n PROVE f[i + 2] = h[i + 2]
    OBVIOUS
  <2>1. i + 2 \in 2 .. n /\ (i + 2) - 1 = i + 1 /\ i + 1 <= n
    BY <1>2
  <2> QED
    BY <1>1, <1>2, <2>1
<1> HIDE DEF S
<1>5. S = Nat
  BY <1>3, <1>4, Induction DEF S
<1>6. n - 1 \in Nat /\ (n - 1) + 1 = n
  BY <1>2
<1>7. f[n] = h[n]
  <2>1. n - 1 \in S
    BY <1>5, <1>6
  <2> QED
    BY <1>2, <1>6, <2>1 DEF S
<1> QED
  BY <1>1, <1>7 DEF n

\* A hop comes to an amount or to none.
LEMMA HopSize ==
    ASSUME NEW g, NEW q, q.direction = "selling", NEW current, NEW next, NEW amount
    PROVE  hop(g, q, current, next, amount) \in 1 .. MaxInt64 \/ hop(g, q, current, next, amount) = NoTrade
BY CheapestTrade DEF hop

\* So does a path, unless it is the start.
LEMMA AlongSize ==
    ASSUME NEW g, NEW q, q.direction = "selling", q.amount \in 0 .. MaxInt64, NEW ids, Len(ids) \in Nat \ {0}
    PROVE  amountAlong(g, q, ids) \in 0 .. MaxInt64 \/ amountAlong(g, q, ids) = NoTrade
<1> DEFINE n == Len(ids)
<1>1. PICK f : /\ amountAlong(g, q, ids) = f[n] /\ f[1] = q.amount
               /\ \A i \in 2 .. n : f[i] = hop(g, q, ids[i - 1], ids[i], f[i - 1])
  BY AlongFacts DEF Amounts
<1>2. n \in Nat \ {0} /\ MaxInt64 \in Nat
  BY WidthAssumption
<1> HIDE DEF n
<1>3. CASE n = 1
  BY <1>1, <1>3
<1>4. CASE n # 1
  <2>1. n \in 2 .. n
    BY <1>2, <1>4
  <2>2. f[n] \in 1 .. MaxInt64 \/ f[n] = NoTrade
    BY <1>1, <2>1, HopSize
  <2>3. f[n] \in 1 .. MaxInt64 => f[n] \in 0 .. MaxInt64
    BY <1>2
  <2> QED
    BY <1>1, <2>2, <2>3
<1> QED
  BY <1>3, <1>4

\* What a hop comes to does not depend on the amount the search starts with.
LEMMA HopSame ==
    ASSUME NEW g, NEW q, NEW r, r.direction = q.direction, r.includePools = q.includePools, r.ignore = q.ignore
    PROVE  \A current, next, amount : hop(g, r, current, next, amount) = hop(g, q, current, next, amount)
<1> SUFFICES ASSUME NEW current, NEW next, NEW amount
             PROVE  hop(g, r, current, next, amount) = hop(g, q, current, next, amount)
  OBVIOUS
<1>1. venues(g, r, current) = venues(g, q, current)
  BY DEF venues
<1> DEFINE v == venuesAt(venues(g, q, current), next)
<1>2. consumeOffers(r, amount, v.offers) = consumeOffers(q, amount, v.offers)
  BY DEF consumeOffers
<1>3. consumePool(r, v.pool, current, amount) = consumePool(q, v.pool, current, amount)
  BY DEF consumePool
<1> HIDE DEF v
<1>4. bestTrade(r, current, amount, v) = bestTrade(q, current, amount, v)
  BY <1>2, <1>3 DEF bestTrade
<1> QED
  BY <1>1, <1>4 DEF hop, v

\* If a path can be walked to its end it can be walked to every asset on it.
LEMMA AlongReaches ==
    ASSUME NEW g, NEW q, NEW ids, NEW n \in Nat \ {0}, NEW f, NEW j \in 1 .. n, f[n] # NoTrade,
           Follows(g, q, ids, f, n)
    PROVE  f[j] # NoTrade
<1> SUFFICES ASSUME f[j] = NoTrade PROVE FALSE
  OBVIOUS
<1> DEFINE S == {i \in Nat : j + i <= n => f[j + i] = NoTrade}
<1>1. 0 \in S
  OBVIOUS
<1>2. ASSUME NEW i \in S PROVE i + 1 \in S
  <2> SUFFICES ASSUME j + i + 1 <= n PROVE f[j + i + 1] = NoTrade
    OBVIOUS
  <2>1. j + i + 1 \in 2 .. n /\ (j + i + 1) - 1 = j + i /\ j + i <= n
    OBVIOUS
  <2>2. f[j + i] = NoTrade
    BY <2>1
  <2>3. f[j + i + 1] = hop(g, q, ids[j + i], ids[j + i + 1], f[j + i])
    BY <2>1 DEF Follows
  <2> QED
    BY <2>2, <2>3 DEF hop
<1> HIDE DEF S
<1>3. S = Nat
  BY <1>1, <1>2, Induction DEF S
<1>4. n - j \in Nat /\ j + (n - j) = n /\ n <= n
  OBVIOUS
<1>5. n - j \in S
  BY <1>3, <1>4
<1> QED
  BY <1>4, <1>5 DEF S

\* A function on 1 to n is a sequence.
LEMMA ListOf ==
    ASSUME NEW T, NEW n \in Nat, NEW f \in [1 .. n -> T]
    PROVE  f \in Seq(T) /\ Len(f) = n /\ DOMAIN f = 1 .. n
<1>1. f \in Seq(T)
  OBVIOUS
<1>2. DOMAIN f = 1 .. n /\ Len(f) \in Nat /\ DOMAIN f = 1 .. Len(f)
  BY <1>1, LenProperties
<1> QED
  BY <1>1, <1>2

\* The numbers from 1 to k are k numbers.
LEMMA IntervalSize == \A k \in Nat : IsFiniteSet(1 .. k) /\ Cardinality(1 .. k) = k
<1> SUFFICES ASSUME NEW k \in Nat PROVE IsFiniteSet(1 .. k) /\ Cardinality(1 .. k) = k
  OBVIOUS
<1>1. IsFiniteSet(1 .. k) /\ Cardinality(1 .. k) = IF 1 > k THEN 0 ELSE k - 1 + 1
  BY FS_Interval
<1> QED
  BY <1>1

\* A path that repeats no number is no longer than the list of numbers.
LEMMA SimpleIsShort ==
    ASSUME NEW n \in Nat, NEW m \in Nat, NEW f \in [1 .. m -> 1 .. n], IsInjective(f)
    PROVE  m <= n
<1>1. f \in Injection(1 .. m, 1 .. n)
  BY DEF Injection
<1>2. IsFiniteSet(1 .. n) /\ Cardinality(1 .. n) = n /\ Cardinality(1 .. m) = m
  BY IntervalSize
<1> QED
  BY <1>1, <1>2, FS_Injection

QueryFields == {"direction", "asset", "amount", "targets", "ignore", "validate", "includePools", "maxPathLength"}

\* A walk of at most hops pairs from the asset the search starts at, over no asset twice.
Walk(g, q, w, hops) ==
    /\ w \in Seq(Numbers(g)) /\ Len(w) \in 1 .. (hops + 1) /\ w[1] = g.assetStringToID[q.asset]
    /\ IsInjective(w) /\ amountAlong(g, q, w) # NoTrade

\* Where a path would meet itself, going there at once is no dearer, if no cycle is a bargain.
LEMMA NoBargain ==
    ASSUME NEW g, CoreInv(g), NEW q, q.direction = "selling", DOMAIN q = QueryFields,
           q.amount \in 0 .. MaxInt64, ~ profitableCycle(g, q), NEW hops \in Nat,
           NEW ids, NEW amount \in 1 .. MaxInt64, NEW current, Reached(g, q, ids, amount, hops, current),
           NEW next \in ToSet(ids), next # current, NEW r, r = hop(g, q, current, next, amount), r # NoTrade
    PROVE  \E w : Walk(g, q, w, hops) /\ w[Len(w)] = next /\ amountAlong(g, q, w) <= r
<1> DEFINE n == Len(ids)
           N == Len(g.idToAssetString)
<1>1. /\ ids \in Seq(Live(g)) /\ n \in 1 .. (hops + 1) /\ ids[1] = g.assetStringToID[q.asset]
      /\ ids[n] = current /\ IsInjective(ids) /\ amountAlong(g, q, ids) = amount
  BY DEF Reached
<1>2. n \in Nat \ {0} /\ DOMAIN ids = 1 .. n /\ \A i \in 1 .. n : ids[i] \in Live(g)
  BY <1>1, LenProperties, ElementOfSeq
<1>3. Live(g) \subseteq Numbers(g) /\ Numbers(g) = 1 .. N /\ N \in Nat
  BY NumbersAreNat
<1>4. PICK j \in 1 .. n : ids[j] = next
  BY <1>2 DEF ToSet
<1>5. j < n /\ j \in Nat
  BY <1>1, <1>2, <1>4
<1>f. PICK f : Amounts(f, g, q, ids)
  BY <1>2, AlongFacts
<1>6. amount = f[n] /\ f[1] = q.amount /\ Follows(g, q, ids, f, n)
  BY <1>1, <1>f DEF Amounts, Follows
<1>n. n = Len(ids)
  OBVIOUS
<1> HIDE DEF n, N
<1>7. MaxInt64 \in Nat /\ amount # NoTrade /\ r \in 1 .. MaxInt64
  BY WidthAssumption, HopSize DEF NoTrade
<1>8. f[j] # NoTrade
  BY <1>2, <1>6, <1>7, AlongReaches
<1> DEFINE pre == [i \in 1 .. j |-> ids[i]]
<1>9. pre \in Seq(Numbers(g)) /\ Len(pre) = j /\ DOMAIN pre = 1 .. j
  <2>1. pre \in [1 .. j -> Numbers(g)]
    BY <1>2, <1>3, <1>5
  <2> HIDE DEF pre
  <2> QED
    BY <1>5, <2>1, ListOf
<1>10. \A i \in 1 .. j : pre[i] = ids[i]
  OBVIOUS
<1> HIDE DEF pre
<1>11. amountAlong(g, q, pre) = f[j]
  <2>1. Follows(g, q, pre, f, Len(pre))
    <3> SUFFICES ASSUME NEW i \in 2 .. j PROVE f[i] = hop(g, q, pre[i - 1], pre[i], f[i - 1])
      BY <1>9 DEF Follows
    <3>1. i \in 2 .. n /\ i \in 1 .. j /\ i - 1 \in 1 .. j
      BY <1>2, <1>5
    <3> QED
      BY <1>6, <1>10, <3>1 DEF Follows
  <2>2. Len(pre) \in Nat \ {0}
    BY <1>4, <1>9
  <2> QED
    BY <1>6, <1>9, <2>1, <2>2, AlongIs
<1>12. Walk(g, q, pre, hops) /\ pre[Len(pre)] = next
  <2>1. Len(pre) \in 1 .. (hops + 1)
    BY <1>1, <1>2, <1>4, <1>5, <1>9
  <2>2. 1 \in 1 .. j /\ j \in 1 .. j
    BY <1>4
  <2>3. pre[1] = ids[1] /\ pre[j] = next
    BY <1>4, <1>10, <2>2
  <2>4. IsInjective(pre)
    <3>1. \A a \in 1 .. j : a \in 1 .. n
      BY <1>2, <1>5
    <3> QED
      BY <1>1, <1>2, <1>9, <1>10, <3>1 DEF IsInjective
  <2> QED
    BY <1>1, <1>8, <1>9, <1>11, <2>1, <2>3, <2>4 DEF Walk
<1> DEFINE c == f[j]
<1>13. c \in 0 .. MaxInt64
  <2>1. Len(pre) \in Nat \ {0}
    BY <1>4, <1>9
  <2> QED
    BY <1>8, <1>11, <2>1, AlongSize
<1>14. c <= r
  <2> SUFFICES ASSUME r < c PROVE FALSE
    BY <1>7, <1>13
  <2>1. c \in 1 .. MaxInt64
    BY <1>7, <1>13
  <2> DEFINE m == n - j + 1
             cyc == [i \in 1 .. m |-> ids[j + i - 1]]
             qc == [q EXCEPT !.amount = c]
  <2>2. m \in Nat /\ m >= 2 /\ j + m - 1 = n
    BY <1>2, <1>5
  <2>m. m = n - j + 1
    OBVIOUS
  <2> HIDE DEF m, c
  <2>3. \A i \in 1 .. m : j + i - 1 \in 1 .. n
    BY <1>2, <1>5, <2>m
  <2>4. cyc \in [1 .. m -> 1 .. N] /\ \A i \in 1 .. m : cyc[i] = ids[j + i - 1]
    BY <1>2, <1>3, <2>3
  <2> HIDE DEF cyc
  <2>5. cyc \in Seq(1 .. N) /\ Len(cyc) = m /\ DOMAIN cyc = 1 .. m
    BY <2>2, <2>4, ListOf
  <2>6. IsInjective(cyc)
    <3> SUFFICES ASSUME NEW a \in 1 .. m, NEW b \in 1 .. m, cyc[a] = cyc[b] PROVE a = b
      BY <2>5 DEF IsInjective
    <3>1. ids[j + a - 1] = ids[j + b - 1]
      BY <2>4
    <3>2. j + a - 1 = j + b - 1
      BY <1>1, <1>2, <2>3, <3>1 DEF IsInjective
    <3> QED
      BY <1>5, <2>2, <3>2
  <2>7. m <= N
    BY <1>3, <2>2, <2>4, <2>6, SimpleIsShort
  <2>8. cyc \in Seq(Nat) /\ Cardinality(ToSet(cyc)) = m
    <3>1. 1 .. N \subseteq Nat
      BY <1>3
    <3>2. cyc \in [1 .. m -> Nat]
      BY <2>4, <3>1
    <3>3. cyc \in Seq(Nat)
      BY <2>2, <3>2, ListOf
    <3> QED
      BY <2>5, <2>6, <3>3, InjectiveCounted
  <2>9. 1 \in 1 .. m /\ m \in 1 .. m /\ cyc[1] = next /\ cyc[m] = current
    <3>1. 1 \in 1 .. m /\ m \in 1 .. m /\ j + 1 - 1 = j
      BY <1>5, <2>2
    <3>2. cyc[1] = ids[j] /\ cyc[m] = ids[n]
      BY <2>2, <2>4, <3>1
    <3> QED
      BY <1>1, <1>4, <3>1, <3>2
  <2>10. /\ qc.amount = c /\ qc.direction = q.direction /\ qc.includePools = q.includePools
         /\ qc.ignore = q.ignore
    BY DEF QueryFields
  <2> HIDE DEF qc
  <2>11. \A x, y, z : hop(g, qc, x, y, z) = hop(g, q, x, y, z)
    BY <2>10, HopSame
  <2>12. amountAlong(g, qc, cyc) = amount
    <3> DEFINE h == [i \in 1 .. m |-> f[j + i - 1]]
    <3>1. h[1] = c /\ h[m] = f[n]
      <4>1. 1 \in 1 .. m /\ m \in 1 .. m /\ j + 1 - 1 = j
        BY <1>5, <2>2
      <4> QED
        BY <2>2, <4>1 DEF c
    <3>2. Follows(g, qc, cyc, h, m)
      <4> SUFFICES ASSUME NEW i \in 2 .. m PROVE h[i] = hop(g, qc, cyc[i - 1], cyc[i], h[i - 1])
        BY DEF Follows
      <4>1. /\ i \in 1 .. m /\ i - 1 \in 1 .. m /\ j + (i - 1) - 1 = (j + i - 1) - 1
            /\ j + i - 1 \in 2 .. n
        BY <1>2, <1>5, <2>2, <2>m
      <4>2. f[j + i - 1] = hop(g, q, ids[(j + i - 1) - 1], ids[j + i - 1], f[(j + i - 1) - 1])
        BY <1>6, <4>1 DEF Follows
      <4>3. cyc[i] = ids[j + i - 1] /\ cyc[i - 1] = ids[(j + i - 1) - 1]
        BY <2>4, <4>1
      <4>4. h[i] = f[j + i - 1] /\ h[i - 1] = f[(j + i - 1) - 1]
        BY <4>1
      <4> QED
        BY <2>11, <4>2, <4>3, <4>4
    <3> HIDE DEF h
    <3>3. amountAlong(g, qc, cyc) = h[Len(cyc)]
      <4>1. Len(cyc) \in Nat \ {0}
        BY <2>2, <2>5
      <4> QED
        BY <2>5, <2>10, <3>1, <3>2, <4>1, AlongIs
    <3> QED
      BY <1>6, <2>5, <3>1, <3>3
  <2>13. amountAlong(g, qc, Append(cyc, cyc[1])) = r
    <3>1. next \in Nat /\ cyc # <<>>
      BY <2>2, <2>4, <2>5, <2>8, <2>9
    <3>2. amountAlong(g, qc, Append(cyc, next)) = hop(g, qc, cyc[Len(cyc)], next, amount)
      BY <2>8, <2>12, <3>1, AlongAppend
    <3> QED
      BY <2>5, <2>9, <2>11, <3>2
  <2>14. cyc \in [1 .. m -> DOMAIN g.idToAssetString] /\ m \in 2 .. Len(g.idToAssetString)
    BY <1>3, <2>2, <2>4, <2>7 DEF N, Numbers
  <2>15. amountAlong(g, [q EXCEPT !.amount = c], Append(cyc, cyc[1])) = r
    BY <2>13 DEF qc
  <2> QED
    BY <1>7, <2>1, <2>8, <2>14, <2>15 DEF profitableCycle
<1> QED
  BY <1>11, <1>12, <1>14

(* What the search misses. *)

\* No amount is given up, and none grows.
NoWorse(g, new, old) == \A id \in Numbers(g) : old[id] # 0 => new[id] \in 1 .. old[id]

\* What one iteration starts from stays, what it finds gets better.
Improves(g, s, t) ==
    t.bestAmount = s.bestAmount /\ t.bestPath = s.bestPath /\ NoWorse(g, t.updateAmount, s.updateAmount)

\* What is found for an asset that may be the end, and is within the balance, is among the results.
Listed(g, q, s) ==
    \A id \in Numbers(g) : includePath(g, q, id, s.updateAmount[id]) /\ s.updateAmount[id] # 0
                             => toPath(g, q, s.updatePath[id], s.updateAmount[id]) \in s.paths

Finding(g, q, hops, s) == SearchInv(g, q, hops, hops + 1, s) /\ Listed(g, q, s)

\* What the edge from current to next comes to.
edgeAmount(g, q, s, current, next) ==
    processVenues(q, current, s.bestAmount[current], venues(g, q, current)[next])

\* The iteration has at least what the edge from current to next offers.
Relaxed(g, q, i, s, current, next) ==
    /\ s.bestAmount[current] # 0 /\ next \in DOMAIN venues(g, q, current)
    /\ ~ (i = q.maxPathLength /\ ~ isTerminalNode(g, q, next))
    /\ next \notin ToSet(s.bestPath[current])
    /\ edgeAmount(g, q, s, current, next) \in 1 .. MaxInt64
    => s.updateAmount[next] \in 1 .. edgeAmount(g, q, s, current, next)

\* Getting better again.
LEMMA ImprovesAgain ==
    ASSUME NEW g, NEW q, NEW hops, NEW s, Finding(g, q, hops, s), NEW t, Finding(g, q, hops, t),
           NEW u, Finding(g, q, hops, u), Improves(g, s, t), Improves(g, t, u)
    PROVE  Improves(g, s, u)
<1> DEFINE S(x) == x.updateAmount
<1>1. /\ S(s) \in [Numbers(g) -> 0 .. MaxInt64] /\ S(t) \in [Numbers(g) -> 0 .. MaxInt64]
      /\ S(u) \in [Numbers(g) -> 0 .. MaxInt64] /\ MaxInt64 \in Nat
  BY WidthAssumption DEF Finding, SearchInv, Tables
<1>2. ASSUME NEW id \in Numbers(g), S(s)[id] # 0 PROVE S(u)[id] \in 1 .. S(s)[id]
  <2>1. S(t)[id] \in 1 .. S(s)[id] /\ S(s)[id] \in 0 .. MaxInt64
    BY <1>1, <1>2 DEF Improves, NoWorse
  <2>2. S(t)[id] # 0 /\ S(t)[id] \in Int
    BY <1>1, <2>1
  <2>3. S(u)[id] \in 1 .. S(t)[id]
    BY <2>2 DEF Improves, NoWorse
  <2> HIDE DEF S
  <2> QED
    BY <1>1, <2>1, <2>3
<1> QED
  BY <1>2 DEF Improves, NoWorse

\* What an edge offered stays bettered.
LEMMA RelaxedStays ==
    ASSUME NEW g, NEW q, NEW hops, NEW i, NEW s, Finding(g, q, hops, s), NEW t, Finding(g, q, hops, t),
           Improves(g, s, t), NEW current, NEW next \in Numbers(g), Relaxed(g, q, i, s, current, next)
    PROVE  Relaxed(g, q, i, t, current, next)
<1> DEFINE r == edgeAmount(g, q, s, current, next)
<1>1. edgeAmount(g, q, t, current, next) = r /\ t.bestAmount = s.bestAmount /\ t.bestPath = s.bestPath
  BY DEF Improves, edgeAmount
<1>2. s.updateAmount[next] \in 0 .. MaxInt64 /\ t.updateAmount[next] \in 0 .. MaxInt64 /\ MaxInt64 \in Nat
  BY WidthAssumption DEF Finding, SearchInv, Tables
<1>3. s.updateAmount[next] # 0 => t.updateAmount[next] \in 1 .. s.updateAmount[next]
  BY DEF Improves, NoWorse
<1> HIDE DEF r
<1>4. r \in 1 .. MaxInt64 /\ s.updateAmount[next] \in 1 .. r => t.updateAmount[next] \in 1 .. r
  <2> SUFFICES ASSUME r \in 1 .. MaxInt64, s.updateAmount[next] \in 1 .. r PROVE t.updateAmount[next] \in 1 .. r
    OBVIOUS
  <2> DEFINE x == s.updateAmount[next]
             y == t.updateAmount[next]
  <2>1. x \in 1 .. r /\ x \in Nat /\ y \in Nat /\ (x # 0 => y \in 1 .. x)
    BY <1>2, <1>3
  <2> HIDE DEF x, y
  <2>2. x # 0 /\ r \in Int
    BY <1>2, <2>1
  <2>3. y \in 1 .. r
    BY <2>1, <2>2
  <2> QED
    BY <2>3 DEF y
<1> QED
  BY <1>1, <1>4 DEF Relaxed, r

\* improve enters what is better, and keeps what is not.
LEMMA ImproveFinds ==
    ASSUME NEW g, NEW q, q.direction = "selling", NEW hops, NEW s, Finding(g, q, hops, s),
           NEW next \in Numbers(g), NEW ids \in Seq(Nat), NEW r \in Int, r <= MaxInt64, r # SoldTooMuch,
           r > 0 => Reached(g, q, ids, r, hops + 1, next), NEW t, t = improve(g, q, s, next, ids, r)
    PROVE  /\ Finding(g, q, hops, t) /\ Improves(g, s, t)
           /\ r > 0 => t.updateAmount[next] \in 1 .. r
<1>1. SearchInv(g, q, hops, hops + 1, s) /\ Listed(g, q, s)
  BY DEF Finding
<1>2. SearchInv(g, q, hops, hops + 1, t)
  BY <1>1, ImproveKeeps
<1>3. s.updateAmount \in [Numbers(g) -> 0 .. MaxInt64] /\ s.updatePath \in [Numbers(g) -> Seq(Nat)]
      /\ DOMAIN s = SearchFields /\ MaxInt64 \in Nat
  BY <1>1, WidthAssumption DEF SearchInv, Tables
<1> DEFINE U == s.updateAmount
<1>4. \A id \in Numbers(g) : U[id] \in Nat /\ (U[id] # 0 => U[id] \in 1 .. U[id])
  BY <1>3
<1>5. CASE r <= 0 \/ ~ (U[next] = 0 \/ r < U[next])
  <2>1. t = s
    BY <1>5 DEF improve, betterPathAmount
  <2>2. r > 0 => U[next] \in 1 .. r
    BY <1>4, <1>5
  <2> QED
    BY <1>4, <2>1, <2>2 DEF Improves, NoWorse
<1>6. CASE ~ (r <= 0) /\ (U[next] = 0 \/ r < U[next])
  <2>1. t = [s EXCEPT !.updateAmount[next] = r, !.updatePath[next] = ids,
                      !.paths = IF includePath(g, q, next, r) THEN @ \cup {toPath(g, q, ids, r)} ELSE @]
    BY <1>6 DEF improve, betterPathAmount
  <2>2. /\ t.bestAmount = s.bestAmount /\ t.bestPath = s.bestPath
        /\ t.updateAmount = [U EXCEPT ![next] = r] /\ t.updatePath = [s.updatePath EXCEPT ![next] = ids]
        /\ t.paths = IF includePath(g, q, next, r) THEN s.paths \cup {toPath(g, q, ids, r)} ELSE s.paths
    BY <1>3, <2>1 DEF SearchFields
  <2>4. t.updateAmount[next] = r /\ \A id \in Numbers(g) : id # next => t.updateAmount[id] = U[id]
    BY <1>3, <2>2
  <2>5. t.updatePath[next] = ids /\ \A id \in Numbers(g) : id # next => t.updatePath[id] = s.updatePath[id]
    BY <1>3, <2>2
  <2>6. s.paths \subseteq t.paths /\ (includePath(g, q, next, r) => toPath(g, q, ids, r) \in t.paths)
    BY <2>2
  <2>7. Listed(g, q, t)
    <3> SUFFICES ASSUME NEW id \in Numbers(g), includePath(g, q, id, t.updateAmount[id]), t.updateAmount[id] # 0
                 PROVE  toPath(g, q, t.updatePath[id], t.updateAmount[id]) \in t.paths
      BY DEF Listed
    <3>1. CASE id = next
      BY <2>4, <2>5, <2>6, <3>1
    <3>2. CASE id # next
      BY <1>1, <2>4, <2>5, <2>6, <3>2 DEF Listed
    <3> QED
      BY <3>1, <3>2
  <2>8. NoWorse(g, t.updateAmount, U)
    <3> SUFFICES ASSUME NEW id \in Numbers(g), U[id] # 0 PROVE t.updateAmount[id] \in 1 .. U[id]
      BY DEF NoWorse
    <3>1. CASE id = next
      BY <1>4, <1>6, <2>4, <3>1
    <3>2. CASE id # next
      BY <1>4, <2>4, <3>2
    <3> QED
      BY <3>1, <3>2
  <2>9. r \in 1 .. r
    BY <1>6
  <2> QED
    BY <1>2, <2>2, <2>4, <2>7, <2>8, <2>9 DEF Finding, Improves
<1> QED
  BY <1>5, <1>6

\* A search that finds nothing new got no worse.
LEMMA ImprovesSelf ==
    ASSUME NEW g, NEW q, NEW hops, NEW s, Finding(g, q, hops, s)
    PROVE  Improves(g, s, s)
<1>1. s.updateAmount \in [Numbers(g) -> 0 .. MaxInt64] /\ MaxInt64 \in Nat
  BY WidthAssumption DEF Finding, SearchInv, Tables
<1>2. \A id \in Numbers(g) : s.updateAmount[id] # 0 => s.updateAmount[id] \in 1 .. s.updateAmount[id]
  BY <1>1
<1> QED
  BY <1>2 DEF Improves, NoWorse

\* One edge.
LEMMA RelaxFinds ==
    ASSUME NEW g, CoreInv(g), NEW q, q.direction = "selling", NEW hops \in Nat, NEW i, NEW s,
           Finding(g, q, hops, s), NEW current \in Numbers(g), s.bestAmount[current] # 0,
           NEW next \in DOMAIN venues(g, q, current), NEW t, t = relax(g, q, i, current, s, next)
    PROVE  Finding(g, q, hops, t) /\ Improves(g, s, t) /\ Relaxed(g, q, i, t, current, next)
<1> DEFINE r == edgeAmount(g, q, s, current, next)
           ids == Append(s.bestPath[current], next)
           P == s.bestPath[current]
<1>1. SearchInv(g, q, hops, hops + 1, s) /\ s.failed = FALSE /\ Tables(g, q, s.bestAmount, s.bestPath, hops)
  BY DEF Finding, SearchInv
<1>2. CASE (i = q.maxPathLength /\ ~ isTerminalNode(g, q, next)) \/ next \in ToSet(P)
  <2>1. t = s
    BY <1>2 DEF relax
  <2> QED
    BY <1>2, <2>1, ImprovesSelf DEF Relaxed
<1>3. CASE ~ (i = q.maxPathLength /\ ~ isTerminalNode(g, q, next)) /\ next \notin ToSet(P)
  <2>1. t = improve(g, q, s, next, ids, r)
    BY <1>1, <1>3 DEF relax, edgeAmount
  <2>2. Reached(g, q, P, s.bestAmount[current], hops, current)
    BY <1>1 DEF Tables
  <2>3. s.bestAmount[current] \in 1 .. MaxInt64
    <3>1. s.bestAmount[current] \in 0 .. MaxInt64
      BY <1>1 DEF Tables
    <3> QED
      BY <3>1, WidthAssumption
  <2>4. r = processVenues(q, current, s.bestAmount[current], venues(g, q, current)[next])
    BY DEF edgeAmount
  <2>5. r \in Int /\ r <= MaxInt64 /\ r # SoldTooMuch /\ ids \in Seq(Nat)
        /\ (r > 0 => Reached(g, q, ids, r, hops + 1, next))
    <3> HIDE DEF r
    <3> QED
      BY <1>3, <2>2, <2>3, <2>4, LongerPath
  <2>6. next \in Numbers(g)
    BY EdgeFacts
  <2> HIDE DEF r, ids
  <2>7. Finding(g, q, hops, t) /\ Improves(g, s, t) /\ (r > 0 => t.updateAmount[next] \in 1 .. r)
    BY <2>1, <2>5, <2>6, ImproveFinds
  <2>8. edgeAmount(g, q, t, current, next) = r
    BY <2>7 DEF edgeAmount, Improves, r
  <2>9. r \in 1 .. MaxInt64 => r > 0
    OBVIOUS
  <2> QED
    BY <2>7, <2>8, <2>9 DEF Relaxed
<1> QED
  BY <1>2, <1>3

\* All edges of one asset.
LEMMA RelaxAllFinds ==
    ASSUME NEW g, CoreInv(g), NEW q, q.direction = "selling", NEW hops \in Nat, NEW i, NEW s,
           Finding(g, q, hops, s), NEW current \in Numbers(g), NEW t, t = relaxAll(g, q, i, s, current)
    PROVE  Finding(g, q, hops, t) /\ Improves(g, s, t) /\ \A next \in Numbers(g) : Relaxed(g, q, i, t, current, next)
<1> DEFINE n == Len(g.idToAssetString)
           f == CHOOSE f : Edges(f, g, q, i, s, current, n)
           Done(k) == \A next \in Numbers(g) : next <= k => Relaxed(g, q, i, f[k], current, next)
           S == {k \in Nat : k <= n => Finding(g, q, hops, f[k]) /\ Improves(g, s, f[k]) /\ Done(k)}
<1>1. t = IF s.bestAmount[current] = 0 THEN s ELSE f[n]
  BY DEF relaxAll, Edges, edge
<1>2. n \in Nat /\ Numbers(g) = 1 .. n
  BY NumbersAreNat
<1>3. Edges(f, g, q, i, s, current, n)
  BY <1>2, EdgesExist
<1>4. Improves(g, s, s)
  BY ImprovesSelf
<1> HIDE DEF f, n
<1>5. f[0] = s /\ \A k \in 1 .. n : f[k] = edge(g, q, i, current, f[k - 1], k)
  BY <1>2, <1>3 DEF Edges
<1>6. CASE s.bestAmount[current] = 0
  BY <1>1, <1>4, <1>6 DEF Relaxed
<1>7. CASE s.bestAmount[current] # 0
  <2>1. 0 \in S
    <3>1. Done(0)
      BY <1>2
    <3> QED
      BY <1>4, <1>5, <3>1
  <2>2. ASSUME NEW k \in S PROVE k + 1 \in S
    <3> SUFFICES ASSUME k + 1 <= n
                 PROVE  Finding(g, q, hops, f[k + 1]) /\ Improves(g, s, f[k + 1]) /\ Done(k + 1)
      OBVIOUS
    <3>1. k + 1 \in 1 .. n /\ k <= n /\ (k + 1) - 1 = k /\ k \in Nat
      BY <1>2
    <3>2. Finding(g, q, hops, f[k]) /\ Improves(g, s, f[k]) /\ Done(k)
      BY <3>1
    <3> DEFINE u == f[k]
               v == f[k + 1]
    <3>3. v = edge(g, q, i, current, u, k + 1)
      BY <1>5, <3>1
    <3>4. u.bestAmount[current] # 0
      BY <1>7, <3>2 DEF Improves
    <3>5. Finding(g, q, hops, v) /\ Improves(g, u, v) /\ Relaxed(g, q, i, v, current, k + 1)
      <4>1. CASE k + 1 \in DOMAIN venues(g, q, current)
        <5>1. v = relax(g, q, i, current, u, k + 1)
          BY <3>3, <4>1 DEF edge
        <5> HIDE DEF u, v
        <5> QED
          BY <3>2, <3>4, <4>1, <5>1, RelaxFinds DEF u
      <4>2. CASE k + 1 \notin DOMAIN venues(g, q, current)
        <5>1. v = u
          BY <3>3, <4>2 DEF edge
        <5>2. Improves(g, u, u)
          BY <3>2, ImprovesSelf
        <5> HIDE DEF u, v
        <5> QED
          BY <3>2, <4>2, <5>1, <5>2 DEF Relaxed, u
      <4> QED
        BY <4>1, <4>2
    <3>6. Improves(g, s, v)
      BY <3>2, <3>5, ImprovesAgain
    <3>7. ASSUME NEW next \in Numbers(g), next <= k + 1 PROVE Relaxed(g, q, i, v, current, next)
      <4>1. CASE next = k + 1
        BY <3>5, <4>1
      <4>2. CASE next # k + 1
        <5>1. next <= k
          BY <1>2, <3>1, <3>7, <4>2
        <5>2. Relaxed(g, q, i, u, current, next)
          BY <3>2, <5>1
        <5> HIDE DEF u, v
        <5> QED
          BY <3>2, <3>5, <5>2, RelaxedStays DEF u
      <4> QED
        BY <4>1, <4>2
    <3> QED
      BY <3>5, <3>6, <3>7
  <2> HIDE DEF S
  <2>3. S = Nat
    BY <2>1, <2>2, Induction DEF S
  <2>4. Finding(g, q, hops, f[n]) /\ Improves(g, s, f[n]) /\ Done(n)
    BY <1>2, <2>3 DEF S
  <2>5. \A next \in Numbers(g) : Relaxed(g, q, i, f[n], current, next)
    BY <1>2, <2>4
  <2> QED
    BY <1>1, <1>7, <2>4, <2>5
<1> QED
  BY <1>6, <1>7

\* All edges of the graph, before what is found is adopted.
LEMMA SweepFinds ==
    ASSUME NEW g, CoreInv(g), NEW q, q.direction = "selling", NEW hops \in Nat, NEW i, NEW s,
           Finding(g, q, hops, s)
    PROVE  \E u : /\ iterate(g, q, s, i) = adopt(u) /\ Finding(g, q, hops, u) /\ Improves(g, s, u)
                  /\ \A current, next \in Numbers(g) : Relaxed(g, q, i, u, current, next)
<1> DEFINE n == Len(g.idToAssetString)
           f == CHOOSE f : Sweep(f, g, q, i, s, n)
           Done(k) == \A current, next \in Numbers(g) : current <= k => Relaxed(g, q, i, f[k], current, next)
           S == {k \in Nat : k <= n => Finding(g, q, hops, f[k]) /\ Improves(g, s, f[k]) /\ Done(k)}
<1>1. iterate(g, q, s, i) = adopt(f[n])
  BY DEF iterate, Sweep
<1>2. n \in Nat /\ Numbers(g) = 1 .. n
  BY NumbersAreNat
<1>3. Sweep(f, g, q, i, s, n)
  BY <1>2, SweepExists
<1>4. Improves(g, s, s)
  BY ImprovesSelf
<1> HIDE DEF f, n
<1>5. f[0] = s /\ \A k \in 1 .. n : f[k] = relaxAll(g, q, i, f[k - 1], k)
  BY <1>2, <1>3 DEF Sweep
<1>6. 0 \in S
  <2>1. Done(0)
    BY <1>2
  <2> QED
    BY <1>4, <1>5, <2>1
<1>7. ASSUME NEW k \in S PROVE k + 1 \in S
  <2> SUFFICES ASSUME k + 1 <= n
               PROVE  Finding(g, q, hops, f[k + 1]) /\ Improves(g, s, f[k + 1]) /\ Done(k + 1)
    OBVIOUS
  <2>1. k + 1 \in 1 .. n /\ k <= n /\ (k + 1) - 1 = k /\ k \in Nat
    BY <1>2
  <2>2. Finding(g, q, hops, f[k]) /\ Improves(g, s, f[k]) /\ Done(k)
    BY <2>1
  <2> DEFINE u == f[k]
             v == f[k + 1]
  <2>3. v = relaxAll(g, q, i, u, k + 1) /\ k + 1 \in Numbers(g)
    BY <1>2, <1>5, <2>1
  <2>4. /\ Finding(g, q, hops, v) /\ Improves(g, u, v)
        /\ \A next \in Numbers(g) : Relaxed(g, q, i, v, k + 1, next)
    <3> HIDE DEF u, v
    <3> QED
      BY <2>2, <2>3, RelaxAllFinds DEF u
  <2>5. Improves(g, s, v)
    BY <2>2, <2>4, ImprovesAgain
  <2>6. ASSUME NEW current \in Numbers(g), NEW next \in Numbers(g), current <= k + 1
        PROVE  Relaxed(g, q, i, v, current, next)
    <3>1. CASE current = k + 1
      BY <2>4, <3>1
    <3>2. CASE current # k + 1
      <4>1. current <= k
        BY <1>2, <2>1, <2>6, <3>2
      <4>2. Relaxed(g, q, i, u, current, next)
        BY <2>2, <4>1
      <4> HIDE DEF u, v
      <4> QED
        BY <2>2, <2>4, <4>2, RelaxedStays DEF u
    <3> QED
      BY <3>1, <3>2
  <2> QED
    BY <2>4, <2>5, <2>6
<1> HIDE DEF S
<1>8. S = Nat
  BY <1>6, <1>7, Induction DEF S
<1>9. Finding(g, q, hops, f[n]) /\ Improves(g, s, f[n]) /\ Done(n)
  BY <1>2, <1>8 DEF S
<1>10. \A current, next \in Numbers(g) : Relaxed(g, q, i, f[n], current, next)
  BY <1>2, <1>9
<1> QED
  BY <1>1, <1>9, <1>10

\* The sums of the offers of every pair that the search looks at fit into an int64.
Fits(g, q) == \A current \in Numbers(g) : \A next \in DOMAIN venues(g, q, current) :
                  sumFits(venues(g, q, current)[next].offers)

\* Every walk of at most hops pairs to an asset of ends costs no less than the amount of its end.
Covers(g, q, amounts, hops, ends) ==
    \A w : Walk(g, q, w, hops) /\ w[Len(w)] \in ends => amounts[w[Len(w)]] \in 1 .. amountAlong(g, q, w)

\* Where the paths of so many hops may end: in the last iteration only at a target.
Ends(g, q, hops) == IF hops = q.maxPathLength THEN {id \in Numbers(g) : isTerminalNode(g, q, id)} ELSE Numbers(g)

\* A walk without its last hop.
LEMMA WalkSplit ==
    ASSUME NEW g, CoreInv(g), NEW q, NEW hops \in Nat, NEW w, Walk(g, q, w, hops + 1), Len(w) = hops + 2
    PROVE  \E p : /\ Walk(g, q, p, hops) /\ p[Len(p)] \in Numbers(g) /\ p[Len(p)] # w[Len(w)]
                  /\ Len(p) \in Nat \ {0}
                  /\ amountAlong(g, q, w) = hop(g, q, p[Len(p)], w[Len(w)], amountAlong(g, q, p))
<1> DEFINE m == hops + 1
           p == [i \in 1 .. m |-> w[i]]
           next == w[hops + 2]
<1>1. /\ w \in Seq(Numbers(g)) /\ w[1] = g.assetStringToID[q.asset] /\ IsInjective(w)
      /\ amountAlong(g, q, w) # NoTrade
  BY DEF Walk
<1>2. DOMAIN w = 1 .. hops + 2 /\ \A i \in 1 .. hops + 2 : w[i] \in Numbers(g)
  BY <1>1, LenProperties, ElementOfSeq
<1>3. Numbers(g) \subseteq Nat
  BY NumbersAreNat
<1>4. m \in Nat \ {0} /\ \A i \in 1 .. m : i \in 1 .. hops + 2
  OBVIOUS
<1>5. p \in [1 .. m -> Numbers(g)] /\ \A i \in 1 .. m : p[i] = w[i]
  BY <1>2, <1>4
<1> HIDE DEF p
<1>6. p \in Seq(Numbers(g)) /\ Len(p) = m /\ DOMAIN p = 1 .. m
  BY <1>4, <1>5, ListOf
<1>7. p \in Seq(Nat) /\ p # <<>> /\ next \in Nat
  <2>1. p \in [1 .. m -> Nat]
    BY <1>3, <1>5
  <2>2. p \in Seq(Nat)
    BY <1>4, <2>1, ListOf
  <2>3. hops + 2 \in 1 .. hops + 2
    OBVIOUS
  <2>4. Len(<<>>) = 0
    OBVIOUS
  <2> QED
    BY <1>2, <1>3, <1>4, <1>6, <2>2, <2>3, <2>4
<1>8. w = Append(p, next)
  <2>1. /\ Append(p, next) \in Seq(Nat) /\ Len(Append(p, next)) = m + 1 /\ Append(p, next)[m + 1] = next
        /\ \A i \in 1 .. m : Append(p, next)[i] = p[i]
    BY <1>6, <1>7, AppendProperties
  <2>2. Append(p, next) = [i \in 1 .. m + 1 |-> Append(p, next)[i]]
    BY <2>1
  <2>3. w = [i \in 1 .. hops + 2 |-> w[i]] /\ m + 1 = hops + 2
    BY <1>1
  <2>4. \A i \in 1 .. hops + 2 : Append(p, next)[i] = w[i]
    <3> SUFFICES ASSUME NEW i \in 1 .. hops + 2 PROVE Append(p, next)[i] = w[i]
      OBVIOUS
    <3>1. CASE i = hops + 2
      BY <2>1, <3>1
    <3>2. CASE i # hops + 2
      <4>1. i \in 1 .. m
        BY <3>2
      <4> QED
        BY <1>5, <2>1, <4>1
    <3> QED
      BY <3>1, <3>2
  <2> QED
    BY <2>2, <2>3, <2>4
<1>9. amountAlong(g, q, w) = hop(g, q, p[m], next, amountAlong(g, q, p))
  BY <1>6, <1>7, <1>8, AlongAppend
<1>10. amountAlong(g, q, p) # NoTrade
  BY <1>1, <1>9 DEF hop
<1>11. p[1] = w[1] /\ p[m] = w[m] /\ p[m] \in Numbers(g) /\ p[m] # next
  <2>1. 1 \in 1 .. m /\ m \in 1 .. m /\ m \in 1 .. hops + 2 /\ hops + 2 \in 1 .. hops + 2 /\ m # hops + 2
    OBVIOUS
  <2>2. w[m] # w[hops + 2]
    BY <1>1, <1>2, <2>1 DEF IsInjective
  <2> QED
    BY <1>2, <1>5, <2>1, <2>2
<1>12. IsInjective(p)
  <2> SUFFICES ASSUME NEW a \in 1 .. m, NEW b \in 1 .. m, p[a] = p[b] PROVE a = b
    BY <1>6 DEF IsInjective
  <2>1. w[a] = w[b] /\ a \in DOMAIN w /\ b \in DOMAIN w
    BY <1>2, <1>4, <1>5
  <2> QED
    BY <1>1, <2>1 DEF IsInjective
<1>13. Len(p) \in 1 .. (hops + 1)
  BY <1>6
<1>14. Walk(g, q, p, hops)
  BY <1>1, <1>6, <1>10, <1>11, <1>12, <1>13 DEF Walk
<1> QED
  BY <1>4, <1>6, <1>9, <1>11, <1>14

\* The edge at the end of a walk: from the cheapest amount there is at its start it costs no more.
LEMMA LastHop ==
    ASSUME NEW g, CoreInv(g), NEW q, q.direction = "selling", Fits(g, q), NEW current \in Numbers(g), NEW next,
           NEW more \in 0 .. MaxInt64, NEW less \in 1 .. more, hop(g, q, current, next, more) # NoTrade
    PROVE  LET r == processVenues(q, current, less, venues(g, q, current)[next])
           IN /\ next \in DOMAIN venues(g, q, current) /\ r \in 1 .. hop(g, q, current, next, more)
              /\ r = hop(g, q, current, next, less) /\ r \in 1 .. MaxInt64
              /\ hop(g, q, current, next, more) \in 1 .. MaxInt64
<1> DEFINE V == venues(g, q, current)
           v == V[next]
           H(a) == hop(g, q, current, next, a)
           b(a) == bestTrade(q, current, a, v)
           r == processVenues(q, current, less, v)
<1>1. MaxInt64 \in Nat /\ more \in Nat /\ less \in Nat \ {0} /\ less <= more /\ less # NoTrade /\ more # NoTrade
  BY WidthAssumption DEF NoTrade
<1>2. next \in DOMAIN V
  <2> SUFFICES ASSUME next \notin DOMAIN V PROVE FALSE
    OBVIOUS
  <2>1. venuesAt(V, next) = NoVenues
    BY DEF venuesAt
  <2>2. H(more) = bestTrade(q, current, more, NoVenues)
    BY <1>1, <2>1 DEF hop
  <2>3. NoVenues \in VenuesRecord
    BY NoVenuesIsVenues
  <2> QED
    BY <1>1, <2>2, <2>3, VenueBest
<1>3. v \in VenuesRecord /\ venuesAt(V, next) = v /\ sumFits(v.offers)
  BY <1>2, EdgeFacts DEF Fits
<1>4. \A a \in Nat : H(a) = b(a)
  BY <1>3 DEF hop, NoTrade
<1>5. H(more) = b(more) /\ H(less) = b(less) /\ b(more) # NoTrade /\ b(more) \in 1 .. MaxInt64
  <2>1. H(more) = b(more) /\ H(less) = b(less)
    BY <1>1, <1>4
  <2> QED
    BY <2>1, CheapestTrade
<1> HIDE DEF H, v, V
<1>6. b(less) \in 1 .. b(more)
  BY <1>1, <1>3, <1>5, TradeGrows
<1>7. b(less) # NoTrade /\ b(less) \in 1 .. MaxInt64
  BY <1>1, <1>5, <1>6 DEF NoTrade
<1>8. r = b(less)
  BY <1>1, <1>3, <1>7, VenueBest
<1> QED
  BY <1>2, <1>5, <1>6, <1>7, <1>8 DEF H, v, V

\* The searches that must not miss a bargain.
Bargaining(g, q) ==
    /\ q.direction = "selling" /\ DOMAIN q = QueryFields /\ q.amount \in 1 .. MaxInt64
    /\ Fits(g, q) /\ ~ profitableCycle(g, q) /\ q.asset \in DOMAIN g.assetStringToID
    /\ q.maxPathLength \in Nat

\* One more hop covers the walks that are one hop longer.
LEMMA OneMoreHop ==
    ASSUME NEW g, CoreInv(g), NEW q, Bargaining(g, q), NEW hops \in Nat, NEW u, Finding(g, q, hops, u),
           \A current, next \in Numbers(g) : Relaxed(g, q, hops + 1, u, current, next),
           NoWorse(g, u.updateAmount, u.bestAmount), Covers(g, q, u.bestAmount, hops, Numbers(g))
    PROVE  Covers(g, q, u.updateAmount, hops + 1, Ends(g, q, hops + 1))
<1> DEFINE B == u.bestAmount
           U == u.updateAmount
<1>1. /\ q.direction = "selling" /\ DOMAIN q = QueryFields /\ q.amount \in 0 .. MaxInt64
      /\ Fits(g, q) /\ ~ profitableCycle(g, q) /\ MaxInt64 \in Nat
  BY WidthAssumption DEF Bargaining
<1>2. /\ B \in [Numbers(g) -> 0 .. MaxInt64] /\ U \in [Numbers(g) -> 0 .. MaxInt64]
      /\ Tables(g, q, B, u.bestPath, hops)
  BY DEF Finding, SearchInv, Tables
<1> SUFFICES ASSUME NEW w, Walk(g, q, w, hops + 1), w[Len(w)] \in Ends(g, q, hops + 1)
             PROVE  U[w[Len(w)]] \in 1 .. amountAlong(g, q, w)
  BY DEF Covers
<1> DEFINE m == Len(w)
           v == w[m]
           cost == amountAlong(g, q, w)
<1>3. m \in 1 .. (hops + 2) /\ m \in Nat \ {0} /\ cost # NoTrade
  BY DEF Walk
<1>4. v \in Numbers(g) /\ ~ (hops + 1 = q.maxPathLength /\ ~ isTerminalNode(g, q, v))
  BY DEF Ends
<1>5. cost \in 0 .. MaxInt64
  BY <1>1, <1>3, AlongSize
\* A walk to v that was covered before, and does not cost more than x, covers v.
<1>6. ASSUME NEW p, Walk(g, q, p, hops), p[Len(p)] = v, NEW x \in Int, amountAlong(g, q, p) <= x
      PROVE  U[v] \in 1 .. x
  <2> DEFINE a == amountAlong(g, q, p)
  <2>1. B[v] \in 1 .. a /\ B[v] \in 0 .. MaxInt64 /\ U[v] \in 0 .. MaxInt64
    BY <1>2, <1>4, <1>6 DEF Covers
  <2>2. a \in Int
    <3>1. Len(p) \in Nat \ {0} /\ a # NoTrade
      BY <1>6 DEF Walk
    <3>2. a \in 0 .. MaxInt64
      BY <1>1, <3>1, AlongSize
    <3> QED
      BY <1>1, <3>2
  <2>3. B[v] # 0
    BY <1>1, <2>1, <2>2
  <2>4. U[v] \in 1 .. B[v]
    BY <1>4, <2>3 DEF NoWorse
  <2> DEFINE y == B[v]
             z == U[v]
  <2>5. a <= x /\ y \in 1 .. a /\ y \in 0 .. MaxInt64 /\ z \in 1 .. y /\ z \in 0 .. MaxInt64
    BY <1>6, <2>1, <2>4
  <2> HIDE DEF a, y, z
  <2>6. z \in 1 .. x
    BY <1>1, <2>2, <2>5
  <2> QED
    BY <2>6 DEF z
<1>7. CASE m <= hops + 1
  <2>1. m \in 1 .. (hops + 1)
    BY <1>3, <1>7
  <2>2. Walk(g, q, w, hops)
    BY <2>1 DEF Walk
  <2>3. cost \in Int /\ cost <= cost
    BY <1>1, <1>5
  <2> QED
    BY <1>6, <2>2, <2>3
<1>8. CASE m > hops + 1
  <2>1. m = hops + 2
    BY <1>3, <1>8
  <2>2. PICK p : /\ Walk(g, q, p, hops) /\ p[Len(p)] \in Numbers(g) /\ p[Len(p)] # v /\ Len(p) \in Nat \ {0}
                 /\ cost = hop(g, q, p[Len(p)], v, amountAlong(g, q, p))
    BY <2>1, WalkSplit
  <2> DEFINE current == p[Len(p)]
             more == amountAlong(g, q, p)
             less == B[current]
             r == edgeAmount(g, q, u, current, v)
  <2>3. more \in 0 .. MaxInt64
    <3>1. more # NoTrade
      BY <2>2 DEF Walk
    <3> QED
      BY <1>1, <2>2, <3>1, AlongSize
  <2>4. less \in 1 .. more
    BY <2>2 DEF Covers
  <2>5. current \in Numbers(g) /\ current # v /\ cost = hop(g, q, current, v, more)
    BY <2>2
  <2>6. /\ v \in DOMAIN venues(g, q, current) /\ r \in 1 .. cost /\ r = hop(g, q, current, v, less)
        /\ r \in 1 .. MaxInt64
    <3>1. r = processVenues(q, current, less, venues(g, q, current)[v])
      BY DEF edgeAmount
    <3> HIDE DEF current, more, less, r, cost, v
    <3> QED
      BY <1>1, <1>3, <2>3, <2>4, <2>5, <3>1, LastHop
  <2>7. less # 0 /\ less \in 1 .. MaxInt64
    BY <1>1, <2>3, <2>4
  <2>8. r \in Int /\ cost \in Int /\ r <= cost /\ r >= 1
    BY <1>1, <1>5, <2>6
  <2>9. CASE v \notin ToSet(u.bestPath[current])
    <3>1. U[v] \in 1 .. r
      BY <1>4, <2>5, <2>6, <2>7, <2>9 DEF Relaxed
    <3>2. U[v] \in 0 .. MaxInt64
      BY <1>2, <1>4
    <3> DEFINE z == U[v]
    <3>3. z \in 1 .. r /\ z \in 0 .. MaxInt64
      BY <3>1, <3>2
    <3> HIDE DEF z, r, cost
    <3>4. z \in 1 .. cost
      BY <1>1, <2>8, <3>3
    <3> QED
      BY <3>4 DEF z, cost
  <2>10. CASE v \in ToSet(u.bestPath[current])
    <3>1. Reached(g, q, u.bestPath[current], less, hops, current)
      BY <1>2, <2>5, <2>7 DEF Tables
    <3>2. r # NoTrade
      BY <2>8 DEF NoTrade
    <3>3. PICK p2 : Walk(g, q, p2, hops) /\ p2[Len(p2)] = v /\ amountAlong(g, q, p2) <= r
      <4> HIDE DEF r, v, less, current
      <4> QED
        BY <1>1, <2>5, <2>6, <2>7, <2>10, <3>1, <3>2, NoBargain
    <3>4. U[v] \in 1 .. r
      BY <1>6, <2>8, <3>3
    <3>5. U[v] \in 0 .. MaxInt64
      BY <1>2, <1>4
    <3> DEFINE z == U[v]
    <3>6. z \in 1 .. r /\ z \in 0 .. MaxInt64
      BY <3>4, <3>5
    <3> HIDE DEF z, r, cost
    <3>7. z \in 1 .. cost
      BY <1>1, <2>8, <3>6
    <3> QED
      BY <3>7 DEF z, cost
  <2> QED
    BY <2>9, <2>10
<1> QED
  BY <1>3, <1>7, <1>8

\* After so many iterations, walks of as many hops are covered, and what there is for a target is a result.
RoundInv(g, q, hops, s) ==
    /\ SearchInv(g, q, hops, hops, s) /\ s.updateAmount = s.bestAmount /\ s.updatePath = s.bestPath
    /\ Listed(g, q, s) /\ Covers(g, q, s.bestAmount, hops, Ends(g, q, hops))

\* One iteration.
LEMMA IterateFinds ==
    ASSUME NEW g, CoreInv(g), NEW q, Bargaining(g, q), NEW hops \in Nat, hops < q.maxPathLength,
           NEW s, RoundInv(g, q, hops, s)
    PROVE  RoundInv(g, q, hops + 1, iterate(g, q, s, hops + 1))
<1>1. q.direction = "selling" /\ q.maxPathLength \in Nat
  BY DEF Bargaining
<1>2. SearchInv(g, q, hops, hops, s) /\ s.updateAmount = s.bestAmount /\ Listed(g, q, s)
  BY DEF RoundInv
<1>3. Covers(g, q, s.bestAmount, hops, Numbers(g))
  BY <1>1 DEF RoundInv, Ends
<1>4. Finding(g, q, hops, s)
  <2>1. Tables(g, q, s.updateAmount, s.updatePath, hops + 1)
    BY <1>2, MoreHops DEF SearchInv, Tables
  <2> QED
    BY <1>2, <2>1, MoreHops DEF SearchInv, Finding
<1>5. PICK u : /\ iterate(g, q, s, hops + 1) = adopt(u) /\ Finding(g, q, hops, u) /\ Improves(g, s, u)
               /\ \A current, next \in Numbers(g) : Relaxed(g, q, hops + 1, u, current, next)
  BY <1>1, <1>4, SweepFinds
<1>6. u.bestAmount = s.bestAmount /\ NoWorse(g, u.updateAmount, u.bestAmount)
  BY <1>2, <1>5 DEF Improves
<1>7. Covers(g, q, u.updateAmount, hops + 1, Ends(g, q, hops + 1))
  BY <1>3, <1>5, <1>6, OneMoreHop
<1> DEFINE t == adopt(u)
<1>8. SearchInv(g, q, hops + 1, hops + 1, t)
  BY <1>2, <1>5, IterateKeeps
<1>9. DOMAIN u = SearchFields /\ Listed(g, q, u)
  BY <1>5 DEF Finding, SearchInv
<1>10. /\ t.bestAmount = u.updateAmount /\ t.bestPath = u.updatePath
       /\ t.updateAmount = u.updateAmount /\ t.updatePath = u.updatePath /\ t.paths = u.paths
  BY <1>9 DEF adopt, SearchFields
<1> HIDE DEF t
<1>11. Listed(g, q, t)
  BY <1>9, <1>10 DEF Listed
<1>12. RoundInv(g, q, hops + 1, t)
  BY <1>7, <1>8, <1>10, <1>11 DEF RoundInv
<1> QED
  BY <1>5, <1>12 DEF t

\* The start: the only walk without a hop costs the amount asked for.
LEMMA StartFinds ==
    ASSUME NEW g, CoreInv(g), NEW q, Bargaining(g, q)
    PROVE  RoundInv(g, q, 0, searchStart(g, q))
<1> DEFINE start == g.assetStringToID[q.asset]
           amounts == [id \in DOMAIN g.idToAssetString |-> IF id = start THEN q.amount ELSE 0]
           paths == [id \in DOMAIN g.idToAssetString |-> IF id = start THEN <<start>> ELSE <<>>]
           direct == IF includePath(g, q, start, q.amount)
                     THEN {toPath(g, q, <<start>>, q.amount)} ELSE {}
           s == searchStart(g, q)
<1>1. /\ q.direction = "selling" /\ q.amount \in 1 .. MaxInt64
      /\ q.asset \in DOMAIN g.assetStringToID /\ MaxInt64 \in Nat
  BY WidthAssumption DEF Bargaining
<1>2. q.amount \in 0 .. MaxInt64 /\ q.amount # 0 /\ q.amount \in 1 .. q.amount
  BY <1>1
<1>3. SearchInv(g, q, 0, 0, s)
  BY <1>1, <1>2, StartInv
<1>4. start \in Numbers(g)
  BY <1>1, StartReached
<1>5. s = [bestAmount |-> amounts, updateAmount |-> amounts, bestPath |-> paths,
           updatePath |-> paths, paths |-> direct, failed |-> FALSE]
  BY DEF searchStart
<1>s. start = g.assetStringToID[q.asset]
  OBVIOUS
<1> HIDE DEF start, s
<1>6. /\ s.bestAmount = amounts /\ s.updateAmount = amounts
      /\ s.bestPath = paths /\ s.updatePath = paths /\ s.paths = direct
  BY <1>5
<1>7. /\ amounts[start] = q.amount /\ paths[start] = <<start>>
      /\ \A id \in Numbers(g) : id # start => amounts[id] = 0
  BY <1>4 DEF Numbers
<1>8. includePath(g, q, start, q.amount) => toPath(g, q, <<start>>, q.amount) \in direct
  OBVIOUS
<1> HIDE DEF amounts, paths, direct
<1>9. Listed(g, q, s)
  BY <1>6, <1>7, <1>8 DEF Listed
<1>10. Covers(g, q, amounts, 0, Ends(g, q, 0))
  <2> SUFFICES ASSUME NEW w, Walk(g, q, w, 0) PROVE amounts[w[Len(w)]] \in 1 .. amountAlong(g, q, w)
    BY DEF Covers
  <2>0. Len(w) \in 1 .. (0 + 1) /\ w[1] = start
    BY <1>s DEF Walk
  <2>1. Len(w) = 1 /\ w[1] = start /\ Len(w) \in Nat \ {0}
    BY <2>0
  <2>2. PICK f : Amounts(f, g, q, w)
    BY <2>1, AlongFacts
  <2>3. amountAlong(g, q, w) = q.amount
    BY <2>1, <2>2 DEF Amounts
  <2> QED
    BY <1>2, <1>7, <2>1, <2>3
<1> QED
  BY <1>3, <1>6, <1>9, <1>10 DEF RoundInv, s

\* For every walk to a target the search has a result for the same end that costs no more.
LEMMA SearchCovers ==
    ASSUME NEW g, CoreInv(g), NEW q, Bargaining(g, q)
    PROVE  RoundInv(g, q, q.maxPathLength, search(g, q))
<1> DEFINE n == q.maxPathLength
           s == searchStart(g, q)
           f == CHOOSE f : Rounds(f, g, q, s, n)
           S == {k \in Nat : k <= n => RoundInv(g, q, k, f[k])}
<1>1. search(g, q) = f[n]
  BY DEF search, Rounds, searchStart
<1>2. n \in Nat
  BY DEF Bargaining
<1>3. Rounds(f, g, q, s, n)
  BY <1>2, RoundsExist
<1>4. RoundInv(g, q, 0, s)
  BY StartFinds
<1>n. n = q.maxPathLength
  OBVIOUS
<1> HIDE DEF f, s, n
<1>5. f[0] = s /\ \A k \in 1 .. n : f[k] = iterate(g, q, f[k - 1], k)
  BY <1>2, <1>3 DEF Rounds
<1>6. 0 \in S
  BY <1>4, <1>5
<1>7. ASSUME NEW k \in S PROVE k + 1 \in S
  <2> SUFFICES ASSUME k + 1 <= n PROVE RoundInv(g, q, k + 1, f[k + 1])
    OBVIOUS
  <2>1. k + 1 \in 1 .. n /\ k <= n /\ (k + 1) - 1 = k /\ k \in Nat /\ k < n
    BY <1>2
  <2>2. RoundInv(g, q, k, f[k]) /\ f[k + 1] = iterate(g, q, f[k], k + 1)
    BY <1>5, <2>1
  <2> QED
    BY <1>n, <2>1, <2>2, IterateFinds
<1> HIDE DEF S
<1>8. S = Nat
  BY <1>6, <1>7, Induction DEF S
<1> QED
  BY <1>1, <1>2, <1>8, <1>n DEF S

\* A sequence with as many elements as places repeats nothing.
LEMMA CountedInjective ==
    ASSUME NEW s \in Seq(Nat), Cardinality(ToSet(s)) = Len(s)
    PROVE  IsInjective(s)
<1> DEFINE D == 1 .. Len(s)
<1>1. DOMAIN s = D /\ Len(s) \in Nat
  BY LenProperties
<1>2. IsFiniteSet(D) /\ Cardinality(D) = Len(s)
  BY <1>1, IntervalSize
<1> HIDE DEF D
<1>3. s \in Surjection(D, ToSet(s))
  <2>1. s = [i \in D |-> s[i]]
    BY <1>1
  <2>2. s \in [D -> ToSet(s)]
    BY <1>1, <2>1 DEF ToSet
  <2> QED
    BY <1>1, <2>2 DEF Surjection, ToSet
<1>4. s \in Injection(D, ToSet(s))
  BY <1>2, <1>3, FS_Surjection
<1> QED
  BY <1>1, <1>4 DEF Injection, IsInjective

\* The walks of BestPathFound are walks.
LEMMA SimpleIsWalk ==
    ASSUME NEW g, CoreInv(g), NEW q, q.maxPathLength \in Nat, NEW w \in simplePaths(g, q)
    PROVE  /\ Walk(g, q, w, q.maxPathLength) /\ w[Len(w)] \in Numbers(g)
           /\ includePath(g, q, w[Len(w)], amountAlong(g, q, w))
<1>1. PICK n \in 1 .. (q.maxPathLength + 1) : w \in [1 .. n -> Numbers(g)]
  BY DEF simplePaths, Numbers
<1>2. /\ w[1] = g.assetStringToID[q.asset] /\ includePath(g, q, w[Len(w)], amountAlong(g, q, w))
      /\ Cardinality(ToSet(w)) = Len(w) /\ amountAlong(g, q, w) # NoTrade
  BY DEF simplePaths
<1>3. n \in Nat /\ n >= 1 /\ n \in 1 .. n
  OBVIOUS
<1>4. w \in Seq(Numbers(g)) /\ Len(w) = n
  BY <1>1, <1>3, ListOf
<1>5. w \in Seq(Nat)
  <2>1. w \in [1 .. n -> Nat]
    BY <1>1, NumbersAreNat
  <2> QED
    BY <1>3, <2>1, ListOf
<1>6. IsInjective(w)
  BY <1>2, <1>5, CountedInjective
<1>7. w[n] \in Numbers(g)
  BY <1>1, <1>3
<1> QED
  BY <1>1, <1>2, <1>4, <1>6, <1>7 DEF Walk

\* Nothing cannot be bought: from an amount of 0 there is no walk but the start.
LEMMA NothingIsSold ==
    ASSUME NEW g, CoreInv(g), NEW q, q.direction = "selling", Fits(g, q), q.amount = 0, NEW hops \in Nat,
           NEW w, Walk(g, q, w, hops)
    PROVE  Len(w) = 1
<1> DEFINE n == Len(w)
<1>1. n \in Nat \ {0} /\ w \in Seq(Numbers(g)) /\ amountAlong(g, q, w) # NoTrade
  BY DEF Walk
<1> SUFFICES ASSUME n # 1 PROVE FALSE
  OBVIOUS
<1>f. PICK f : Amounts(f, g, q, w)
  BY <1>1, AlongFacts
<1>2. f[n] # NoTrade /\ f[1] = 0 /\ Follows(g, q, w, f, n)
  BY <1>1, <1>f DEF Amounts, Follows
<1>3. 2 \in 1 .. n /\ 2 \in 2 .. n /\ 1 \in 1 .. n /\ 2 - 1 = 1
  <2>1. \A k \in Nat \ {0} : k # 1 => 2 \in 1 .. k /\ 2 \in 2 .. k /\ 1 \in 1 .. k
    OBVIOUS
  <2> HIDE DEF n
  <2> QED
    BY <1>1, <2>1
<1>4. w[1] \in Numbers(g) /\ w[2] \in Numbers(g)
  BY <1>1, <1>3, ElementOfSeq
<1> HIDE DEF n
<1>5. f[2] # NoTrade
  BY <1>1, <1>2, <1>3, AlongReaches
<1>6. f[2] = hop(g, q, w[1], w[2], 0)
  BY <1>2, <1>3 DEF Follows
<1> DEFINE V == venues(g, q, w[1])
<1>7. f[2] = bestTrade(q, w[1], 0, venuesAt(V, w[2]))
  BY <1>6 DEF hop, NoTrade
<1>8. CASE w[2] \in DOMAIN V
  <2>1. V[w[2]] \in VenuesRecord /\ venuesAt(V, w[2]) = V[w[2]] /\ sumFits(V[w[2]].offers)
    BY <1>4, <1>8, EdgeFacts DEF Fits
  <2>2. 1 \in Nat \ {0} /\ 1 \in Nat /\ 1 <= 1
    OBVIOUS
  <2>3. bestTrade(q, w[1], 0, V[w[2]]) = NoTrade
    BY <2>1, <2>2, TradeGrows
  <2> QED
    BY <1>5, <1>7, <2>1, <2>3
<1>9. CASE w[2] \notin DOMAIN V
  <2>1. venuesAt(V, w[2]) = NoVenues /\ NoVenues \in VenuesRecord /\ 0 \in Nat
    BY <1>9, NoVenuesIsVenues DEF venuesAt
  <2>2. bestTrade(q, w[1], 0, NoVenues) = NoTrade
    BY <2>1, VenueBest
  <2> QED
    BY <1>5, <1>7, <2>1, <2>2
<1> QED
  BY <1>8, <1>9

\* An asset that was not reached is not left.
Idle(g, s, results) ==
    /\ DOMAIN s = SearchFields /\ s.paths = results
    /\ \A id \in Numbers(g) : s.bestAmount[id] = 0 /\ s.updateAmount[id] = 0

\* A search for nothing ends with what it starts with.
LEMMA NothingIsSought ==
    ASSUME NEW g, CoreInv(g), NEW q, q.amount = 0, q.maxPathLength \in Nat
    PROVE  search(g, q).paths = searchStart(g, q).paths
<1> DEFINE n == q.maxPathLength
           m == Len(g.idToAssetString)
           s == searchStart(g, q)
           f == CHOOSE f : Rounds(f, g, q, s, n)
           S == {k \in Nat : k <= n => Idle(g, f[k], s.paths)}
<1>1. search(g, q) = f[n]
  BY DEF search, Rounds, searchStart
<1>2. Rounds(f, g, q, s, n)
  BY RoundsExist
<1>3. Idle(g, s, s.paths)
  BY DEF searchStart, Idle, SearchFields, Numbers
<1>4. m \in Nat /\ Numbers(g) = 1 .. m /\ n \in Nat
  BY NumbersAreNat
<1>i. \A t, i : iterate(g, q, t, i) = adopt((CHOOSE h : Sweep(h, g, q, i, t, m))[m])
  BY DEF iterate, Sweep
<1> HIDE DEF f, s, n, m
<1>5. f[0] = s /\ \A k \in 1 .. n : f[k] = iterate(g, q, f[k - 1], k)
  BY <1>2, <1>4 DEF Rounds
<1>6. ASSUME NEW t, NEW i, Idle(g, t, s.paths) PROVE Idle(g, iterate(g, q, t, i), s.paths)
  <2> DEFINE h == CHOOSE h : Sweep(h, g, q, i, t, m)
             T == {k \in Nat : k <= m => h[k] = t}
  <2>1. iterate(g, q, t, i) = adopt(h[m])
    BY <1>i
  <2>2. Sweep(h, g, q, i, t, m)
    BY <1>4, SweepExists
  <2> HIDE DEF h
  <2>3. h[0] = t /\ \A k \in 1 .. m : h[k] = relaxAll(g, q, i, h[k - 1], k)
    BY <1>4, <2>2 DEF Sweep
  <2>4. 0 \in T
    BY <2>3
  <2>5. ASSUME NEW k \in T PROVE k + 1 \in T
    <3> SUFFICES ASSUME k + 1 <= m PROVE h[k + 1] = t
      OBVIOUS
    <3>1. k + 1 \in 1 .. m /\ k <= m /\ (k + 1) - 1 = k
      BY <1>4
    <3>2. h[k + 1] = relaxAll(g, q, i, t, k + 1)
      BY <2>3, <3>1
    <3>3. t.bestAmount[k + 1] = 0
      BY <1>4, <1>6, <3>1 DEF Idle
    <3> QED
      BY <3>2, <3>3 DEF relaxAll
  <2> HIDE DEF T
  <2>6. T = Nat
    BY <2>4, <2>5, Induction DEF T
  <2>7. h[m] = t
    BY <1>4, <2>6 DEF T
  <2> DEFINE a == adopt(t)
  <2>8. DOMAIN a = SearchFields /\ a.bestAmount = t.updateAmount /\ a.updateAmount = t.updateAmount /\ a.paths = t.paths
    BY <1>6 DEF Idle, adopt, SearchFields
  <2> HIDE DEF a
  <2>9. Idle(g, a, s.paths)
    BY <1>6, <2>8 DEF Idle
  <2> QED
    BY <2>1, <2>7, <2>9 DEF a
<1>7. 0 \in S
  BY <1>3, <1>5
<1>8. ASSUME NEW k \in S PROVE k + 1 \in S
  <2> SUFFICES ASSUME k + 1 <= n PROVE Idle(g, f[k + 1], s.paths)
    OBVIOUS
  <2>1. k + 1 \in 1 .. n /\ k <= n /\ (k + 1) - 1 = k
    BY <1>4
  <2>2. Idle(g, f[k], s.paths) /\ f[k + 1] = iterate(g, q, f[k], k + 1)
    BY <1>5, <2>1
  <2> QED
    BY <1>6, <2>2
<1> HIDE DEF S
<1>9. S = Nat
  BY <1>7, <1>8, Induction DEF S
<1>10. Idle(g, f[n], s.paths)
  BY <1>4, <1>9 DEF S
<1> QED
  BY <1>1, <1>10 DEF Idle, s

\* Whatever is left out, one of the cheapest paths of each end is not.
LEMMA CheapestKept ==
    ASSUME NEW q, q.direction = "selling", NEW paths, \A p \in paths : p.sourceAmount \in Int /\ p.sourceAmount >= -1,
           NEW p \in paths
    PROVE  \E r \in sortAndFilterPaths(q, paths, 1) : r.source = p.source /\ r.sourceAmount <= p.sourceAmount
<1> DEFINE same == {r \in paths : r.source = p.source}
           amounts == {r.sourceAmount + 1 : r \in same}
<1>1. amounts \in SUBSET Nat /\ p.sourceAmount + 1 \in amounts
  OBVIOUS
<1>2. Min(amounts) \in amounts /\ \A y \in amounts : Min(amounts) <= y
  BY <1>1, LeastIn
<1>3. PICK r \in same : \A o \in same : r.sourceAmount + 1 <= o.sourceAmount + 1
  BY <1>2
<1>4. \A o \in same : r.sourceAmount <= o.sourceAmount /\ ~ (o.sourceAmount < r.sourceAmount)
  BY <1>3
<1>5. {o \in {x \in paths : x.source = r.source /\ x.destination = r.destination} :
          o.sourceAmount < r.sourceAmount} = {}
  BY <1>4
<1>6. Cardinality({}) = 0 /\ 0 < maxOf(1, 1)
  BY FS_EmptySet DEF maxOf
<1>7. r \in sortAndFilterPaths(q, paths, 1)
  BY <1>5, <1>6 DEF sortAndFilterPaths
<1> QED
  BY <1>4, <1>7

\* A result names the last asset of its path and what it costs.
LEMMA ResultNames ==
    ASSUME NEW g, CoreInv(g), NEW q, q.asset \in DOMAIN g.assetStringToID, q.direction = "selling",
           NEW ids, NEW amount, NEW hops \in Nat, Reached(g, q, ids, amount, hops, ids[Len(ids)]),
           NEW p, p = toPath(g, q, ids, amount)
    PROVE  p.source = g.idToAssetString[ids[Len(ids)]] /\ p.sourceAmount = amount
BY RoundTrip

\* The asset that was reached.
LEMMA ResultEnd ==
    ASSUME NEW g, CoreInv(g), NEW q, q.asset \in DOMAIN g.assetStringToID, q.direction = "selling",
           NEW ids, NEW amount, NEW hops \in Nat, NEW id, Reached(g, q, ids, amount, hops, id)
    PROVE  /\ toPath(g, q, ids, amount).source = g.idToAssetString[id]
           /\ toPath(g, q, ids, amount).sourceAmount = amount
<1>1. id = ids[Len(ids)]
  BY DEF Reached
<1> QED
  BY <1>1, ResultNames

\* What costs less is within the balance as well.
LEMMA WithinBalance ==
    ASSUME NEW g, CoreInv(g), NEW q, \A a \in DOMAIN q.targets : q.targets[a] \in Int,
           NEW id, NEW more \in Int, includePath(g, q, id, more), NEW less \in Int, less <= more
    PROVE  includePath(g, q, id, less)
<1>1. isTerminalNode(g, q, id)
  BY DEF includePath
<1>2. PICK a \in DOMAIN q.targets \cap DOMAIN g.assetStringToID : id = g.assetStringToID[a]
  BY <1>1 DEF isTerminalNode, targetIDs
<1>3. g.idToAssetString[id] = a
  BY <1>2, NameOfNumber DEF CoreInv
<1>4. q.targets[a] \in Int
  BY <1>2
<1>5. q.targets[a] >= more => q.targets[a] >= less
  BY <1>4
<1> QED
  BY <1>1, <1>3, <1>5 DEF includePath

\* Of every walk to a target the results have one with the same end that costs no more.
LEMMA ResultForWalk ==
    ASSUME NEW g, CoreInv(g), NEW q, q.direction = "selling", DOMAIN q = QueryFields,
           q.amount \in 0 .. MaxInt64, q.maxPathLength \in Nat, q.asset \in DOMAIN g.assetStringToID,
           \A a \in DOMAIN q.targets : q.targets[a] \in Int,
           Fits(g, q), ~ profitableCycle(g, q), NEW w, Walk(g, q, w, q.maxPathLength),
           w[Len(w)] \in Numbers(g), includePath(g, q, w[Len(w)], amountAlong(g, q, w))
    PROVE  \E p \in search(g, q).paths : /\ p.source = g.idToAssetString[w[Len(w)]]
                                         /\ p.sourceAmount <= amountAlong(g, q, w)
<1> DEFINE id == w[Len(w)]
           n == q.maxPathLength
           s == search(g, q)
<1>1. MaxInt64 \in Nat /\ q.amount \in Nat
  BY WidthAssumption
<1>2. CASE q.amount # 0
  <2>1. q.amount \in 1 .. MaxInt64
    BY <1>1, <1>2
  <2>2. Bargaining(g, q)
    BY <2>1 DEF Bargaining
  <2>3. RoundInv(g, q, n, s)
    BY <2>2, SearchCovers
  <2> DEFINE ids == s.updatePath[id]
             amount == s.updateAmount[id]
             p == toPath(g, q, ids, amount)
  <2>4. amount \in 1 .. amountAlong(g, q, w)
    <3>1. id \in Ends(g, q, n)
      BY DEF Ends, includePath
    <3> QED
      BY <2>3, <3>1 DEF RoundInv, Covers
  <2>5. Tables(g, q, s.updateAmount, s.updatePath, n) /\ amount \in 0 .. MaxInt64
    BY <2>3 DEF RoundInv, SearchInv, Tables
  <2>6. amountAlong(g, q, w) \in Int
    <3>1. Len(w) \in Nat \ {0} /\ amountAlong(g, q, w) # NoTrade
      BY DEF Walk
    <3>2. amountAlong(g, q, w) \in 0 .. MaxInt64
      BY <3>1, AlongSize
    <3> QED
      BY <1>1, <3>2
  <2>7. amount # 0 /\ amount <= amountAlong(g, q, w)
    BY <1>1, <2>4, <2>5, <2>6
  <2>c. includePath(g, q, id, amount)
    BY <2>5, <2>6, <2>7, WithinBalance
  <2>8. p \in s.paths
    BY <2>3, <2>7, <2>c DEF RoundInv, Listed
  <2>9. Reached(g, q, ids, amount, n, id)
    BY <2>5, <2>7 DEF Tables
  <2>10. p.source = g.idToAssetString[id] /\ p.sourceAmount = amount
    BY <2>9, ResultEnd
  <2> QED
    BY <2>7, <2>8, <2>10
<1>3. CASE q.amount = 0
  <2> DEFINE start == g.assetStringToID[q.asset]
             p == toPath(g, q, <<start>>, q.amount)
  <2>1. Len(w) = 1 /\ w[1] = start
    BY <1>3, NothingIsSold DEF Walk
  <2>2. amountAlong(g, q, w) = q.amount
    <3>1. PICK f : Amounts(f, g, q, w)
      <4>1. Len(w) \in Nat \ {0}
        BY <2>1
      <4> QED
        BY <4>1, AlongFacts
    <3> QED
      BY <2>1, <3>1 DEF Amounts
  <2>3. includePath(g, q, start, q.amount)
    BY <2>1, <2>2
  <2>4. s.paths = searchStart(g, q).paths
    BY <1>3, NothingIsSought
  <2>5. p \in s.paths
    BY <2>3, <2>4 DEF searchStart
  <2>6. Reached(g, q, <<start>>, q.amount, 0, start) /\ 0 \in Nat
    BY StartReached
  <2>7. p.source = g.idToAssetString[start] /\ p.sourceAmount = q.amount
    BY <2>6, ResultEnd
  <2> QED
    BY <1>1, <2>1, <2>2, <2>5, <2>7
<1> QED
  BY <1>2, <1>3

\* FindPaths returns a path for every walk that costs no more.
LEMMA NoneMissed ==
    ASSUME NEW g, CoreInv(g), NEW q, q.direction = "selling", DOMAIN q = QueryFields,
           q.amount \in 0 .. MaxInt64, q.maxPathLength \in Nat, q.asset \in DOMAIN g.assetStringToID,
           \A a \in DOMAIN q.targets : q.targets[a] \in Int,
           Fits(g, q), ~ profitableCycle(g, q), NEW w \in simplePaths(g, q)
    PROVE  \E p \in FindPaths(g, q, 1) : /\ p.source = g.idToAssetString[w[Len(w)]]
                                         /\ p.sourceAmount <= amountAlong(g, q, w)
<1> DEFINE paths == search(g, q).paths
           n == q.maxPathLength
<1>1. /\ Walk(g, q, w, n) /\ w[Len(w)] \in Numbers(g) /\ includePath(g, q, w[Len(w)], amountAlong(g, q, w))
  BY SimpleIsWalk
<1>2. PICK p \in paths : p.source = g.idToAssetString[w[Len(w)]] /\ p.sourceAmount <= amountAlong(g, q, w)
  BY <1>1, ResultForWalk
<1>3. ASSUME NEW r \in paths PROVE r.sourceAmount \in Int /\ r.sourceAmount >= -1
  <2>1. Found(g, q, r, n)
    BY SearchFinds
  <2>2. PICK ids, amount : r = toPath(g, q, ids, amount) /\ Reached(g, q, ids, amount, n, ids[Len(ids)])
    BY <2>1 DEF Found
  <2>3. r.sourceAmount = amount
    BY <2>2, ResultEnd
  <2>4. Len(ids) \in Nat \ {0} /\ amountAlong(g, q, ids) = amount
    BY <2>2 DEF Reached
  <2>5. amount \in 0 .. MaxInt64 \/ amount = NoTrade
    BY <2>4, AlongSize
  <2> QED
    BY <2>3, <2>5, WidthAssumption DEF NoTrade
<1>4. PICK r \in sortAndFilterPaths(q, paths, 1) : r.source = p.source /\ r.sourceAmount <= p.sourceAmount
  <2> HIDE DEF paths
  <2> QED
    BY <1>3, CheapestKept
<1>5. r \in FindPaths(g, q, 1) /\ r \in paths
  <2>1. targetIDs(g, q) # {}
    BY <1>1 DEF includePath, isTerminalNode
  <2> QED
    BY <1>4, <2>1 DEF FindPaths, sortAndFilterPaths
<1>6. amountAlong(g, q, w) \in Int
  <2>1. Len(w) \in Nat \ {0} /\ amountAlong(g, q, w) # NoTrade
    BY <1>1 DEF Walk
  <2>2. amountAlong(g, q, w) \in 0 .. MaxInt64
    BY <2>1, AlongSize
  <2> QED
    BY <2>2, WidthAssumption
<1>7. r.sourceAmount \in Int /\ p.sourceAmount \in Int
  BY <1>3, <1>5
<1>8. r.sourceAmount <= amountAlong(g, q, w) /\ r.source = g.idToAssetString[w[Len(w)]]
  BY <1>2, <1>4, <1>6, <1>7
<1> QED
  BY <1>5, <1>8

(***************************************************************************)
(* For all offers, pools, books and searches: as long as what the offers   *)
(* of a pair ask for together fits into an int64 (the sum that             *)
(* consumeOffersForSellingAsset does not check), FindPaths returns for     *)
(* every walk to an asset the sender holds, holds enough of where balances *)
(* count, a path from that asset that costs no more, unless the book lets  *)
(* an asset be turned into more of itself.                                 *)
(***************************************************************************)
THEOREM SearchIsBest == Spec => [](SumsFit => BestPathFound)
<1>1. BookInv => (SumsFit => BestPathFound)
  <2> SUFFICES ASSUME BookInv, SumsFit, NEW q \in Queries, q.direction = "selling",
                      q.asset \in DOMAIN graph.assetStringToID, ~ profitableCycle(graph, q),
                      NEW w \in simplePaths(graph, q)
               PROVE  \E p \in FindPaths(graph, q, 1) :
                         /\ p.source = graph.idToAssetString[w[Len(w)]]
                         /\ p.sourceAmount <= amountAlong(graph, q, w)
    BY DEF BestPathFound
  <2>1. CoreInv(graph)
    BY DEF BookInv
  <2>2. /\ DOMAIN q = QueryFields /\ q.amount \in 0 .. MaxInt64 /\ q.maxPathLength \in Nat
        /\ \A a \in DOMAIN q.targets : q.targets[a] \in Int
    BY QueriesAssumption DEF QueryFields
  <2>3. Fits(graph, q)
    <3> SUFFICES ASSUME NEW current \in Numbers(graph), NEW next \in DOMAIN graph.venuesForSellingAsset[current]
                 PROVE  sumFits(graph.venuesForSellingAsset[current][next].offers)
      BY DEF Fits, venues
    <3> DEFINE S == graph.venuesForSellingAsset
               v == <<current, next>>
    <3>1. current \in DOMAIN S
      BY <2>1, LenProperties DEF CoreInv, EdgesInv, NumbersInv, TableInv, Numbers
    <3>2. v \in venuesOf(S) /\ v[1] = current /\ v[2] = next
      BY <3>1 DEF venuesOf
    <3> QED
      BY <3>2 DEF SumsFit
  <2> QED
    BY <2>1, <2>2, <2>3, NoneMissed
<1> QED
  BY <1>1, BookInvariant, PTL
=============================================================================
