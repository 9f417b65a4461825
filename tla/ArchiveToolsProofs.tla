------------------------- MODULE ArchiveToolsProofs -------------------------
(***************************************************************************)
(* Theorems about ArchiveTools, for every number of goroutines, every      *)
(* archive, every choice of options and any number of commands and         *)
(* failures.                                                               *)
(***************************************************************************)
EXTENDS ArchiveTools, SequenceTheorems, WellFoundedInduction, TLAPS

(* The checkpoint arithmetic of historyarchive/range.go. *)

(* What division leaves. *)
LEMMA DivMod ==
    ASSUME NEW a \in Int, NEW n \in Nat \ {0}
    PROVE  a = n * (a \div n) + (a % n) /\ a % n \in 0 .. n - 1 /\ a \div n \in Int
OBVIOUS

(* Differences of multiples. *)
LEMMA MultipleDifference ==
    ASSUME NEW p \in Int, NEW q \in Int, NEW n \in Nat \ {0}
    PROVE  /\ n * p \in Int /\ n * q \in Int /\ n * (p - q) = n * p - n * q /\ p * n = n * p
           /\ p - q >= 1 => n * (p - q) >= n
           /\ p - q >= 0 => n * (p - q) >= 0
<1>1. \A k \in Int : k >= 1 => n * k >= n
  OBVIOUS
<1>2. \A k \in Int : k >= 0 => n * k >= 0
  OBVIOUS
<1>3. n * (p - q) = n * p - n * q /\ p * n = n * p /\ n * p \in Int /\ n * q \in Int
  OBVIOUS
<1>4. p - q \in Int
  OBVIOUS
<1> QED
  BY <1>1, <1>2, <1>3, <1>4

(* The multiple of n at or before a number. *)
Floor(a, n) == (a \div n) * n

(* It is the greatest one. *)
LEMMA FloorFacts ==
    ASSUME NEW a \in Nat, NEW n \in Nat \ {0}
    PROVE  /\ Floor(a, n) \in Nat /\ Floor(a, n) <= a /\ a < Floor(a, n) + n
           /\ \A b \in Nat : a <= b => Floor(a, n) <= Floor(b, n)
           /\ \A r \in 0 .. n - 1 : Floor(Floor(a, n) + r, n) = Floor(a, n)
<1>1. \A x \in Nat : /\ x \div n \in Int /\ x % n \in 0 .. n - 1 /\ Floor(x, n) \in Int
                     /\ Floor(x, n) = n * (x \div n) /\ x = Floor(x, n) + (x % n)
  <2> TAKE x \in Nat
  <2>1. x = n * (x \div n) + (x % n) /\ x % n \in 0 .. n - 1 /\ x \div n \in Int
    BY DivMod
  <2>2. Floor(x, n) = n * (x \div n) /\ Floor(x, n) \in Int
    BY <2>1, MultipleDifference DEF Floor
  <2> QED
    BY <2>1, <2>2
<1>2. \A x, y \in Nat : Floor(x, n) < Floor(y, n) + n => Floor(x, n) <= Floor(y, n)
  <2> TAKE x, y \in Nat
  <2> HAVE Floor(x, n) < Floor(y, n) + n
  <2>1. PICK k \in Int, m \in Int : Floor(x, n) = n * k /\ Floor(y, n) = n * m
    BY <1>1
  <2>2. /\ n * k \in Int /\ n * m \in Int /\ n * (k - m) = n * k - n * m /\ n * (m - k) = n * m - n * k
        /\ k - m >= 1 => n * (k - m) >= n
        /\ m - k >= 0 => n * (m - k) >= 0
    BY MultipleDifference
  <2>3. CASE k - m >= 1
    BY <2>1, <2>2, <2>3
  <2>4. CASE m - k >= 0
    BY <2>1, <2>2, <2>4
  <2> QED
    BY <2>3, <2>4
<1>3. \A x \in Nat : Floor(x, n) \in Nat
  <2> TAKE x \in Nat
  <2>1. x \div n \in Nat
    OBVIOUS
  <2>2. \A k \in Nat : k * n \in Nat
    OBVIOUS
  <2> QED
    BY <2>1, <2>2 DEF Floor
<1>4. \A x \in Nat : Floor(x, n) <= x /\ x < Floor(x, n) + n
  BY <1>1
<1>5. \A b \in Nat : a <= b => Floor(a, n) <= Floor(b, n)
  BY <1>2, <1>3, <1>4
<1>6. \A r \in 0 .. n - 1 : Floor(Floor(a, n) + r, n) = Floor(a, n)
  <2> TAKE r \in 0 .. n - 1
  <2> DEFINE c == Floor(a, n) + r
  <2>1. c \in Nat /\ Floor(a, n) <= c /\ c < Floor(a, n) + n
    BY <1>3
  <2>2. Floor(c, n) <= c /\ c < Floor(c, n) + n /\ Floor(c, n) \in Nat
    BY <1>3, <1>4, <2>1
  <2>3. Floor(a, n) < Floor(c, n) + n /\ Floor(c, n) < Floor(a, n) + n
    BY <1>3, <2>1, <2>2
  <2> HIDE DEF c
  <2>4. Floor(a, n) <= Floor(c, n) /\ Floor(c, n) <= Floor(a, n)
    BY <1>2, <2>1, <2>3
  <2>5. Floor(c, n) = Floor(a, n)
    BY <1>3, <2>1, <2>4
  <2> QED
    BY <2>5 DEF c
<1> QED
  BY <1>3, <1>4, <1>5, <1>6

(* The checkpoint at or after a ledger. *)
LEMMA NextFacts ==
    ASSUME NEW i \in Nat
    PROVE  /\ NextCheckpoint(i) \in Nat /\ i <= NextCheckpoint(i)
           /\ CheckpointFrequency - 1 <= NextCheckpoint(i)
           /\ NextCheckpoint(NextCheckpoint(i)) = NextCheckpoint(i)
           /\ \A j \in Nat : i <= j => NextCheckpoint(i) <= NextCheckpoint(j)
<1> DEFINE n == CheckpointFrequency
<1>1. n \in Nat \ {0}
  BY CheckpointAssumption
<1>2. \A x \in Nat : NextCheckpoint(x) = Floor(x + n, n) - 1
  <2>1. n \div n = 1 /\ 1 * n = n /\ 0 + n = n
    BY <1>1
  <2> QED
    BY <2>1 DEF NextCheckpoint, Floor
<1> HIDE DEF n
<1>3. \A x \in Nat : /\ x + n \in Nat /\ Floor(x + n, n) \in Nat /\ Floor(x + n, n) <= x + n
                     /\ x + n < Floor(x + n, n) + n
  BY <1>1, FloorFacts
<1>4. i <= Floor(i + n, n) - 1
  BY <1>1, <1>3
<1>5. ASSUME NEW j \in Nat, i <= j PROVE Floor(i + n, n) <= Floor(j + n, n)
  <2>1. i + n \in Nat /\ j + n \in Nat /\ i + n <= j + n
    BY <1>1, <1>5
  <2> QED
    BY <1>1, <2>1, FloorFacts
<1>6. n <= Floor(i + n, n)
  <2>1. Floor(n, n) = n
    BY <1>1 DEF Floor
  <2>2. n \in Nat /\ i + n \in Nat /\ n <= i + n
    BY <1>1
  <2> QED
    BY <1>1, <2>1, <2>2, FloorFacts
<1>7. Floor((Floor(i + n, n) - 1) + n, n) = Floor(i + n, n)
  <2>1. n - 1 \in 0 .. n - 1 /\ (Floor(i + n, n) - 1) + n = Floor(i + n, n) + (n - 1)
    BY <1>1, <1>3
  <2>2. Floor(Floor(i + n, n) + (n - 1), n) = Floor(i + n, n)
    BY <1>1, <1>3, <2>1, FloorFacts
  <2> QED
    BY <2>1, <2>2
<1>8. Floor(i + n, n) - 1 \in Nat
  BY <1>1, <1>3, <1>6
<1>9. NextCheckpoint(i) = Floor(i + n, n) - 1 /\ NextCheckpoint(i) \in Nat
  BY <1>2, <1>8
<1>10. NextCheckpoint(NextCheckpoint(i)) = NextCheckpoint(i)
  BY <1>2, <1>7, <1>9
<1>11. ASSUME NEW j \in Nat, i <= j PROVE NextCheckpoint(i) <= NextCheckpoint(j)
  BY <1>2, <1>3, <1>5, <1>11
<1>12. n - 1 <= NextCheckpoint(i)
  BY <1>1, <1>3, <1>6, <1>9
<1> QED
  BY <1>4, <1>9, <1>10, <1>11, <1>12 DEF n

(* The checkpoint at or before a ledger that is not before 63. *)
LEMMA PrevFacts ==
    ASSUME NEW x \in Nat, 63 <= x
    PROVE  /\ PrevCheckpoint(x) \in Nat
           /\ PrevCheckpoint(x) <= x \/ PrevCheckpoint(x) = CheckpointFrequency - 1
           /\ PrevCheckpoint(IF PrevCheckpoint(x) < 63 THEN 63 ELSE PrevCheckpoint(x)) = PrevCheckpoint(x)
<1> DEFINE n == CheckpointFrequency
           f == Floor(x + 1, n)
<1>1. n \in Nat \ {0}
  BY CheckpointAssumption
<1>2. \A y \in Nat : PrevCheckpoint(y) = IF y < n THEN n - 1 ELSE Floor(y + 1, n) - 1
  BY DEF PrevCheckpoint, Floor
<1>3. Floor(n, n) = n
  BY <1>1 DEF Floor
<1> HIDE DEF n
<1>4. x + 1 \in Nat /\ f \in Nat /\ f <= x + 1
  BY <1>1, FloorFacts
<1>5. Floor(f, n) = f
  <2>1. Floor(f + 0, n) = f
    BY <1>1, <1>4, FloorFacts
  <2> QED
    BY <1>4, <2>1
<1>6. x >= n => f >= n
  <2>1. n \in Nat /\ (x >= n => n <= x + 1)
    BY <1>1
  <2> QED
    BY <1>1, <1>3, <1>4, <2>1, FloorFacts
<1>7. f <= 64 => Floor(64, n) = f
  <2>1. 64 \in Nat /\ 64 <= x + 1
    OBVIOUS
  <2>2. Floor(64, n) <= f /\ Floor(64, n) \in Nat
    BY <1>1, <1>4, <2>1, FloorFacts
  <2>3. f <= 64 => f <= Floor(64, n)
    BY <1>1, <1>4, <1>5, <2>1, FloorFacts
  <2> QED
    BY <1>4, <2>2, <2>3
<1> HIDE DEF f
<1>8. CASE x < n
  <2>1. PrevCheckpoint(x) = n - 1 /\ ~(n - 1 < 63) /\ n - 1 \in Nat /\ n - 1 < n
    BY <1>1, <1>2, <1>8
  <2> QED
    BY <1>2, <2>1 DEF n
<1>9. CASE ~(x < n)
  <2>1. PrevCheckpoint(x) = f - 1 /\ f >= n /\ f - 1 \in Nat /\ f - 1 <= x
    BY <1>1, <1>2, <1>4, <1>6, <1>9 DEF f
  <2>2. CASE f - 1 < 63
    <3>1. PrevCheckpoint(63) = Floor(64, n) - 1
      BY <1>1, <1>2, <1>4, <2>1, <2>2
    <3>2. Floor(64, n) = f
      BY <1>4, <1>7, <2>2
    <3> QED
      BY <2>1, <2>2, <3>1, <3>2
  <2>3. CASE ~(f - 1 < 63)
    <3>1. CASE f - 1 < n
      <4>1. PrevCheckpoint(f - 1) = n - 1 /\ f = n
        BY <1>1, <1>2, <1>4, <2>1, <3>1
      <4> QED
        BY <2>1, <2>3, <4>1
    <3>2. CASE ~(f - 1 < n)
      <4>1. PrevCheckpoint(f - 1) = Floor((f - 1) + 1, n) - 1 /\ (f - 1) + 1 = f
        BY <1>2, <1>4, <2>1, <3>2
      <4> QED
        BY <1>5, <2>1, <2>3, <4>1
    <3> QED
      BY <3>1, <3>2
  <2> QED
    BY <2>1, <2>2, <2>3
<1> QED
  BY <1>8, <1>9

(* clamp settles a range, *)
LEMMA ClampSettles ==
    ASSUME NEW r \in [Low : Nat, High : Nat], NEW root \in Nat
    PROVE  /\ clamp(r, RootRange(root)) \in [Low : Nat, High : Nat]
           /\ Settled(clamp(r, RootRange(root)))
<1> DEFINE l == IF r.Low < 63 THEN 63 ELSE r.Low
           m == IF r.High > root THEN root ELSE r.High
           h == IF m < l THEN l ELSE m
<1>1. l \in Nat /\ h \in Nat /\ 63 <= l /\ l <= h
  OBVIOUS
<1>2. clamp(r, RootRange(root)) = [Low |-> PrevCheckpoint(l), High |-> NextCheckpoint(h)]
  BY DEF clamp, RootRange, MakeRange
<1> HIDE DEF l, h
<1>3. /\ PrevCheckpoint(l) \in Nat /\ NextCheckpoint(h) \in Nat
      /\ PrevCheckpoint(IF PrevCheckpoint(l) < 63 THEN 63 ELSE PrevCheckpoint(l)) = PrevCheckpoint(l)
      /\ NextCheckpoint(NextCheckpoint(h)) = NextCheckpoint(h)
      /\ h <= NextCheckpoint(h)
  BY <1>1, PrevFacts, NextFacts
<1>4. PrevCheckpoint(l) <= NextCheckpoint(h)
  <2>1. /\ PrevCheckpoint(l) <= l \/ PrevCheckpoint(l) = CheckpointFrequency - 1
        /\ CheckpointFrequency - 1 <= NextCheckpoint(h)
    BY <1>1, PrevFacts, NextFacts
  <2> QED
    BY <1>1, <1>3, <2>1
<1>5. 63 <= NextCheckpoint(h)
  BY <1>1, <1>3
<1> QED
  BY <1>2, <1>3, <1>4, <1>5 DEF Settled

(* and clamping a settled range narrows it. *)
LEMMA ClampNarrows ==
    ASSUME NEW r \in [Low : Nat, High : Nat], NEW root \in Nat, Settled(r)
    PROVE  GenerateCheckpoints(clamp(r, RootRange(root))) \subseteq GenerateCheckpoints(r)
<1> DEFINE l == IF r.Low < 63 THEN 63 ELSE r.Low
           m == IF r.High > root THEN root ELSE r.High
           h == IF m < l THEN l ELSE m
<1>1. h \in Nat /\ h <= r.High
  BY DEF Settled
<1>2. clamp(r, RootRange(root)) = [Low |-> PrevCheckpoint(l), High |-> NextCheckpoint(h)]
  BY DEF clamp, RootRange, MakeRange
<1>3. PrevCheckpoint(l) = r.Low
  BY DEF Settled
<1> HIDE DEF l, h
<1>4. NextCheckpoint(h) \in Nat /\ NextCheckpoint(h) <= r.High
  <2>1. NextCheckpoint(h) <= NextCheckpoint(r.High)
    BY <1>1, NextFacts
  <2> QED
    BY <1>1, <2>1, NextFacts DEF Settled
<1> QED
  BY <1>2, <1>3, <1>4 DEF GenerateCheckpoints
-----------------------------------------------------------------------------
(* Sequences and sets of files. *)

(* The least of a set of numbers is in it. *)
LEMMA MinIn ==
    ASSUME NEW S \in SUBSET Nat, S # {}
    PROVE  Min(S) \in S
<1> DEFINE R == OpToRel(<, Nat)
<1>1. IsWellFoundedOn(R, Nat)
  BY NatLessThanWellFounded
<1>2. \A x, y \in Nat : y < x => <<y, x>> \in R
  BY DEF OpToRel
<1> HIDE DEF R
<1>3. PICK x \in S : \A y \in S : ~(<<y, x>> \in R)
  BY <1>1, WFMin
<1>4. \A y \in S : x <= y
  <2> TAKE y \in S
  <2>1. x \in Nat /\ y \in Nat
    OBVIOUS
  <2>2. ~(y < x)
    BY <1>2, <1>3, <2>1
  <2> QED
    BY <2>1, <2>2
<1> QED
  BY <1>3, <1>4 DEF Min

(* The elements of two sequences put together. *)
LEMMA ConcatSet ==
    ASSUME NEW S, NEW s \in Seq(S), NEW t \in Seq(S)
    PROVE  s \o t \in Seq(S) /\ ToSet(s \o t) = ToSet(s) \cup ToSet(t)
<1>1. /\ s \o t \in Seq(S) /\ Len(s \o t) = Len(s) + Len(t)
      /\ \A i \in 1 .. Len(s) + Len(t) : (s \o t)[i] = IF i <= Len(s) THEN s[i] ELSE t[i - Len(s)]
  BY ConcatProperties
<1>2. /\ DOMAIN s = 1 .. Len(s) /\ DOMAIN t = 1 .. Len(t) /\ Len(s) \in Nat /\ Len(t) \in Nat
      /\ DOMAIN (s \o t) = 1 .. Len(s) + Len(t)
  BY <1>1, LenProperties
<1>3. \A i \in 1 .. Len(s) : i \in 1 .. Len(s) + Len(t) /\ (s \o t)[i] = s[i]
  BY <1>1, <1>2
<1>4. \A i \in 1 .. Len(t) : i + Len(s) \in 1 .. Len(s) + Len(t) /\ (s \o t)[i + Len(s)] = t[i]
  BY <1>1, <1>2
<1>5. \A i \in 1 .. Len(s) + Len(t) :
        i \in 1 .. Len(s) \/ (i - Len(s) \in 1 .. Len(t) /\ i = (i - Len(s)) + Len(s))
  BY <1>2
<1>6. ASSUME NEW x \in ToSet(s \o t) PROVE x \in ToSet(s) \cup ToSet(t)
  <2>1. PICK i \in 1 .. Len(s) + Len(t) : x = (s \o t)[i]
    BY <1>2 DEF ToSet
  <2> QED
    BY <1>2, <1>3, <1>4, <1>5, <2>1 DEF ToSet
<1>7. ToSet(s) \subseteq ToSet(s \o t) /\ ToSet(t) \subseteq ToSet(s \o t)
  BY <1>2, <1>3, <1>4 DEF ToSet
<1> QED
  BY <1>1, <1>6, <1>7

(* The elements of a sequence whose head is taken. *)
LEMMA TailSet ==
    ASSUME NEW S, NEW s \in Seq(S), s # <<>>
    PROVE  /\ Head(s) \in S /\ Tail(s) \in Seq(S) /\ Head(s) \in ToSet(s)
           /\ ToSet(s) = {Head(s)} \cup ToSet(Tail(s))
<1>1. /\ Head(s) \in S /\ Tail(s) \in Seq(S) /\ Len(Tail(s)) = Len(s) - 1
      /\ \A i \in 1 .. Len(Tail(s)) : Tail(s)[i] = s[i + 1]
  BY HeadTailProperties
<1>2. /\ DOMAIN s = 1 .. Len(s) /\ DOMAIN Tail(s) = 1 .. (Len(s) - 1)
      /\ Len(s) \in Nat /\ Len(s) # 0 /\ Head(s) = s[1]
  BY <1>1, LenProperties, EmptySeq
<1>3. \A i \in 1 .. (Len(s) - 1) : i + 1 \in 1 .. Len(s) /\ Tail(s)[i] = s[i + 1]
  BY <1>1, <1>2
<1>4. \A i \in 1 .. Len(s) : i = 1 \/ (i - 1 \in 1 .. (Len(s) - 1) /\ (i - 1) + 1 = i)
  BY <1>2
<1>5. ASSUME NEW x \in ToSet(s) PROVE x \in {Head(s)} \cup ToSet(Tail(s))
  <2>1. PICK i \in 1 .. Len(s) : x = s[i]
    BY <1>2 DEF ToSet
  <2>2. CASE i - 1 \in 1 .. (Len(s) - 1)
    <3>1. Tail(s)[i - 1] = x
      BY <1>3, <1>4, <2>1, <2>2
    <3> QED
      BY <1>2, <2>2, <3>1 DEF ToSet
  <2> QED
    BY <1>2, <1>4, <2>1, <2>2
<1>6. ToSet(Tail(s)) \subseteq ToSet(s)
  BY <1>2, <1>3 DEF ToSet
<1>7. Head(s) \in ToSet(s)
  BY <1>2 DEF ToSet
<1> QED
  BY <1>1, <1>5, <1>6, <1>7

(* A path names a category's file or a bucket, never both. *)
LEMMA PathFacts ==
    /\ \A c \in Categories, k \in Chks : CategoryCheckpointPath(c, k) \in Files
    /\ CategoryFiles \subseteq Files
    /\ \A b \in BucketIds : BucketPath(b) \in Files
    /\ \A b : IsBucket(BucketPath(b)) /\ BucketPath(b)[1] = "bucket" /\ BucketPath(b)[2] = b
    /\ \A f \in CategoryFiles : ~IsBucket(f) /\ f[1] \in Categories /\ f[2] \in Chks
    /\ \A c, k : CategoryCheckpointPath(c, k)[1] = c /\ CategoryCheckpointPath(c, k)[2] = k
    /\ \A k \in Chks : \A b \in ToSet(BucketsOf[k]) : b \in BucketIds
BY DEF CategoryCheckpointPath, BucketPath, Files, CategoryFiles, IsBucket, BucketIds, Categories, Required

\* The files of a checkpoint are the buckets of its HAS and its own.
HasFiles(ix) ==
    /\ FilesOf(ix) \in Seq(Files)
    /\ \A f \in ToSet(FilesOf(ix)) : ~IsBucket(f) => f[2] = ix
    /\ \A c \in Required : CategoryCheckpointPath(c, ix) \in ToSet(FilesOf(ix))
    /\ \A b \in ToSet(BucketsOf[ix]) : BucketPath(b) \in ToSet(FilesOf(ix))

(* Whatever the options, Mirror goes through these. *)
LEMMA FilesOfFacts == \A ix \in Chks : HasFiles(ix)
<1> TAKE ix \in Chks
<1> DEFINE bs == [i \in 1 .. Len(BucketsOf[ix]) |-> BucketPath(BucketsOf[ix][i])]
           own == <<CategoryCheckpointPath("history", ix), CategoryCheckpointPath("ledger", ix)>>
           opt == IF opts.SkipOptional THEN <<>> ELSE <<CategoryCheckpointPath("scp", ix)>>
<1>1. BucketsOf[ix] \in Seq(Nat) /\ Len(BucketsOf[ix]) \in Nat /\ DOMAIN BucketsOf[ix] = 1 .. Len(BucketsOf[ix])
  BY ToolsAssumption
<1>2. \A i \in 1 .. Len(BucketsOf[ix]) : BucketsOf[ix][i] \in ToSet(BucketsOf[ix])
  BY <1>1 DEF ToSet
<1>3. bs \in Seq(Files)
  BY <1>1, <1>2, PathFacts
<1>4. own \in Seq(Files) /\ opt \in Seq(Files)
  <2>1. \A c \in Categories : CategoryCheckpointPath(c, ix) \in Files
    BY PathFacts
  <2>2. "history" \in Categories /\ "ledger" \in Categories /\ "scp" \in Categories
    BY DEF Categories, Required
  <2> QED
    BY <2>1, <2>2
<1>5. ToSet(bs) = {BucketPath(b) : b \in ToSet(BucketsOf[ix])}
  BY <1>1, <1>2 DEF ToSet
<1>6. /\ ToSet(own) = {CategoryCheckpointPath("history", ix), CategoryCheckpointPath("ledger", ix)}
      /\ ToSet(opt) \subseteq {CategoryCheckpointPath("scp", ix)}
  BY DEF ToSet
<1>7. FilesOf(ix) = (bs \o own) \o opt
  BY DEF FilesOf
<1> HIDE DEF bs, own, opt
<1>8. bs \o own \in Seq(Files) /\ ToSet(bs \o own) = ToSet(bs) \cup ToSet(own)
  BY <1>3, <1>4, ConcatSet
<1>9. FilesOf(ix) \in Seq(Files) /\ ToSet(FilesOf(ix)) = ToSet(bs \o own) \cup ToSet(opt)
  <2>1. PICK both \in Seq(Files) : both = bs \o own
    BY <1>8
  <2>2. both \o opt \in Seq(Files) /\ ToSet(both \o opt) = ToSet(both) \cup ToSet(opt)
    BY <1>4, ConcatSet
  <2> QED
    BY <1>7, <2>1, <2>2
<1> QED
  BY <1>5, <1>6, <1>8, <1>9, PathFacts DEF Required, HasFiles

(* So it does after a step. *)
LEMMA FilesOfNext == (\A ix \in Chks : HasFiles(ix))'
BY FilesOfFacts, PTL

(* What copyPath does to the destination. *)
LEMMA CopyFacts ==
    ASSUME ToolsTypeOK, NEW f \in Files, NEW failed \in BOOLEAN, copyPath(f, failed), opts \in OptionRecord
    PROVE  /\ dst' \in [Files -> {"none", "partial", "whole"}]
           /\ \A g \in Files : g # f => dst'[g] = dst[g]
           /\ \A g \in Files : dst[g] # "none" => dst'[g] # "none"
           /\ dst'[f] \in {dst[f], "partial", "whole"}
           /\ ~failed => dst'[f] \in {dst[f], "whole"}
           /\ ~failed /\ ~opts.DryRun => dst'[f] = "whole" \/ (dst'[f] = dst[f] /\ dst[f] # "none" /\ ~opts.Force)
BY DEF copyPath, ToolsTypeOK, OptionRecord
-----------------------------------------------------------------------------
(* The beginning and the end of a command. *)

(* The invariant holds at the start. *)
LEMMA ToolsInit == Init => ToolsInv
<1> SUFFICES ASSUME Init PROVE ToolsInv
  OBVIOUS
<1>1. /\ canList \in BOOLEAN /\ dstRoot \in {0, SrcRoot} /\ dst \in [Files -> {"none", "partial", "whole"}]
      /\ checkpointFiles = {} /\ allBuckets = {} /\ referencedBuckets = {}
      /\ cmd = None /\ stage = "idle" /\ jobs = {} /\ probes = {} /\ doList = FALSE
      /\ todo = Idle /\ copying = NoCopy /\ bucketFetch = {}
      /\ repairedHistory = FALSE /\ errs = FALSE /\ result = None
  BY DEF Init
<1>2. /\ todo \in [Workers -> Seq(Files)] /\ copying \in [Workers -> Files \cup {None}]
      /\ \A w \in Workers : todo[w] = <<>> /\ copying[w] = None
  BY <1>1 DEF Idle, NoCopy
<1>3. ToolsTypeOK
  BY <1>1, <1>2 DEF ToolsTypeOK, Stages
<1>4. StageInv /\ RangeInv /\ JobsInv
  BY <1>1, ToolsAssumption DEF StageInv, RangeInv, JobsInv
<1>5. WorkInv
  BY <1>1, <1>2 DEF WorkInv, NoSharedWrites, ToSet
<1>6. MirrorInv /\ FilesInv
  BY <1>1 DEF MirrorInv, FilesInv
<1>7. ScanInv
  BY <1>1, ToolsAssumption DEF ScanInv, ListedInv, RepairInv, ReadInv, VerifyInv, FreshInv, AtBuckets
<1>8. CompleteOnSuccess /\ ScanTellsTruth
  BY <1>1 DEF CompleteOnSuccess, ScanTellsTruth, Ended
<1> QED
  BY <1>3, <1>4, <1>5, <1>6, <1>7, <1>8 DEF ToolsInv, ControlInv

(* Nothing is under way. *)
LEMMA IdleNext ==
    ASSUME cmd' = None, stage' = "idle", jobs' = {}, probes' = {}, doList' = FALSE,
           todo' = Idle, copying' = NoCopy, bucketFetch' = {},
           repairedHistory' = FALSE, errs' = FALSE, canList' \in BOOLEAN, dstRoot' \in {0, SrcRoot},
           dst' \in [Files -> {"none", "partial", "whole"}], checkpointFiles' \subseteq CategoryFiles,
           allBuckets' \subseteq BucketIds, referencedBuckets' \subseteq BucketIds,
           \A f \in checkpointFiles' : dst'[f] # "none",
           \A b \in allBuckets' : dst'[BucketPath(b)] # "none",
           CompleteOnSuccess', ScanTellsTruth'
    PROVE  ToolsInv'
<1>1. /\ todo' \in [Workers -> Seq(Files)] /\ copying' \in [Workers -> Files \cup {None}]
      /\ \A w \in Workers : todo'[w] = <<>> /\ copying'[w] = None
  BY DEF Idle, NoCopy
<1>2. ToolsTypeOK'
  BY <1>1 DEF ToolsTypeOK, Stages
<1>3. StageInv' /\ RangeInv' /\ JobsInv'
  BY ToolsAssumption DEF StageInv, RangeInv, JobsInv, Idle, NoCopy
<1>4. WorkInv'
  BY <1>1 DEF WorkInv, NoSharedWrites, ToSet
<1>5. MirrorInv' /\ FilesInv'
  BY DEF MirrorInv, FilesInv, BucketPath
<1>6. ScanInv'
  BY ToolsAssumption DEF ScanInv, ListedInv, RepairInv, ReadInv, VerifyInv, FreshInv, AtBuckets
<1> QED
  BY <1>2, <1>3, <1>4, <1>5, <1>6 DEF ToolsInv, ControlInv

(* A command that returns with what it promises. *)
LEMMA FinishKeeps ==
    ASSUME ToolsInv, NEW failed, NEW missing, Finish(failed, missing),
           UNCHANGED <<fixed, dst, archive>>, dstRoot' \in {0, SrcRoot},
           CompleteOnSuccess', ScanTellsTruth'
    PROVE  ToolsInv'
<1>1. /\ cmd' = None /\ stage' = "idle" /\ jobs' = {} /\ probes' = {} /\ doList' = FALSE
      /\ todo' = Idle /\ copying' = NoCopy /\ bucketFetch' = {}
      /\ repairedHistory' = FALSE /\ errs' = FALSE
      /\ UNCHANGED <<dst, canList, checkpointFiles, allBuckets, referencedBuckets>>
  BY DEF Finish, fixed, archive
<1>2. /\ canList \in BOOLEAN /\ dst \in [Files -> {"none", "partial", "whole"}]
      /\ checkpointFiles \subseteq CategoryFiles
      /\ allBuckets \subseteq BucketIds /\ referencedBuckets \subseteq BucketIds
      /\ \A f \in checkpointFiles : dst[f] # "none"
      /\ \A b \in allBuckets : dst[BucketPath(b)] # "none"
  BY DEF ToolsInv, ControlInv, ToolsTypeOK, FilesInv
<1> QED
  BY <1>1, <1>2, IdleNext

(* A command that returns an error promises nothing. *)
LEMMA FailedKeeps ==
    ASSUME ToolsInv, NEW missing, Finish(TRUE, missing), UNCHANGED <<fixed, dst, archive>>,
           dstRoot' \in {0, SrcRoot}
    PROVE  ToolsInv'
<1>1. result' = [cmd |-> cmd, opts |-> opts, failed |-> TRUE, missing |-> missing]
  BY DEF Finish
<1>2. CompleteOnSuccess' /\ ScanTellsTruth'
  BY <1>1 DEF CompleteOnSuccess, ScanTellsTruth
<1> QED
  BY <1>2, FinishKeeps

(* The process dies. *)
LEMMA CrashKeeps ==
    ASSUME ToolsInv, Crash
    PROVE  ToolsInv'
<1>1. /\ cmd' = None /\ stage' = "idle" /\ jobs' = {} /\ probes' = {} /\ doList' = FALSE
      /\ todo' = Idle /\ copying' = NoCopy /\ bucketFetch' = {}
      /\ repairedHistory' = FALSE /\ errs' = FALSE /\ result' = None
      /\ checkpointFiles' = {} /\ allBuckets' = {} /\ referencedBuckets' = {}
      /\ UNCHANGED <<canList, dstRoot>>
  BY DEF Crash, Dies, fixed
<1>2. canList \in BOOLEAN /\ dstRoot \in {0, SrcRoot} /\ dst \in [Files -> {"none", "partial", "whole"}]
  BY DEF ToolsInv, ControlInv, ToolsTypeOK
<1>3. PICK cut \in {{}} \cup {{f} : f \in Writing} :
        dst' = [f \in Files |-> IF f \in cut THEN "partial" ELSE dst[f]]
  BY DEF Crash
<1>4. dst' \in [Files -> {"none", "partial", "whole"}]
  BY <1>2, <1>3
<1>5. CompleteOnSuccess' /\ ScanTellsTruth'
  BY <1>1 DEF CompleteOnSuccess, ScanTellsTruth, Ended
<1> QED
  BY <1>1, <1>2, <1>4, <1>5, IdleNext

(* A command begins, with an old Archive or a new one. *)
LEMMA BeginKeeps ==
    ASSUME ToolsInv, NEW c \in {"mirror", "scan", "repair"}, NEW o \in OptionRecord, Begin(c, o),
           c = "mirror" => stage' = "copy" /\ jobs' = GenerateCheckpoints(o.Range),
           c # "mirror" => stage' = "root" /\ jobs' = jobs,
           c # "scan" => GenerateCheckpoints(o.Range) \subseteq Chks,
           c = "repair" => Settled(o.Range),
           c = "scan" => o \in Options
    PROVE  ToolsInv'
<1>1. /\ cmd = None /\ cmd' = c /\ opts' = o /\ result' = None /\ c # None
      /\ UNCHANGED <<canList, dst, dstRoot, probes, doList, todo, copying, bucketFetch, repairedHistory, errs>>
  BY ToolsAssumption DEF Begin, fixed, mirror
<1>2. /\ before'.dst = dst
      /\ before'.fresh => checkpointFiles' = {} /\ referencedBuckets' = {}
  BY DEF Begin
<1>3. \/ UNCHANGED <<checkpointFiles, allBuckets, referencedBuckets>>
      \/ checkpointFiles' = {} /\ allBuckets' = {} /\ referencedBuckets' = {}
  BY DEF Begin, archive
<1>4. ToolsTypeOK /\ StageInv /\ JobsInv /\ WorkInv /\ FilesInv
  BY DEF ToolsInv, ControlInv
<1>5. /\ stage = "idle" /\ jobs = {} /\ ~errs /\ ~doList /\ ~repairedHistory /\ probes = {}
      /\ todo = Idle /\ copying = NoCopy /\ bucketFetch = {}
  BY <1>1, <1>4, ToolsAssumption DEF StageInv, JobsInv
<1>6. \A w \in Workers : todo[w] = <<>> /\ copying[w] = None
  BY <1>5 DEF Idle, NoCopy
<1>7. ToolsTypeOK'
  BY <1>1, <1>3, <1>4 DEF ToolsTypeOK, Stages
<1>8. StageInv'
  BY <1>1, <1>5 DEF StageInv, Idle, NoCopy
<1>9. RangeInv' /\ JobsInv'
  BY <1>1, <1>5 DEF RangeInv, JobsInv, InRange
<1>10. WorkInv'
  BY <1>1, <1>6 DEF WorkInv, NoSharedWrites, ToSet
<1>11. MirrorInv'
  <2>1. ASSUME c = "mirror", NEW f \in Needed(o.Range) PROVE \E ix \in jobs' : f \in ToSet(FilesOf(ix))'
    <3>1. jobs' = GenerateCheckpoints(o.Range) /\ GenerateCheckpoints(o.Range) \subseteq Chks
      BY <2>1
    <3>2. \A ix \in jobs' : HasFiles(ix)'
      BY <3>1, FilesOfNext
    <3>3. CASE f \in Required \X GenerateCheckpoints(o.Range)
      <4>1. f[1] \in Required /\ f[2] \in jobs' /\ f = CategoryCheckpointPath(f[1], f[2])
        BY <3>1, <3>3 DEF CategoryCheckpointPath
      <4> QED
        BY <3>2, <4>1 DEF HasFiles
    <3>4. CASE f \in {BucketPath(b) : b \in UNION {ToSet(BucketsOf[k]) : k \in GenerateCheckpoints(o.Range)}}
      <4>1. PICK k \in GenerateCheckpoints(o.Range) : \E b \in ToSet(BucketsOf[k]) : f = BucketPath(b)
        BY <3>4
      <4> QED
        BY <3>1, <3>2, <4>1 DEF HasFiles
    <3> QED
      BY <2>1, <3>3, <3>4 DEF Needed
  <2> QED
    BY <1>1, <1>5, <2>1 DEF MirrorInv
<1>12. FilesInv'
  BY <1>1, <1>2, <1>3, <1>4 DEF FilesInv, BucketPath
<1>13. ListedInv' /\ RepairInv' /\ ReadInv'
  BY <1>1, <1>5 DEF ListedInv, RepairInv, ReadInv, AtBuckets, AfterScan
<1>14. VerifyInv' /\ FreshInv'
  BY <1>1, <1>2 DEF VerifyInv, FreshInv, AtBuckets, AfterScan
<1>15. CompleteOnSuccess' /\ ScanTellsTruth'
  BY <1>1 DEF CompleteOnSuccess, ScanTellsTruth, Ended
<1> QED
  BY <1>7, <1>8, <1>9, <1>10, <1>11, <1>12, <1>13, <1>14, <1>15 DEF ToolsInv, ControlInv, ScanInv

(* The three commands. *)
LEMMA CommandKeeps ==
    ASSUME ToolsInv, Mirror \/ Scan \/ Repair
    PROVE  ToolsInv'
<1>1. SrcRoot \in Nat /\ dstRoot \in {0, SrcRoot}
  BY ToolsAssumption DEF ToolsInv, ControlInv, ToolsTypeOK
<1>2. \A o \in Options : o \in OptionRecord /\ o.Range \in [Low : Nat, High : Nat]
  BY ToolsAssumption DEF OptionRecord
<1>3. ASSUME NEW o \in Options, NEW r \in [Low : Nat, High : Nat]
      PROVE  [o EXCEPT !.Range = r] \in OptionRecord /\ [o EXCEPT !.Range = r].Range = r
  BY <1>2 DEF OptionRecord
<1>4. ASSUME NEW o \in Options, NEW r, r = clamp(o.Range, RootRange(SrcRoot))
      PROVE  r \in [Low : Nat, High : Nat] /\ Settled(r) /\ GenerateCheckpoints(r) \subseteq Chks
  BY <1>1, <1>2, <1>4, ClampSettles, ToolsAssumption
<1>5. CASE Mirror
  <2>1. PICK o \in Options : LET r == clamp(o.Range, RootRange(SrcRoot))
                             IN /\ Begin("mirror", [o EXCEPT !.Range = r])
                                /\ stage' = "copy" /\ jobs' = GenerateCheckpoints(r)
    BY <1>5 DEF Mirror
  <2>2. PICK r : r = clamp(o.Range, RootRange(SrcRoot))
    OBVIOUS
  <2>3. r \in [Low : Nat, High : Nat] /\ GenerateCheckpoints(r) \subseteq Chks
    BY <1>4, <2>2
  <2>4. PICK p \in OptionRecord : p = [o EXCEPT !.Range = r] /\ p.Range = r
    BY <1>3, <2>3
  <2>5. Begin("mirror", p) /\ stage' = "copy" /\ jobs' = GenerateCheckpoints(p.Range)
    BY <2>1, <2>2, <2>4
  <2> QED
    BY <2>3, <2>4, <2>5, BeginKeeps
<1>6. CASE Scan
  <2>1. PICK o \in Options : Begin("scan", o)
    BY <1>6 DEF Scan
  <2>2. stage' = "root" /\ jobs' = jobs
    BY <1>6 DEF Scan
  <2> QED
    BY <1>2, <2>1, <2>2, BeginKeeps
<1>7. CASE Repair
  <2>1. dstRoot = SrcRoot /\ stage' = "root" /\ jobs' = jobs
    BY <1>1, <1>7 DEF Repair
  <2>2. PICK o \in Options : Begin("repair", [o EXCEPT !.Range = clamp(@, RootRange(dstRoot))])
    BY <1>7 DEF Repair
  <2>3. PICK r : r = clamp(o.Range, RootRange(SrcRoot))
    OBVIOUS
  <2>4. r \in [Low : Nat, High : Nat] /\ GenerateCheckpoints(r) \subseteq Chks /\ Settled(r)
    BY <1>4, <2>3
  <2>5. PICK p \in OptionRecord : p = [o EXCEPT !.Range = r] /\ p.Range = r
    BY <1>3, <2>4
  <2>6. Begin("repair", p)
    BY <2>1, <2>2, <2>3, <2>5
  <2> QED
    BY <2>1, <2>4, <2>5, <2>6, BeginKeeps
<1> QED
  BY <1>5, <1>6, <1>7
-----------------------------------------------------------------------------
(* Mirror *)

(* What a step of Mirror's goroutines leaves true. *)
LEMMA CopyStage ==
    ASSUME ToolsInv, stage = "copy",
           UNCHANGED <<fixed, dstRoot, archive, command, stage, probes, doList, repairedHistory>>,
           errs' \in BOOLEAN, dst' \in [Files -> {"none", "partial", "whole"}],
           \A g \in Files : dst[g] # "none" => dst'[g] # "none",
           ~errs' => ~errs /\ \A g \in Files : g[1] # "scp" /\ dst'[g] = "partial" => dst[g] = "partial",
           jobs' \subseteq jobs, todo' \in [Workers -> Seq(Files)],
           copying' \in [Workers -> Files \cup {None}], bucketFetch' \subseteq Files, WorkInv', MirrorInv'
    PROVE  ToolsInv'
<1>1. UNCHANGED <<canList, checkpointFiles, allBuckets, referencedBuckets, cmd, opts, before, result>>
  BY DEF fixed, archive, command
<1>2. ToolsTypeOK /\ StageInv /\ RangeInv /\ JobsInv /\ FilesInv
  BY DEF ToolsInv, ControlInv
<1>3. cmd = "mirror" /\ result = None /\ cmd # None
  BY <1>2, ToolsAssumption DEF StageInv
<1>4. ToolsTypeOK'
  BY <1>1, <1>2 DEF ToolsTypeOK
<1>5. StageInv' /\ RangeInv' /\ JobsInv'
  BY <1>1, <1>2, <1>3 DEF StageInv, RangeInv, JobsInv, InRange
<1>6. FilesInv'
  <2>1. ASSUME ~errs', NEW f \in Files, f[1] # "scp", dst'[f] = "partial" PROVE before'.dst[f] = "partial"
    BY <1>1, <1>2, <1>3, <2>1 DEF FilesInv
  <2>2. \A f \in checkpointFiles' : dst'[f] # "none"
    BY <1>1, <1>2, PathFacts DEF FilesInv, ToolsTypeOK
  <2>3. \A b \in allBuckets' : dst'[BucketPath(b)] # "none"
    BY <1>1, <1>2, PathFacts DEF FilesInv, ToolsTypeOK
  <2> QED
    BY <2>1, <2>2, <2>3 DEF FilesInv, BucketPath
<1>7. ScanInv'
  BY <1>1, <1>3 DEF ScanInv, ListedInv, RepairInv, ReadInv, VerifyInv, FreshInv
<1>8. CompleteOnSuccess' /\ ScanTellsTruth'
  BY <1>1, <1>3 DEF CompleteOnSuccess, ScanTellsTruth, Ended
<1> QED
  BY <1>4, <1>5, <1>6, <1>7, <1>8 DEF ToolsInv, ControlInv

(* A goroutine takes a checkpoint nobody else has. *)
LEMMA TakeKeeps ==
    ASSUME ToolsInv, NEW w \in Workers, TakeCheckpoint(w)
    PROVE  ToolsInv'
<1>1. ToolsTypeOK /\ StageInv /\ RangeInv /\ JobsInv /\ WorkInv /\ MirrorInv
  BY DEF ToolsInv, ControlInv
<1>2. /\ stage = "copy" /\ todo[w] = <<>> /\ jobs # {}
      /\ UNCHANGED <<fixed, dst, dstRoot, archive, command, stage, probes, doList, copying,
                     bucketFetch, repairedHistory>>
  BY DEF TakeCheckpoint
<1>3. UNCHANGED <<opts, before, dst, copying, bucketFetch>>
  BY <1>2 DEF command
<1>4. PICK ix : ix = Min(jobs)
  OBVIOUS
<1>5. jobs \subseteq Chks /\ Chks \subseteq Nat
  BY <1>1, <1>2, ToolsAssumption DEF RangeInv, JobsInv
<1>6. ix \in jobs /\ ix \in Chks
  BY <1>2, <1>4, <1>5, MinIn
<1>7. /\ jobs' = jobs \ {ix}
      /\ \/ todo' = [todo EXCEPT ![w] = FilesOf(ix)] /\ errs' = errs
         \/ todo' = todo /\ errs' = TRUE
  BY <1>4 DEF TakeCheckpoint
<1>8. /\ FilesOf(ix) \in Seq(Files)
      /\ \A f \in ToSet(FilesOf(ix)) : ~IsBucket(f) => f[2] = ix
  BY <1>6, FilesOfFacts DEF HasFiles
<1>9. todo' \in [Workers -> Seq(Files)] /\ errs' \in BOOLEAN
  BY <1>1, <1>7, <1>8 DEF ToolsTypeOK
<1>10. \A v \in Workers : todo'[v] = todo[v] \/ (v = w /\ todo'[v] = FilesOf(ix))
  BY <1>1, <1>7 DEF ToolsTypeOK
<1>11. copying[w] = None
  BY <1>1, <1>2 DEF WorkInv
<1>12. WorkInv'
  <2>1. ASSUME NEW v \in Workers, copying'[v] # None
        PROVE  /\ todo'[v] # <<>> /\ copying'[v] = Head(todo'[v])
               /\ IsBucket(copying'[v]) => copying'[v] \in bucketFetch'
    <3>1. v # w /\ todo'[v] = todo[v]
      BY <1>3, <1>10, <1>11, <2>1
    <3> QED
      BY <1>1, <1>3, <2>1, <3>1 DEF WorkInv
  <2>2. ASSUME NEW v \in Workers, NEW f \in ToSet(todo'[v]), ~IsBucket(f)
        PROVE  f[2] \notin jobs' /\ \A u \in Workers \ {v} : f \notin ToSet(todo'[u])
    <3>1. CASE f \in ToSet(todo[v])
      <4>1. f[2] \notin jobs /\ \A u \in Workers \ {v} : f \notin ToSet(todo[u])
        BY <1>1, <2>2, <3>1 DEF WorkInv
      <4>2. f \notin ToSet(FilesOf(ix))
        BY <1>6, <1>8, <2>2, <4>1
      <4> QED
        BY <1>7, <1>10, <4>1, <4>2
    <3>2. CASE v = w /\ f \in ToSet(FilesOf(ix))
      <4>1. f[2] = ix
        BY <1>8, <2>2, <3>2
      <4>2. \A u \in Workers : f \notin ToSet(todo[u])
        BY <1>1, <1>6, <2>2, <4>1 DEF WorkInv
      <4> QED
        BY <1>7, <1>10, <3>2, <4>1, <4>2
    <3> QED
      BY <1>10, <2>2, <3>1, <3>2
  <2>3. NoSharedWrites'
    BY <1>1, <1>3 DEF WorkInv, NoSharedWrites
  <2> QED
    BY <2>1, <2>2, <2>3 DEF WorkInv, IsBucket
<1>13. MirrorInv'
  <2> SUFFICES ASSUME ~errs', ~opts.DryRun
               PROVE  /\ \A f \in Needed(opts.Range) :
                            \/ Settles(f)
                            \/ \E v \in Workers : f \in ToSet(todo'[v])
                            \/ \E k \in jobs' : f \in ToSet(FilesOf(k))
                      /\ \A f \in bucketFetch : IsBucket(f) /\ (Settles(f) \/ \E v \in Workers : copying[v] = f)
    BY <1>2, <1>3 DEF MirrorInv, Settles, FilesOf
  <2>1. ~errs /\ todo' = [todo EXCEPT ![w] = FilesOf(ix)]
    BY <1>7
  <2>2. /\ \A f \in Needed(opts.Range) :
              \/ Settles(f)
              \/ \E v \in Workers : f \in ToSet(todo[v])
              \/ \E k \in jobs : f \in ToSet(FilesOf(k))
        /\ \A f \in bucketFetch : IsBucket(f) /\ (Settles(f) \/ \E v \in Workers : copying[v] = f)
    BY <1>1, <1>2, <2>1 DEF MirrorInv
  <2>3. todo'[w] = FilesOf(ix) /\ \A v \in Workers : v # w => todo'[v] = todo[v]
    BY <1>1, <2>1 DEF ToolsTypeOK
  <2>4. ToSet(todo[w]) = {}
    BY <1>2 DEF ToSet
  <2> QED
    BY <1>7, <2>2, <2>3, <2>4
<1> QED
  BY <1>1, <1>2, <1>7, <1>9, <1>12, <1>13, CopyStage DEF ToolsTypeOK

(* A goroutine is through with the file at the head of its list. *)
LEMMA DropFacts ==
    ASSUME ToolsTypeOK, NEW w \in Workers, todo[w] # <<>>, todo' = [todo EXCEPT ![w] = Tail(@)]
    PROVE  /\ todo' \in [Workers -> Seq(Files)] /\ Head(todo[w]) \in Files
           /\ ToSet(todo[w]) = {Head(todo[w])} \cup ToSet(todo'[w]) /\ Head(todo[w]) \in ToSet(todo[w])
           /\ \A v \in Workers : v # w => todo'[v] = todo[v]
           /\ \A v \in Workers : ToSet(todo'[v]) \subseteq ToSet(todo[v])
<1>1. todo \in [Workers -> Seq(Files)] /\ todo[w] \in Seq(Files)
  BY DEF ToolsTypeOK
<1>2. /\ Head(todo[w]) \in Files /\ Tail(todo[w]) \in Seq(Files) /\ Head(todo[w]) \in ToSet(todo[w])
      /\ ToSet(todo[w]) = {Head(todo[w])} \cup ToSet(Tail(todo[w]))
  BY <1>1, TailSet
<1>3. todo'[w] = Tail(todo[w]) /\ \A v \in Workers : v # w => todo'[v] = todo[v]
  BY <1>1
<1>4. todo' \in [Workers -> Seq(Files)]
  BY <1>1, <1>2
<1> QED
  BY <1>2, <1>3, <1>4

(* A goroutine claims a file, or leaves a bucket to the one that has it. *)
LEMMA ClaimKeeps ==
    ASSUME ToolsInv, NEW w \in Workers, ClaimFile(w)
    PROVE  ToolsInv'
<1>1. ToolsTypeOK /\ StageInv /\ WorkInv /\ MirrorInv
  BY DEF ToolsInv, ControlInv
<1>2. /\ stage = "copy" /\ todo[w] # <<>> /\ copying[w] = None
      /\ UNCHANGED <<fixed, dst, dstRoot, archive, command, stage, jobs, probes, doList,
                     repairedHistory, errs, faults>>
  BY DEF ClaimFile
<1>3. /\ UNCHANGED <<opts, before, dst, jobs, errs>> /\ bucketFetch \subseteq Files
      /\ \A g : Settles(g)' <=> Settles(g)
      /\ \A k : FilesOf(k)' = FilesOf(k)
  <2>1. UNCHANGED <<opts, before, dst, jobs, errs>>
    BY <1>2 DEF command
  <2> QED
    BY <1>1, <2>1 DEF Settles, FilesOf, ToolsTypeOK
<1>4. PICK f : f = Head(todo[w])
  OBVIOUS
<1>5. copying \in [Workers -> Files \cup {None}] /\ todo \in [Workers -> Seq(Files)] /\ errs \in BOOLEAN
      /\ dst \in [Files -> {"none", "partial", "whole"}]
  BY <1>1 DEF ToolsTypeOK
<1>6. f \in Files /\ f \in ToSet(todo[w]) /\ f # None
  BY <1>2, <1>4, <1>5, TailSet, ToolsAssumption
<1>7. CASE f \in bucketFetch /\ todo' = [todo EXCEPT ![w] = Tail(@)] /\ UNCHANGED <<copying, bucketFetch>>
  <2>1. /\ todo' \in [Workers -> Seq(Files)]
        /\ ToSet(todo[w]) = {f} \cup ToSet(todo'[w])
        /\ \A v \in Workers : v # w => todo'[v] = todo[v]
        /\ \A v \in Workers : ToSet(todo'[v]) \subseteq ToSet(todo[v])
    BY <1>1, <1>2, <1>4, <1>7, DropFacts
  <2>2. WorkInv'
    <3>1. ASSUME NEW v \in Workers, copying'[v] # None
          PROVE  /\ todo'[v] # <<>> /\ copying'[v] = Head(todo'[v])
                 /\ IsBucket(copying'[v]) => copying'[v] \in bucketFetch'
      BY <1>1, <1>2, <1>7, <2>1, <3>1 DEF WorkInv
    <3>2. ASSUME NEW v \in Workers, NEW g \in ToSet(todo'[v]), ~IsBucket(g)
          PROVE  g[2] \notin jobs' /\ \A u \in Workers \ {v} : g \notin ToSet(todo'[u])
      BY <1>1, <1>3, <2>1, <3>2 DEF WorkInv
    <3>3. NoSharedWrites'
      BY <1>1, <1>7 DEF WorkInv, NoSharedWrites
    <3> QED
      BY <3>1, <3>2, <3>3 DEF WorkInv, IsBucket
  <2>3. MirrorInv'
    <3> SUFFICES ASSUME ~errs, ~opts.DryRun
                 PROVE  /\ \A g \in Needed(opts.Range) :
                              \/ Settles(g)
                              \/ \E v \in Workers : g \in ToSet(todo'[v])
                              \/ \E k \in jobs : g \in ToSet(FilesOf(k))
                        /\ \A g \in bucketFetch : IsBucket(g) /\ (Settles(g) \/ \E v \in Workers : copying[v] = g)
      BY <1>2, <1>3, <1>7 DEF MirrorInv, IsBucket
    <3>1. /\ \A g \in Needed(opts.Range) :
                \/ Settles(g)
                \/ \E v \in Workers : g \in ToSet(todo[v])
                \/ \E k \in jobs : g \in ToSet(FilesOf(k))
          /\ \A g \in bucketFetch : IsBucket(g) /\ (Settles(g) \/ \E v \in Workers : copying[v] = g)
      BY <1>1, <1>2 DEF MirrorInv
    <3>2. Settles(f) \/ \E v \in Workers : f \in ToSet(todo'[v])
      <4>1. CASE \E v \in Workers : copying[v] = f
        <5>1. PICK v \in Workers : copying[v] = f
          BY <4>1
        <5>2. v # w /\ todo[v] # <<>> /\ f = Head(todo[v])
          BY <1>1, <1>2, <1>6, <5>1 DEF WorkInv
        <5>3. f \in ToSet(todo[v])
          BY <1>5, <5>2, TailSet
        <5> QED
          BY <2>1, <5>2, <5>3
      <4> QED
        BY <1>7, <3>1, <4>1
    <3>3. \A g : (\E v \in Workers : g \in ToSet(todo[v])) => g = f \/ \E v \in Workers : g \in ToSet(todo'[v])
      BY <2>1
    <3> QED
      BY <3>1, <3>2, <3>3
  <2> QED
    BY <1>2, <1>3, <1>5, <1>7, <2>1, <2>2, <2>3, CopyStage
<1>8. CASE /\ f \notin bucketFetch /\ copying' = [copying EXCEPT ![w] = f] /\ todo' = todo
           /\ bucketFetch' = IF IsBucket(f) THEN bucketFetch \cup {f} ELSE bucketFetch
  <2>1. copying' \in [Workers -> Files \cup {None}]
    BY <1>5, <1>6, <1>8
  <2>2. copying'[w] = f /\ \A v \in Workers : v # w => copying'[v] = copying[v]
    BY <1>5, <1>8
  <2>3. \A v \in Workers : copying[v] # f
    <3> SUFFICES ASSUME NEW v \in Workers, copying[v] = f PROVE FALSE
      OBVIOUS
    <3>1. v # w /\ todo[v] # <<>> /\ f = Head(todo[v]) /\ ~IsBucket(f)
      BY <1>1, <1>2, <1>6, <1>8 DEF WorkInv
    <3>2. f \in ToSet(todo[v])
      BY <1>5, <3>1, TailSet
    <3> QED
      BY <1>1, <1>6, <3>1, <3>2 DEF WorkInv
  <2>4. WorkInv'
    <3>1. ASSUME NEW v \in Workers, copying'[v] # None
          PROVE  /\ todo'[v] # <<>> /\ copying'[v] = Head(todo'[v])
                 /\ IsBucket(copying'[v]) => copying'[v] \in bucketFetch'
      <4>1. CASE v = w
        BY <1>2, <1>4, <1>8, <2>2, <4>1
      <4>2. CASE v # w
        BY <1>1, <1>8, <2>2, <3>1, <4>2 DEF WorkInv
      <4> QED
        BY <4>1, <4>2
    <3>2. ASSUME NEW v \in Workers, NEW g \in ToSet(todo'[v]), ~IsBucket(g)
          PROVE  g[2] \notin jobs' /\ \A u \in Workers \ {v} : g \notin ToSet(todo'[u])
      BY <1>1, <1>3, <1>8, <3>2 DEF WorkInv
    <3>3. NoSharedWrites'
      BY <1>1, <2>2, <2>3 DEF WorkInv, NoSharedWrites
    <3> QED
      BY <3>1, <3>2, <3>3 DEF WorkInv, IsBucket
  <2>5. MirrorInv'
    <3> SUFFICES ASSUME ~errs, ~opts.DryRun
                 PROVE  /\ \A g \in Needed(opts.Range) :
                              \/ Settles(g)
                              \/ \E v \in Workers : g \in ToSet(todo[v])
                              \/ \E k \in jobs : g \in ToSet(FilesOf(k))
                        /\ \A g \in bucketFetch' :
                              IsBucket(g) /\ (Settles(g) \/ \E v \in Workers : copying'[v] = g)
      BY <1>2, <1>3, <1>8 DEF MirrorInv, IsBucket
    <3>1. /\ \A g \in Needed(opts.Range) :
                \/ Settles(g)
                \/ \E v \in Workers : g \in ToSet(todo[v])
                \/ \E k \in jobs : g \in ToSet(FilesOf(k))
          /\ \A g \in bucketFetch : IsBucket(g) /\ (Settles(g) \/ \E v \in Workers : copying[v] = g)
      BY <1>1, <1>2 DEF MirrorInv
    <3>2. ASSUME NEW g \in bucketFetch' PROVE IsBucket(g) /\ (Settles(g) \/ \E v \in Workers : copying'[v] = g)
      <4>1. CASE g = f /\ IsBucket(f)
        BY <2>2, <4>1
      <4>2. CASE g \in bucketFetch
        <5>1. g # None
          BY <1>3, <4>2, ToolsAssumption
        <5> QED
          BY <1>2, <2>2, <3>1, <4>2, <5>1
      <4> QED
        BY <1>8, <3>2, <4>1, <4>2
    <3> QED
      BY <3>1, <3>2
  <2> QED
    BY <1>2, <1>3, <1>5, <1>6, <1>8, <2>1, <2>4, <2>5, CopyStage
<1> QED
  BY <1>4, <1>7, <1>8 DEF ClaimFile

(* What a range needs are files, and no optional ones. *)
LEMMA NeededFacts ==
    ASSUME NEW r, GenerateCheckpoints(r) \subseteq Chks
    PROVE  \A f \in Needed(r) : f \in Files /\ f[1] # "scp"
<1> SUFFICES ASSUME NEW f \in Needed(r) PROVE f \in Files /\ f[1] # "scp"
  OBVIOUS
<1>1. CASE f \in Required \X GenerateCheckpoints(r)
  BY <1>1 DEF Required, Categories, Files, CategoryFiles
<1>2. CASE f \in {BucketPath(b) : b \in UNION {ToSet(BucketsOf[k]) : k \in GenerateCheckpoints(r)}}
  <2>1. PICK k \in Chks : \E b \in ToSet(BucketsOf[k]) : f = BucketPath(b)
    BY <1>2
  <2> QED
    BY <2>1, PathFacts
<1> QED
  BY <1>1, <1>2 DEF Needed

(* A file is copied, left as it is, or counted as an error. *)
LEMMA CopyKeeps ==
    ASSUME ToolsInv, NEW w \in Workers, CopyFile(w)
    PROVE  ToolsInv'
<1>1. ToolsTypeOK /\ StageInv /\ RangeInv /\ WorkInv /\ MirrorInv /\ FilesInv
  BY DEF ToolsInv, ControlInv
<1>2. /\ stage = "copy" /\ copying[w] # None
      /\ todo' = [todo EXCEPT ![w] = Tail(@)] /\ copying' = [copying EXCEPT ![w] = None]
      /\ UNCHANGED <<fixed, dstRoot, archive, command, stage, jobs, probes, doList, bucketFetch,
                     repairedHistory>>
  BY DEF CopyFile
<1>3. /\ UNCHANGED <<opts, before, jobs, bucketFetch>> /\ bucketFetch \subseteq Files
      /\ \A k : FilesOf(k)' = FilesOf(k)
  <2>1. UNCHANGED <<opts, before, jobs, bucketFetch>>
    BY <1>2 DEF command
  <2> QED
    BY <1>1, <2>1 DEF FilesOf, ToolsTypeOK
<1>4. PICK f : f = copying[w]
  OBVIOUS
<1>5. /\ copying \in [Workers -> Files \cup {None}] /\ todo \in [Workers -> Seq(Files)] /\ errs \in BOOLEAN
      /\ dst \in [Files -> {"none", "partial", "whole"}] /\ opts \in OptionRecord /\ cmd # None
  BY <1>1, <1>2, ToolsAssumption DEF ToolsTypeOK, StageInv
<1>6. f \in Files /\ f # None /\ todo[w] # <<>> /\ f = Head(todo[w])
  BY <1>1, <1>2, <1>4, <1>5 DEF WorkInv
<1>7. PICK failed \in BOOLEAN : copyPath(f, failed) /\ errs' = (errs \/ (failed /\ f[1] # "scp"))
  BY <1>4 DEF CopyFile
<1>8. /\ dst' \in [Files -> {"none", "partial", "whole"}]
      /\ \A g \in Files : g # f => dst'[g] = dst[g]
      /\ \A g \in Files : dst[g] # "none" => dst'[g] # "none"
      /\ ~failed => dst'[f] \in {dst[f], "whole"}
      /\ ~failed /\ ~opts.DryRun => dst'[f] = "whole" \/ (dst'[f] = dst[f] /\ dst[f] # "none" /\ ~opts.Force)
  BY <1>1, <1>5, <1>6, <1>7, CopyFacts
<1>9. /\ todo' \in [Workers -> Seq(Files)]
      /\ ToSet(todo[w]) = {f} \cup ToSet(todo'[w])
      /\ \A v \in Workers : v # w => todo'[v] = todo[v]
      /\ \A v \in Workers : ToSet(todo'[v]) \subseteq ToSet(todo[v])
  BY <1>1, <1>2, <1>6, DropFacts
<1>10. /\ copying' \in [Workers -> Files \cup {None}] /\ copying'[w] = None
       /\ \A v \in Workers : v # w => copying'[v] = copying[v]
  BY <1>2, <1>5
<1>11. errs' \in BOOLEAN /\ (~errs' => ~errs /\ (f[1] # "scp" => ~failed))
  BY <1>5, <1>7
<1>12. ~errs' => \A g \in Files : g[1] # "scp" /\ dst'[g] = "partial" => dst[g] = "partial"
  BY <1>8, <1>11
<1>13. WorkInv'
  <2>1. ASSUME NEW v \in Workers, copying'[v] # None
        PROVE  /\ todo'[v] # <<>> /\ copying'[v] = Head(todo'[v])
               /\ IsBucket(copying'[v]) => copying'[v] \in bucketFetch'
    BY <1>1, <1>3, <1>9, <1>10, <2>1 DEF WorkInv
  <2>2. ASSUME NEW v \in Workers, NEW g \in ToSet(todo'[v]), ~IsBucket(g)
        PROVE  g[2] \notin jobs' /\ \A u \in Workers \ {v} : g \notin ToSet(todo'[u])
    BY <1>1, <1>3, <1>9, <2>2 DEF WorkInv
  <2>3. NoSharedWrites'
    BY <1>1, <1>10 DEF WorkInv, NoSharedWrites
  <2> QED
    BY <2>1, <2>2, <2>3 DEF WorkInv, IsBucket
<1>14. MirrorInv'
  <2> SUFFICES ASSUME ~errs', ~opts.DryRun
               PROVE  /\ \A g \in Needed(opts.Range) :
                            \/ Settles(g)'
                            \/ \E v \in Workers : g \in ToSet(todo'[v])
                            \/ \E k \in jobs : g \in ToSet(FilesOf(k))
                      /\ \A g \in bucketFetch : IsBucket(g) /\ (Settles(g)' \/ \E v \in Workers : copying'[v] = g)
    BY <1>2, <1>3 DEF MirrorInv, IsBucket
  <2>1. /\ \A g \in Needed(opts.Range) :
              \/ Settles(g)
              \/ \E v \in Workers : g \in ToSet(todo[v])
              \/ \E k \in jobs : g \in ToSet(FilesOf(k))
        /\ \A g \in bucketFetch : IsBucket(g) /\ (Settles(g) \/ \E v \in Workers : copying[v] = g)
    BY <1>1, <1>2, <1>11 DEF MirrorInv
  <2>2. \A g \in Files : g # f /\ Settles(g) => Settles(g)'
    BY <1>3, <1>8 DEF Settles
  <2>3. f[1] # "scp" => Settles(f)'
    <3> SUFFICES ASSUME f[1] # "scp" PROVE Settles(f)'
      OBVIOUS
    <3>1. ~failed /\ ~errs
      BY <1>11
    <3>2. dst[f] = "partial" => before.dst[f] = "partial"
      BY <1>1, <1>5, <1>6, <3>1 DEF FilesInv
    <3>3. dst'[f] = "whole" \/ (dst'[f] = dst[f] /\ dst[f] \in {"partial", "whole"} /\ ~opts.Force)
      BY <1>5, <1>6, <1>8, <3>1
    <3> QED
      BY <1>3, <3>2, <3>3 DEF Settles
  <2>4. ASSUME NEW g \in Needed(opts.Range)
        PROVE  \/ Settles(g)'
               \/ \E v \in Workers : g \in ToSet(todo'[v])
               \/ \E k \in jobs : g \in ToSet(FilesOf(k))
    <3>1. g \in Files /\ g[1] # "scp"
      BY <1>1, <1>2, NeededFacts DEF RangeInv, InRange
    <3>2. (\E v \in Workers : g \in ToSet(todo[v])) => g = f \/ \E v \in Workers : g \in ToSet(todo'[v])
      BY <1>9
    <3> QED
      BY <2>1, <2>2, <2>3, <3>1, <3>2
  <2>5. ASSUME NEW g \in bucketFetch PROVE IsBucket(g) /\ (Settles(g)' \/ \E v \in Workers : copying'[v] = g)
    <3>1. g \in Files /\ IsBucket(g) /\ g[1] # "scp"
      BY <1>3, <2>1 DEF IsBucket
    <3>2. (\E v \in Workers : copying[v] = g) => g = f \/ \E v \in Workers : copying'[v] = g
      BY <1>4, <1>10
    <3> QED
      BY <2>1, <2>2, <2>3, <3>1, <3>2
  <2> QED
    BY <2>4, <2>5
<1> QED
  BY <1>2, <1>3, <1>8, <1>9, <1>10, <1>11, <1>12, <1>13, <1>14, CopyStage

(* All goroutines are through, and so is the range. *)
LEMMA MirrorEnds ==
    ASSUME ToolsInv, Through, NEW failed \in BOOLEAN, errs => failed, Finish(failed, FALSE),
           UNCHANGED <<fixed, dst, archive>>, dstRoot' \in {0, SrcRoot}
    PROVE  ToolsInv'
<1>1. CASE failed
  BY <1>1, FailedKeeps
<1>2. CASE ~failed
  <2>1. cmd = "mirror" /\ MirrorInv /\ ~errs
    BY <1>2 DEF ToolsInv, ControlInv, StageInv, Through
  <2>2. /\ result' = [cmd |-> cmd, opts |-> opts, failed |-> failed, missing |-> FALSE]
        /\ UNCHANGED <<opts, before, dst>>
    BY DEF Finish
  <2>3. ~opts.DryRun /\ opts.Concurrency # {} => \A f \in Needed(opts.Range) : Settles(f)
    <3>1. \A w \in Workers : ToSet(todo[w]) = {}
      BY DEF Through, Idle, ToSet
    <3> QED
      BY <2>1, <3>1 DEF MirrorInv, Through
  <2>4. CompleteOnSuccess'
    <3> SUFFICES ASSUME ~opts.DryRun, opts.Concurrency # {}, NEW f \in Needed(opts.Range)
                 PROVE  dst[f] = "whole" \/ (dst[f] = "partial" /\ before.dst[f] = "partial" /\ ~opts.Force)
      BY <2>1, <2>2 DEF CompleteOnSuccess
    <3> QED
      BY <2>3 DEF Settles
  <2>5. ScanTellsTruth'
    BY <2>1, <2>2 DEF ScanTellsTruth, Ended
  <2> QED
    BY <2>4, <2>5, FinishKeeps
<1> QED
  BY <1>1, <1>2

(* The end of a Mirror, with the root HAS written or left. *)
LEMMA MirrorEndKeeps ==
    ASSUME ToolsInv, PutRootHAS \/ LeaveRootHAS
    PROVE  ToolsInv'
<1>1. dstRoot \in {0, SrcRoot} /\ errs \in BOOLEAN
  BY DEF ToolsInv, ControlInv, ToolsTypeOK
<1>2. /\ Through /\ UNCHANGED <<fixed, dst, archive>>
      /\ \E failed \in BOOLEAN : (errs => failed) /\ Finish(failed, FALSE) /\ dstRoot' \in {0, SrcRoot}
  <2>1. CASE PutRootHAS
    <3>1. (dstRoot' = SrcRoot /\ Finish(errs, FALSE)) \/ (dstRoot' \in {dstRoot, 0} /\ Finish(TRUE, FALSE))
      BY <2>1 DEF PutRootHAS
    <3>2. \E failed \in BOOLEAN : (errs => failed) /\ Finish(failed, FALSE) /\ dstRoot' \in {0, SrcRoot}
      BY <1>1, <3>1
    <3> QED
      BY <2>1, <3>2 DEF PutRootHAS
  <2>2. CASE LeaveRootHAS
    <3>1. dstRoot' = dstRoot /\ (Finish(errs \/ dstRoot = 0, FALSE) \/ Finish(TRUE, FALSE))
      BY <2>2 DEF LeaveRootHAS
    <3>2. \E failed \in BOOLEAN : (errs => failed) /\ Finish(failed, FALSE)
      BY <1>1, <3>1
    <3> QED
      BY <1>1, <2>2, <3>1, <3>2 DEF LeaveRootHAS
  <2> QED
    BY <2>1, <2>2
<1> QED
  BY <1>2, MirrorEnds
-----------------------------------------------------------------------------
(* Scan and Repair *)

(* A step of a scan or a repair has nothing to do with Mirror, nor with how an *)
(* earlier command ended.                                                       *)
LEMMA ScanStage ==
    ASSUME ToolsInv, cmd \in {"scan", "repair"}, UNCHANGED <<cmd, result, mirror>>,
           ControlInv', FilesInv', ScanInv'
    PROVE  ToolsInv'
<1>1. StageInv /\ StageInv'
  BY DEF ToolsInv, ControlInv
<1>2. cmd # None /\ cmd # "mirror" /\ stage' # "copy" /\ result = None
  BY <1>1, ToolsAssumption DEF StageInv
<1>3. todo' = Idle /\ copying' = NoCopy
  BY <1>1, <1>2 DEF StageInv, Idle, NoCopy
<1>4. \A w \in Workers : todo'[w] = <<>> /\ copying'[w] = None
  BY <1>3 DEF Idle, NoCopy
<1>5. WorkInv'
  BY <1>4 DEF WorkInv, NoSharedWrites, ToSet
<1>6. MirrorInv'
  BY <1>2 DEF MirrorInv
<1>7. CompleteOnSuccess' /\ ScanTellsTruth'
  BY <1>2 DEF CompleteOnSuccess, ScanTellsTruth, Ended
<1> QED
  BY <1>5, <1>6, <1>7 DEF ToolsInv

(* The destination is not written. *)
LEMMA FilesKeep ==
    ASSUME ToolsInv, cmd # None, UNCHANGED <<dst, before>>, ~errs' => ~errs,
           \A f \in checkpointFiles' : dst[f] # "none",
           \A b \in allBuckets' : dst[BucketPath(b)] # "none"
    PROVE  FilesInv'
BY DEF ToolsInv, FilesInv, BucketPath

(* ScanCheckpoints starts, with a range in the destination's. *)
LEMMA ScanCheckpointsKeeps ==
    ASSUME ToolsInv, ScanCheckpoints
    PROVE  ToolsInv'
<1>1. /\ ToolsTypeOK /\ StageInv /\ RangeInv /\ FilesInv /\ ListedInv /\ RepairInv
      /\ VerifyInv /\ FreshInv
  BY DEF ToolsInv, ControlInv, ScanInv
<1>2. /\ stage = "root" /\ dstRoot # 0 /\ stage' = "checkpoints"
      /\ opts' = [opts EXCEPT !.Range = clamp(@, RootRange(dstRoot))]
      /\ jobs' = Scanned \X (IF canList THEN {0} ELSE GenerateCheckpoints(opts'.Range))
      /\ UNCHANGED <<canList, dst, dstRoot, checkpointFiles, allBuckets, referencedBuckets, cmd, before,
                     result, probes, doList, todo, copying, bucketFetch, repairedHistory, errs>>
  BY DEF ScanCheckpoints, fixed, archive, mirror
<1>3. cmd \in {"scan", "repair"} /\ cmd # None
  BY <1>1, <1>2, ToolsAssumption DEF StageInv, ToolsTypeOK
<1>4. dstRoot = SrcRoot /\ SrcRoot \in Nat /\ opts \in OptionRecord /\ opts.Range \in [Low : Nat, High : Nat]
  BY <1>1, <1>2, <1>3, ToolsAssumption DEF ToolsTypeOK, OptionRecord
<1>5. PICK r : r = clamp(opts.Range, RootRange(SrcRoot))
  OBVIOUS
<1>6. r \in [Low : Nat, High : Nat] /\ Settled(r)
  BY <1>4, <1>5, ClampSettles
<1>7. /\ opts' \in OptionRecord /\ opts'.Range = r
      /\ UNCHANGED <<opts.DryRun, opts.Force, opts.Verify, opts.Thorough, opts.SkipOptional>>
  BY <1>2, <1>4, <1>5, <1>6 DEF OptionRecord
<1>8. cmd = "repair" => GenerateCheckpoints(r) \subseteq InRange
  BY <1>1, <1>4, <1>5, ClampNarrows DEF RangeInv, InRange
<1>9. GenerateCheckpoints(r) \subseteq Chks
  <2>1. CASE cmd = "repair"
    BY <1>1, <1>8, <2>1 DEF RangeInv
  <2>2. CASE cmd = "scan"
    BY <1>1, <1>2, <1>5, <2>2, ToolsAssumption DEF RangeInv
  <2> QED
    BY <1>3, <2>1, <2>2
<1>10. InRange' = GenerateCheckpoints(r) /\ RequiredFiles' = Required \X GenerateCheckpoints(r)
       /\ Scanned' = Scanned /\ Required \subseteq Scanned
  BY <1>7 DEF InRange, RequiredFiles, Scanned, categoryRequired, Categories
<1>11. ControlInv'
  <2>1. ToolsTypeOK'
    BY <1>1, <1>2, <1>7 DEF ToolsTypeOK, Stages
  <2>2. StageInv'
    BY <1>1, <1>2, <1>3 DEF StageInv, Idle, NoCopy
  <2>3. RangeInv'
    BY <1>2, <1>6, <1>7, <1>9, <1>10 DEF RangeInv
  <2>4. JobsInv'
    BY <1>2, <1>7, <1>10 DEF JobsInv
  <2> QED
    BY <2>1, <2>2, <2>3, <2>4 DEF ControlInv
<1>12. FilesInv'
  BY <1>1, <1>2, <1>3, FilesKeep DEF FilesInv
<1>13. \A f \in RequiredFiles' : Pending(f)'
  BY <1>2, <1>7, <1>10 DEF Pending
<1>14. ListedInv' /\ ReadInv'
  BY <1>2, <1>13 DEF ListedInv, ReadInv
<1>15. RepairInv'
  <2>1. cmd = "repair" => RequiredFiles' \subseteq RequiredFiles
    BY <1>8, <1>10 DEF RequiredFiles
  <2> QED
    BY <1>1, <1>2, <1>7, <2>1 DEF RepairInv, AtBuckets, AfterScan
<1>16. VerifyInv'
  BY <1>1, <1>2, <1>7, <1>13 DEF VerifyInv, BucketPath
<1>17. FreshInv'
  BY <1>1, <1>2, <1>10 DEF FreshInv
<1> QED
  BY <1>2, <1>3, <1>11, <1>12, <1>14, <1>15, <1>16, <1>17, ScanStage DEF ScanInv, mirror

(* The root HAS of the destination cannot be read, or there are no goroutines. *)
LEMMA CannotScanKeeps ==
    ASSUME ToolsInv, CannotScan
    PROVE  ToolsInv'
<1>1. /\ ToolsTypeOK /\ StageInv /\ RangeInv /\ JobsInv /\ FilesInv
  BY DEF ToolsInv, ControlInv
<1>2. stage = "root" /\ UNCHANGED <<fixed, dst, dstRoot, archive>>
  BY DEF CannotScan
<1>3. dstRoot' \in {0, SrcRoot} /\ cmd \in {"scan", "repair"} /\ cmd # None
  BY <1>1, <1>2, ToolsAssumption DEF StageInv, ToolsTypeOK
<1>4. CASE cmd = "scan"
  <2>1. Finish(TRUE, FALSE)
    BY <1>4 DEF CannotScan
  <2> QED
    BY <1>2, <1>3, <2>1, FailedKeeps
<1>5. CASE cmd # "scan"
  <2>1. /\ stage' = "checkpoints" /\ errs' = TRUE /\ cmd = "repair"
        /\ UNCHANGED <<canList, dst, dstRoot, checkpointFiles, allBuckets, referencedBuckets, cmd, opts,
                       before, result, jobs, probes, doList, todo, copying, bucketFetch, repairedHistory>>
    BY <1>2, <1>3, <1>5 DEF CannotScan, fixed, archive, command, mirror
  <2>2. ControlInv'
    <3>1. ToolsTypeOK'
      BY <1>1, <2>1 DEF ToolsTypeOK, Stages
    <3>2. StageInv'
      BY <1>1, <1>2, <1>3, <2>1 DEF StageInv, Idle, NoCopy
    <3>3. RangeInv' /\ JobsInv'
      BY <1>1, <1>2, <2>1 DEF RangeInv, JobsInv, InRange
    <3> QED
      BY <3>1, <3>2, <3>3 DEF ControlInv
  <2>3. FilesInv'
    BY <1>1, <1>3, <2>1, FilesKeep DEF FilesInv
  <2>4. ScanInv'
    BY <2>1 DEF ScanInv, ListedInv, RepairInv, ReadInv, VerifyInv, FreshInv, AtBuckets, AfterScan
  <2> QED
    BY <1>3, <2>1, <2>2, <2>3, <2>4, ScanStage DEF mirror
<1> QED
  BY <1>4, <1>5

(* Who is at the stages of a scan. *)
LEMMA Scanning ==
    ASSUME ToolsInv, stage \in {"root", "checkpoints"} \cup AfterScan
    PROVE  cmd \in {"scan", "repair"} /\ cmd # None /\ opts \in OptionRecord /\ dstRoot \in {0, SrcRoot}
BY ToolsAssumption DEF ToolsInv, ControlInv, ToolsTypeOK, StageInv, AfterScan, AtBuckets

(* ScanCheckpoints looks at a file or at the files of a category. *)
LEMMA LookKeeps ==
    ASSUME ToolsInv, stage = "checkpoints", jobs' \subseteq jobs, checkpointFiles \subseteq checkpointFiles',
           UNCHANGED <<canList, dst, dstRoot, allBuckets, referencedBuckets, cmd, opts, before, result, stage,
                       probes, doList, todo, copying, bucketFetch, repairedHistory>>,
           checkpointFiles' \subseteq checkpointFiles \cup (Categories \X InRange),
           \A f \in checkpointFiles' : dst[f] # "none",
           errs' \in BOOLEAN, ~errs' => ~errs,
           ~errs' => \A f \in RequiredFiles : Pending(f) /\ ~Pending(f)' =>
                        /\ dst[f] # "none" => f \in checkpointFiles'
                        /\ opts.Verify /\ f[1] = "ledger" => dst[f] # "partial"
    PROVE  ToolsInv'
<1>1. /\ ToolsTypeOK /\ StageInv /\ RangeInv /\ JobsInv /\ FilesInv /\ ListedInv /\ RepairInv
      /\ VerifyInv /\ FreshInv
  BY DEF ToolsInv, ControlInv, ScanInv
<1>2. cmd \in {"scan", "repair"} /\ cmd # None
  BY Scanning
<1>3. InRange' = InRange /\ RequiredFiles' = RequiredFiles /\ Scanned' = Scanned
  BY DEF InRange, RequiredFiles, Scanned, categoryRequired
<1>4. checkpointFiles' \subseteq CategoryFiles
  BY <1>1 DEF ToolsTypeOK, RangeInv, CategoryFiles
<1>5. ControlInv'
  <2>1. ToolsTypeOK'
    BY <1>1, <1>4 DEF ToolsTypeOK
  <2>2. StageInv'
    BY <1>1 DEF StageInv, Idle, NoCopy
  <2>3. RangeInv'
    BY <1>1, <1>3 DEF RangeInv
  <2>4. JobsInv'
    BY <1>1, <1>3 DEF JobsInv
  <2> QED
    BY <2>1, <2>2, <2>3, <2>4 DEF ControlInv
<1>6. FilesInv'
  BY <1>1, <1>2, FilesKeep DEF FilesInv
<1>7. ListedInv'
  BY <1>1, <1>3 DEF ListedInv
<1>8. RepairInv' /\ ReadInv'
  BY <1>1, <1>3 DEF RepairInv, ReadInv, AtBuckets, AfterScan
<1>9. VerifyInv'
  BY <1>1, <1>3 DEF VerifyInv, BucketPath
<1>10. FreshInv'
  BY <1>1, <1>3 DEF FreshInv
<1> QED
  BY <1>2, <1>5, <1>6, <1>7, <1>8, <1>9, <1>10, ScanStage DEF ScanInv, mirror

(* A category is listed. *)
LEMMA ListKeeps ==
    ASSUME ToolsInv, ListCategoryCheckpoints
    PROVE  ToolsInv'
<1>1. ToolsTypeOK /\ JobsInv /\ RangeInv /\ FilesInv
  BY DEF ToolsInv, ControlInv
<1>2. /\ stage = "checkpoints" /\ canList
      /\ UNCHANGED <<canList, dst, dstRoot, allBuckets, referencedBuckets, cmd, opts, before, result, stage,
                     probes, doList, todo, copying, bucketFetch, repairedHistory>>
  BY DEF ListCategoryCheckpoints, fixed, command, mirror
<1>3. PICK j \in jobs :
        /\ jobs' = jobs \ {j}
        /\ \/ /\ checkpointFiles' = checkpointFiles \cup Present(j[1])
              /\ errs' \in {errs \/ (\E f \in Present(j[1]) : MustFail(f)),
                            errs \/ (\E f \in Present(j[1]) : MayFail(f))}
           \/ /\ errs' = TRUE
              /\ \E listed \in {{}, Present(j[1])} : checkpointFiles' = checkpointFiles \cup listed
  BY DEF ListCategoryCheckpoints
<1>4. j \in Scanned \X {0} /\ j[1] \in Categories /\ j = <<j[1], 0>> /\ opts \in OptionRecord
  BY <1>1, <1>2, Scanning DEF JobsInv, Scanned, AfterScan
<1>5. Present(j[1]) = {f \in {j[1]} \X InRange : dst[f] # "none"}
  BY DEF Present, InRange
<1>6. /\ checkpointFiles \subseteq checkpointFiles' /\ checkpointFiles' \subseteq checkpointFiles \cup (Categories \X InRange)
      /\ \A f \in checkpointFiles' : dst[f] # "none"
  BY <1>1, <1>3, <1>4, <1>5 DEF FilesInv
<1>7. \A f : MayFail(f) \in BOOLEAN /\ MustFail(f) \in BOOLEAN /\ (MustFail(f) => MayFail(f))
  BY <1>4 DEF MayFail, MustFail, OptionRecord
<1>8. errs' \in BOOLEAN /\ (~errs' => ~errs)
  BY <1>1, <1>3, <1>7 DEF ToolsTypeOK
<1>9. ~errs' => checkpointFiles' = checkpointFiles \cup Present(j[1]) /\ \A f \in Present(j[1]) : ~MustFail(f)
  BY <1>3, <1>7
<1>10. ASSUME ~errs', NEW f \in RequiredFiles, Pending(f), ~Pending(f)'
       PROVE  /\ dst[f] # "none" => f \in checkpointFiles'
              /\ opts.Verify /\ f[1] = "ledger" => dst[f] # "partial"
  <2>1. <<f[1], 0>> \in jobs /\ <<f[1], 0>> \notin jobs'
    BY <1>2, <1>10 DEF Pending
  <2>2. f \in {j[1]} \X InRange
    BY <1>3, <1>4, <2>1 DEF RequiredFiles
  <2>3. dst[f] # "none" => f \in Present(j[1])
    BY <1>5, <2>2
  <2>4. dst[f] # "none" => f \in checkpointFiles' /\ ~MustFail(f)
    BY <1>9, <1>10, <2>3
  <2> QED
    BY <2>4 DEF MustFail, MayFail
<1> QED
  BY <1>2, <1>3, <1>6, <1>8, <1>10, LookKeeps

(* A file is asked for. *)
LEMMA ExistsKeeps ==
    ASSUME ToolsInv, CategoryCheckpointExists
    PROVE  ToolsInv'
<1>1. ToolsTypeOK /\ JobsInv /\ RangeInv /\ FilesInv
  BY DEF ToolsInv, ControlInv
<1>2. /\ stage = "checkpoints" /\ ~canList
      /\ UNCHANGED <<canList, dst, dstRoot, allBuckets, referencedBuckets, cmd, opts, before, result, stage,
                     probes, doList, todo, copying, bucketFetch, repairedHistory>>
  BY DEF CategoryCheckpointExists, fixed, command, mirror
<1>3. PICK f \in jobs :
        /\ jobs' = jobs \ {f}
        /\ \/ dst[f] = "none" /\ checkpointFiles' = checkpointFiles \ {f} /\ UNCHANGED errs
           \/ /\ dst[f] # "none" /\ checkpointFiles' = checkpointFiles \cup {f}
              /\ errs' \in {errs \/ MustFail(f), errs \/ MayFail(f), TRUE}
  BY DEF CategoryCheckpointExists
<1>4. f \in Categories \X InRange /\ opts \in OptionRecord
  BY <1>1, <1>2, Scanning DEF JobsInv, Scanned, AfterScan
<1>5. /\ checkpointFiles \subseteq checkpointFiles' /\ checkpointFiles' \subseteq checkpointFiles \cup (Categories \X InRange)
      /\ \A g \in checkpointFiles' : dst[g] # "none"
      /\ dst[f] # "none" => f \in checkpointFiles'
  BY <1>1, <1>3, <1>4 DEF FilesInv
<1>6. MayFail(f) \in BOOLEAN /\ MustFail(f) \in BOOLEAN /\ (MustFail(f) => MayFail(f))
  BY <1>4 DEF MayFail, MustFail, OptionRecord
<1>7. errs' \in BOOLEAN /\ (~errs' => ~errs /\ (dst[f] # "none" => ~MustFail(f)))
  BY <1>1, <1>3, <1>6 DEF ToolsTypeOK
<1>8. ASSUME ~errs', NEW g \in RequiredFiles, Pending(g), ~Pending(g)'
      PROVE  /\ dst[g] # "none" => g \in checkpointFiles'
             /\ opts.Verify /\ g[1] = "ledger" => dst[g] # "partial"
  <2>1. g = f
    BY <1>2, <1>3, <1>8 DEF Pending
  <2> QED
    BY <1>5, <1>7, <1>8, <2>1 DEF MustFail, MayFail
<1> QED
  BY <1>2, <1>3, <1>5, <1>7, <1>8, LookKeeps

(* The next part of a scan or a repair begins. *)
LEMMA ContinueKeeps ==
    ASSUME ToolsInv, stage \in {"checkpoints", "missing", "buckets"}, probes = {}, NEW next, NEW js,
           Continue(next, js), next \in {"root", "missing", "startBuckets", "missingBuckets"},
           next # "startBuckets" => cmd = "repair", UNCHANGED repairedHistory,
           \/ UNCHANGED archive
           \/ checkpointFiles' = {} /\ allBuckets' = {} /\ referencedBuckets' = {},
           JobsInv', ScanInv'
    PROVE  ToolsInv'
<1>1. ToolsTypeOK /\ StageInv /\ RangeInv /\ FilesInv
  BY DEF ToolsInv, ControlInv
<1>2. cmd \in {"scan", "repair"} /\ cmd # None
  BY Scanning DEF AfterScan, AtBuckets
<1>3. /\ stage' = next
      /\ UNCHANGED <<canList, dst, dstRoot, cmd, opts, before, result, probes, doList, todo, copying,
                     bucketFetch, errs>>
  BY DEF Continue, fixed, command, mirror
<1>4. \/ UNCHANGED <<checkpointFiles, allBuckets, referencedBuckets>>
      \/ checkpointFiles' = {} /\ allBuckets' = {} /\ referencedBuckets' = {}
  BY DEF archive
<1>5. ToolsTypeOK'
  BY <1>1, <1>3, <1>4 DEF ToolsTypeOK, Stages, AfterScan, AtBuckets
<1>6. StageInv'
  BY <1>1, <1>2, <1>3 DEF StageInv, Idle, NoCopy
<1>7. RangeInv'
  BY <1>1, <1>2, <1>3 DEF RangeInv, InRange
<1>8. FilesInv'
  BY <1>1, <1>2, <1>3, <1>4, FilesKeep DEF FilesInv
<1> QED
  BY <1>2, <1>3, <1>5, <1>6, <1>7, <1>8, ScanStage DEF ControlInv, mirror

(* Repair has looked at all files of its range. *)
LEMMA ScannedKeeps ==
    ASSUME ToolsInv, CheckpointsScanned
    PROVE  ToolsInv'
<1>1. /\ ToolsTypeOK /\ StageInv /\ RangeInv /\ FilesInv /\ ListedInv /\ VerifyInv
  BY DEF ToolsInv, ControlInv, ScanInv
<1>2. PICK js : js = MissingFiles \ ({"scp"} \X (IF opts.SkipOptional THEN Chks ELSE {}))
  OBVIOUS
<1>3. /\ stage = "checkpoints" /\ jobs = {} /\ cmd = "repair" /\ ~repairedHistory
      /\ Continue("missing", js) /\ UNCHANGED <<archive, repairedHistory>>
  BY <1>2 DEF CheckpointsScanned
<1>4. /\ stage' = "missing" /\ jobs' = js /\ probes = {}
      /\ UNCHANGED <<canList, dst, cmd, opts, before, probes, doList, errs, checkpointFiles, allBuckets,
                     referencedBuckets, repairedHistory>>
  BY <1>1, <1>3 DEF Continue, fixed, command, archive, StageInv
<1>5. InRange' = InRange /\ RequiredFiles' = RequiredFiles
  BY <1>4 DEF InRange, RequiredFiles
<1>6. js \subseteq CategoryFiles /\ \A f \in RequiredFiles : f \in checkpointFiles \/ f \in js
  BY <1>1, <1>2, <1>3 DEF MissingFiles, RangeInv, InRange, CategoryFiles, RequiredFiles, Categories, Required
<1>7. JobsInv'
  BY <1>4, <1>6 DEF JobsInv
<1>8. ListedInv' /\ ReadInv' /\ FreshInv'
  BY <1>3, <1>4 DEF ListedInv, ReadInv, FreshInv, AtBuckets
<1>9. RepairInv'
  BY <1>1, <1>3, <1>4, <1>5, <1>6 DEF RepairInv, FilesInv, AtBuckets
<1>10. VerifyInv'
  <2>1. \A f : ~Pending(f)
    BY <1>3 DEF Pending
  <2> QED
    BY <1>1, <1>3, <1>4, <1>5, <2>1 DEF VerifyInv, BucketPath
<1> QED
  BY <1>3, <1>4, <1>7, <1>8, <1>9, <1>10, ContinueKeeps DEF ScanInv

(* All files are looked at, and it is the buckets' turn. *)
LEMMA ToBucketsKeeps ==
    ASSUME ToolsInv, ToScanBuckets
    PROVE  ToolsInv'
<1>1. /\ ToolsTypeOK /\ StageInv /\ RangeInv /\ ListedInv /\ RepairInv /\ VerifyInv /\ FreshInv
  BY DEF ToolsInv, ControlInv, ScanInv
<1>2. stage = "checkpoints" /\ jobs = {} /\ (cmd = "scan" \/ repairedHistory) /\ probes = {}
  BY <1>1 DEF ToScanBuckets, StageInv
<1>3. CASE cmd = "scan" /\ errs
  <2>1. Finish(TRUE, FALSE) /\ UNCHANGED <<fixed, dst, archive>> /\ dstRoot' \in {0, SrcRoot}
    BY <1>1, <1>3 DEF ToScanBuckets, ToolsTypeOK
  <2> QED
    BY <2>1, FailedKeeps
<1>4. CASE ~(cmd = "scan" /\ errs)
  <2>1. Continue("startBuckets", {}) /\ UNCHANGED <<archive, repairedHistory>>
    BY <1>4 DEF ToScanBuckets
  <2>2. /\ stage' = "startBuckets" /\ jobs' = {}
        /\ UNCHANGED <<canList, dst, cmd, opts, before, probes, doList, errs, checkpointFiles, allBuckets,
                       referencedBuckets, repairedHistory>>
    BY <2>1 DEF Continue, fixed, command, archive
  <2>3. InRange' = InRange /\ RequiredFiles' = RequiredFiles
    BY <2>2 DEF InRange, RequiredFiles
  <2>4. \A f : ~Pending(f)
    BY <1>2 DEF Pending
  <2>5. JobsInv'
    BY <2>2 DEF JobsInv
  <2>6. ListedInv'
    BY <1>1, <1>2, <2>2, <2>3, <2>4 DEF ListedInv
  <2>7. RepairInv'
    <3> SUFFICES ASSUME cmd = "repair"
                 PROVE  ~opts.DryRun /\ ~errs =>
                          \A f \in RequiredFiles : dst[f] # "none" /\ f \in checkpointFiles
      BY <2>2, <2>3 DEF RepairInv
    <3>1. repairedHistory
      BY <1>2
    <3> QED
      BY <1>1, <1>2, <2>4, <3>1 DEF RepairInv, ListedInv
  <2>8. ReadInv'
    BY <2>2 DEF ReadInv
  <2>9. VerifyInv'
    BY <1>1, <1>2, <2>2, <2>3, <2>4 DEF VerifyInv, BucketPath
  <2>10. FreshInv'
    BY <1>1, <1>2, <2>2, <2>3 DEF FreshInv
  <2> QED
    BY <1>2, <2>1, <2>5, <2>6, <2>7, <2>8, <2>9, <2>10, ContinueKeeps DEF ScanInv
<1> QED
  BY <1>3, <1>4

(* The missing files are copied. *)
LEMMA FilesRepairedKeeps ==
    ASSUME ToolsInv, FilesRepaired
    PROVE  ToolsInv'
<1>1. /\ ToolsTypeOK /\ StageInv /\ RangeInv /\ RepairInv /\ VerifyInv
  BY DEF ToolsInv, ControlInv, ScanInv
<1>2. stage = "missing" /\ jobs = {} /\ cmd = "repair" /\ probes = {} /\ UNCHANGED repairedHistory
  BY <1>1 DEF FilesRepaired, StageInv
<1>3. PICK next \in {"root", "startBuckets"} :
        /\ Continue(next, {}) /\ (next = "root" <=> repairedHistory)
        /\ \/ next = "root" /\ checkpointFiles' = {} /\ allBuckets' = {} /\ referencedBuckets' = {}
           \/ next = "startBuckets" /\ UNCHANGED archive
  BY <1>1 DEF FilesRepaired, ToolsTypeOK
<1>4. /\ stage' = next /\ jobs' = {}
      /\ UNCHANGED <<canList, dst, cmd, opts, before, probes, doList, errs>>
      /\ \/ next = "root" /\ checkpointFiles' = {} /\ allBuckets' = {} /\ referencedBuckets' = {}
         \/ next = "startBuckets" /\ UNCHANGED <<checkpointFiles, allBuckets, referencedBuckets>>
  BY <1>3 DEF Continue, fixed, command, archive
<1>5. InRange' = InRange /\ RequiredFiles' = RequiredFiles
  BY <1>4 DEF InRange, RequiredFiles
<1>6. JobsInv'
  BY <1>4 DEF JobsInv
<1>7. ListedInv' /\ ReadInv' /\ FreshInv'
  BY <1>2, <1>4 DEF ListedInv, ReadInv, FreshInv
<1>8. RepairInv'
  BY <1>1, <1>2, <1>3, <1>4, <1>5 DEF RepairInv, AtBuckets, AfterScan
<1>9. VerifyInv'
  <2>1. \A f : ~Pending(f)
    BY <1>2 DEF Pending
  <2> QED
    BY <1>1, <1>2, <1>4, <1>5, <2>1 DEF VerifyInv, BucketPath, AfterScan, AtBuckets
<1>10. \/ UNCHANGED archive
       \/ checkpointFiles' = {} /\ allBuckets' = {} /\ referencedBuckets' = {}
  BY <1>3
<1> QED
  BY <1>2, <1>3, <1>6, <1>7, <1>8, <1>9, <1>10, ContinueKeeps DEF ScanInv

(* Repair copies a file, or leaves one that is optional. *)
LEMMA RepairStep ==
    ASSUME ToolsInv, stage \in {"missing", "missingBuckets"}, jobs' \subseteq jobs,
           UNCHANGED <<canList, dstRoot, checkpointFiles, allBuckets, referencedBuckets, cmd, opts, before,
                       result, stage, probes, doList, todo, copying, bucketFetch>>,
           dst' \in [Files -> {"none", "partial", "whole"}], repairedHistory' \in BOOLEAN,
           errs' \in BOOLEAN, ~errs' => ~errs,
           \A g \in Files : dst[g] # "none" => dst'[g] # "none",
           ~errs' => \A g \in Files : dst'[g] \in {dst[g], "whole"},
           RepairInv', ReadInv'
    PROVE  ToolsInv'
<1>1. ToolsTypeOK /\ StageInv /\ RangeInv /\ JobsInv /\ FilesInv /\ VerifyInv
  BY DEF ToolsInv, ControlInv, ScanInv
<1>2. cmd = "repair" /\ cmd # None
  BY <1>1, ToolsAssumption DEF StageInv
<1>3. InRange' = InRange /\ RequiredFiles' = RequiredFiles
  BY DEF InRange, RequiredFiles
<1>4. RequiredFiles \subseteq Files
  BY <1>1, <1>2, PathFacts DEF RangeInv, RequiredFiles, CategoryFiles, Categories
<1>5. ToolsTypeOK'
  BY <1>1 DEF ToolsTypeOK
<1>6. StageInv'
  BY <1>1, <1>2 DEF StageInv, Idle, NoCopy
<1>7. RangeInv' /\ JobsInv'
  BY <1>1, <1>3 DEF RangeInv, JobsInv
<1>8. FilesInv'
  <2>1. ~errs' => \A g \in Files : dst'[g] = "partial" => dst[g] = "partial"
    OBVIOUS
  <2>2. \A g \in checkpointFiles : g \in Files
    BY <1>1, PathFacts DEF ToolsTypeOK
  <2>3. \A b \in allBuckets : BucketPath(b) \in Files
    BY <1>1, PathFacts DEF ToolsTypeOK
  <2> QED
    BY <1>1, <1>2, <2>1, <2>2, <2>3 DEF FilesInv, BucketPath
<1>9. ListedInv' /\ FreshInv'
  BY <1>2 DEF ListedInv, FreshInv
<1>10. VerifyInv'
  <2>1. \A f : ~Pending(f)
    BY DEF Pending
  <2>2. \A b \in referencedBuckets : BucketPath(b) \in Files
    BY <1>1, PathFacts DEF ToolsTypeOK
  <2>3. ~errs' => \A g \in Files : dst'[g] = "partial" => dst[g] = "partial"
    OBVIOUS
  <2> QED
    BY <1>1, <1>2, <1>3, <1>4, <2>1, <2>2, <2>3 DEF VerifyInv, BucketPath
<1> QED
  BY <1>2, <1>5, <1>6, <1>7, <1>8, <1>9, <1>10, ScanStage DEF ControlInv, ScanInv, mirror

(* A missing file of the range. *)
LEMMA RepairFileKeeps ==
    ASSUME ToolsInv, RepairFile
    PROVE  ToolsInv'
<1>1. ToolsTypeOK /\ StageInv /\ RangeInv /\ JobsInv /\ RepairInv
  BY DEF ToolsInv, ControlInv, ScanInv
<1>2. /\ stage = "missing" /\ cmd = "repair"
      /\ UNCHANGED <<canList, dstRoot, checkpointFiles, allBuckets, referencedBuckets, cmd, opts, before,
                     result, stage, probes, doList, todo, copying, bucketFetch>>
  BY <1>1 DEF RepairFile, fixed, command, archive, mirror, StageInv
<1>3. PICK f \in jobs :
        /\ jobs' = jobs \ {f}
        /\ IF ~categoryRequired(f[1]) /\ f \notin src
           THEN UNCHANGED <<dst, errs, repairedHistory, faults>>
           ELSE \E failed \in BOOLEAN :
                   /\ copyPath(f, failed)
                   /\ errs' = (errs \/ failed)
                   /\ repairedHistory' = (repairedHistory \/ f[1] = "history")
  BY DEF RepairFile
<1>4. f \in Files /\ opts \in OptionRecord /\ errs \in BOOLEAN /\ repairedHistory \in BOOLEAN
      /\ dst \in [Files -> {"none", "partial", "whole"}]
  BY <1>1, <1>2, PathFacts, Scanning DEF JobsInv, AfterScan, ToolsTypeOK
<1>5. /\ dst' \in [Files -> {"none", "partial", "whole"}]
      /\ \A g \in Files : g # f => dst'[g] = dst[g]
      /\ \A g \in Files : dst[g] # "none" => dst'[g] # "none"
      /\ errs' \in BOOLEAN /\ repairedHistory' \in BOOLEAN
      /\ ~errs' => ~errs /\ dst'[f] \in {dst[f], "whole"}
      /\ ~repairedHistory' => ~repairedHistory
      /\ f[1] \in Required => /\ ~repairedHistory' => f[1] # "history"
                              /\ ~errs' /\ ~opts.DryRun => dst'[f] # "none"
  <2>1. CASE ~categoryRequired(f[1]) /\ f \notin src
    BY <1>3, <1>4, <2>1 DEF categoryRequired
  <2>2. CASE ~(~categoryRequired(f[1]) /\ f \notin src)
    <3>1. PICK failed \in BOOLEAN : /\ copyPath(f, failed)
                                    /\ errs' = (errs \/ failed)
                                    /\ repairedHistory' = (repairedHistory \/ f[1] = "history")
      BY <1>3, <2>2
    <3>2. /\ dst' \in [Files -> {"none", "partial", "whole"}]
          /\ \A g \in Files : g # f => dst'[g] = dst[g]
          /\ \A g \in Files : dst[g] # "none" => dst'[g] # "none"
          /\ ~failed => dst'[f] \in {dst[f], "whole"}
          /\ ~failed /\ ~opts.DryRun => dst'[f] = "whole" \/ (dst'[f] = dst[f] /\ dst[f] # "none" /\ ~opts.Force)
      BY <1>1, <1>4, <3>1, CopyFacts
    <3> QED
      BY <1>4, <3>1, <3>2
  <2> QED
    BY <2>1, <2>2
<1>6. ~errs' => \A g \in Files : dst'[g] \in {dst[g], "whole"}
  BY <1>5
<1>7. RequiredFiles' = RequiredFiles /\ \A g \in RequiredFiles : g \in Files /\ g[1] \in Required
  BY <1>1, <1>2, PathFacts DEF RangeInv, InRange, RequiredFiles, CategoryFiles, Categories
<1>8. RepairInv'
  <2>1. ASSUME ~opts.DryRun, ~errs', NEW g \in RequiredFiles
        PROVE  dst'[g] # "none" \/ g \in jobs'
    <3>1. dst[g] # "none" \/ g \in jobs
      BY <1>1, <1>2, <1>5, <2>1 DEF RepairInv, AfterScan
    <3> QED
      BY <1>3, <1>5, <1>7, <2>1, <3>1
  <2>2. ASSUME ~repairedHistory', NEW g \in RequiredFiles, g[1] = "history"
        PROVE  g \in checkpointFiles \/ g \in jobs'
    <3>1. g \in checkpointFiles \/ g \in jobs
      BY <1>1, <1>2, <1>5, <2>2 DEF RepairInv
    <3> QED
      BY <1>3, <1>5, <1>7, <2>2, <3>1
  <2> QED
    BY <1>2, <1>7, <2>1, <2>2 DEF RepairInv, AtBuckets
<1>9. ReadInv'
  BY <1>2 DEF ReadInv
<1> QED
  BY <1>2, <1>3, <1>5, <1>6, <1>8, <1>9, RepairStep

(* A missing bucket. *)
LEMMA RepairBucketKeeps ==
    ASSUME ToolsInv, RepairBucket
    PROVE  ToolsInv'
<1>1. ToolsTypeOK /\ StageInv /\ RangeInv /\ JobsInv /\ RepairInv /\ ReadInv
  BY DEF ToolsInv, ControlInv, ScanInv
<1>2. /\ stage = "missingBuckets" /\ cmd = "repair"
      /\ UNCHANGED <<canList, dstRoot, checkpointFiles, allBuckets, referencedBuckets, cmd, opts, before,
                     result, stage, probes, doList, todo, copying, bucketFetch, repairedHistory>>
  BY <1>1 DEF RepairBucket, fixed, command, archive, mirror, StageInv
<1>3. PICK b \in jobs, failed \in BOOLEAN :
        jobs' = jobs \ {b} /\ copyPath(BucketPath(b), failed) /\ errs' = (errs \/ failed)
  BY DEF RepairBucket
<1>4. PICK f : f = BucketPath(b)
  OBVIOUS
<1>5. /\ f \in Files /\ opts \in OptionRecord /\ errs \in BOOLEAN /\ repairedHistory \in BOOLEAN
      /\ dst \in [Files -> {"none", "partial", "whole"}]
  BY <1>1, <1>2, <1>4, PathFacts, Scanning DEF JobsInv, AfterScan, AtBuckets, ToolsTypeOK
<1>6. /\ dst' \in [Files -> {"none", "partial", "whole"}]
      /\ \A g \in Files : g # f => dst'[g] = dst[g]
      /\ \A g \in Files : dst[g] # "none" => dst'[g] # "none"
      /\ ~failed => dst'[f] \in {dst[f], "whole"}
      /\ ~failed /\ ~opts.DryRun => dst'[f] = "whole" \/ (dst'[f] = dst[f] /\ dst[f] # "none" /\ ~opts.Force)
  BY <1>1, <1>3, <1>4, <1>5, CopyFacts
<1>7. errs' \in BOOLEAN /\ (~errs' => ~errs /\ ~failed)
  BY <1>3, <1>5
<1>8. ~errs' => \A g \in Files : dst'[g] \in {dst[g], "whole"}
  BY <1>6, <1>7
<1>9. RequiredFiles' = RequiredFiles /\ \A g \in RequiredFiles : g \in Files
  BY <1>1, <1>2, PathFacts DEF RangeInv, InRange, RequiredFiles, CategoryFiles, Categories
<1>10. RepairInv'
  BY <1>1, <1>2, <1>6, <1>7, <1>9 DEF RepairInv, AtBuckets, AfterScan
<1>11. ReadInv'
  <2>1. ASSUME ~errs', NEW k \in Chks, CategoryCheckpointPath("history", k) \in checkpointFiles
        PROVE  /\ dst'[CategoryCheckpointPath("history", k)] = "whole"
               /\ ToSet(BucketsOf[k]) \subseteq referencedBuckets
    <3>1. CategoryCheckpointPath("history", k) \in Files
      BY PathFacts DEF Categories, Required
    <3>2. /\ dst[CategoryCheckpointPath("history", k)] = "whole"
          /\ ToSet(BucketsOf[k]) \subseteq referencedBuckets
      BY <1>1, <1>2, <1>7, <2>1 DEF ReadInv
    <3> QED
      BY <1>8, <2>1, <3>1, <3>2
  <2>2. ASSUME ~errs', ~opts.DryRun, NEW c \in referencedBuckets
        PROVE  dst'[BucketPath(c)] # "none" \/ c \in jobs'
    <3>1. BucketPath(c) \in Files
      BY <1>1, PathFacts DEF ToolsTypeOK
    <3>2. dst[BucketPath(c)] # "none" \/ c \in jobs
      BY <1>1, <1>2, <1>7, <2>2 DEF ReadInv
    <3>3. c = b => dst'[BucketPath(c)] # "none"
      BY <1>4, <1>6, <1>7, <2>2
    <3> QED
      BY <1>3, <1>6, <3>1, <3>2, <3>3
  <2> QED
    BY <1>2, <2>1, <2>2 DEF ReadInv, BucketPath, CategoryCheckpointPath
<1> QED
  BY <1>2, <1>3, <1>5, <1>6, <1>7, <1>8, <1>10, <1>11, RepairStep

(* Repair gives up, or is through. *)
LEMMA RepairEndKeeps ==
    ASSUME ToolsInv, RepairStops \/ RepairDone
    PROVE  ToolsInv'
<1>1. /\ ToolsTypeOK /\ StageInv /\ RangeInv /\ FilesInv /\ RepairInv /\ ReadInv /\ VerifyInv
  BY DEF ToolsInv, ControlInv, ScanInv
<1>2. /\ UNCHANGED <<fixed, dst, archive>> /\ dstRoot' \in {0, SrcRoot}
      /\ Finish(TRUE, FALSE) \/ (RepairDone /\ ~errs /\ Finish(FALSE, FALSE))
  BY <1>1 DEF RepairStops, RepairDone, ToolsTypeOK
<1>3. CASE Finish(TRUE, FALSE)
  BY <1>2, <1>3, FailedKeeps
<1>4. CASE RepairDone /\ ~errs /\ Finish(FALSE, FALSE)
  <2>1. stage = "missingBuckets" /\ jobs = {} /\ cmd = "repair" /\ cmd # None /\ probes = {}
    BY <1>1, <1>4, ToolsAssumption DEF RepairDone, StageInv
  <2>2. /\ result' = [cmd |-> cmd, opts |-> opts, failed |-> FALSE, missing |-> FALSE]
        /\ UNCHANGED <<opts, before, dst>>
    BY <1>2, <1>4 DEF Finish
  <2>3. InRange \subseteq Chks /\ dst \in [Files -> {"none", "partial", "whole"}]
    BY <1>1, <2>1 DEF RangeInv, ToolsTypeOK
  <2>4. ASSUME ~opts.DryRun, NEW k \in InRange
        PROVE  /\ CategoryCheckpointPath("history", k) \in checkpointFiles
               /\ dst[CategoryCheckpointPath("history", k)] = "whole"
               /\ ToSet(BucketsOf[k]) \subseteq referencedBuckets
    <3>1. CategoryCheckpointPath("history", k) \in RequiredFiles /\ CategoryCheckpointPath("history", k)[1] = "history"
      BY DEF RequiredFiles, CategoryCheckpointPath, Required
    <3>2. CategoryCheckpointPath("history", k) \in checkpointFiles
      BY <1>1, <1>4, <2>1, <2>4, <3>1 DEF RepairInv, AtBuckets
    <3> QED
      BY <1>1, <1>4, <2>1, <2>3, <3>2 DEF ReadInv
  <2>5. CompleteOnSuccess'
    <3> SUFFICES ASSUME ~opts.DryRun, NEW f \in Needed(opts.Range)
                 PROVE  \/ dst[f] = "whole"
                        \/ /\ dst[f] = "partial" /\ before.dst[f] = "partial"
                           /\ ~Noticed(f, opts)
      BY <2>1, <2>2 DEF CompleteOnSuccess, Noticed, IsBucket
    <3>1. f \in Files /\ f[1] # "scp"
      BY <2>3, NeededFacts DEF InRange
    <3>2. dst[f] = "partial" => before.dst[f] = "partial"
      BY <1>1, <1>4, <2>1, <3>1 DEF FilesInv
    <3>3. CASE f \in Required \X InRange
      <4>1. f \in RequiredFiles /\ f = CategoryCheckpointPath(f[1], f[2]) /\ f[1] \in {"history", "ledger"}
            /\ f[2] \in InRange
        BY <3>3 DEF RequiredFiles, CategoryCheckpointPath, Required
      <4>2. dst[f] # "none"
        BY <1>1, <1>4, <2>1, <4>1 DEF RepairInv, AfterScan, AtBuckets
      <4>3. f[1] = "history" => dst[f] = "whole"
        BY <2>4, <4>1
      <4>4. f[1] = "ledger" /\ opts.Verify => dst[f] # "partial"
        BY <1>1, <1>4, <2>1, <4>1 DEF VerifyInv, Pending, AfterScan, AtBuckets
      <4> QED
        BY <2>3, <3>1, <3>2, <4>1, <4>2, <4>3, <4>4 DEF Noticed, IsBucket
    <3>4. CASE f \in {BucketPath(b) : b \in UNION {ToSet(BucketsOf[k]) : k \in InRange}}
      <4>1. PICK b \in UNION {ToSet(BucketsOf[k]) : k \in InRange} : f = BucketPath(b)
        BY <3>4
      <4>2. b \in referencedBuckets
        BY <2>4
      <4>3. dst[f] # "none"
        BY <1>1, <1>4, <2>1, <4>1, <4>2 DEF ReadInv
      <4>4. opts.Verify /\ opts.Thorough /\ before.fresh => dst[f] # "partial"
        BY <1>1, <1>4, <2>1, <4>1, <4>2 DEF VerifyInv
      <4>5. f[1] = "bucket"
        BY <4>1 DEF BucketPath
      <4> QED
        BY <2>3, <3>1, <3>2, <4>3, <4>4, <4>5 DEF Noticed
    <3> QED
      BY <3>3, <3>4 DEF Needed, InRange
  <2>6. ScanTellsTruth'
    BY <2>1, <2>2 DEF ScanTellsTruth, Ended
  <2> QED
    BY <1>2, <1>4, <2>5, <2>6, FinishKeeps
<1> QED
  BY <1>2, <1>3, <1>4

-----------------------------------------------------------------------------
(* ScanBuckets *)

(* A step of ScanBuckets changes what is known of buckets and nothing else. *)
LEMMA BucketStage ==
    ASSUME ToolsInv, stage \in {"startBuckets", "list", "buckets"}, stage' \in {"list", "buckets"},
           UNCHANGED <<canList, dst, dstRoot, checkpointFiles, cmd, opts, before, result, todo, copying,
                       bucketFetch, repairedHistory>>,
           referencedBuckets' \subseteq BucketIds, probes' \subseteq BucketIds,
           allBuckets' \subseteq BucketIds, \A b \in allBuckets' : dst[BucketPath(b)] # "none",
           stage' # "buckets" => probes' = {}, doList' \in BOOLEAN, errs' \in BOOLEAN, ~errs' => ~errs,
           ~errs' /\ opts.Verify /\ opts.Thorough /\ before.fresh =>
              \A b \in referencedBuckets' : dst[BucketPath(b)] = "partial" => b \in probes',
           JobsInv', ReadInv', FreshInv'
    PROVE  ToolsInv'
<1>1. ToolsTypeOK /\ StageInv /\ RangeInv /\ FilesInv /\ ListedInv /\ RepairInv /\ VerifyInv
  BY DEF ToolsInv, ControlInv, ScanInv
<1>2. cmd \in {"scan", "repair"} /\ cmd # None
  BY Scanning DEF AfterScan, AtBuckets
<1>3. InRange' = InRange /\ RequiredFiles' = RequiredFiles
  BY DEF InRange, RequiredFiles
<1>4. \A f : ~Pending(f)
  BY DEF Pending
<1>5. ToolsTypeOK'
  BY <1>1 DEF ToolsTypeOK, Stages, AfterScan, AtBuckets
<1>6. StageInv'
  BY <1>1, <1>2 DEF StageInv, Idle, NoCopy
<1>7. RangeInv'
  BY <1>1, <1>2, <1>3 DEF RangeInv
<1>8. FilesInv'
  BY <1>1, <1>2, FilesKeep DEF FilesInv
<1>9. ListedInv'
  BY <1>1, <1>3, <1>4 DEF ListedInv, AtBuckets
<1>10. RepairInv'
  BY <1>1, <1>3 DEF RepairInv, AtBuckets, AfterScan
<1>11. VerifyInv'
  BY <1>1, <1>3, <1>4 DEF VerifyInv, AtBuckets, AfterScan, BucketPath
<1> QED
  BY <1>2, <1>5, <1>6, <1>7, <1>8, <1>9, <1>10, <1>11, ScanStage DEF ControlInv, ScanInv, mirror

(* It is decided whether to list the buckets. *)
LEMMA ScanBucketsKeeps ==
    ASSUME ToolsInv, ScanBuckets
    PROVE  ToolsInv'
<1>1. /\ ToolsTypeOK /\ StageInv /\ FilesInv /\ VerifyInv /\ FreshInv
  BY DEF ToolsInv, ControlInv, ScanInv
<1>2. /\ stage = "startBuckets" /\ stage' = "list"
      /\ jobs' = {f[2] : f \in {g \in checkpointFiles : g[1] = "history"}}
      /\ UNCHANGED <<canList, dst, dstRoot, checkpointFiles, allBuckets, referencedBuckets, cmd, opts, before,
                     result, probes, todo, copying, bucketFetch, repairedHistory, errs>>
  BY DEF ScanBuckets, fixed, archive, command, mirror
<1>3. doList' \in BOOLEAN
  BY <1>1 DEF ScanBuckets, ToolsTypeOK
<1>4. probes = {} /\ cmd \in {"scan", "repair"}
  BY <1>1, <1>2, Scanning DEF StageInv, AfterScan, AtBuckets
<1>5. jobs' = {k \in Chks : CategoryCheckpointPath("history", k) \in checkpointFiles}
  <2>1. \A f \in checkpointFiles : f[2] \in Chks /\ f = <<f[1], f[2]>>
    BY <1>1 DEF ToolsTypeOK, CategoryFiles
  <2>2. ASSUME NEW k \in jobs' PROVE k \in Chks /\ CategoryCheckpointPath("history", k) \in checkpointFiles
    BY <1>2, <2>1 DEF CategoryCheckpointPath
  <2>3. ASSUME NEW k \in Chks, CategoryCheckpointPath("history", k) \in checkpointFiles PROVE k \in jobs'
    BY <1>2, <2>3, PathFacts
  <2> QED
    BY <2>2, <2>3
<1>6. JobsInv' /\ ReadInv'
  BY <1>2, <1>5 DEF JobsInv, ReadInv, CategoryCheckpointPath
<1>7. FreshInv'
  BY <1>1, <1>2 DEF FreshInv, InRange
<1>8. ~errs' /\ opts.Verify /\ opts.Thorough /\ before.fresh =>
        \A b \in referencedBuckets' : dst[BucketPath(b)] = "partial" => b \in probes'
  BY <1>1, <1>2, <1>4 DEF VerifyInv
<1>9. /\ referencedBuckets' \subseteq BucketIds /\ probes' = {} /\ errs' \in BOOLEAN
      /\ allBuckets' \subseteq BucketIds /\ \A b \in allBuckets' : dst[BucketPath(b)] # "none"
  BY <1>1, <1>2, <1>4 DEF ToolsTypeOK, FilesInv
<1> QED
  BY <1>2, <1>3, <1>6, <1>7, <1>8, <1>9, BucketStage

(* There are no goroutines: a repair goes on with an error. *)
LEMMA CannotScanBucketsKeeps ==
    ASSUME ToolsInv, CannotScanBuckets
    PROVE  ToolsInv'
<1>1. ToolsTypeOK /\ StageInv /\ RangeInv /\ FilesInv
  BY DEF ToolsInv, ControlInv
<1>2. /\ stage = "startBuckets" /\ cmd = "repair" /\ cmd # None /\ errs' = TRUE
      /\ stage' = "missingBuckets" /\ jobs' = referencedBuckets \ allBuckets
      /\ UNCHANGED <<canList, dst, dstRoot, checkpointFiles, allBuckets, referencedBuckets, cmd, opts, before,
                     result, probes, doList, todo, copying, bucketFetch, repairedHistory>>
  BY ToolsAssumption DEF CannotScanBuckets, fixed, archive, command, mirror
<1>3. ToolsTypeOK'
  BY <1>1, <1>2 DEF ToolsTypeOK, Stages, AfterScan, AtBuckets
<1>4. StageInv'
  BY <1>1, <1>2 DEF StageInv, Idle, NoCopy
<1>5. RangeInv' /\ JobsInv'
  BY <1>1, <1>2 DEF RangeInv, JobsInv, InRange, ToolsTypeOK
<1>6. FilesInv'
  BY <1>1, <1>2, FilesKeep DEF FilesInv
<1>7. ScanInv'
  BY <1>2 DEF ScanInv, ListedInv, RepairInv, ReadInv, VerifyInv, FreshInv, AtBuckets, AfterScan
<1> QED
  BY <1>2, <1>3, <1>4, <1>5, <1>6, <1>7, ScanStage DEF ControlInv, mirror

(* All buckets are listed, or none. *)
LEMMA AllBucketsKeeps ==
    ASSUME ToolsInv, ScanAllBuckets
    PROVE  ToolsInv'
<1>1. /\ ToolsTypeOK /\ StageInv /\ JobsInv /\ FilesInv /\ ReadInv /\ VerifyInv /\ FreshInv
  BY DEF ToolsInv, ControlInv, ScanInv
<1>2. /\ stage = "list" /\ stage' = "buckets"
      /\ UNCHANGED <<canList, dst, dstRoot, checkpointFiles, referencedBuckets, cmd, opts, before, result,
                     jobs, probes, doList, todo, copying, bucketFetch, repairedHistory>>
  BY DEF ScanAllBuckets, fixed, command, mirror
<1>3. PICK there : there = {b \in BucketIds : dst[BucketPath(b)] # "none"}
  OBVIOUS
<1>4. \/ ~doList /\ UNCHANGED <<allBuckets, errs>>
      \/ doList /\ allBuckets' = allBuckets \cup there /\ UNCHANGED errs
      \/ doList /\ errs' = TRUE /\ \E listed \in {{}, there} : allBuckets' = allBuckets \cup listed
  BY <1>3 DEF ScanAllBuckets
<1>5. /\ errs' \in BOOLEAN /\ (~errs' => ~errs)
      /\ doList /\ ~errs' => \A b \in BucketIds : dst[BucketPath(b)] # "none" => b \in allBuckets'
  BY <1>1, <1>3, <1>4 DEF ToolsTypeOK
<1>6. /\ referencedBuckets' \subseteq BucketIds /\ probes' \subseteq BucketIds /\ doList' \in BOOLEAN
      /\ allBuckets' \subseteq BucketIds /\ \A b \in allBuckets' : dst[BucketPath(b)] # "none"
  BY <1>1, <1>2, <1>3, <1>4 DEF ToolsTypeOK, FilesInv
<1>7. cmd \in {"scan", "repair"}
  BY <1>2, Scanning DEF AfterScan, AtBuckets
<1>8. JobsInv' /\ ReadInv'
  BY <1>1, <1>2, <1>5 DEF JobsInv, ReadInv, CategoryCheckpointPath
<1>9. FreshInv'
  BY <1>1, <1>2, <1>5 DEF FreshInv, InRange, BucketPath
<1>10. ~errs' /\ opts.Verify /\ opts.Thorough /\ before.fresh =>
        \A b \in referencedBuckets' : dst[BucketPath(b)] = "partial" => b \in probes'
  BY <1>1, <1>2, <1>5, <1>7 DEF VerifyInv
<1> QED
  BY <1>2, <1>5, <1>6, <1>8, <1>9, <1>10, BucketStage

(* The HAS of a checkpoint is read. *)
LEMMA ReadHASKeeps ==
    ASSUME ToolsInv, ReadHAS
    PROVE  ToolsInv'
<1>1. /\ ToolsTypeOK /\ StageInv /\ JobsInv /\ FilesInv /\ ReadInv /\ VerifyInv /\ FreshInv
  BY DEF ToolsInv, ControlInv, ScanInv
<1>2. /\ stage = "buckets"
      /\ UNCHANGED <<canList, dst, dstRoot, checkpointFiles, allBuckets, cmd, opts, before, result, stage,
                     doList, todo, copying, bucketFetch, repairedHistory>>
  BY DEF ReadHAS, fixed, command, mirror
<1>3. PICK chk \in jobs :
        LET new == ToSet(BucketsOf[chk]) \ referencedBuckets
            readable == dst[CategoryCheckpointPath("history", chk)] = "whole"
        IN /\ jobs' = jobs \ {chk}
           /\ \/ /\ readable
                 /\ referencedBuckets' = referencedBuckets \cup new
                 /\ probes' = IF ~doList \/ opts.Verify THEN probes \cup new ELSE probes
                 /\ UNCHANGED errs
              \/ errs' = TRUE /\ UNCHANGED <<referencedBuckets, probes>>
  BY DEF ReadHAS
<1>4. PICK new : new = ToSet(BucketsOf[chk]) \ referencedBuckets
  OBVIOUS
<1>5. chk \in Chks /\ CategoryCheckpointPath("history", chk) \in checkpointFiles /\ new \subseteq BucketIds
  BY <1>1, <1>2, <1>4, PathFacts DEF JobsInv
<1>6. \/ /\ dst[CategoryCheckpointPath("history", chk)] = "whole"
         /\ referencedBuckets' = referencedBuckets \cup new
         /\ probes' = IF ~doList \/ opts.Verify THEN probes \cup new ELSE probes
         /\ UNCHANGED errs
      \/ errs' = TRUE /\ UNCHANGED <<referencedBuckets, probes>>
  BY <1>3, <1>4
<1>7. /\ referencedBuckets \subseteq referencedBuckets' /\ probes \subseteq probes'
      /\ referencedBuckets' \subseteq referencedBuckets \cup new
      /\ ~errs' => /\ ~errs /\ dst[CategoryCheckpointPath("history", chk)] = "whole"
                   /\ ToSet(BucketsOf[chk]) \subseteq referencedBuckets'
                   /\ opts.Verify => new \subseteq probes'
      /\ \A b \in referencedBuckets' : b \in referencedBuckets \/ (~doList => b \in probes')
      /\ ~errs' /\ opts.Verify => \A b \in referencedBuckets' : b \in referencedBuckets \/ b \in probes'
  BY <1>4, <1>6
<1>8. errs' \in BOOLEAN /\ referencedBuckets' \subseteq BucketIds /\ probes' \subseteq BucketIds
  BY <1>1, <1>5, <1>6 DEF ToolsTypeOK
<1>9. cmd \in {"scan", "repair"}
  BY <1>2, Scanning DEF AfterScan, AtBuckets
<1>10. jobs' = jobs \ {chk}
  BY <1>3
<1>11. JobsInv'
  BY <1>1, <1>2, <1>10 DEF JobsInv, CategoryCheckpointPath
<1>12. ReadInv'
  <2>1. ASSUME ~errs', NEW k \in Chks, CategoryCheckpointPath("history", k) \in checkpointFiles, k \notin jobs'
        PROVE  /\ dst[CategoryCheckpointPath("history", k)] = "whole"
               /\ ToSet(BucketsOf[k]) \subseteq referencedBuckets'
    <3>1. CASE k = chk
      BY <1>7, <2>1, <3>1
    <3>2. CASE k # chk
      BY <1>1, <1>2, <1>7, <1>10, <2>1, <3>2 DEF ReadInv
    <3> QED
      BY <3>1, <3>2
  <2> QED
    BY <1>2, <2>1 DEF ReadInv, CategoryCheckpointPath
<1>13. FreshInv'
  <2>1. ASSUME cmd = "scan", before.fresh PROVE new \subseteq UNION {ToSet(BucketsOf[k]) : k \in InRange}
    <3>1. chk \in InRange
      BY <1>1, <1>2, <1>5, <2>1, PathFacts DEF FreshInv, CategoryCheckpointPath
    <3> QED
      BY <1>4, <3>1
  <2>2. InRange' = InRange
    BY <1>2 DEF InRange
  <2>3. ASSUME cmd = "scan", before.fresh
        PROVE  /\ checkpointFiles \subseteq Categories \X InRange
               /\ referencedBuckets' \subseteq UNION {ToSet(BucketsOf[k]) : k \in InRange}
    BY <1>1, <1>2, <1>7, <2>1, <2>3 DEF FreshInv
  <2>4. ASSUME cmd = "scan", ~doList, before.fresh
        PROVE  \A b \in referencedBuckets' : dst[BucketPath(b)] # "none" => b \in allBuckets \cup probes'
    BY <1>1, <1>2, <1>7, <2>4 DEF FreshInv
  <2>5. ASSUME cmd = "scan", doList, ~errs'
        PROVE  \A b \in BucketIds : dst[BucketPath(b)] # "none" => b \in allBuckets
    BY <1>1, <1>2, <1>7, <2>5 DEF FreshInv
  <2> QED
    BY <1>2, <2>2, <2>3, <2>4, <2>5 DEF FreshInv, BucketPath
<1>14. ~errs' /\ opts.Verify /\ opts.Thorough /\ before.fresh =>
        \A b \in referencedBuckets' : dst[BucketPath(b)] = "partial" => b \in probes'
  BY <1>1, <1>7, <1>9 DEF VerifyInv
<1>15. allBuckets' \subseteq BucketIds /\ (\A b \in allBuckets' : dst[BucketPath(b)] # "none") /\ doList' \in BOOLEAN
  BY <1>1, <1>2 DEF ToolsTypeOK, FilesInv
<1> QED
  BY <1>2, <1>7, <1>8, <1>11, <1>12, <1>13, <1>14, <1>15, BucketStage

(* A bucket is looked for. *)
LEMMA ProbeKeeps ==
    ASSUME ToolsInv, ProbeBucket
    PROVE  ToolsInv'
<1>1. /\ ToolsTypeOK /\ StageInv /\ JobsInv /\ FilesInv /\ ReadInv /\ VerifyInv /\ FreshInv
  BY DEF ToolsInv, ControlInv, ScanInv
<1>2. /\ stage = "buckets"
      /\ UNCHANGED <<canList, dst, dstRoot, checkpointFiles, referencedBuckets, cmd, opts, before, result,
                     stage, jobs, doList, todo, copying, bucketFetch, repairedHistory>>
  BY DEF ProbeBucket, fixed, command, mirror
<1>3. PICK b \in probes :
        /\ probes' = probes \ {b}
        /\ allBuckets' = IF dst[BucketPath(b)] # "none" /\ ~doList THEN allBuckets \cup {b} ELSE allBuckets
        /\ \/ \E bad \in BOOLEAN : /\ opts.Thorough => bad = (dst[BucketPath(b)] = "partial")
                                 /\ errs' = (errs \/ (opts.Verify /\ bad))
           \/ errs' = TRUE
  BY DEF ProbeBucket, VerifyBucketHash, VerifyBucketEntries
<1>4. cmd \in {"scan", "repair"} /\ opts.Verify \in BOOLEAN /\ opts.Thorough \in BOOLEAN
  BY <1>2, Scanning DEF AfterScan, AtBuckets, OptionRecord
<1>5. /\ errs' \in BOOLEAN
      /\ ~errs' => ~errs /\ ~(opts.Verify /\ opts.Thorough /\ dst[BucketPath(b)] = "partial")
  BY <1>1, <1>3, <1>4 DEF ToolsTypeOK
<1>6. /\ referencedBuckets' \subseteq BucketIds /\ probes' \subseteq BucketIds /\ doList' \in BOOLEAN
      /\ allBuckets' \subseteq BucketIds /\ \A c \in allBuckets' : dst[BucketPath(c)] # "none"
  BY <1>1, <1>2, <1>3 DEF ToolsTypeOK, FilesInv
<1>7. allBuckets \subseteq allBuckets' /\ (~doList /\ dst[BucketPath(b)] # "none" => b \in allBuckets')
  BY <1>3
<1>8. JobsInv' /\ ReadInv'
  BY <1>1, <1>2, <1>5 DEF JobsInv, ReadInv, CategoryCheckpointPath
<1>9. FreshInv'
  <2>1. ASSUME cmd = "scan", ~doList, before.fresh, NEW c \in referencedBuckets, dst[BucketPath(c)] # "none"
        PROVE  c \in allBuckets' \cup probes'
    <3>1. c \in allBuckets \cup probes
      BY <1>1, <1>2, <2>1 DEF FreshInv
    <3> QED
      BY <1>3, <1>7, <2>1, <3>1
  <2>2. ASSUME cmd = "scan", doList, ~errs'
        PROVE  \A c \in BucketIds : dst[BucketPath(c)] # "none" => c \in allBuckets'
    BY <1>1, <1>2, <1>5, <1>7, <2>2 DEF FreshInv
  <2> QED
    BY <1>1, <1>2, <2>1, <2>2 DEF FreshInv, BucketPath, InRange
<1>10. ~errs' /\ opts.Verify /\ opts.Thorough /\ before.fresh =>
        \A c \in referencedBuckets' : dst[BucketPath(c)] = "partial" => c \in probes'
  <2> SUFFICES ASSUME ~errs', opts.Verify, opts.Thorough, before.fresh, NEW c \in referencedBuckets,
                      dst[BucketPath(c)] = "partial"
               PROVE  c \in probes'
    BY <1>2
  <2>1. c \in probes
    BY <1>1, <1>4, <1>5 DEF VerifyInv
  <2> QED
    BY <1>3, <1>5, <2>1
<1> QED
  BY <1>2, <1>5, <1>6, <1>8, <1>9, <1>10, BucketStage

(* A scan reports what it found. *)
LEMMA ScanEndKeeps ==
    ASSUME ToolsInv, stage = "buckets", jobs = {}, probes = {}, cmd = "scan", ~errs, NEW missing \in BOOLEAN,
           missing = (MissingBuckets # {} \/ \E f \in MissingFiles : categoryRequired(f[1])),
           Finish(FALSE, missing), UNCHANGED <<fixed, dst, dstRoot, archive>>
    PROVE  ToolsInv'
<1>1. /\ ToolsTypeOK /\ StageInv /\ RangeInv /\ FilesInv /\ ListedInv /\ ReadInv /\ VerifyInv /\ FreshInv
  BY DEF ToolsInv, ControlInv, ScanInv
<1>2. /\ result' = [cmd |-> cmd, opts |-> opts, failed |-> FALSE, missing |-> missing]
      /\ UNCHANGED <<opts, before, dst>>
  BY DEF Finish
<1>3. /\ InRange \subseteq Chks /\ dst \in [Files -> {"none", "partial", "whole"}]
      /\ referencedBuckets \subseteq BucketIds /\ dstRoot' \in {0, SrcRoot}
  BY <1>1 DEF RangeInv, ToolsTypeOK
<1>4. \A f \in RequiredFiles : dst[f] # "none" => f \in checkpointFiles
  BY <1>1 DEF ListedInv, Pending, AtBuckets
<1>5. missing = (MissingBuckets # {} \/ \E f \in RequiredFiles : f \notin checkpointFiles)
  BY DEF MissingFiles, RequiredFiles, InRange, categoryRequired, Categories
<1>6. CASE missing
  <2>1. ASSUME before.fresh PROVE \E f \in Needed(opts.Range) : dst[f] = "none"
    <3>1. CASE MissingBuckets # {}
      <4>1. PICK b \in referencedBuckets : b \notin allBuckets
        BY <3>1 DEF MissingBuckets
      <4>2. b \in UNION {ToSet(BucketsOf[k]) : k \in InRange}
        BY <1>1, <2>1 DEF FreshInv
      <4>3. BucketPath(b) \in Needed(opts.Range)
        BY <4>2 DEF Needed, InRange
      <4>4. dst[BucketPath(b)] = "none"
        BY <1>1, <1>3, <2>1, <4>1 DEF FreshInv
      <4> QED
        BY <4>3, <4>4
    <3>2. CASE \E f \in RequiredFiles : f \notin checkpointFiles
      BY <1>4, <3>2 DEF RequiredFiles, Needed, InRange
    <3> QED
      BY <1>5, <1>6, <3>1, <3>2
  <2>2. ScanTellsTruth'
    BY <1>2, <1>6, <2>1 DEF ScanTellsTruth
  <2>3. CompleteOnSuccess'
    BY <1>2 DEF CompleteOnSuccess, Ended
  <2> QED
    BY <1>3, <2>2, <2>3, FinishKeeps
<1>7. CASE ~missing
  <2>1. \A b \in referencedBuckets : dst[BucketPath(b)] # "none"
    BY <1>1, <1>5, <1>7 DEF MissingBuckets, FilesInv
  <2>2. \A f \in RequiredFiles : f \in checkpointFiles /\ dst[f] # "none"
    BY <1>1, <1>5, <1>7 DEF FilesInv
  <2>3. ASSUME NEW k \in InRange
        PROVE  /\ dst[CategoryCheckpointPath("history", k)] = "whole"
               /\ ToSet(BucketsOf[k]) \subseteq referencedBuckets
    <3>1. CategoryCheckpointPath("history", k) \in RequiredFiles
      BY DEF RequiredFiles, CategoryCheckpointPath, Required
    <3> QED
      BY <1>1, <1>3, <2>2, <3>1 DEF ReadInv
  <2>4. ASSUME NEW f \in Needed(opts.Range)
        PROVE  dst[f] # "none" /\ (Noticed(f, opts) => dst[f] = "whole")
    <3>1. f \in Files
      BY <1>3, NeededFacts DEF InRange
    <3>2. CASE f \in Required \X InRange
      <4>1. f \in RequiredFiles /\ f = CategoryCheckpointPath(f[1], f[2]) /\ f[1] \in {"history", "ledger"}
            /\ f[2] \in InRange
        BY <3>2 DEF RequiredFiles, CategoryCheckpointPath, Required
      <4>2. f[1] = "history" => dst[f] = "whole"
        BY <2>3, <4>1
      <4>3. f[1] = "ledger" /\ opts.Verify => dst[f] # "partial"
        BY <1>1, <4>1 DEF VerifyInv, Pending, AfterScan, AtBuckets
      <4> QED
        BY <1>3, <2>2, <3>1, <4>1, <4>2, <4>3 DEF Noticed, IsBucket
    <3>3. CASE f \in {BucketPath(b) : b \in UNION {ToSet(BucketsOf[k]) : k \in InRange}}
      <4>1. PICK b \in UNION {ToSet(BucketsOf[k]) : k \in InRange} : f = BucketPath(b)
        BY <3>3
      <4>2. b \in referencedBuckets
        BY <2>3
      <4>3. dst[f] # "none"
        BY <2>1, <4>1, <4>2
      <4>4. opts.Verify /\ opts.Thorough /\ before.fresh => dst[f] # "partial"
        BY <1>1, <4>1, <4>2 DEF VerifyInv
      <4>5. f[1] = "bucket"
        BY <4>1 DEF BucketPath
      <4> QED
        BY <1>3, <3>1, <4>3, <4>4, <4>5 DEF Noticed
    <3> QED
      BY <3>2, <3>3 DEF Needed, InRange
  <2>5. ScanTellsTruth'
    BY <1>2, <1>7, <2>4 DEF ScanTellsTruth, Noticed, IsBucket
  <2>6. CompleteOnSuccess'
    BY <1>2 DEF CompleteOnSuccess, Ended
  <2> QED
    BY <1>3, <2>5, <2>6, FinishKeeps
<1> QED
  BY <1>6, <1>7

(* All buckets are looked for: a scan ends, a repair copies. *)
LEMMA BucketsScannedKeeps ==
    ASSUME ToolsInv, BucketsScanned
    PROVE  ToolsInv'
<1>1. /\ ToolsTypeOK /\ StageInv /\ FilesInv /\ RepairInv /\ ReadInv /\ VerifyInv
  BY DEF ToolsInv, ControlInv, ScanInv
<1>2. stage = "buckets" /\ jobs = {} /\ probes = {}
  BY DEF BucketsScanned
<1>3. cmd \in {"scan", "repair"}
  BY <1>2, Scanning DEF AfterScan, AtBuckets
<1>4. CASE cmd = "scan"
  <2>1. PICK missing \in BOOLEAN : missing = (MissingBuckets # {} \/ \E f \in MissingFiles : categoryRequired(f[1]))
    OBVIOUS
  <2>2. /\ Finish(errs, missing) /\ UNCHANGED <<fixed, dst, dstRoot, archive>>
        /\ dstRoot' \in {0, SrcRoot} /\ errs \in BOOLEAN
    BY <1>1, <1>4, <2>1 DEF BucketsScanned, ToolsTypeOK
  <2>3. CASE errs = TRUE
    <3>1. Finish(TRUE, missing)
      BY <2>2, <2>3
    <3> QED
      BY <2>2, <3>1, FailedKeeps
  <2>4. CASE errs = FALSE
    <3>1. Finish(FALSE, missing)
      BY <2>2, <2>4
    <3> QED
      BY <1>2, <1>4, <2>1, <2>2, <2>4, <3>1, ScanEndKeeps
  <2> QED
    BY <2>2, <2>3, <2>4
<1>5. CASE cmd = "repair"
  <2>1. Continue("missingBuckets", MissingBuckets) /\ UNCHANGED <<archive, repairedHistory>>
    BY <1>5 DEF BucketsScanned
  <2>2. /\ stage' = "missingBuckets" /\ jobs' = MissingBuckets
        /\ UNCHANGED <<canList, dst, cmd, opts, before, probes, doList, errs, checkpointFiles, allBuckets,
                       referencedBuckets, repairedHistory>>
    BY <2>1 DEF Continue, fixed, command, archive
  <2>3. InRange' = InRange /\ RequiredFiles' = RequiredFiles
    BY <2>2 DEF InRange, RequiredFiles
  <2>4. JobsInv'
    BY <1>1, <2>2 DEF JobsInv, MissingBuckets, ToolsTypeOK
  <2>5. ListedInv' /\ FreshInv'
    BY <1>5, <2>2 DEF ListedInv, FreshInv
  <2>6. RepairInv'
    BY <1>1, <1>2, <2>2, <2>3 DEF RepairInv, AtBuckets, AfterScan
  <2>7. ReadInv'
    <3>1. \A b \in referencedBuckets : dst[BucketPath(b)] # "none" \/ b \in MissingBuckets
      BY <1>1 DEF MissingBuckets, FilesInv
    <3> QED
      BY <1>1, <1>2, <2>2, <3>1 DEF ReadInv, CategoryCheckpointPath, BucketPath
  <2>8. VerifyInv'
    <3>1. \A f : ~Pending(f)
      BY <1>2 DEF Pending
    <3> QED
      BY <1>1, <1>2, <2>2, <2>3, <3>1 DEF VerifyInv, BucketPath, AfterScan, AtBuckets
  <2> QED
    BY <1>2, <1>5, <2>1, <2>4, <2>5, <2>6, <2>7, <2>8, ContinueKeeps DEF ScanInv
<1> QED
  BY <1>3, <1>4, <1>5
-----------------------------------------------------------------------------
(* Nothing changes. *)
LEMMA ToolsStutter ==
    ASSUME ToolsInv, UNCHANGED vars
    PROVE  ToolsInv'
<1>1. UNCHANGED <<src, canList, dst, dstRoot, checkpointFiles, allBuckets, referencedBuckets, cmd, opts, before,
                  result, commands, stage, jobs, probes, doList, todo, copying, bucketFetch,
                  repairedHistory, errs, faults>>
  BY DEF vars, fixed, archive, mirror, command
<1>2. Idle' = Idle /\ NoCopy' = NoCopy /\ InRange' = InRange /\ RequiredFiles' = RequiredFiles /\ Scanned' = Scanned
  BY <1>1 DEF Idle, NoCopy, InRange, RequiredFiles, Scanned, categoryRequired
<1>3. ToolsTypeOK' /\ StageInv' /\ RangeInv' /\ JobsInv'
  <2>1. ToolsTypeOK /\ StageInv /\ RangeInv /\ JobsInv
    BY DEF ToolsInv, ControlInv
  <2>2. ToolsTypeOK'
    BY <1>1, <2>1 DEF ToolsTypeOK
  <2>3. StageInv'
    BY <1>1, <1>2, <2>1 DEF StageInv
  <2>4. RangeInv' /\ JobsInv'
    BY <1>1, <1>2, <2>1 DEF RangeInv, JobsInv, CategoryCheckpointPath
  <2> QED
    BY <2>2, <2>3, <2>4
<1>4. WorkInv'
  BY <1>1 DEF ToolsInv, WorkInv, NoSharedWrites, IsBucket
<1>5. MirrorInv'
  <2>1. \A k : FilesOf(k)' = FilesOf(k)
    BY <1>1 DEF FilesOf
  <2>2. \A f : Settles(f)' <=> Settles(f)
    BY <1>1 DEF Settles
  <2> QED
    BY <1>1, <2>1, <2>2 DEF ToolsInv, MirrorInv, IsBucket
<1>6. FilesInv'
  BY <1>1 DEF ToolsInv, FilesInv, BucketPath
<1>7. ScanInv'
  <2>1. \A f : Pending(f)' <=> Pending(f)
    BY <1>1 DEF Pending
  <2>2. ListedInv /\ RepairInv /\ ReadInv /\ VerifyInv /\ FreshInv
    BY DEF ToolsInv, ScanInv
  <2>3. ListedInv'
    BY <1>1, <1>2, <2>1, <2>2 DEF ListedInv
  <2>4. RepairInv'
    BY <1>1, <1>2, <2>2 DEF RepairInv
  <2>5. ReadInv'
    BY <1>1, <2>2 DEF ReadInv, BucketPath, CategoryCheckpointPath
  <2>6. VerifyInv'
    BY <1>1, <1>2, <2>1, <2>2 DEF VerifyInv, BucketPath
  <2>7. FreshInv'
    BY <1>1, <1>2, <2>2 DEF FreshInv, BucketPath
  <2> QED
    BY <2>3, <2>4, <2>5, <2>6, <2>7 DEF ScanInv
<1>8. CompleteOnSuccess' /\ ScanTellsTruth'
  BY <1>1 DEF ToolsInv, CompleteOnSuccess, ScanTellsTruth, Ended, Noticed, IsBucket
<1> QED
  BY <1>3, <1>4, <1>5, <1>6, <1>7, <1>8 DEF ToolsInv, ControlInv

(* Every step keeps the invariant. *)
LEMMA ToolsStep == ToolsInv /\ [Next]_vars => ToolsInv'
<1> SUFFICES ASSUME ToolsInv, [Next]_vars PROVE ToolsInv'
  OBVIOUS
<1>1. CASE Mirror \/ Scan \/ Repair
  BY <1>1, CommandKeeps
<1>2. CASE Crash
  BY <1>2, CrashKeeps
<1>3. ASSUME NEW w \in Workers, TakeCheckpoint(w) \/ ClaimFile(w) \/ CopyFile(w) PROVE ToolsInv'
  BY <1>3, TakeKeeps, ClaimKeeps, CopyKeeps
<1>4. CASE PutRootHAS \/ LeaveRootHAS
  BY <1>4, MirrorEndKeeps
<1>5. CASE ScanCheckpoints \/ CannotScan
  BY <1>5, ScanCheckpointsKeeps, CannotScanKeeps
<1>6. CASE ListCategoryCheckpoints \/ CategoryCheckpointExists
  BY <1>6, ListKeeps, ExistsKeeps
<1>7. CASE CheckpointsScanned \/ ToScanBuckets
  BY <1>7, ScannedKeeps, ToBucketsKeeps
<1>8. CASE RepairFile \/ RepairBucket
  BY <1>8, RepairFileKeeps, RepairBucketKeeps
<1>9. CASE RepairStops \/ RepairDone
  BY <1>9, RepairEndKeeps
<1>10. CASE FilesRepaired
  BY <1>10, FilesRepairedKeeps
<1>11. CASE ScanBuckets \/ CannotScanBuckets \/ ScanAllBuckets
  BY <1>11, ScanBucketsKeeps, CannotScanBucketsKeeps, AllBucketsKeeps
<1>12. CASE ReadHAS \/ ProbeBucket
  BY <1>12, ReadHASKeeps, ProbeKeeps
<1>13. CASE BucketsScanned
  BY <1>13, BucketsScannedKeeps
<1>14. CASE UNCHANGED vars
  BY <1>14, ToolsStutter
<1> QED
  BY <1>1, <1>2, <1>3, <1>4, <1>5, <1>6, <1>7, <1>8, <1>9, <1>10, <1>11, <1>12, <1>13, <1>14 DEF Next

(***************************************************************************)
(* What Mirror, Scan and Repair keep in mind of an archive (the files      *)
(* still to copy, those an Archive remembers, those still to look at) is   *)
(* at every step enough for what they report in the end.                   *)
(***************************************************************************)
THEOREM ToolsCorrect == Spec => []ToolsInv
BY ToolsInit, ToolsStep, PTL DEF Spec

(***************************************************************************)
(* A Mirror with a goroutine or a Repair that returns nil has left every   *)
(* file of its range in the destination, and none of them is cut off that  *)
(* was not before, or that Repair looks at closely enough to notice.       *)
(***************************************************************************)
THEOREM MirrorAndRepairComplete == Spec => []CompleteOnSuccess
<1>1. ToolsInv => CompleteOnSuccess
  BY DEF ToolsInv
<1> QED
  BY <1>1, ToolsCorrect, PTL

(***************************************************************************)
(* A scan without errors tells the truth about the files of its range,     *)
(* whether it listed them or asked for them one by one; of those that are  *)
(* cut off it misses buckets it does not decode, and ledger files it does  *)
(* not verify.                                                             *)
(***************************************************************************)
THEOREM CleanScanIsTrue == Spec => []ScanTellsTruth
<1>1. ToolsInv => ScanTellsTruth
  BY DEF ToolsInv
<1> QED
  BY <1>1, ToolsCorrect, PTL

(***************************************************************************)
(* The goroutines of a Mirror never write the same file at once, however   *)
(* many there are.                                                         *)
(***************************************************************************)
THEOREM GoroutinesWriteApart == Spec => []NoSharedWrites
<1>1. ToolsInv => NoSharedWrites
  BY DEF ToolsInv, WorkInv
<1> QED
  BY <1>1, ToolsCorrect, PTL
=============================================================================
