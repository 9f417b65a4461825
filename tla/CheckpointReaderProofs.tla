----------------------- MODULE CheckpointReaderProofs -----------------------
(***************************************************************************)
(* Theorems about CheckpointReader, for every set of keys, number of       *)
(* buckets, buffer size and number of retries, every legal list and        *)
(* whatever goes wrong with the archive.                                   *)
(***************************************************************************)
EXTENDS CheckpointReader, SequenceTheorems, TLAPS

(* The elements of a sequence. *)
LEMMA ElementsIn ==
    ASSUME NEW S, NEW s \in Seq(S)
    PROVE  ToSet(s) \subseteq S
<1>1. DOMAIN s = 1 .. Len(s) /\ \A i \in 1 .. Len(s) : s[i] \in S
  BY LenProperties, ElementOfSeq
<1> QED
  BY <1>1 DEF ToSet

(* The elements of a sequence that is appended to. *)
LEMMA AppendElements ==
    ASSUME NEW S, NEW s \in Seq(S), NEW e \in S
    PROVE  /\ Append(s, e) \in Seq(S)
           /\ ToSet(Append(s, e)) = ToSet(s) \cup {e}
           /\ IsInjective(s) /\ e \notin ToSet(s) => IsInjective(Append(s, e))
<1>1. /\ Append(s, e) \in Seq(S) /\ Len(Append(s, e)) = Len(s) + 1
      /\ \A i \in 1 .. Len(s) : Append(s, e)[i] = s[i]
      /\ Append(s, e)[Len(s) + 1] = e
  BY AppendProperties
<1>2. DOMAIN s = 1 .. Len(s) /\ DOMAIN Append(s, e) = 1 .. Len(s) + 1 /\ Len(s) \in Nat
  BY <1>1, LenProperties
<1>3. ToSet(Append(s, e)) = ToSet(s) \cup {e}
  BY <1>1, <1>2 DEF ToSet
<1>4. ASSUME IsInjective(s), e \notin ToSet(s) PROVE IsInjective(Append(s, e))
  BY <1>1, <1>2, <1>4 DEF IsInjective, ToSet
<1> QED
  BY <1>1, <1>3, <1>4

(* The elements of a sequence whose head is taken. *)
LEMMA TailElements ==
    ASSUME NEW S, NEW s \in Seq(S), s # <<>>
    PROVE  /\ Head(s) \in S /\ Tail(s) \in Seq(S)
           /\ ToSet(s) = {Head(s)} \cup ToSet(Tail(s))
           /\ IsInjective(s) => IsInjective(Tail(s)) /\ Head(s) \notin ToSet(Tail(s))
<1>1. /\ Head(s) \in S /\ Tail(s) \in Seq(S) /\ Len(Tail(s)) = Len(s) - 1
      /\ \A i \in 1 .. Len(Tail(s)) : Tail(s)[i] = s[i + 1]
  BY HeadTailProperties
<1>2. /\ DOMAIN s = 1 .. Len(s) /\ DOMAIN Tail(s) = 1 .. (Len(s) - 1)
      /\ Len(s) \in Nat /\ Len(s) # 0 /\ Head(s) = s[1]
  BY <1>1, LenProperties, EmptySeq
<1>3. ToSet(s) = {Head(s)} \cup ToSet(Tail(s))
  <2>1. ASSUME NEW x \in ToSet(s) PROVE x \in {Head(s)} \cup ToSet(Tail(s))
    <3>1. PICK i \in 1 .. Len(s) : x = s[i]
      BY <1>2 DEF ToSet
    <3>2. CASE i = 1
      BY <1>2, <3>1, <3>2
    <3>3. CASE i # 1
      <4>1. i - 1 \in 1 .. (Len(s) - 1) /\ Tail(s)[i - 1] = s[i]
        BY <1>1, <1>2, <3>1, <3>3
      <4> QED
        BY <1>2, <3>1, <4>1 DEF ToSet
    <3> QED
      BY <3>2, <3>3
  <2>2. ASSUME NEW x \in {Head(s)} \cup ToSet(Tail(s)) PROVE x \in ToSet(s)
    <3>1. CASE x = Head(s)
      BY <1>2, <3>1 DEF ToSet
    <3>2. CASE x \in ToSet(Tail(s))
      <4>1. PICK i \in 1 .. (Len(s) - 1) : x = Tail(s)[i]
        BY <1>2, <3>2 DEF ToSet
      <4>2. i + 1 \in 1 .. Len(s) /\ x = s[i + 1]
        BY <1>1, <1>2, <4>1
      <4> QED
        BY <1>2, <4>2 DEF ToSet
    <3> QED
      BY <2>2, <3>1, <3>2
  <2> QED
    BY <2>1, <2>2
<1>4. ASSUME IsInjective(s) PROVE IsInjective(Tail(s)) /\ Head(s) \notin ToSet(Tail(s))
  <2>1. \A i \in 1 .. (Len(s) - 1) : Tail(s)[i] = s[i + 1] /\ i + 1 \in 1 .. Len(s) /\ i + 1 # 1
    BY <1>1, <1>2
  <2>2. IsInjective(Tail(s))
    <3> SUFFICES ASSUME NEW a \in 1 .. (Len(s) - 1), NEW b \in 1 .. (Len(s) - 1), Tail(s)[a] = Tail(s)[b]
                 PROVE  a = b
      BY <1>2 DEF IsInjective
    <3>1. s[a + 1] = s[b + 1] /\ a + 1 \in DOMAIN s /\ b + 1 \in DOMAIN s
      BY <1>2, <2>1
    <3>2. a + 1 = b + 1
      BY <1>4, <3>1 DEF IsInjective
    <3> QED
      BY <3>2
  <2>3. Head(s) \notin ToSet(Tail(s))
    <3> SUFFICES ASSUME NEW a \in 1 .. (Len(s) - 1), Tail(s)[a] = Head(s) PROVE FALSE
      BY <1>2 DEF ToSet
    <3>1. s[a + 1] = s[1] /\ a + 1 \in DOMAIN s /\ 1 \in DOMAIN s /\ a + 1 # 1
      BY <1>2, <2>1
    <3> QED
      BY <1>4, <3>1 DEF IsInjective
  <2> QED
    BY <2>2, <2>3
<1> QED
  BY <1>1, <1>3, <1>4

(* The elements of two sequences put together. *)
LEMMA ConcatElements ==
    ASSUME NEW S, NEW s \in Seq(S), NEW t \in Seq(S)
    PROVE  /\ ToSet(s \o t) = ToSet(s) \cup ToSet(t)
           /\ IsInjective(s) /\ IsInjective(t) /\ ToSet(s) \cap ToSet(t) = {} => IsInjective(s \o t)
<1>1. /\ s \o t \in Seq(S) /\ Len(s \o t) = Len(s) + Len(t)
      /\ \A i \in 1 .. Len(s) + Len(t) : (s \o t)[i] = IF i <= Len(s) THEN s[i] ELSE t[i - Len(s)]
  BY ConcatProperties
<1>2. /\ DOMAIN s = 1 .. Len(s) /\ DOMAIN t = 1 .. Len(t) /\ Len(s) \in Nat /\ Len(t) \in Nat
      /\ DOMAIN (s \o t) = 1 .. Len(s) + Len(t)
  BY <1>1, LenProperties
<1>3. \A i \in 1 .. Len(s) : i \in 1 .. Len(s) + Len(t) /\ (s \o t)[i] = s[i]
  BY <1>1, <1>2
<1>4. \A i \in 1 .. Len(t) : i + Len(s) \in 1 .. Len(s) + Len(t) /\ (s \o t)[i + Len(s)] = t[i]
  BY <1>1, <1>2
<1>5. \A i \in 1 .. Len(s) + Len(t) :
        i \in 1 .. Len(s) \/ (i - Len(s) \in 1 .. Len(t) /\ i = (i - Len(s)) + Len(s))
  BY <1>2
<1>6. ToSet(s \o t) = ToSet(s) \cup ToSet(t)
  <2>1. ASSUME NEW x \in ToSet(s \o t) PROVE x \in ToSet(s) \cup ToSet(t)
    <3>1. PICK i \in 1 .. Len(s) + Len(t) : x = (s \o t)[i]
      BY <1>2 DEF ToSet
    <3> QED
      BY <1>2, <1>3, <1>4, <1>5, <3>1 DEF ToSet
  <2>2. ToSet(s) \subseteq ToSet(s \o t) /\ ToSet(t) \subseteq ToSet(s \o t)
    BY <1>2, <1>3, <1>4 DEF ToSet
  <2> QED
    BY <2>1, <2>2
<1>7. ASSUME IsInjective(s), IsInjective(t), ToSet(s) \cap ToSet(t) = {} PROVE IsInjective(s \o t)
  <2> SUFFICES ASSUME NEW a \in 1 .. Len(s) + Len(t), NEW b \in 1 .. Len(s) + Len(t),
                      (s \o t)[a] = (s \o t)[b]
               PROVE  a = b
    BY <1>2 DEF IsInjective
  <2>1. \A i \in 1 .. Len(s), j \in 1 .. Len(t) : s[i] # t[j]
    BY <1>2, <1>7 DEF ToSet
  <2>2. CASE a \in 1 .. Len(s) /\ b \in 1 .. Len(s)
    BY <1>2, <1>3, <1>7, <2>2 DEF IsInjective
  <2>3. CASE a - Len(s) \in 1 .. Len(t) /\ b - Len(s) \in 1 .. Len(t)
    <3>1. t[a - Len(s)] = t[b - Len(s)]
      BY <1>4, <1>5, <2>3
    <3>2. a - Len(s) = b - Len(s)
      BY <1>2, <1>7, <2>3, <3>1 DEF IsInjective
    <3> QED
      BY <1>2, <3>2
  <2>4. CASE a \in 1 .. Len(s) /\ b - Len(s) \in 1 .. Len(t)
    BY <1>3, <1>4, <1>5, <2>1, <2>4
  <2>5. CASE a - Len(s) \in 1 .. Len(t) /\ b \in 1 .. Len(s)
    BY <1>3, <1>4, <1>5, <2>1, <2>5
  <2> QED
    BY <1>5, <2>2, <2>3, <2>4, <2>5
<1> QED
  BY <1>6, <1>7
-----------------------------------------------------------------------------
(* Steps that process no record. *)

(* A key is seen, and the snapshot is what it is, as long as the place is. *)
LEMMA SamePlace ==
    ASSUME ReaderTypeOK, UNCHANGED archive,
           \A i \in 1 .. Buckets : \A j \in DOMAIN bucketList[i] : Passed(i, j)' <=> Passed(i, j)
    PROVE  (\A k : Seen(k)' <=> Seen(k)) /\ (visited' = visited /\ VisitedInv => VisitedInv')
<1>1. bucketList' = bucketList /\ wanted' = wanted
  BY DEF archive
<1>2. ASSUME NEW k PROVE Seen(k)' <=> Seen(k)
  BY <1>1 DEF Seen
<1>3. ASSUME visited' = visited, VisitedInv PROVE VisitedInv'
  <2>1. \A k \in visited' : Seen(k)'
    BY <1>2, <1>3 DEF VisitedInv
  <2>2. ASSUME NEW i \in 1 .. Buckets, NEW j \in DOMAIN bucketList[i],
               NEW k \in wanted, bucketList[i][j].key = k, bucketList[i][j].kind \in EntryRecords,
               ~Passed(i, j)', Seen(k)',
               \A g \in 1 .. (i - 1) : \A l \in DOMAIN bucketList[g] :
                  bucketList[g][l].key = k => Passed(g, l)'
        PROVE  k \in visited
    <3>1. ~Passed(i, j) /\ Seen(k)
      BY <1>2, <2>2
    <3>2. \A g \in 1 .. (i - 1) : g \in 1 .. Buckets
      BY ReaderAssumption
    <3>3. \A g \in 1 .. (i - 1) : \A l \in DOMAIN bucketList[g] :
            bucketList[g][l].key = k => Passed(g, l)
      BY <2>2, <3>2
    <3> QED
      BY <1>3, <2>2, <3>1, <3>3 DEF VisitedInv
  <2> QED
    BY <1>1, <1>3, <2>1, <2>2 DEF VisitedInv
<1> QED
  BY <1>2, <1>3

(* What a step that processes no record leaves true of the content. *)
LEMMA ContentKeeps ==
    ASSUME ReaderTypeOK, ContentInv, UNCHANGED archive, OnceInv',
           EntriesSent' \subseteq EntriesSent,
           cause' = None => cause = None /\ EntriesSent' = EntriesSent,
           \/ pc' \notin Walking /\ (pc \in Walking => cause' # None \/ bucket > Buckets)
           \/ /\ pc \in Walking /\ pc' \in Walking /\ visited' = visited
              /\ \A i \in 1 .. Buckets : \A j \in DOMAIN bucketList[i] : Passed(i, j)' <=> Passed(i, j)
    PROVE  ContentInv'
<1>1. Snapshot' = Snapshot
  BY DEF archive, Snapshot, Holds
<1>2. EntriesSent' \subseteq Snapshot'
  BY <1>1 DEF ContentInv, SentInv
<1>3. CASE pc' \notin Walking /\ (pc \in Walking => cause' # None \/ bucket > Buckets)
  <2>1. ASSUME cause' = None, NEW e \in Snapshot PROVE e \in EntriesSent'
    <3>1. CASE pc \notin Walking
      BY <2>1, <3>1 DEF ContentInv, SentInv, CtxDone
    <3>2. CASE pc \in Walking
      <4>1. bucket > Buckets /\ bucket \in Nat /\ Buckets \in Nat
        BY <1>3, <2>1, <3>2, ReaderAssumption DEF ReaderTypeOK
      <4>2. e.value \in 1 .. Buckets /\ \E j \in DOMAIN bucketList[e.value] : bucketList[e.value][j].key = e.key
        BY DEF Snapshot, ToSet
      <4>3. e.value < bucket
        BY <4>1, <4>2
      <4>4. Seen(e.key)
        BY <4>2, <4>3 DEF Seen, Passed
      <4> QED
        BY <2>1, <4>4 DEF ContentInv, SentInv, CtxDone
    <3> QED
      BY <3>1, <3>2
  <2>2. SentInv'
    BY <1>1, <1>2, <1>3, <2>1 DEF SentInv, CtxDone
  <2> QED
    BY <1>3, <2>2 DEF ContentInv
<1>4. CASE /\ pc \in Walking /\ pc' \in Walking /\ visited' = visited
           /\ \A i \in 1 .. Buckets : \A j \in DOMAIN bucketList[i] : Passed(i, j)' <=> Passed(i, j)
  <2>1. (\A k : Seen(k)' <=> Seen(k)) /\ VisitedInv'
    BY <1>4, SamePlace DEF ContentInv
  <2>2. \A e \in EntriesSent' : Seen(e.key)'
    BY <1>4, <2>1 DEF ContentInv, SentInv
  <2>3. ASSUME cause' = None, NEW e \in Snapshot, Seen(e.key)' PROVE e \in EntriesSent'
    BY <2>1, <2>3 DEF ContentInv, SentInv, CtxDone
  <2>4. SentInv'
    BY <1>1, <1>2, <1>4, <2>2, <2>3 DEF SentInv, CtxDone
  <2> QED
    BY <1>4, <2>1, <2>4 DEF ContentInv
<1> QED
  BY <1>3, <1>4

(* The channel and what was returned are left alone. *)
LEMMA OnceKeeps ==
    ASSUME ReaderTypeOK, OnceInv, UNCHANGED <<returned, readChan>>, pending' \in {pending, None}
    PROVE  OnceInv' /\ EntriesSent' \subseteq EntriesSent /\ (pending' = pending => EntriesSent' = EntriesSent)
<1>1. None \notin ToSet(returned) \cup ToSet(readChan)
  <2>1. ToSet(returned) \subseteq [key : Keys, value : Nat] /\ ToSet(readChan) \subseteq [key : Keys, value : Nat]
    BY ElementsIn DEF ReaderTypeOK
  <2> QED
    BY <2>1, ReaderAssumption
<1>2. OnceInv'
  BY <1>1 DEF OnceInv, IsInjective
<1> QED
  BY <1>2 DEF EntriesSent

(* The end of a Read, and what a Producer's step does to it. *)
LEMMA EndKeeps ==
    ASSUME ReaderTypeOK, PlaceInv, EndInv, pc # "done", UNCHANGED <<archive, consumer>>,
           cause' = cause \/ cause = None
    PROVE  EndInv'
<1>1. ended # EOF
  BY DEF PlaceInv, EndInv
<1>2. ended \in Errors => cause' = cause
  BY ReaderAssumption DEF EndInv, Errors
<1> QED
  BY <1>1, <1>2 DEF EndInv, consumer

(* A list stays what it is. *)
LEMMA ListKeeps == ListInv /\ UNCHANGED archive => ListInv'
BY DEF ListInv, LegalList, Holds, archive

(* The goroutine ends: through the list, or because the context is done. *)
LEMMA LeavesKeeps ==
    ASSUME ReaderInv, pc \in Walking, Leaves, pending' = None,
           UNCHANGED <<archive, visited, channel, consumer>>,
           \/ cause' = cause \/ (cause = None /\ cause' \in Errors),
           cause' = None => bucket > Buckets /\ pc = "open"
    PROVE  ReaderInv'
<1>1. /\ pc' = "closing" /\ bucket' = 1 /\ pos' = 0 /\ tainted' = tainted
      /\ UNCHANGED <<hot, bucketList, wanted, readChan, chanClosed, reading, returned, ended>>
  BY DEF Leaves, archive, channel, consumer
<1>2. ReaderTypeOK /\ ListInv /\ PlaceInv /\ EndInv
  BY DEF ReaderInv, BasicInv
<1>3. ReaderTypeOK'
  BY <1>1, <1>2, ReaderAssumption DEF ReaderTypeOK
<1>4. tainted => cause' # None
  BY <1>2 DEF PlaceInv, InBucket, CtxDone
<1>5. PlaceInv'
  BY <1>1, <1>2, <1>4 DEF PlaceInv, InBucket, CtxDone, Walking
<1>6. EndInv'
  BY <1>2, EndKeeps DEF Walking, InBucket
<1>7. ListInv'
  BY <1>2, ListKeeps
<1>8. ASSUME ~tainted PROVE ContentInv'
  <2>1. ContentInv
    BY <1>8 DEF ReaderInv
  <2>2. OnceInv' /\ EntriesSent' \subseteq EntriesSent /\ (pending' = pending => EntriesSent' = EntriesSent)
    BY <1>1, <1>2, <2>1, OnceKeeps DEF ContentInv
  <2>3. pc = "open" => pending = None
    BY <1>2 DEF PlaceInv
  <2>4. cause' = None => cause = None /\ EntriesSent' = EntriesSent
    BY <2>2, <2>3
  <2>5. pc' \notin Walking
    BY <1>1 DEF Walking, InBucket
  <2> QED
    BY <1>2, <2>1, <2>2, <2>4, <2>5, ContentKeeps
<1> QED
  BY <1>1, <1>3, <1>5, <1>6, <1>7, <1>8 DEF ReaderInv, BasicInv

(* A step that takes the goroutine to another place, but past no record. *)
LEMMA WalkKeeps ==
    ASSUME ReaderInv, pc \in Walking, pc' \in Walking,
           UNCHANGED <<archive, visited, pending, channel, consumer, cause>>,
           bucket' \in 1 .. (Buckets + 1), pos' \in Nat, tainted' \in BOOLEAN, PlaceInv',
           tainted' \/ (/\ ~tainted
                        /\ \A i \in 1 .. Buckets : \A j \in DOMAIN bucketList[i] :
                              Passed(i, j)' <=> Passed(i, j))
    PROVE  ReaderInv'
<1>1. UNCHANGED <<hot, bucketList, wanted, readChan, chanClosed, reading, returned, ended>>
  BY DEF archive, channel, consumer
<1>2. ReaderTypeOK /\ ListInv /\ PlaceInv /\ EndInv
  BY DEF ReaderInv, BasicInv
<1>3. ReaderTypeOK' /\ ListInv'
  BY <1>1, <1>2, ListKeeps DEF ReaderTypeOK
<1>4. EndInv'
  BY <1>2, EndKeeps DEF Walking, InBucket
<1>5. ASSUME ~tainted' PROVE ContentInv'
  <2>1. ContentInv
    BY <1>5 DEF ReaderInv
  <2>2. OnceInv' /\ EntriesSent' = EntriesSent
    BY <1>1, <1>2, <2>1, OnceKeeps DEF ContentInv
  <2> QED
    BY <1>2, <1>5, <2>1, <2>2, ContentKeeps
<1> QED
  BY <1>3, <1>4, <1>5 DEF ReaderInv, BasicInv

(* An error ends the goroutine wherever it is. *)
LEMMA FailsKeeps ==
    ASSUME ReaderInv, pc \in Walking \ {"send"}, Fails,
           UNCHANGED <<archive, visited, pending, channel, consumer>>
    PROVE  ReaderInv'
<1>1. pending = None
  BY DEF ReaderInv, BasicInv, PlaceInv
<1>2. cause' # None /\ (cause' = cause \/ (cause = None /\ cause' \in Errors))
  BY ReaderAssumption DEF Fails, cancel, CtxDone, Errors
<1> QED
  BY <1>1, <1>2, LeavesKeeps DEF Fails

(* streamBucketList up to the first record of a bucket. *)
LEMMA OpenKeeps ==
    ASSUME ReaderInv, CheckBuckets \/ streamBucket
    PROVE  ReaderInv'
<1>1. ReaderTypeOK /\ PlaceInv
  BY DEF ReaderInv, BasicInv
<1>2. CASE CheckBuckets
  <2>1. pc = "exists" /\ UNCHANGED <<archive, visited, pending, channel, consumer>>
    BY <1>2 DEF CheckBuckets
  <2>2. CASE Fails
    BY <2>1, <2>2, FailsKeeps DEF Walking
  <2>3. CASE pc' = "open" /\ UNCHANGED <<stream, cause, faults>>
    <3>1. UNCHANGED <<bucket, pos, tainted, chanClosed, bucketList>> /\ ~tainted
      BY <1>1, <2>1, <2>3 DEF stream, channel, archive, PlaceInv, InBucket
    <3>2. PlaceInv'
      BY <1>1, <2>1, <2>3, <3>1 DEF PlaceInv, InBucket
    <3>3. \A i \in 1 .. Buckets : \A j \in DOMAIN bucketList[i] : Passed(i, j)' <=> Passed(i, j)
      BY <2>1, <2>3, <3>1 DEF Passed, InBucket
    <3> QED
      BY <1>1, <2>1, <2>3, <3>1, <3>2, <3>3, WalkKeeps DEF Walking, ReaderTypeOK
  <2> QED
    BY <1>2, <2>2, <2>3 DEF CheckBuckets
<1>3. CASE streamBucket
  <2>1. pc = "open" /\ UNCHANGED <<archive, visited, pending, channel, consumer>> /\ ~tainted
    BY <1>1, <1>3 DEF streamBucket, PlaceInv, InBucket
  <2>2. UNCHANGED <<bucketList, chanClosed>> /\ bucket \in Nat /\ Buckets \in Nat /\ pos \in Nat
    BY <1>1, <2>1, ReaderAssumption DEF archive, channel, ReaderTypeOK
  <2>3. CASE bucket > Buckets /\ Leaves /\ UNCHANGED <<cause, faults>>
    <3>1. pending' = None
      BY <1>1, <2>1 DEF PlaceInv
    <3> QED
      BY <2>1, <2>3, <3>1, LeavesKeeps DEF Walking
  <2>4. CASE ~(bucket > Buckets) /\ Empty(bucket) /\ bucket' = bucket + 1
             /\ UNCHANGED <<pc, pos, attempts, broken, tainted, cause, faults>>
    <3>1. bucket' \in 1 .. (Buckets + 1)
      BY <1>1, <2>2, <2>4 DEF ReaderTypeOK
    <3>2. PlaceInv'
      BY <1>1, <2>1, <2>2, <2>4 DEF PlaceInv, InBucket
    <3>3. DOMAIN bucketList[bucket] = {}
      BY <2>4 DEF Empty
    <3>4. \A i \in 1 .. Buckets : \A j \in DOMAIN bucketList[i] : Passed(i, j)' <=> Passed(i, j)
      <4> SUFFICES ASSUME NEW i \in 1 .. Buckets, NEW j \in DOMAIN bucketList[i]
                   PROVE  i < bucket + 1 <=> i < bucket
        BY <2>1, <2>4 DEF Passed, InBucket
      <4>1. i # bucket
        BY <3>3
      <4> QED
        BY <2>2, <4>1
    <3> QED
      BY <1>1, <2>1, <2>4, <3>1, <3>2, <3>4, WalkKeeps DEF Walking, ReaderTypeOK
  <2>5. CASE ~(bucket > Buckets) /\ pc' = "read" /\ pos' = 0 /\ tainted' = FALSE /\ UNCHANGED <<bucket, cause>>
    <3>1. Len(bucketList[bucket]) \in Nat
      BY <1>1, <2>2, <2>5 DEF ReaderTypeOK
    <3>2. PlaceInv'
      BY <1>1, <2>1, <2>2, <2>5, <3>1 DEF PlaceInv, InBucket
    <3>3. \A i \in 1 .. Buckets : \A j \in DOMAIN bucketList[i] : Passed(i, j)' <=> Passed(i, j)
      <4> SUFFICES ASSUME NEW i \in 1 .. Buckets, NEW j \in DOMAIN bucketList[i]
                   PROVE  i < bucket \/ (i = bucket /\ j <= 0) <=> i < bucket
        BY <2>1, <2>5 DEF Passed, InBucket
      <4>1. j \in 1 .. Len(bucketList[i]) /\ Len(bucketList[i]) \in Nat
        BY <1>1 DEF ReaderTypeOK
      <4> QED
        BY <4>1
    <3> QED
      BY <1>1, <2>1, <2>5, <3>2, <3>3, WalkKeeps DEF Walking, InBucket, ReaderTypeOK
  <2>6. CASE Fails
    BY <2>1, <2>6, FailsKeeps DEF Walking
  <2> QED
    BY <1>3, <2>3, <2>4, <2>5, <2>6 DEF streamBucket
<1> QED
  BY <1>2, <1>3

(* The stream breaks and is resumed, or given up. *)
LEMMA RetryKeeps ==
    ASSUME ReaderInv, \/ readBucketRecordRetry \/ readBucketRecordGivesUp \/ ReadCancelled \/ ReadInvalid
    PROVE  ReaderInv'
<1>1. ReaderTypeOK /\ PlaceInv
  BY DEF ReaderInv, BasicInv
<1>2. CASE readBucketRecordRetry
  <2>1. /\ pc = "read" /\ UNCHANGED <<archive, pc, bucket, pos, tainted, visited, pending, channel, cause, consumer>>
    BY <1>2 DEF readBucketRecordRetry, Resume
  <2>2. UNCHANGED <<bucketList, chanClosed>>
    BY <2>1 DEF archive, channel
  <2>3. PlaceInv'
    BY <1>1, <2>1, <2>2 DEF PlaceInv, CtxDone
  <2>4. \A i \in 1 .. Buckets : \A j \in DOMAIN bucketList[i] : Passed(i, j)' <=> Passed(i, j)
    BY <2>1 DEF Passed
  <2> QED
    BY <1>1, <2>1, <2>3, <2>4, WalkKeeps DEF Walking, InBucket, ReaderTypeOK
<1>3. CASE readBucketRecordGivesUp \/ ReadCancelled \/ ReadInvalid
  <2>1. pc = "read" /\ Fails /\ UNCHANGED <<archive, visited, pending, channel, consumer>>
    BY <1>3 DEF readBucketRecordGivesUp, ReadCancelled, ReadInvalid
  <2> QED
    BY <2>1, FailsKeeps DEF Walking, InBucket
<1> QED
  BY <1>2, <1>3

(* The end of a bucket: too early it taints what was read, and the hash tells. *)
LEMMA BucketEndKeeps ==
    ASSUME ReaderInv, ReadEOF \/ ValidateHash
    PROVE  ReaderInv'
<1>1. ReaderTypeOK /\ PlaceInv
  BY DEF ReaderInv, BasicInv
<1>2. CASE ReadEOF
  <2>1. /\ pc = "read" /\ pc' = "validate"
        /\ UNCHANGED <<archive, bucket, pos, visited, pending, channel, cause, consumer>>
        /\ (pos = Len(bucketList[bucket]) /\ tainted' = tainted) \/ tainted' = TRUE
    BY <1>2 DEF ReadEOF
  <2>2. UNCHANGED <<bucketList, chanClosed>> /\ tainted' \in BOOLEAN
    BY <1>1, <2>1 DEF archive, channel, ReaderTypeOK
  <2>3. PlaceInv'
    BY <1>1, <2>1, <2>2 DEF PlaceInv, InBucket, CtxDone
  <2>4. \A i \in 1 .. Buckets : \A j \in DOMAIN bucketList[i] : Passed(i, j)' <=> Passed(i, j)
    BY <2>1 DEF Passed, InBucket
  <2> QED
    BY <1>1, <2>1, <2>2, <2>3, <2>4, WalkKeeps DEF Walking, InBucket, ReaderTypeOK
<1>3. CASE ValidateHash
  <2>1. pc = "validate" /\ UNCHANGED <<archive, visited, pending, channel, consumer>>
    BY <1>3 DEF ValidateHash
  <2>2. CASE Fails
    BY <2>1, <2>2, FailsKeeps DEF Walking, InBucket
  <2>3. CASE ~tainted /\ pc' = "open" /\ bucket' = bucket + 1 /\ UNCHANGED <<pos, tainted, cause>>
    <3>1. /\ bucket \in 1 .. Buckets /\ bucket \in Nat /\ pos = Len(bucketList[bucket]) /\ pos \in Nat
          /\ Buckets \in Nat
      BY <1>1, <2>1, <2>3, ReaderAssumption DEF PlaceInv, InBucket, ReaderTypeOK
    <3>2. bucket' \in 1 .. (Buckets + 1) /\ UNCHANGED <<bucketList, chanClosed>>
      BY <2>1, <2>3, <3>1 DEF archive, channel
    <3>3. PlaceInv'
      BY <1>1, <2>1, <2>3, <3>2 DEF PlaceInv, InBucket
    <3>4. \A i \in 1 .. Buckets : \A j \in DOMAIN bucketList[i] : Passed(i, j)' <=> Passed(i, j)
      <4> SUFFICES ASSUME NEW i \in 1 .. Buckets, NEW j \in DOMAIN bucketList[i]
                   PROVE  i < bucket + 1 <=> i < bucket \/ (i = bucket /\ j <= pos)
        BY <2>1, <2>3 DEF Passed, InBucket
      <4>1. j \in 1 .. Len(bucketList[i]) /\ Len(bucketList[i]) \in Nat
        BY <1>1 DEF ReaderTypeOK
      <4> QED
        BY <3>1, <4>1
    <3> QED
      BY <1>1, <2>1, <2>3, <3>1, <3>2, <3>3, <3>4, WalkKeeps DEF Walking, InBucket, ReaderTypeOK
  <2> QED
    BY <1>3, <2>2, <2>3 DEF ValidateHash
<1> QED
  BY <1>2, <1>3

(* An entry is sent, or given up because nobody will take it. *)
LEMMA SendKeeps ==
    ASSUME ReaderInv, Send
    PROVE  ReaderInv'
<1> DEFINE Entries == [key : Keys, value : Nat]
<1>1. ReaderTypeOK /\ PlaceInv /\ ListInv /\ EndInv
  BY DEF ReaderInv, BasicInv
<1>2. /\ pc = "send" /\ pending' = None
      /\ UNCHANGED <<archive, visited, chanClosed, cause, consumer>>
  BY DEF Send
<1>3. CASE CtxDone /\ Leaves /\ UNCHANGED readChan
  BY <1>2, <1>3, LeavesKeeps DEF CtxDone, channel, Walking, InBucket
<1>4. CASE readChan' = Append(readChan, pending) /\ pc' = "read" /\ UNCHANGED stream
  <2>1. /\ UNCHANGED <<hot, bucketList, wanted, bucket, pos, tainted, reading, returned, ended>>
    BY <1>2, <1>4 DEF archive, stream, consumer
  <2>2. pending # None /\ pending \in Entries /\ readChan \in Seq(Entries) /\ returned \in Seq(Entries)
    BY <1>1, <1>2 DEF PlaceInv, ReaderTypeOK
  <2> HIDE DEF Entries
  <2>3. readChan' \in Seq(Entries) /\ ToSet(readChan') = ToSet(readChan) \cup {pending}
    BY <1>4, <2>2, AppendElements
  <2>4. ReaderTypeOK'
    BY <1>1, <1>2, <1>4, <2>1, <2>3 DEF ReaderTypeOK, Walking, InBucket, Entries
  <2>5. PlaceInv'
    BY <1>1, <1>2, <1>4, <2>1 DEF PlaceInv, InBucket, CtxDone
  <2>6. EndInv' /\ ListInv'
    BY <1>1, <1>2, EndKeeps, ListKeeps
  <2>7. ASSUME ~tainted PROVE ContentInv'
    <3>1. ContentInv
      BY <2>7 DEF ReaderInv
    <3>2. EntriesSent' = EntriesSent
      BY <1>2, <2>1, <2>2, <2>3 DEF EntriesSent
    <3>3. OnceInv'
      <4>1. None \notin Entries
        BY ReaderAssumption DEF Entries
      <4>2. ToSet(returned) \subseteq Entries /\ ToSet(readChan') \subseteq Entries
        BY <2>2, <2>3, ElementsIn
      <4>3. IsInjective(returned) /\ IsInjective(readChan) /\ pending \notin ToSet(returned)
            /\ pending \notin ToSet(readChan) /\ ToSet(returned) \cap ToSet(readChan) = {}
        BY <3>1 DEF ContentInv, OnceInv
      <4>4. IsInjective(readChan')
        BY <1>4, <2>2, <4>3, AppendElements
      <4>5. ToSet(returned) \cap ToSet(readChan') = {}
        BY <2>3, <4>3
      <4>6. None \notin ToSet(returned) \cup ToSet(readChan')
        BY <4>1, <4>2
      <4> QED
        BY <1>2, <2>1, <4>3, <4>4, <4>5, <4>6 DEF OnceInv
    <3>4. \A i \in 1 .. Buckets : \A j \in DOMAIN bucketList[i] : Passed(i, j)' <=> Passed(i, j)
      BY <1>2, <1>4, <2>1 DEF Passed, InBucket
    <3>5. pc \in Walking /\ pc' \in Walking
      BY <1>2, <1>4 DEF Walking, InBucket
    <3> QED
      BY <1>1, <1>2, <3>1, <3>2, <3>3, <3>4, <3>5, ContentKeeps
  <2> QED
    BY <2>1, <2>4, <2>5, <2>6, <2>7 DEF ReaderInv, BasicInv
<1> QED
  BY <1>3, <1>4 DEF Send

(* The goroutine's last step, and the steps of the consumer that take no entry. *)
LEMMA QuietKeeps ==
    ASSUME ReaderInv, CloseChan \/ Read \/ nextEOF \/ Close \/ UNCHANGED vars
    PROVE  ReaderInv'
<1>1. ReaderTypeOK /\ PlaceInv /\ ListInv /\ EndInv
  BY DEF ReaderInv, BasicInv
<1>2. /\ UNCHANGED <<archive, bucket, pos, tainted, pending, readChan, returned>>
      /\ \/ pc' = pc /\ visited' = visited /\ chanClosed' = chanClosed
         \/ pc = "idle" /\ pc' = "exists" /\ visited' = visited /\ chanClosed' = chanClosed
         \/ pc = "closing" /\ pc' = "done"
      /\ cause' = cause \/ (cause = None /\ cause' = "cancelled")
      /\ ended' = ended \/ (/\ ended' = EOF /\ cause = None /\ chanClosed /\ readChan = <<>>
                            /\ UNCHANGED <<pc, cause, chanClosed>>)
  BY DEF CloseChan, Read, nextEOF, Close, vars, cancel, CtxDone, stream, channel, consumer
<1>3. UNCHANGED <<hot, bucketList, wanted>>
  BY <1>2 DEF archive
<1>4. ReaderTypeOK'
  BY <1>1, <1>2, <1>3 DEF ReaderTypeOK, Walking, InBucket, Errors
<1>5. PlaceInv'
  BY <1>1, <1>2, <1>3, ReaderAssumption DEF PlaceInv, InBucket, CtxDone
<1>6. ListInv'
  BY <1>1, <1>2, ListKeeps
<1>7. Snapshot' = Snapshot
  BY <1>3 DEF Snapshot, Holds
<1>8. EndInv'
  <2>1. CASE ended' = ended
    BY <1>1, <1>2, <1>7, <2>1, ReaderAssumption DEF EndInv, PlaceInv, Errors
  <2>2. CASE ended' = EOF /\ cause = None /\ chanClosed /\ readChan = <<>> /\ UNCHANGED <<pc, cause, chanClosed>>
    <3>1. pc = "done" /\ ~tainted /\ pending = None
      BY <1>1, <2>2 DEF PlaceInv, InBucket, CtxDone
    <3>2. SentInv
      BY <3>1 DEF ReaderInv, ContentInv
    <3>3. EntriesSent = ToSet(returned)
      BY <2>2, <3>1 DEF EntriesSent, ToSet
    <3>4. ToSet(returned) = Snapshot
      BY <2>2, <3>1, <3>2, <3>3 DEF SentInv, CtxDone, Walking, InBucket
    <3> QED
      BY <1>2, <1>7, <2>2, <3>1, <3>4 DEF EndInv, Errors, EOF
  <2> QED
    BY <1>2, <2>1, <2>2
<1>9. ASSUME ~tainted PROVE ContentInv'
  <2>1. ContentInv
    BY <1>9 DEF ReaderInv
  <2>2. OnceInv' /\ EntriesSent' = EntriesSent
    BY <1>1, <1>2, <2>1, OnceKeeps DEF ContentInv
  <2>3. cause' = None => cause = None
    BY <1>2, ReaderAssumption
  <2>4. CASE pc' \notin Walking /\ pc \notin Walking
    BY <1>1, <1>2, <2>1, <2>2, <2>3, <2>4, ContentKeeps
  <2>5. CASE pc \in Walking /\ pc' \in Walking /\ visited' = visited
    <3>1. \A i \in 1 .. Buckets : \A j \in DOMAIN bucketList[i] : Passed(i, j)' <=> Passed(i, j)
      BY <1>2 DEF Passed, InBucket
    <3> QED
      BY <1>1, <1>2, <2>1, <2>2, <2>3, <2>5, <3>1, ContentKeeps
  <2> QED
    BY <1>1, <1>2, <2>4, <2>5 DEF Walking, InBucket, ReaderTypeOK
<1> QED
  BY <1>2, <1>4, <1>5, <1>6, <1>8, <1>9 DEF ReaderInv, BasicInv

(* A Read takes an entry, or the cause that ended the context. *)
LEMMA NextKeeps ==
    ASSUME ReaderInv, nextEntry \/ nextCause
    PROVE  ReaderInv'
<1> DEFINE Entries == [key : Keys, value : Nat]
<1>1. ReaderTypeOK /\ PlaceInv /\ ListInv /\ EndInv
  BY DEF ReaderInv, BasicInv
<1>2. UNCHANGED <<archive, pc, bucket, pos, tainted, visited, pending, chanClosed, cause>>
  BY DEF nextEntry, nextCause, stream
<1>3. UNCHANGED <<hot, bucketList, wanted>> /\ Snapshot' = Snapshot
  BY <1>2 DEF archive, Snapshot, Holds
<1>4. readChan \in Seq(Entries) /\ returned \in Seq(Entries)
  BY <1>1 DEF ReaderTypeOK
<1> HIDE DEF Entries
<1>5. \A i \in 1 .. Buckets : \A j \in DOMAIN bucketList[i] : Passed(i, j)' <=> Passed(i, j)
  BY <1>2 DEF Passed
<1>6. CASE nextEntry
  <2>1. /\ readChan # <<>> /\ cause = None /\ ended' = ended
        /\ returned' = Append(returned, Head(readChan)) /\ readChan' = Tail(readChan)
    BY <1>6 DEF nextEntry, CtxDone
  <2>2. /\ Head(readChan) \in Entries /\ Tail(readChan) \in Seq(Entries)
        /\ ToSet(readChan) = {Head(readChan)} \cup ToSet(readChan')
        /\ IsInjective(readChan) => IsInjective(readChan') /\ Head(readChan) \notin ToSet(readChan')
    BY <1>4, <2>1, TailElements
  <2>3. /\ returned' \in Seq(Entries) /\ ToSet(returned') = ToSet(returned) \cup {Head(readChan)}
        /\ IsInjective(returned) /\ Head(readChan) \notin ToSet(returned) => IsInjective(returned')
    BY <1>4, <2>1, <2>2, AppendElements
  <2>4. ReaderTypeOK'
    BY <1>1, <1>2, <1>3, <2>1, <2>2, <2>3 DEF ReaderTypeOK, Entries
  <2>5. PlaceInv' /\ ListInv'
    BY <1>1, <1>2, <1>3, ListKeeps DEF PlaceInv, CtxDone
  <2>6. EndInv'
    BY <1>1, <1>2, <2>1 DEF EndInv
  <2>7. ASSUME ~tainted PROVE ContentInv'
    <3>1. ContentInv
      BY <2>7 DEF ReaderInv
    <3>2. EntriesSent' = EntriesSent
      BY <1>2, <2>2, <2>3 DEF EntriesSent
    <3>3. OnceInv'
      BY <1>2, <2>2, <2>3, <3>1 DEF ContentInv, OnceInv
    <3> QED
      BY <1>1, <1>2, <1>5, <3>1, <3>2, <3>3, ContentKeeps
  <2> QED
    BY <1>2, <2>4, <2>5, <2>6, <2>7 DEF ReaderInv, BasicInv
<1>7. CASE nextCause
  <2>1. /\ cause # None /\ ended' = cause /\ returned' = returned
        /\ readChan' = readChan \/ (readChan # <<>> /\ readChan' = Tail(readChan))
    BY <1>7 DEF nextCause, CtxDone
  <2>2. /\ readChan' \in Seq(Entries) /\ ToSet(readChan') \subseteq ToSet(readChan)
        /\ IsInjective(readChan) => IsInjective(readChan')
    BY <1>4, <2>1, TailElements
  <2>3. ReaderTypeOK'
    BY <1>1, <1>2, <1>3, <2>1, <2>2 DEF ReaderTypeOK, Entries
  <2>4. PlaceInv' /\ ListInv'
    BY <1>1, <1>2, <1>3, ListKeeps DEF PlaceInv, CtxDone
  <2>5. EndInv'
    BY <1>1, <1>2, <2>1, ReaderAssumption DEF EndInv, ReaderTypeOK, Errors, EOF
  <2>6. ASSUME ~tainted PROVE ContentInv'
    <3>1. ContentInv
      BY <2>6 DEF ReaderInv
    <3>2. EntriesSent' \subseteq EntriesSent
      BY <1>2, <2>1, <2>2 DEF EntriesSent
    <3>3. OnceInv'
      BY <1>2, <2>1, <2>2, <3>1 DEF ContentInv, OnceInv
    <3> QED
      BY <1>1, <1>2, <1>5, <2>1, <3>1, <3>2, <3>3, ContentKeeps
  <2> QED
    BY <1>2, <2>3, <2>4, <2>5, <2>6 DEF ReaderInv, BasicInv
<1> QED
  BY <1>6, <1>7
-----------------------------------------------------------------------------
(* Steps that process a record. *)

(* What a record does to the goroutine's place, whatever it holds. *)
LEMMA ProcessKeeps ==
    ASSUME BasicInv, pc = "read", pos < Len(bucketList[bucket]), ~CtxDone,
           NEW r, r.key \in Keys, NEW value \in Nat, Process(r, value), tainted' \in BOOLEAN,
           UNCHANGED <<archive, bucket, channel, cause, consumer>>
    PROVE  BasicInv'
<1>1. ReaderTypeOK /\ PlaceInv /\ ListInv /\ EndInv
  BY DEF BasicInv
<1>2. UNCHANGED <<hot, bucketList, wanted, readChan, chanClosed, reading, returned, ended>>
  BY DEF archive, channel, consumer
<1>3. /\ pos' = pos + 1 /\ pending = None
      /\ \/ pc' = "send" /\ pending' = Entry(r.key, value)
         \/ pc' = "read" /\ pending' = None
  BY <1>1 DEF Process, PlaceInv
<1>4. Entry(r.key, value) \in [key : Keys, value : Nat] /\ Entry(r.key, value) # None
  BY ReaderAssumption DEF Entry
<1>5. ReaderTypeOK'
  BY <1>1, <1>2, <1>3, <1>4 DEF ReaderTypeOK, Walking, InBucket
<1>6. bucket <= Buckets /\ Len(bucketList[bucket]) \in Nat /\ pos \in Nat
  BY <1>1 DEF PlaceInv, InBucket, ReaderTypeOK
<1>7. pos + 1 <= Len(bucketList[bucket])
  BY <1>6
<1>8. PlaceInv'
  BY <1>1, <1>2, <1>3, <1>4, <1>6, <1>7 DEF PlaceInv, InBucket
<1>9. EndInv' /\ ListInv'
  BY <1>1, EndKeeps, ListKeeps
<1> QED
  BY <1>5, <1>8, <1>9 DEF BasicInv

(* A wrong record taints the stream, and its place is kept. *)
LEMMA ReadWrongKeeps ==
    ASSUME ReaderInv, ReadWrong
    PROVE  ReaderInv'
<1>1. BasicInv /\ ReaderTypeOK /\ PlaceInv
  BY DEF ReaderInv, BasicInv
<1>2. /\ pc = "read" /\ ~CtxDone /\ pos < Len(bucketList[bucket]) /\ tainted' = TRUE
      /\ UNCHANGED <<archive, bucket, channel, cause, consumer>>
  BY DEF ReadWrong
<1>3. PICK kind \in {"live", "dead"} : Process([bucketList[bucket][pos + 1] EXCEPT !.kind = kind], 0)
  BY DEF ReadWrong
<1>4. bucketList[bucket] \in Seq(Record) /\ pos \in Nat
  BY <1>1, <1>2 DEF ReaderTypeOK, PlaceInv, InBucket
<1>5. bucketList[bucket][pos + 1] \in Record
  BY <1>2, <1>4
<1>6. [bucketList[bucket][pos + 1] EXCEPT !.kind = kind].key \in Keys
  BY <1>5 DEF Record
<1>7. BasicInv'
  BY <1>1, <1>2, <1>3, <1>6, ProcessKeeps
<1> QED
  BY <1>2, <1>7 DEF ReaderInv

(***************************************************************************)
(* The record that is due decides rightly: it is sent if and only if it is *)
(* the newest of its key, and visitedLedgerKeys stays right about the next *)
(* record of every key.                                                    *)
(***************************************************************************)
LEMMA ReadOneKeeps ==
    ASSUME ReaderInv, ReadOne
    PROVE  ReaderInv'
<1> DEFINE r == bucketList[bucket][pos + 1]
<1>1. BasicInv /\ ReaderTypeOK /\ PlaceInv /\ ListInv
  BY DEF ReaderInv, BasicInv
<1>2. /\ pc = "read" /\ ~CtxDone /\ pos < Len(bucketList[bucket]) /\ Process(r, bucket)
      /\ UNCHANGED <<archive, bucket, tainted, channel, cause, consumer>>
  BY DEF ReadOne
<1>3. /\ bucket \in 1 .. Buckets /\ bucketList[bucket] \in Seq(Record) /\ pos \in Nat
      /\ \A i \in 1 .. Buckets : DOMAIN bucketList[i] = 1 .. Len(bucketList[i])
      /\ \A i \in 1 .. Buckets : Len(bucketList[i]) \in Nat
      /\ Buckets \in Nat
  BY <1>1, <1>2, ReaderAssumption DEF ReaderTypeOK, PlaceInv, InBucket
<1>4. r \in Record /\ pos + 1 \in DOMAIN bucketList[bucket]
  BY <1>2, <1>3
<1>5. PICK k \in Keys : k = r.key
  BY <1>4 DEF Record
<1>6. r.kind \in {"init", "live", "dead"}
  BY <1>4 DEF Record, EntryRecords
<1>7. BasicInv'
  BY <1>1, <1>2, <1>3, <1>5, ProcessKeeps DEF ReaderTypeOK
<1> SUFFICES ASSUME ~tainted PROVE ContentInv'
  BY <1>2, <1>7 DEF ReaderInv
<1>8. SentInv /\ OnceInv /\ VisitedInv
  BY <1>2 DEF ReaderInv, ContentInv, Walking, InBucket
<1>9. UNCHANGED <<hot, bucketList, wanted, readChan, returned, cause>>
  BY <1>2 DEF archive, channel, consumer
<1>10. /\ pos' = pos + 1 /\ bucket' = bucket /\ pending = None
       /\ Sent(r) => pc' = "send" /\ pending' = Entry(k, bucket)
       /\ ~Sent(r) => pc' = "read" /\ pending' = None
       /\ pc' \in InBucket
  BY <1>1, <1>2, <1>5 DEF Process, PlaceInv, InBucket
<1>11. \A i \in 1 .. Buckets : \A j \in DOMAIN bucketList[i] :
         Passed(i, j)' <=> Passed(i, j) \/ (i = bucket /\ j = pos + 1)
  <2> SUFFICES ASSUME NEW i \in 1 .. Buckets, NEW j \in 1 .. Len(bucketList[i])
               PROVE  i < bucket \/ (i = bucket /\ j <= pos + 1)
                        <=> (i < bucket \/ (i = bucket /\ j <= pos)) \/ (i = bucket /\ j = pos + 1)
    BY <1>2, <1>3, <1>10 DEF Passed, InBucket
  <2> QED
    BY <1>3
<1>12. \A x : Seen(x)' <=> Seen(x) \/ x = k
  BY <1>3, <1>4, <1>5, <1>9, <1>11 DEF Seen
<1>13. ~Passed(bucket, pos + 1)
  BY <1>3 DEF Passed
<1>14. \A i \in 1 .. (bucket - 1) : i \in 1 .. Buckets /\ \A j \in DOMAIN bucketList[i] : Passed(i, j)
  BY <1>3 DEF Passed
<1>15. \A j \in DOMAIN bucketList[bucket] : bucketList[bucket][j].key = k => j = pos + 1
  BY <1>1, <1>3, <1>4, <1>5 DEF ListInv
<1>16. Seen(k) /\ k \in wanted /\ r.kind \in EntryRecords => k \in visited
  BY <1>3, <1>4, <1>5, <1>8, <1>13, <1>14 DEF VisitedInv
<1>17. Sent(r) <=> k \in wanted /\ r.kind \in EntryRecords /\ ~Seen(k)
  BY <1>5, <1>8, <1>16 DEF Sent, VisitedInv
<1>18. ~Seen(k) => \A i \in 1 .. (bucket - 1) : ~Holds(bucketList, i, k)
  BY <1>14 DEF Seen, Holds, ToSet
<1>19. Sent(r) => Entry(k, bucket) \in Snapshot
  <2> SUFFICES ASSUME Sent(r) PROVE Entry(k, bucket) \in Snapshot
    OBVIOUS
  <2>1. k \in wanted /\ r.kind \in EntryRecords /\ \A i \in 1 .. (bucket - 1) : ~Holds(bucketList, i, k)
    BY <1>17, <1>18
  <2>2. r \in ToSet(bucketList[bucket])
    BY <1>4 DEF ToSet
  <2> QED
    BY <1>3, <1>5, <2>1, <2>2 DEF Snapshot, Entry
<1>20. ASSUME NEW e \in Snapshot, e.key = k, ~Seen(k) PROVE Sent(r) /\ e = Entry(k, bucket)
  <2>1. /\ e \in [key : wanted, value : 1 .. Buckets]
        /\ \A i \in 1 .. (e.value - 1) : ~Holds(bucketList, i, k)
    BY <1>20 DEF Snapshot
  <2>2. PICK j \in DOMAIN bucketList[e.value] :
          bucketList[e.value][j].key = k /\ bucketList[e.value][j].kind \in EntryRecords
    BY <1>20 DEF Snapshot, ToSet
  <2>3. e.value \in 1 .. Buckets /\ Holds(bucketList, e.value, k) /\ Holds(bucketList, bucket, k)
    BY <1>4, <1>5, <2>1, <2>2 DEF Holds, ToSet
  <2>4. e.value \notin 1 .. (bucket - 1) /\ bucket \notin 1 .. (e.value - 1)
    BY <1>18, <1>20, <2>1, <2>3
  <2>5. e.value = bucket
    BY <1>3, <2>3, <2>4
  <2>6. r.kind \in EntryRecords
    BY <1>15, <2>2, <2>5
  <2>7. Sent(r)
    BY <1>17, <1>20, <2>1, <2>6
  <2> QED
    BY <1>20, <2>1, <2>5, <2>7 DEF Entry
<1>21. Entry(k, bucket) # None /\ Entry(k, bucket).key = k
  BY <1>3, ReaderAssumption DEF Entry
<1>22. EntriesSent' = EntriesSent \cup (IF Sent(r) THEN {Entry(k, bucket)} ELSE {})
  BY <1>9, <1>10, <1>21 DEF EntriesSent
<1>23. Snapshot' = Snapshot
  BY <1>9 DEF Snapshot, Holds
<1>24. SentInv'
  <2>1. EntriesSent' \subseteq Snapshot
    BY <1>8, <1>19, <1>22 DEF SentInv
  <2>2. \A e \in EntriesSent : Seen(e.key)
    BY <1>2, <1>8 DEF SentInv, Walking, InBucket
  <2>3. \A e \in EntriesSent' : Seen(e.key)'
    BY <1>12, <1>21, <1>22, <2>2
  <2>4. ASSUME NEW e \in Snapshot, NEW x, x = e.key, Seen(x)' PROVE e \in EntriesSent'
    <3>1. CASE Seen(x)
      BY <1>2, <1>8, <1>22, <2>4, <3>1 DEF SentInv
    <3>2. CASE ~Seen(x)
      BY <1>12, <1>20, <1>22, <2>4, <3>2
    <3> QED
      BY <3>1, <3>2
  <2>5. \A e \in Snapshot' : Seen(e.key)' => e \in EntriesSent'
    BY <1>23, <2>4
  <2> QED
    BY <1>10, <1>23, <2>1, <2>3, <2>5 DEF SentInv, Walking
<1>25. OnceInv'
  <2>1. CASE Sent(r)
    <3>1. ~Seen(k)
      BY <1>17, <2>1
    <3>2. Entry(k, bucket) \notin ToSet(returned) \cup ToSet(readChan)
      BY <1>2, <1>8, <1>21, <3>1 DEF SentInv, EntriesSent, Walking, InBucket
    <3> QED
      BY <1>8, <1>9, <1>10, <2>1, <3>2 DEF OnceInv, IsInjective
  <2>2. CASE ~Sent(r)
    BY <1>8, <1>9, <1>10, <2>2 DEF OnceInv, IsInjective
  <2> QED
    BY <2>1, <2>2
<1>26. visited' = IF hot THEN visitedAfterHot(r, Oldest(bucket)) ELSE visitedAfterLive(r, Oldest(bucket))
  BY <1>2 DEF Process
<1>27. visited' \subseteq visited \cup {k} /\ visited \ {k} \subseteq visited'
  BY <1>5, <1>26 DEF visitedAfterHot, visitedAfterLive
<1>28. ASSUME NEW i \in 1 .. Buckets, NEW j \in DOMAIN bucketList[i],
              NEW x \in wanted, bucketList[i][j].key = x, bucketList[i][j].kind \in EntryRecords,
              ~Passed(i, j)', Seen(x)',
              \A g \in 1 .. (i - 1) : \A l \in DOMAIN bucketList[g] :
                 bucketList[g][l].key = x => Passed(g, l)'
       PROVE  x \in visited'
  <2>1. \A g \in 1 .. (i - 1) : g \in 1 .. Buckets
    BY <1>3
  <2>2. CASE x # k
    <3>1. ~Passed(i, j) /\ Seen(x)
      BY <1>11, <1>12, <1>28, <2>2
    <3>2. \A g \in 1 .. (i - 1) : \A l \in DOMAIN bucketList[g] :
            bucketList[g][l].key = x => Passed(g, l)
      BY <1>5, <1>11, <1>28, <2>1, <2>2
    <3>3. x \in visited
      BY <1>8, <1>28, <3>1, <3>2 DEF VisitedInv
    <3> QED
      BY <1>27, <2>2, <3>3
  <2>3. CASE x = k
    <3>1. ~Passed(i, j) /\ ~(i = bucket /\ j = pos + 1)
      BY <1>11, <1>28
    <3>2. ~(i < bucket) /\ i # bucket
      BY <1>15, <1>28, <2>3, <3>1 DEF Passed
    <3>3. i \in (bucket + 1) .. Buckets
      BY <1>3, <3>2
    <3>4. ~Oldest(bucket)
      BY <3>3 DEF Oldest, Empty
    <3>5. \A g \in (bucket + 1) .. (i - 1) : g \in 1 .. (i - 1) /\ ~(g < bucket) /\ g # bucket
      BY <1>3
    <3>6. \A g \in (bucket + 1) .. (i - 1) : ~Holds(bucketList, g, k)
      <4> SUFFICES ASSUME NEW g \in (bucket + 1) .. (i - 1), NEW l \in DOMAIN bucketList[g],
                          bucketList[g][l].key = k
                   PROVE  FALSE
        BY DEF Holds, ToSet
      <4>1. Passed(g, l)'
        BY <1>28, <2>3, <3>5
      <4> QED
        BY <1>10, <3>5, <4>1 DEF Passed
    <3>7. r.kind # "init"
      <4>1. r \in ToSet(bucketList[bucket]) /\ bucketList[i][j] \in ToSet(bucketList[i])
        BY <1>4 DEF ToSet
      <4>2. bucket < i
        BY <1>3, <3>3
      <4>3. r.kind = "init" => bucketList[i][j].kind = "dead"
        BY <1>1, <1>3, <1>5, <1>28, <2>3, <3>6, <4>1, <4>2 DEF ListInv, LegalList
      <4> QED
        BY <1>28, <4>3 DEF EntryRecords
    <3>8. r.kind = "live" /\ ~Sent(r) => k \in visited
      BY <1>5, <2>3 DEF Sent, EntryRecords
    <3> QED
      BY <1>5, <1>6, <1>26, <2>3, <3>4, <3>7, <3>8 DEF visitedAfterHot, visitedAfterLive
  <2> QED
    BY <2>2, <2>3
<1>29. VisitedInv'
  <2>1. \A x \in visited' : Seen(x)'
    BY <1>8, <1>12, <1>27 DEF VisitedInv
  <2> QED
    BY <1>9, <1>28, <2>1 DEF VisitedInv
<1> QED
  BY <1>24, <1>25, <1>29 DEF ContentInv
-----------------------------------------------------------------------------
(* The invariant, and what follows from it. *)

(* The invariant holds when a reader is opened. *)
LEMMA ReaderInit == Init => ReaderInv
<1> SUFFICES ASSUME Init PROVE ReaderInv
  OBVIOUS
<1>1. /\ hot \in BOOLEAN /\ wanted \subseteq Keys /\ bucketList \in [1 .. Buckets -> BucketContents]
      /\ LegalList(bucketList, hot)
  BY ReaderAssumption DEF Init
<1>2. /\ pc = "idle" /\ bucket = 1 /\ pos = 0 /\ tainted = FALSE /\ visited = {} /\ pending = None
      /\ readChan = <<>> /\ chanClosed = FALSE /\ cause = None /\ returned = <<>> /\ ended = None
  BY DEF Init
<1>3. ASSUME NEW s \in BucketContents
      PROVE  s \in Seq(Record) /\ \A a, b \in DOMAIN s : s[a].key = s[b].key => a = b
  <2>1. PICK m \in 0 .. Cardinality(Keys) : s \in [1 .. m -> Record]
    BY DEF BucketContents, SeqOf
  <2>2. s \in Seq(Record) /\ DOMAIN s = 1 .. m
    BY <2>1
  <2>3. \A a \in DOMAIN s : s[a].key \in Nat
    BY <2>1, <2>2, ReaderAssumption DEF Record
  <2>4. \A a, b \in DOMAIN s : a < b => s[a].key < s[b].key
    BY DEF BucketContents
  <2>5. ASSUME NEW a \in DOMAIN s, NEW b \in DOMAIN s, s[a].key = s[b].key PROVE a = b
    BY <2>2, <2>3, <2>4, <2>5
  <2> QED
    BY <2>2, <2>5
<1>4. bucketList \in [1 .. Buckets -> Seq(Record)] /\ ListInv
  BY <1>1, <1>3 DEF ListInv
<1>5. ReaderTypeOK
  <2>1. Buckets \in Nat
    BY ReaderAssumption
  <2>2. bucket \in 1 .. (Buckets + 1) /\ pos \in Nat
    BY <1>2, <2>1
  <2>3. \A S : <<>> \in Seq(S)
    OBVIOUS
  <2> QED
    BY <1>1, <1>2, <1>4, <2>2, <2>3 DEF ReaderTypeOK, Walking
<1>6. PlaceInv /\ EndInv
  BY <1>2, ReaderAssumption DEF PlaceInv, EndInv, InBucket, Errors, EOF
<1>7. \A i \in 1 .. Buckets : \A j : ~Passed(i, j)
  BY <1>2, ReaderAssumption DEF Passed, InBucket
<1>8. \A k : ~Seen(k)
  BY <1>7 DEF Seen
<1>9. VisitedInv
  BY <1>2, <1>8 DEF VisitedInv
<1>10. EntriesSent = {}
  BY <1>2 DEF EntriesSent, ToSet
<1>11. SentInv
  BY <1>2, <1>8, <1>10 DEF SentInv, Walking
<1>12. OnceInv
  BY <1>2 DEF OnceInv, ToSet, IsInjective
<1> QED
  BY <1>4, <1>5, <1>6, <1>9, <1>11, <1>12 DEF ReaderInv, BasicInv, ContentInv

(* Every step keeps the invariant. *)
LEMMA ReaderStep == ReaderInv /\ [Next]_vars => ReaderInv'
<1> SUFFICES ASSUME ReaderInv, [Next]_vars PROVE ReaderInv'
  OBVIOUS
<1>1. CASE Producer
  BY <1>1, OpenKeeps, ReadOneKeeps, ReadWrongKeeps, BucketEndKeeps, RetryKeeps, SendKeeps, QuietKeeps
  DEF Producer
<1>2. CASE Read \/ nextEntry \/ nextCause \/ nextEOF \/ Close
  BY <1>2, NextKeeps, QuietKeeps
<1>3. CASE UNCHANGED vars
  BY <1>3, QuietKeeps
<1> QED
  BY <1>1, <1>2, <1>3 DEF Next

(***************************************************************************)
(* The reader keeps its invariant: the entries it has sent are exactly the *)
(* entries of the snapshot it has come to, each once, and                  *)
(* visitedLedgerKeys is right about every record still to come, unless a   *)
(* wrong record was delivered, which the hash of the bucket will show.     *)
(***************************************************************************)
THEOREM ReaderCorrect == Spec => []ReaderInv
<1> QED
  BY ReaderInit, ReaderStep, PTL DEF Spec

(***************************************************************************)
(* CheckpointChangeReader returns the state of the ledger: io.EOF comes    *)
(* after exactly the entries of the checkpoint, each once with its newest  *)
(* value, for every legal bucket list and every failure of the archive.    *)
(***************************************************************************)
THEOREM SnapshotIsExact == Spec => []SnapshotExact
<1> DEFINE Entries == [key : Keys, value : Nat]
<1>1. ReaderInv => SnapshotExact
  <2> SUFFICES ASSUME ReaderInv PROVE SnapshotExact
    OBVIOUS
  <2>1. ReaderTypeOK /\ PlaceInv /\ EndInv
    BY DEF ReaderInv, BasicInv
  <2>2. ASSUME ~tainted PROVE ToSet(UnderWay) \subseteq Snapshot /\ IsInjective(UnderWay)
    <3> DEFINE last == IF pending = None THEN <<>> ELSE <<pending>>
    <3>1. SentInv /\ OnceInv
      BY <2>2 DEF ReaderInv, ContentInv
    <3>2. returned \in Seq(Entries) /\ readChan \in Seq(Entries) /\ returned \o readChan \in Seq(Entries)
      BY <2>1 DEF ReaderTypeOK
    <3>3. last \in Seq(Entries)
      <4>1. pending = None \/ pending \in Entries
        BY <2>1 DEF ReaderTypeOK
      <4> HIDE DEF Entries
      <4> QED
        BY <4>1
    <3>4. IsInjective(last) /\ ToSet(last) = {pending} \ {None}
      BY DEF IsInjective, ToSet
    <3> HIDE DEF Entries, last
    <3>5. ToSet(returned \o readChan) = ToSet(returned) \cup ToSet(readChan) /\ IsInjective(returned \o readChan)
      BY <3>1, <3>2, ConcatElements DEF OnceInv
    <3>6. ToSet(returned \o readChan) \cap ToSet(last) = {}
      BY <3>1, <3>4, <3>5 DEF OnceInv
    <3>7. PICK both \in Seq(Entries) : both = returned \o readChan
      BY <3>2
    <3>8. /\ ToSet(both \o last) = ToSet(both) \cup ToSet(last)
          /\ IsInjective(both \o last)
      <4>1. IsInjective(both) /\ IsInjective(last) /\ ToSet(both) \cap ToSet(last) = {}
        BY <3>4, <3>5, <3>6, <3>7
      <4> QED
        BY <3>3, <4>1, ConcatElements
    <3>9. ToSet((returned \o readChan) \o last) = EntriesSent /\ IsInjective((returned \o readChan) \o last)
      BY <3>4, <3>5, <3>7, <3>8 DEF EntriesSent
    <3> QED
      BY <3>1, <3>9 DEF UnderWay, last, SentInv
  <2> QED
    BY <2>1, <2>2 DEF SnapshotExact, EndInv
<1> QED
  BY <1>1, ReaderCorrect, PTL

(***************************************************************************)
(* "After an error, every later call returns that same error" is kept: the *)
(* context's first cause stays, and no entry is returned once it is there. *)
(***************************************************************************)
THEOREM ErrorsAreFinal == Spec => ErrorIsFinal
<1>1. ReaderInv /\ [Next]_vars => [(ended \in Errors) => (ended' = ended /\ returned' = returned)]_vars
  <2> SUFFICES ASSUME ReaderInv, Next, ended \in Errors
               PROVE  ended' = ended /\ returned' = returned
    OBVIOUS
  <2>1. cause = ended /\ cause # None
    BY ReaderAssumption DEF ReaderInv, BasicInv, EndInv, Errors
  <2>2. CASE Producer
    BY <2>2 DEF Producer, CheckBuckets, streamBucket, ReadOne, ReadWrong, ReadEOF, ReadInvalid,
       readBucketRecordRetry, readBucketRecordGivesUp, ReadCancelled, ValidateHash, Send, CloseChan, consumer
  <2>3. CASE Read \/ nextEntry \/ nextCause \/ nextEOF \/ Close
    BY <2>1, <2>3 DEF Read, nextEntry, nextCause, nextEOF, Close, CtxDone, consumer
  <2> QED
    BY <2>2, <2>3 DEF Next
<1> QED
  BY <1>1, ReaderCorrect, PTL DEF Spec, ErrorIsFinal
=============================================================================
