------------------------ MODULE ChangeCompactorProofs ------------------------
(***************************************************************************)
(* The change compactor, for every set of keys and values: the type         *)
(* invariant, and the properties of the squashed changes from the           *)
(* inductive invariant CompactionInv.  Then the change reader, for every    *)
(* set of ledgers: what it returns, from the inductive invariant ReaderInv, *)
(* and that the reader and the compactor together are the compactor over    *)
(* some input, so that the theorems about the compactor hold of them.       *)
(***************************************************************************)
EXTENDS ChangeReader, SequenceTheorems, TLAPS

\* A squashed change, if the cache does not reject it, is a change again, of the
\* shape TypeOK asks for (Squash, in AddChange).
LEMMA SquashType ==
    ASSUME TypeOK, NEW k \in Keys, NEW t \in ChangeTypes, NEW v \in Values,
           ~Rejects(cache[k], t)
    PROVE  LET s == Squash(k, cache[k], ChangeTo(k, t, v))
           IN  /\ s \in Change
               /\ s.pre # Null <=> s.type \in {"updated", "removed"}
               /\ s.post # Null <=> s.type \in {"created", "updated", "restored"}
<1> DEFINE e == cache[k]
           c == ChangeTo(k, t, v)
<1>1. e \in Change /\ now[k].val \in Values /\ Null \notin Values
  BY CompactorAssumption DEF TypeOK, Entry
<1>2. c \in Change /\ c.type = t
  BY <1>1 DEF ChangeTo, Change, ChangeTypes
<1>3. CASE t = "created"
  BY <1>1, <1>2, <1>3 DEF Squash, addCreatedChange, Rejects, ChangeTo, TypeOK, Change, ChangeTypes
<1>4. CASE t = "updated"
  BY <1>1, <1>2, <1>4 DEF Squash, addUpdatedChange, maxTTL, Rejects, ChangeTo, TypeOK, Change, ChangeTypes
<1>5. CASE t = "removed"
  BY <1>1, <1>2, <1>5 DEF Squash, addRemovedChange, NoChange, Rejects, ChangeTo, TypeOK, Change, ChangeTypes
<1>6. CASE t = "restored"
  BY <1>1, <1>2, <1>6 DEF Squash, addRestoredChange, Rejects, ChangeTo, TypeOK, Change, ChangeTypes
<1> QED
  BY <1>3, <1>4, <1>5, <1>6 DEF ChangeTypes

\* Type correctness of the compactor and of the reader around it.
THEOREM TypeCorrect == Spec => []TypeOK
<1>1. Init => TypeOK
  <2> SUFFICES ASSUME Init PROVE TypeOK
    OBVIOUS
  <2>1. \A k \in Keys : View(start[k]) \in Values \cup {Null}
    BY DEF Init, View, Entry
  <2>2. \A k \in Keys : cache[k] = NoChange /\ NoChange \in Change
    BY DEF Init, NoChange, Change
  <2> QED
    BY <2>1, <2>2 DEF Init, TypeOK, NoChange
<1>2. TypeOK /\ [Next]_vars => TypeOK'
  <2> SUFFICES ASSUME TypeOK, [Next]_vars PROVE TypeOK'
    OBVIOUS
  <2> NoChange \in Change
    BY DEF NoChange, Change
  <2>1. ASSUME CompactFails, now' \in [Keys -> Entry], count' \in Nat PROVE TypeOK'
    BY <2>1 DEF TypeOK, CompactFails, NoChange
  <2>2. ASSUME NEW k \in Keys, NEW t \in ChangeTypes, NEW v \in Values, ReadChange(k, t, v)
        PROVE  TypeOK'
    <3> DEFINE e == [status |-> IF t = "removed" THEN "absent" ELSE "live",
                     val |-> IF k \in TtlKeys /\ t = "updated" THEN maxTTL(now[k].val, v) ELSE v]
    <3>1. e \in Entry
      BY DEF Entry, maxTTL, TypeOK
    <3>2. now' = [now EXCEPT ![k] = e] /\ count' = count + 1 /\ AddChange(k, ChangeTo(k, t, v))
      BY <2>2 DEF ReadChange
    <3>3. now' \in [Keys -> Entry] /\ count' \in Nat
      BY <3>1, <3>2 DEF TypeOK
    <3>4. ChangeTo(k, t, v).type = t
      BY DEF ChangeTo
    <3>5. CASE Rejects(cache[k], t)
      BY <2>1, <3>2, <3>3, <3>4, <3>5 DEF AddChange
    <3>6. CASE ~Rejects(cache[k], t)
      <4> DEFINE s == Squash(k, cache[k], ChangeTo(k, t, v))
      <4>1. /\ cache' = [cache EXCEPT ![k] = s]
            /\ UNCHANGED <<suppress, start, compacted, store, sound>>
        BY <3>2, <3>4, <3>6 DEF AddChange
      <4>2. /\ s \in Change
            /\ s.pre # Null <=> s.type \in {"updated", "removed"}
            /\ s.post # Null <=> s.type \in {"created", "updated", "restored"}
        BY <3>6, SquashType
      <4> HIDE DEF s
      <4> QED
        BY <4>1, <4>2, <3>3 DEF TypeOK
    <3> QED
      BY <3>5, <3>6
  <2>3. ASSUME NEW k \in Keys, NEW t \in ChangeTypes, NEW v \in Values, ReadCorruptChange(k, t, v)
        PROVE  TypeOK'
    BY <2>1, <2>3 DEF ReadCorruptChange, AddChange, ChangeTo, TypeOK
  <2>4. CASE ReadFails
    BY <2>1, <2>4 DEF ReadFails, TypeOK
  <2>5. CASE EndOfInput
    BY <2>5 DEF EndOfInput, TypeOK
  <2>6. ASSUME NEW k \in Keys, Read(k) PROVE TypeOK'
    <3>1. cache[k].post \in Values \cup {Null}
      BY DEF TypeOK, Change
    <3> QED
      BY <2>6, <3>1 DEF Read, TypeOK, NoChange
  <2>7. CASE UNCHANGED vars
    BY <2>7 DEF vars, TypeOK
  <2> QED
    BY <2>2, <2>3, <2>4, <2>5, <2>6, <2>7 DEF Next
<1> QED
  BY <1>1, <1>2, PTL DEF Spec

\* Reading a change keeps what is known of its key: the one place where the tables
\* of AddChange meet what the ledger does.
LEMMA ReadChangeKeepsKey ==
    ASSUME TypeOK, NEW k \in Keys, NEW t \in ChangeTypes, NEW v \in Values,
           KeyInv(k), ReadChange(k, t, v)
    PROVE  ~Rejects(cache[k], t) /\ KeyInv(k)'
<1>1. /\ now[k].val \in Values /\ Null \notin Values /\ start[k].val \in Values
      /\ Values \subseteq Nat
      /\ cache[k] \in Change
  BY CompactorAssumption DEF TypeOK, Entry
<1>2. ~Rejects(cache[k], t)
  BY <1>1 DEF KeyInv, ReadChange, Rejects, StatusBefore, Change, ChangeTypes
<1>3. /\ ~compacted /\ ~compacted'
      /\ cache'[k] = Squash(k, cache[k], ChangeTo(k, t, v))
      /\ UNCHANGED <<suppress, start, store>>
      /\ now'[k] = [status |-> IF t = "removed" THEN "absent" ELSE "live",
                    val |-> IF k \in TtlKeys /\ t = "updated" THEN maxTTL(now[k].val, v) ELSE v]
      /\ now[k].status = StatusBefore(t)
      /\ t = "removed" => v = now[k].val
      /\ k \in TtlKeys /\ t = "updated" /\ start[k].status = "live" => v >= start[k].val
  BY <1>2 DEF ReadChange, AddChange, ChangeTo, TypeOK
<1>4. CASE t = "created"
  BY <1>1, <1>2, <1>3, <1>4
  DEF KeyInv, View, Squash, addCreatedChange, Rejects, ChangeTo, TypeOK, Change, ChangeTypes, StatusBefore
<1>5. CASE t = "updated"
  BY <1>1, <1>2, <1>3, <1>5
  DEF KeyInv, View, Squash, addUpdatedChange, maxTTL, Rejects, ChangeTo, TypeOK, Change, ChangeTypes, StatusBefore
<1>6. CASE t = "removed"
  <2> DEFINE s == cache'[k]
             c == ChangeTo(k, t, v)
  <2>1. s = addRemovedChange(cache[k], c) /\ c = [type |-> "removed", pre |-> now[k].val, post |-> Null]
    BY <1>3, <1>6 DEF Squash, ChangeTo
  <2>2. now[k].status = "live" /\ now'[k].status = "absent"
    BY <1>3, <1>6 DEF StatusBefore
  <2>3. CASE cache[k].type = "none"
    BY <1>1, <1>2, <1>3, <2>1, <2>2, <2>3 DEF KeyInv, View, addRemovedChange
  <2>4. CASE cache[k].type = "created"
    BY <1>1, <1>2, <1>3, <2>1, <2>2, <2>4 DEF KeyInv, View, addRemovedChange, NoChange
  <2>5. CASE cache[k].type = "updated"
    BY <1>1, <1>2, <1>3, <2>1, <2>2, <2>5 DEF KeyInv, View, addRemovedChange
  <2>6. CASE cache[k].type = "restored"
    <3>1. suppress => s = NoChange /\ store[k] = Null
      BY <2>1, <2>6 DEF KeyInv, addRemovedChange
    <3>2. ~suppress => s = [type |-> "removed", pre |-> c.pre, post |-> Null] /\ store[k] # Null
      BY <2>1, <2>6 DEF KeyInv, addRemovedChange
    <3> QED
      BY <1>1, <1>2, <1>3, <2>1, <2>2, <2>6, <3>1, <3>2 DEF KeyInv, View, NoChange
  <2> QED
    BY <1>1, <1>2, <1>6, <2>3, <2>4, <2>5, <2>6 DEF Change, ChangeTypes, Rejects
<1>7. CASE t = "restored"
  BY <1>1, <1>2, <1>3, <1>7
  DEF KeyInv, View, Squash, addRestoredChange, Rejects, ChangeTo, TypeOK, Change, ChangeTypes, StatusBefore
<1> QED
  BY <1>2, <1>4, <1>5, <1>6, <1>7 DEF ChangeTypes

\* CompactionInv is inductive.
THEOREM CompactionCorrect == Spec => []CompactionInv
<1>1. Init => CompactionInv
  <2> SUFFICES ASSUME Init, NEW k \in Keys PROVE KeyInv(k)
    BY DEF CompactionInv
  <2>1. cache[k] = NoChange /\ store[k] = View(start[k]) /\ now[k] = start[k]
    BY DEF Init
  <2> QED
    BY <2>1 DEF KeyInv, NoChange
<1>2. TypeOK /\ CompactionInv /\ [Next]_vars => CompactionInv'
  <2> SUFFICES ASSUME TypeOK, CompactionInv, [Next]_vars, sound'
               PROVE  \A q \in Keys : KeyInv(q)'
    BY DEF CompactionInv
  <2>1. ASSUME NEW k \in Keys, NEW t \in ChangeTypes, NEW v \in Values, ReadChange(k, t, v)
        PROVE  \A q \in Keys : KeyInv(q)'
    <3>1. sound
      BY <2>1 DEF ReadChange, AddChange, CompactFails
    <3>2. ~Rejects(cache[k], t) /\ KeyInv(k)'
      BY <2>1, <3>1, ReadChangeKeepsKey DEF CompactionInv
    <3>3. ASSUME NEW q \in Keys, q # k PROVE KeyInv(q)'
      <4>1. /\ now'[q] = now[q] /\ cache'[q] = cache[q]
            /\ UNCHANGED <<suppress, start, compacted, store>>
        BY <2>1, <3>2, <3>3 DEF ReadChange, AddChange, ChangeTo, TypeOK
      <4> QED
        BY <3>1, <4>1 DEF CompactionInv, KeyInv, View
    <3> QED
      BY <3>2, <3>3
  <2>2. ASSUME NEW k \in Keys, NEW t \in ChangeTypes, NEW v \in Values, ReadCorruptChange(k, t, v)
        PROVE  FALSE
    BY <2>2 DEF ReadCorruptChange, AddChange, ChangeTo, CompactFails
  <2>3. ReadFails => FALSE
    BY DEF ReadFails, CompactFails
  <2>4. CASE EndOfInput
    BY <2>4 DEF EndOfInput, CompactionInv, KeyInv, View
  <2>5. ASSUME NEW k \in Keys, Read(k) PROVE \A q \in Keys : KeyInv(q)'
    <3>1. /\ cache' = [cache EXCEPT ![k] = NoChange] /\ store' = [store EXCEPT ![k] = cache[k].post]
          /\ UNCHANGED <<suppress, start, now, compacted, sound>>
          /\ compacted /\ cache[k].type # "none"
      BY <2>5 DEF Read
    <3>2. KeyInv(k)'
      BY <3>1 DEF CompactionInv, KeyInv, View, NoChange, TypeOK
    <3>3. ASSUME NEW q \in Keys, q # k PROVE KeyInv(q)'
      BY <3>1, <3>3 DEF CompactionInv, KeyInv, View, TypeOK
    <3> QED
      BY <3>2, <3>3
  <2>6. CASE UNCHANGED vars
    BY <2>6 DEF vars, CompactionInv, KeyInv, View
  <2> QED
    BY <2>1, <2>2, <2>3, <2>4, <2>5, <2>6 DEF Next
<1> QED
  BY <1>1, <1>2, TypeCorrect, PTL DEF Spec

\* The squashed changes turn the consumer's store into the ledger, whatever the
\* changes of the ledger were and in whichever order they are applied.
THEOREM Squashing == Spec => []SquashCorrect
<1>1. CompactionInv => SquashCorrect
  BY DEF CompactionInv, KeyInv, SquashCorrect
<1> QED
  BY <1>1, CompactionCorrect, PTL

\* The consumer never inserts what it has, nor updates or deletes what it has not.
THEOREM FitsStore == Spec => []TypesFitStore
<1>1. CompactionInv => TypesFitStore
  BY DEF CompactionInv, KeyInv, TypesFitStore
<1> QED
  BY <1>1, CompactionCorrect, PTL

\* Pre is the entry before the ledger.
THEOREM PreBeforeLedger == Spec => []PreIsBeforeLedger
<1>1. CompactionInv => PreIsBeforeLedger
  BY DEF CompactionInv, KeyInv, PreIsBeforeLedger
<1> QED
  BY <1>1, CompactionCorrect, PTL

\* The integrity check rejects what the ledger cannot do, and nothing else.
THEOREM RejectionExact == Spec => []RejectsExactly
<1>1. TypeOK /\ CompactionInv => RejectsExactly
  <2> SUFFICES ASSUME TypeOK, sound, NEW k \in Keys, NEW t \in ChangeTypes, KeyInv(k),
                      cache[k].type # "none"
               PROVE  Rejects(cache[k], t) <=> now[k].status # StatusBefore(t)
    BY DEF CompactionInv, RejectsExactly
  <2>1. cache[k].type \in ChangeTypes
    BY DEF TypeOK, Change
  <2> QED
    BY <2>1 DEF KeyInv, Rejects, StatusBefore, ChangeTypes
<1> QED
  BY <1>1, TypeCorrect, CompactionCorrect, PTL
-----------------------------------------------------------------------------
(* The reader. *)

\* The shape of a ledger.
LEMMA LedgerFacts ==
    ASSUME lcm \in Ledgers
    PROVE  /\ \A s \in States : lcm[s] \in Seq(Nat) /\ Len(lcm[s]) \in Nat /\ DOMAIN lcm[s] = 1 .. Len(lcm[s])
           /\ \A s \in States : s # "upgradeChanges" => Len(lcm[s]) = CountTransactions
           /\ Len(lcm.upgradeChanges) = Len(lcm["upgradeChanges"]) /\ "upgradeChanges" \in States
BY LedgersAssumption DEF States, TransactionStates, CountTransactions

\* A change of the ledger has a place in it.
LEMMA ChangeFacts ==
    ASSUME lcm \in Ledgers
    PROVE  /\ \A c \in LedgerChanges : /\ c[1] \in States /\ c[2] \in 1 .. Len(lcm[c[1]])
                                       /\ c[3] \in 1 .. lcm[c[1]][c[2]] /\ ~Fails(c[1], c[2])
                                       /\ c = <<c[1], c[2], c[3]>>
           /\ \A s \in States : \A i \in 1 .. Len(lcm[s]) : \A j \in 1 .. lcm[s][i] :
                 ~Fails(s, i) => <<s, i, j>> \in LedgerChanges
<1>1. \A s \in States : DOMAIN lcm[s] = 1 .. Len(lcm[s])
  BY LedgerFacts
<1>2. ASSUME NEW c \in LedgerChanges
      PROVE  \E s \in States : \E i \in 1 .. Len(lcm[s]) : \E j \in 1 .. lcm[s][i] : c = <<s, i, j>> /\ ~Fails(s, i)
  <2>1. PICK s \in States : c \in UNION {IF Fails(s, i) THEN {} ELSE {<<s, i, j>> : j \in 1 .. lcm[s][i]} :
                                           i \in DOMAIN lcm[s]}
    BY DEF LedgerChanges
  <2>2. PICK i \in 1 .. Len(lcm[s]) : c \in IF Fails(s, i) THEN {} ELSE {<<s, i, j>> : j \in 1 .. lcm[s][i]}
    BY <1>1, <2>1
  <2> QED
    BY <2>2
<1>3. ASSUME NEW s \in States, NEW i \in 1 .. Len(lcm[s]), NEW j \in 1 .. lcm[s][i], ~Fails(s, i)
      PROVE  <<s, i, j>> \in LedgerChanges
  <2>1. <<s, i, j>> \in IF Fails(s, i) THEN {} ELSE {<<s, i, k>> : k \in 1 .. lcm[s][i]}
    BY <1>3
  <2>2. <<s, i, j>> \in UNION {IF Fails(s, h) THEN {} ELSE {<<s, h, k>> : k \in 1 .. lcm[s][h]} : h \in DOMAIN lcm[s]}
    BY <1>1, <2>1
  <2> QED
    BY <2>2 DEF LedgerChanges
<1> QED
  BY <1>2, <1>3

\* The pending changes are numbered.
LEMMA PendingFacts ==
    ASSUME lcm \in Ledgers, NEW s \in States, NEW i \in 1 .. Len(lcm[s])
    PROVE  /\ lcm[s][i] \in Nat /\ Len(ChangesOf(s, i)) = lcm[s][i]
           /\ \A j \in 1 .. lcm[s][i] : ChangesOf(s, i)[j] = <<s, i, j>>
           /\ ChangesOf(s, i) \in Seq({s} \X {i} \X Nat)
           /\ <<>> \o ChangesOf(s, i) = ChangesOf(s, i)
           /\ lcm[s][i] = 0 => ChangesOf(s, i) = <<>>
<1>1. lcm[s][i] \in Nat
  BY LedgerFacts
<1>2. PICK n \in Nat : n = lcm[s][i]
  BY <1>1
<1>3. ChangesOf(s, i) = [j \in 1 .. n |-> <<s, i, j>>]
  BY <1>2 DEF ChangesOf
<1>4. ChangesOf(s, i) \in Seq({s} \X {i} \X Nat) /\ Len(ChangesOf(s, i)) = n
  BY <1>3
<1>5. n = 0 => ChangesOf(s, i) = <<>>
  BY <1>4, EmptySeq
<1>6. <<>> \o ChangesOf(s, i) = ChangesOf(s, i)
  BY <1>4, ConcatEmptySeq
<1> QED
  BY <1>1, <1>2, <1>3, <1>4, <1>5, <1>6

\* The reader starts before the first change.
LEMMA ReaderInitially == ReaderInit => ReaderInv
<1> SUFFICES ASSUME ReaderInit PROVE ReaderInv
  OBVIOUS
<1>1. /\ lcm \in Ledgers /\ state = "feeChanges" /\ readIdx = 0 /\ upgradeIndex = 0
      /\ pending = <<>> /\ pendingIndex = 0 /\ returned = <<>> /\ compacted = FALSE
  BY DEF ReaderInit, Init
<1>2. state \in States /\ Position = 0 /\ Len(lcm[state]) \in Nat
  BY <1>1, LedgerFacts DEF States, TransactionStates, Position
<1>3. PlaceInv
  BY <1>1, <1>2 DEF PlaceInv
<1>4. \A c \in LedgerChanges : ~Passed(c)
  <2> TAKE c \in LedgerChanges
  <2>1. c[1] \in States /\ c[2] >= 1 /\ c[2] \in Nat
    BY <1>1, ChangeFacts
  <2>2. Rank["feeChanges"] = 1 /\ Rank[c[1]] \in {1, 2, 3, 4}
    BY <2>1 DEF Rank, States, TransactionStates
  <2> QED
    BY <1>1, <1>2, <2>1, <2>2 DEF Passed
<1>5. ReturnedInv
  BY <1>1, <1>4 DEF ReturnedInv, ToSet
<1> QED
  BY <1>1, <1>3, <1>5 DEF ReaderInv

\* A step that returns nothing.
LEMMA NothingReturned ==
    ASSUME ReaderInv, ~readerClosed, UNCHANGED <<lcm, returned>>, PlaceInv',
           \A c \in LedgerChanges : Passed(c)' <=> Passed(c)
    PROVE  ReaderInv'
<1>1. LedgerChanges' = LedgerChanges
  BY DEF LedgerChanges, Fails
<1>2. ReturnedInv
  BY DEF ReaderInv
<1>3. ReturnedInv'
  BY <1>1, <1>2 DEF ReturnedInv, Before
<1> QED
  BY <1>3 DEF ReaderInv

\* A pending change is returned, and it is the next one.
LEMMA ReadPendingKeeps ==
    ASSUME ReaderInv, ReadPending, ~readerClosed
    PROVE  ReaderInv'
<1>1. lcm \in Ledgers /\ PlaceInv /\ ReturnedInv
  BY DEF ReaderInv
<1>2. /\ ~compacted /\ pendingIndex < Len(pending)
      /\ returned' = Append(returned, pending[pendingIndex + 1])
      /\ IF pendingIndex + 1 = Len(pending)
         THEN pendingIndex' = 0 /\ pending' = <<>>
         ELSE pendingIndex' = pendingIndex + 1 /\ UNCHANGED pending
      /\ UNCHANGED <<lcm, state, readIdx, upgradeIndex, readerClosed>>
  BY DEF ReadPending, walkVars
<1>3. UNCHANGED compacted
  BY DEF ReadPending, ReadChange, ReadCorruptChange, AddChange, CompactFails
<1>4. Position' = Position /\ LedgerChanges' = LedgerChanges /\ \A s, i : Fails(s, i)' = Fails(s, i)
  BY <1>2 DEF Position, LedgerChanges, Fails
<1>5. pending # <<>> /\ pendingIndex \in Nat
  <2>1. Len(<<>>) = 0
    OBVIOUS
  <2> QED
    BY <1>1, <1>2, <2>1 DEF PlaceInv
<1>6. /\ state \in States /\ Position \in 1 .. Len(lcm[state]) /\ ~Fails(state, Position)
      /\ pending = ChangesOf(state, Position)
  BY <1>1, <1>5, LedgerFacts DEF PlaceInv
<1>7. PICK n \in Nat : n = lcm[state][Position] /\ Len(pending) = n
  BY <1>1, <1>6, PendingFacts
<1>8. PICK p \in Nat : p = pendingIndex /\ p + 1 \in 1 .. n
  BY <1>2, <1>5, <1>7
<1>9. PICK c : c = <<state, Position, p + 1>>
  OBVIOUS
<1>10. c = pending[pendingIndex + 1] /\ c \in LedgerChanges /\ c[1] = state /\ c[2] = Position /\ c[3] = p + 1
  BY <1>1, <1>6, <1>7, <1>8, <1>9, PendingFacts, ChangeFacts
<1>11. (p + 1 = n /\ pendingIndex' = 0 /\ pending' = <<>>) \/ (p + 1 < n /\ pendingIndex' = p + 1 /\ UNCHANGED pending)
  BY <1>2, <1>7, <1>8
<1>12. PlaceInv'
  <2>1. lcm[state]' = lcm[state] /\ ChangesOf(state, Position)' = ChangesOf(state, Position)
    BY <1>2, <1>4 DEF ChangesOf
  <2>2. CASE p + 1 = n /\ pendingIndex' = 0 /\ pending' = <<>>
    BY <1>1, <1>2, <1>3, <1>4, <2>1, <2>2 DEF PlaceInv
  <2>3. CASE p + 1 < n /\ pendingIndex' = p + 1 /\ UNCHANGED pending
    BY <1>1, <1>2, <1>3, <1>4, <1>6, <1>7, <2>1, <2>3 DEF PlaceInv
  <2> QED
    BY <1>11, <2>2, <2>3
<1>13. ASSUME NEW d \in LedgerChanges PROVE /\ Passed(d)' <=> (Passed(d) \/ d = c)
                                            /\ Passed(d) => Before(d, c)
  <2>1. /\ d[1] \in States /\ d[2] \in Nat /\ d[3] \in Nat /\ d = <<d[1], d[2], d[3]>>
        /\ (d[1] = state /\ d[2] = Position => d[3] <= n)
    BY <1>1, <1>6, <1>7, ChangeFacts, LedgerFacts
  <2>2. /\ Rank[d[1]] \in {1, 2, 3, 4} /\ Rank[state] \in {1, 2, 3, 4}
    BY <1>6, <2>1 DEF Rank, States, TransactionStates
  <2>3. d = c <=> d[1] = state /\ d[2] = Position /\ d[3] = p + 1
    BY <1>9, <1>10, <2>1
  <2>4. Passed(d) <=> \/ Rank[d[1]] < Rank[state]
                      \/ d[1] = state /\ (d[2] < Position \/ (d[2] = Position /\ d[3] <= p))
    BY <1>5, <1>8 DEF Passed
  <2>5. Passed(d)' <=> \/ Rank[d[1]] < Rank[state]
                       \/ d[1] = state /\ (d[2] < Position \/ (d[2] = Position /\ d[3] <= p + 1))
    <3>1. Passed(d)' <=> \/ Rank[d[1]] < Rank[state]
                         \/ d[1] = state /\ (d[2] < Position \/ (d[2] = Position /\ (pending' = <<>> \/ d[3] <= pendingIndex')))
      BY <1>2, <1>4 DEF Passed, Rank
    <3> QED
      BY <1>5, <1>11, <2>1, <3>1
  <2>6. Passed(d)' <=> (Passed(d) \/ d = c)
    BY <2>1, <2>2, <2>3, <2>4, <2>5
  <2>7. Passed(d) => Before(d, c)
    BY <1>10, <2>1, <2>4 DEF Before
  <2> QED
    BY <2>6, <2>7
<1>14. ReturnedInv'
  <2>1. /\ returned \in Seq(LedgerChanges)
        /\ \A a, b \in DOMAIN returned : a < b => Before(returned[a], returned[b])
        /\ ToSet(returned) = {d \in LedgerChanges : Passed(d)}
    BY <1>1 DEF ReturnedInv
  <2>2. PICK m \in Nat : m = Len(returned) /\ DOMAIN returned = 1 .. m
    BY <2>1
  <2>3. /\ returned' \in Seq(LedgerChanges) /\ DOMAIN returned' = 1 .. (m + 1)
        /\ returned'[m + 1] = c /\ \A a \in 1 .. m : returned'[a] = returned[a]
    BY <1>2, <1>10, <2>1, <2>2
  <2>4. ToSet(returned') = ToSet(returned) \cup {c}
    <3>1. \A a \in 1 .. (m + 1) : a = m + 1 \/ a \in 1 .. m
      OBVIOUS
    <3>2. \A a \in 1 .. m : a \in 1 .. (m + 1)
      OBVIOUS
    <3>3. m + 1 \in 1 .. (m + 1)
      OBVIOUS
    <3> QED
      BY <2>2, <2>3, <3>1, <3>2, <3>3 DEF ToSet
  <2>5. ASSUME NEW a \in DOMAIN returned', NEW b \in DOMAIN returned', a < b
        PROVE  Before(returned'[a], returned'[b])
    <3>1. a \in 1 .. m /\ (b \in 1 .. m \/ b = m + 1)
      BY <2>3, <2>5
    <3>2. returned[a] \in LedgerChanges /\ Passed(returned[a])
      BY <2>1, <2>2, <3>1 DEF ToSet
    <3> QED
      BY <1>13, <2>1, <2>2, <2>3, <2>5, <3>1, <3>2
  <2>6. ToSet(returned') = {d \in LedgerChanges : Passed(d)'}
    BY <1>10, <1>13, <2>1, <2>4
  <2> QED
    BY <1>4, <2>3, <2>5, <2>6 DEF ReturnedInv, Before
<1> QED
  BY <1>1, <1>2, <1>12, <1>14 DEF ReaderInv

\* The next transaction or upgrade is read, or a transaction that fails is passed over.
LEMMA AdvanceKeeps ==
    ASSUME ReaderInv, ~readerClosed, NothingPending, UNCHANGED <<lcm, state, pendingIndex, returned, compacted>>,
           Position < Len(lcm[state]), Position' = Position + 1,
           readIdx' \in Nat, upgradeIndex' \in Nat, state # "upgradeChanges" => upgradeIndex' = upgradeIndex,
           \/ Fails(state, Position') /\ UNCHANGED pending
           \/ ~Fails(state, Position') /\ pending' = pending \o ChangesOf(state, Position')
    PROVE  ReaderInv'
<1>1. lcm \in Ledgers /\ PlaceInv
  BY DEF ReaderInv
<1>2. pending = <<>> /\ pendingIndex = 0 /\ ~compacted /\ state \in States
  BY <1>1 DEF NothingPending, PlaceInv
<1>3. PICK i \in 1 .. Len(lcm[state]) : i = Position'  /\ Position = i - 1 /\ Position \in Nat /\ i # 0
  BY <1>1, <1>2, LedgerFacts DEF PlaceInv
<1>4. /\ lcm[state]' = lcm[state] /\ ChangesOf(state, Position)' = ChangesOf(state, i)
      /\ Fails(state, Position)' = Fails(state, i)
  BY <1>3 DEF ChangesOf, Fails
<1>5. \/ Fails(state, i) /\ pending' = <<>>
      \/ ~Fails(state, i) /\ pending' = ChangesOf(state, i)
  BY <1>1, <1>2, <1>3, PendingFacts
<1>6. PICK n \in Nat : n = lcm[state][i] /\ Len(ChangesOf(state, i)) = n /\ (n = 0 => ChangesOf(state, i) = <<>>)
  BY <1>1, <1>2, <1>3, PendingFacts
<1>7. pending' = <<>> \/ (~Fails(state, i) /\ pending' = ChangesOf(state, i) /\ 0 < Len(pending'))
  BY <1>5, <1>6
<1>8. PlaceInv'
  BY <1>1, <1>2, <1>3, <1>4, <1>7 DEF PlaceInv
<1>9. ASSUME NEW d \in LedgerChanges PROVE Passed(d)' <=> Passed(d)
  <2>1. /\ d[1] \in States /\ d[2] \in Nat /\ d[3] \in Nat /\ d[3] >= 1 /\ ~Fails(d[1], d[2])
        /\ (d[1] = state /\ d[2] = i => d[3] <= n)
    BY <1>1, <1>6, ChangeFacts, LedgerFacts
  <2>2. Passed(d) <=> Rank[d[1]] < Rank[state] \/ (d[1] = state /\ d[2] < i)
    BY <1>2, <1>3, <2>1 DEF Passed
  <2>3. Passed(d)' <=> \/ Rank[d[1]] < Rank[state]
                       \/ d[1] = state /\ (d[2] < i \/ (d[2] = i /\ (pending' = <<>> \/ d[3] <= 0)))
    BY <1>2, <1>3 DEF Passed, Rank
  <2>4. d[1] = state /\ d[2] = i => pending' # <<>>
    <3>1. Len(<<>>) = 0
      OBVIOUS
    <3> QED
      BY <1>5, <1>6, <2>1, <3>1
  <2> QED
    BY <2>1, <2>2, <2>3, <2>4
<1> QED
  BY <1>8, <1>9, NothingReturned

\* A transaction or an upgrade is read.
LEMMA ReadItemKeeps ==
    ASSUME ReaderInv, ~readerClosed, ReadTransaction \/ ReadUpgrade
    PROVE  ReaderInv'
<1>1. lcm \in Ledgers /\ PlaceInv
  BY DEF ReaderInv
<1>2. state \in States /\ readIdx \in Nat /\ upgradeIndex \in Nat
  BY <1>1 DEF PlaceInv
<1>3. CASE ReadTransaction
  <2>1. /\ NothingPending /\ state # "upgradeChanges" /\ readIdx < CountTransactions /\ readIdx' = readIdx + 1
        /\ UNCHANGED <<lcm, state, upgradeIndex, pendingIndex, readerClosed, returned>>
    BY <1>3 DEF ReadTransaction
  <2>2. Position = readIdx /\ Position' = readIdx' /\ Len(lcm[state]) = CountTransactions
    BY <1>1, <1>2, <2>1, LedgerFacts DEF Position
  <2>3. UNCHANGED compacted
    BY <1>3 DEF ReadTransaction, CompactFails, vars
  <2>4. Fails(state, readIdx') <=> readIdx' \in lcm.unknown \/ (state = "metaChanges" /\ readIdx' \in lcm.unsupported)
    BY <2>1 DEF Fails
  <2>5. \/ Fails(state, readIdx') /\ UNCHANGED pending
        \/ ~Fails(state, readIdx') /\ pending' = pending \o ChangesOf(state, readIdx')
    BY <1>3, <2>4 DEF ReadTransaction
  <2> QED
    BY <1>2, <2>1, <2>2, <2>3, <2>5, AdvanceKeeps
<1>4. CASE ReadUpgrade
  <2>1. /\ NothingPending /\ state = "upgradeChanges" /\ upgradeIndex < Len(lcm.upgradeChanges)
        /\ upgradeIndex' = upgradeIndex + 1 /\ pending' = pending \o ChangesOf(state, upgradeIndex')
        /\ UNCHANGED <<lcm, state, readIdx, pendingIndex, readerClosed, returned, compacted>>
    BY <1>4 DEF ReadUpgrade, vars
  <2>2. Position = upgradeIndex /\ Position' = upgradeIndex' /\ ~Fails(state, upgradeIndex')
    BY <2>1 DEF Position, Fails
  <2>3. Len(lcm[state]) = Len(lcm.upgradeChanges)
    BY <1>1, <2>1, LedgerFacts
  <2> QED
    BY <1>2, <2>1, <2>2, <2>3, AdvanceKeeps
<1> QED
  BY <1>3, <1>4

\* The next walk over the transactions begins when the one before it is complete.
LEMMA RewindKeeps ==
    ASSUME ReaderInv, ~readerClosed, EndOfTransactions
    PROVE  ReaderInv'
<1>1. lcm \in Ledgers /\ PlaceInv
  BY DEF ReaderInv
<1>2. /\ NothingPending /\ state # "upgradeChanges" /\ readIdx >= CountTransactions
      /\ IF state # "postTxApply" THEN readIdx' = 0 ELSE UNCHANGED readIdx
      /\ UNCHANGED <<lcm, upgradeIndex, pending, pendingIndex, readerClosed, returned, compacted>>
  BY DEF EndOfTransactions, vars
<1>3. /\ state \in {"feeChanges", "metaChanges", "postTxApply"}
      /\ state = "feeChanges" => state' = "metaChanges"
      /\ state = "metaChanges" => state' = "postTxApply"
      /\ state = "postTxApply" => state' = "upgradeChanges"
  BY <1>1, <1>2 DEF EndOfTransactions, PlaceInv, States, TransactionStates
<1>4. pending = <<>> /\ pendingIndex = 0 /\ ~compacted /\ upgradeIndex = 0 /\ readIdx \in Nat
  BY <1>1, <1>2 DEF NothingPending, PlaceInv
<1>5. Position' = 0 /\ state' \in States /\ state \in States
  BY <1>2, <1>3, <1>4 DEF Position, States, TransactionStates
<1>6. Len(lcm[state']) \in Nat /\ Len(lcm[state]) = CountTransactions /\ Position = readIdx
  BY <1>1, <1>2, <1>5, LedgerFacts DEF Position
<1>7. PlaceInv'
  BY <1>2, <1>3, <1>4, <1>5, <1>6 DEF PlaceInv
<1>8. ASSUME NEW d \in LedgerChanges PROVE Passed(d)' <=> Passed(d)
  <2>1. d[1] \in States /\ d[2] \in Nat /\ d[2] >= 1 /\ d[2] <= Len(lcm[d[1]]) /\ Len(lcm[d[1]]) \in Nat
    BY <1>1, ChangeFacts, LedgerFacts
  <2>2. Passed(d) <=> Rank[d[1]] < Rank[state] \/ d[1] = state
    BY <1>2, <1>4, <1>6, <2>1 DEF Passed
  <2>3. Passed(d)' <=> Rank[d[1]] < Rank[state']
    BY <1>2, <1>4, <1>5, <2>1 DEF Passed, Rank
  <2>4. Rank[d[1]] < Rank[state'] <=> Rank[d[1]] < Rank[state] \/ d[1] = state
    BY <1>3, <2>1 DEF Rank, States, TransactionStates
  <2> QED
    BY <2>2, <2>3, <2>4
<1> QED
  BY <1>2, <1>7, <1>8, NothingReturned

\* The other steps do not move the reader.
LEMMA RestKeeps ==
    ASSUME ReaderInv, EndOfLedger \/ CloseReader \/ ReadCompacted \/ UNCHANGED <<vars, readerVars>>
    PROVE  ReaderInv'
<1>1. CASE CloseReader
  BY <1>1 DEF CloseReader, ReaderInv
<1>2. CASE ~CloseReader
  <2>1. UNCHANGED <<lcm, state, readIdx, upgradeIndex, pending, pendingIndex, readerClosed, returned>>
    BY <1>2 DEF EndOfLedger, ReadCompacted, readerVars, walkVars
  <2>2. \/ UNCHANGED compacted
        \/ NothingPending /\ state = "upgradeChanges" /\ upgradeIndex >= Len(lcm.upgradeChanges)
    BY <1>2 DEF EndOfLedger, ReadCompacted, Read, vars
  <2>3. CASE readerClosed
    BY <2>1, <2>3 DEF ReaderInv
  <2>4. CASE ~readerClosed
    <3>1. lcm \in Ledgers /\ PlaceInv
      BY <2>4 DEF ReaderInv
    <3>2. Position' = Position /\ ChangesOf(state, Position)' = ChangesOf(state, Position)
          /\ Fails(state, Position)' = Fails(state, Position) /\ lcm[state]' = lcm[state]
      BY <2>1 DEF Position, ChangesOf, Fails
    <3>3. PlaceInv'
      <4>1. CASE UNCHANGED compacted
        BY <2>1, <3>1, <3>2, <4>1 DEF PlaceInv
      <4>2. CASE NothingPending /\ state = "upgradeChanges" /\ upgradeIndex >= Len(lcm.upgradeChanges)
        <5>1. pending = <<>> /\ Position = upgradeIndex
          BY <3>1, <4>2 DEF NothingPending, PlaceInv, Position
        <5>2. Position = Len(lcm[state])
          BY <3>1, <4>2, <5>1, LedgerFacts DEF PlaceInv
        <5> QED
          BY <2>1, <3>1, <3>2, <4>2, <5>1, <5>2 DEF PlaceInv
      <4> QED
        BY <2>2, <4>1, <4>2
    <3>4. \A c : Passed(c)' <=> Passed(c)
      BY <2>1, <3>2 DEF Passed, Rank
    <3> QED
      BY <2>1, <2>4, <3>3, <3>4, NothingReturned
  <2> QED
    BY <2>3, <2>4
<1> QED
  BY <1>1, <1>2

\* Every step keeps the place of the reader and what it has returned together.
LEMMA ReaderStep == ReaderInv /\ [ReaderNext]_<<vars, readerVars>> => ReaderInv'
<1> SUFFICES ASSUME ReaderInv, [ReaderNext]_<<vars, readerVars>> PROVE ReaderInv'
  OBVIOUS
<1>1. CASE EndOfLedger \/ CloseReader \/ ReadCompacted \/ UNCHANGED <<vars, readerVars>>
  BY <1>1, RestKeeps
<1>2. CASE ReadPending \/ ReadTransaction \/ EndOfTransactions \/ ReadUpgrade
  <2>1. CASE readerClosed
    <3>1. readerClosed' /\ lcm' = lcm
      BY <1>2, <2>1 DEF ReadPending, ReadTransaction, EndOfTransactions, ReadUpgrade
    <3> QED
      BY <3>1 DEF ReaderInv
  <2>2. CASE ~readerClosed
    BY <1>2, <2>2, ReadPendingKeeps, ReadItemKeeps, RewindKeeps
  <2> QED
    BY <2>1, <2>2
<1> QED
  BY <1>1, <1>2 DEF ReaderNext

\* Through all rewinds and failed transactions, the reader returns the changes of a
\* ledger in the order the comment of Read gives, each once, and at io.EOF all of them.
THEOREM ReaderReturnsAll == ReaderSpec => []ReadsEachChangeOnce
<1>1. ReaderInv => ReadsEachChangeOnce
  <2> SUFFICES ASSUME ReaderInv, ~readerClosed PROVE ReadsEachChangeOnce
    BY DEF ReadsEachChangeOnce
  <2>1. lcm \in Ledgers /\ PlaceInv /\ ReturnedInv
    BY DEF ReaderInv
  <2>2. ToSet(returned) = {c \in LedgerChanges : Passed(c)}
    BY <2>1 DEF ReturnedInv
  <2>3. ASSUME NEW c \in LedgerChanges PROVE c[1] \in States /\ c[2] \in 1 .. Len(lcm[c[1]]) /\ c[3] \in Nat
    BY <2>1, ChangeFacts, LedgerFacts
  <2>4. \A s \in States : Rank[s] \in {1, 2, 3, 4} /\ (s # "upgradeChanges" => Rank[s] < 4) /\ Len(lcm[s]) \in Nat
    BY <2>1, LedgerFacts DEF Rank, States, TransactionStates
  <2>5. ASSUME NEW c \in LedgerChanges, compacted PROVE Passed(c)
    <3>1. state = "upgradeChanges" /\ Position = Len(lcm[state]) /\ pending = <<>>
      BY <2>1, <2>5 DEF PlaceInv
    <3>2. Rank["upgradeChanges"] = 4
      BY DEF Rank
    <3> QED
      BY <2>3, <2>4, <3>1, <3>2 DEF Passed
  <2>6. ASSUME NEW c \in LedgerChanges, NEW d \in LedgerChanges, Passed(d), Before(c, d) PROVE Passed(c)
    <3>1. state \in States /\ Position \in Nat /\ pendingIndex \in Nat
      BY <2>1, <2>4 DEF PlaceInv
    <3>2. /\ Rank[c[1]] \in {1, 2, 3, 4} /\ Rank[d[1]] \in {1, 2, 3, 4} /\ Rank[state] \in {1, 2, 3, 4}
          /\ c[2] \in Nat /\ d[2] \in Nat /\ c[3] \in Nat /\ d[3] \in Nat
      BY <2>3, <2>4, <3>1
    <3> QED
      BY <2>6, <3>1, <3>2 DEF Passed, Before
  <2> QED
    BY <2>1, <2>2, <2>5, <2>6 DEF ReadsEachChangeOnce, ReturnedInv
<1> QED
  BY <1>1, ReaderInitially, ReaderStep, PTL DEF ReaderSpec

\* Around the reader the compactor takes only the steps it takes by itself, so that
\* its theorems hold of the two together.
THEOREM ReaderFeedsCompactor == ReaderSpec => Spec
<1>1. ReaderInit => Init
  BY DEF ReaderInit
<1>2. [ReaderNext]_<<vars, readerVars>> => [Next]_vars
  <2> SUFFICES ASSUME ReaderNext PROVE Next \/ UNCHANGED vars
    BY DEF vars, readerVars
  <2>1. CASE ReadPending
    BY <2>1 DEF ReadPending, Next
  <2>2. CASE ReadTransaction
    BY <2>2 DEF ReadTransaction, NothingPending, Next, ReadFails
  <2>3. CASE EndOfTransactions \/ ReadUpgrade \/ CloseReader
    BY <2>3 DEF EndOfTransactions, ReadUpgrade, CloseReader
  <2>4. CASE EndOfLedger \/ ReadCompacted
    BY <2>4 DEF EndOfLedger, ReadCompacted, Next
  <2> QED
    BY <2>1, <2>2, <2>3, <2>4 DEF ReaderNext
<1> QED
  BY <1>1, <1>2, PTL DEF ReaderSpec, Spec
=============================================================================
