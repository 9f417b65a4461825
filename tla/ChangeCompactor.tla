--------------------------- MODULE ChangeCompactor ---------------------------
(***************************************************************************)
(* ingest/change_compactor.go, and the compactingChangeReader around it     *)
(* (ingest/ledger_change_reader.go): the changes of one ledger are squashed *)
(* to at most one change per ledger entry, which a consumer then applies to *)
(* its own store of the ledger.                                             *)
(*                                                                          *)
(* stellar-core, outside this program, makes the changes.  The configuration *)
(* says what the consumer's store does with archived entries: a store that  *)
(* keeps them needs the removal of an entry that was restored before it in  *)
(* the ledger, one that does not suppresses it.                             *)
(***************************************************************************)
EXTENDS Integers

CONSTANTS
    Keys,        \* ledger keys
    TtlKeys,     \* the ones of TTL entries
    Values,      \* what an entry may hold; of a TTL entry, its LiveUntilLedgerSeq
    Null,        \* no entry: a nil Pre or Post, a key the store does not have
    MaxChanges   \* bound: the changes of one ledger

ASSUME CompactorAssumption ==
    /\ TtlKeys \subseteq Keys
    /\ Values \subseteq Nat
    /\ Null \notin Nat
    /\ MaxChanges \in Nat

VARIABLES
    suppress,   \* config.SuppressRemoveAfterRestoreChange
    start,      \* the entries before the ledger
    now,        \* the entries after the changes read so far
    cache,      \* c.cache, and c.changes once it is compacted: a change per key
    compacted,  \* c.compacted
    store,      \* the consumer's store
    sound,      \* the input was legal and no Read has failed yet
    count       \* changes read so far

vars == <<suppress, start, now, cache, compacted, store, sound, count>>

ChangeTypes == {"created", "updated", "removed", "restored"}
NoChange == [type |-> "none", pre |-> Null, post |-> Null]
Change == [type : ChangeTypes \cup {"none"}, pre : Values \cup {Null}, post : Values \cup {Null}]
Entry == [status : {"live", "absent", "archived"}, val : Values]

\* What a store holds for a key whose entry is e.
View(e) ==
    IF e.status = "live" \/ (e.status = "archived" /\ ~suppress) THEN e.val ELSE Null

\* The status an entry has when a change of type t happens to it.
StatusBefore(t) ==
    CASE t = "created" -> "absent"
      [] t = "restored" -> "archived"
      [] OTHER -> "live"
-----------------------------------------------------------------------------
(* AddChange, for existing change e (NoChange if the key is not in the cache). *)

\* Mutant: an entry that was restored may be created.
Rejects_NotRestored(e, t) ==
    \/ t = "created" /\ e.type \in {"created", "updated"}
    \/ t \in {"updated", "removed"} /\ e.type = "removed"
    \/ t = "restored" /\ e.type # "none"

\* A StateError: the change contradicts the one in the cache.
Rejects(e, t) ==
    \/ t = "created" /\ e.type \in {"created", "updated", "restored"}
    \/ t \in {"updated", "removed"} /\ e.type = "removed"
    \/ t = "restored" /\ e.type # "none"

maxTTL(a, b) == IF a > b THEN a ELSE b

\* Mutant: an entry that was removed before is created, not updated.
addCreatedChange_StaysCreated(e, c) == c

\* Mutant: the entry before the ledger is forgotten.
addCreatedChange_NoPre(e, c) ==
    IF e.type = "none" THEN c ELSE [type |-> "updated", pre |-> Null, post |-> c.post]

\* An entry removed before in the ledger exists in the store: it is updated.
addCreatedChange(e, c) ==
    IF e.type = "none" THEN c
    ELSE [type |-> "updated", pre |-> e.pre, post |-> c.post]

\* Mutant: the last update of a TTL entry wins.
addUpdatedChange_LastTTL(k, e, c) ==
    IF e.type = "none" THEN c ELSE [type |-> e.type, pre |-> e.pre, post |-> c.post]

\* Mutant: the entry before the last update is taken for the one before the ledger.
addUpdatedChange_LastPre(k, e, c) ==
    IF e.type = "none" THEN c
    ELSE [type |-> e.type, pre |-> IF e.type = "updated" THEN c.pre ELSE e.pre,
          post |-> IF k \in TtlKeys THEN maxTTL(e.post, c.post) ELSE c.post]

\* The type of the existing change stays; of two TTL values the higher one does.
addUpdatedChange(k, e, c) ==
    IF e.type = "none" THEN c
    ELSE [type |-> e.type, pre |-> e.pre,
          post |-> IF k \in TtlKeys THEN maxTTL(e.post, c.post) ELSE c.post]

\* An entry created in this ledger was never in the store: its removal is no change.
addRemovedChange(e, c) ==
    CASE e.type = "none" -> c
      [] e.type = "created" -> NoChange
      [] e.type = "updated" -> [type |-> "removed", pre |-> e.pre, post |-> Null]
      [] e.type = "restored" ->
           IF suppress THEN NoChange ELSE [type |-> "removed", pre |-> c.pre, post |-> Null]

addRestoredChange(e, c) == c

Squash(k, e, c) ==
    CASE c.type = "created" -> addCreatedChange(e, c)
      [] c.type = "updated" -> addUpdatedChange(k, e, c)
      [] c.type = "removed" -> addRemovedChange(e, c)
      [] c.type = "restored" -> addRestoredChange(e, c)

Init ==
    /\ suppress \in BOOLEAN
    /\ start \in [Keys -> Entry]
    /\ now = start
    /\ cache = [k \in Keys |-> NoChange]
    /\ compacted = FALSE
    /\ store = [k \in Keys |-> View(start[k])]
    /\ sound = TRUE
    /\ count = 0
-----------------------------------------------------------------------------
(* compactingChangeReader.compact *)

\* compact returns an error: its compactor is dropped, and a further Read starts
\* with a new one at the next change.
CompactFails ==
    /\ cache' = [k \in Keys |-> NoChange]
    /\ sound' = FALSE
    /\ UNCHANGED <<suppress, start, compacted, store>>

\* The next change c, of the entry of key k, goes into the cache or is rejected.
AddChange(k, c) ==
    IF Rejects(cache[k], c.type)
    THEN CompactFails
    ELSE /\ cache' = [cache EXCEPT ![k] = Squash(k, cache[k], c)]
         /\ UNCHANGED <<suppress, start, compacted, store, sound>>

\* The change of type t that leaves value v.
ChangeTo(k, t, v) ==
    [type |-> t,
     pre |-> IF t \in {"updated", "removed"} THEN now[k].val ELSE Null,
     post |-> IF t = "removed" THEN Null ELSE v]

\* stellar-core changes an entry, and the reader reads the change.  The updates of
\* a TTL entry by parallel transactions come in any order; the highest one counts,
\* and none is below what the entry had before the ledger.
ReadChange(k, t, v) ==
    /\ ~compacted /\ count < MaxChanges
    /\ now[k].status = StatusBefore(t)
    /\ k \in TtlKeys /\ t = "updated" /\ start[k].status = "live" => v >= start[k].val
    /\ t = "removed" \/ (t = "restored" /\ k \notin TtlKeys) => v = now[k].val
    /\ now' = [now EXCEPT ![k] =
                 [status |-> IF t = "removed" THEN "absent" ELSE "live",
                  val |-> IF k \in TtlKeys /\ t = "updated" THEN maxTTL(@.val, v) ELSE v]]
    /\ count' = count + 1
    /\ AddChange(k, ChangeTo(k, t, v))

\* A change that contradicts the ledger and the cache.  One of a key that is not in
\* the cache goes unnoticed, and nothing can be promised after it.
ReadCorruptChange(k, t, v) ==
    /\ ~compacted /\ count < MaxChanges /\ sound
    /\ now[k].status # StatusBefore(t)
    /\ count' = count + 1
    /\ Rejects(cache[k], t)
    /\ AddChange(k, ChangeTo(k, t, v))
    /\ UNCHANGED now

\* The input fails.
ReadFails ==
    /\ ~compacted
    /\ CompactFails
    /\ UNCHANGED <<now, count>>

\* The input ends: the changes in the cache are what Read returns.
EndOfInput ==
    /\ ~compacted
    /\ compacted' = TRUE
    /\ UNCHANGED <<suppress, start, now, cache, store, sound, count>>

\* Read returns a change, in the random order of a Go map, and the consumer
\* applies it to its store.
Read(k) ==
    /\ compacted
    /\ cache[k].type # "none"
    /\ cache' = [cache EXCEPT ![k] = NoChange]
    /\ store' = [store EXCEPT ![k] = cache[k].post]
    /\ UNCHANGED <<suppress, start, now, compacted, sound, count>>

Next ==
    \/ \E k \in Keys, t \in ChangeTypes, v \in Values :
          ReadChange(k, t, v) \/ ReadCorruptChange(k, t, v)
    \/ ReadFails
    \/ EndOfInput
    \/ \E k \in Keys : Read(k)

Spec == Init /\ [][Next]_vars
-----------------------------------------------------------------------------
(* Properties. *)

\* Type invariant; a change has the shape the comment of struct Change gives it.
TypeOK ==
    /\ suppress \in BOOLEAN /\ compacted \in BOOLEAN /\ sound \in BOOLEAN
    /\ start \in [Keys -> Entry] /\ now \in [Keys -> Entry]
    /\ cache \in [Keys -> Change]
    /\ store \in [Keys -> Values \cup {Null}]
    /\ count \in Nat
    /\ \A k \in Keys :
          /\ cache[k].pre # Null <=> cache[k].type \in {"updated", "removed"}
          /\ cache[k].post # Null <=> cache[k].type \in {"created", "updated", "restored"}

\* Compaction loses nothing: at every point the store, with the squashed changes
\* that are not applied yet, is what the changes read so far made of the ledger.
SquashCorrect ==
    sound => \A k \in Keys :
       View(now[k]) = IF cache[k].type = "none" THEN store[k] ELSE cache[k].post

\* A consumer can insert what is created, and update and delete what is updated and
\* removed: the type of a squashed change fits the store it is applied to.
TypesFitStore ==
    sound => \A k \in Keys :
       /\ cache[k].type = "created" => store[k] = Null
       /\ cache[k].type \in {"updated", "removed"} => store[k] # Null

\* Pre of a squashed change is the entry before the ledger, not before the last of
\* the changes that were squashed (entries restored in the ledger excepted).
PreIsBeforeLedger ==
    sound => \A k \in Keys :
       cache[k].type \in {"updated", "removed"} /\ start[k].status = "live"
         => cache[k].pre = start[k].val

\* The integrity check is exact where the compactor can know: for an entry in the
\* cache it rejects a change if and only if the ledger cannot make it.
RejectsExactly ==
    sound => \A k \in Keys, t \in ChangeTypes :
       cache[k].type # "none" /\ ~compacted
         => (Rejects(cache[k], t) <=> now[k].status # StatusBefore(t))

\* What every step preserves, key by key.  The status of the entry is known from
\* the cached change; an entry that is live and not cached was live before the
\* ledger and is as it was; only an entry archived before the ledger is archived.
KeyInv(k) ==
    /\ View(now[k]) = IF cache[k].type = "none" THEN store[k] ELSE cache[k].post
    /\ cache[k].type \in {"created", "updated", "restored"} => now[k].status = "live"
    /\ cache[k].type = "removed" => now[k].status = "absent"
    /\ cache[k].type = "created" => store[k] = Null
    /\ cache[k].type \in {"updated", "removed"} => store[k] # Null
    /\ cache[k].type = "restored" => (store[k] = Null <=> suppress)
    /\ cache[k].type \in {"created", "restored"} => start[k].status # "live"
    /\ cache[k].type \in {"updated", "removed"} /\ start[k].status = "live"
         => cache[k].pre = start[k].val
    /\ now[k].status = "archived" => start[k].status = "archived"
    /\ cache[k].type = "none" /\ ~compacted =>
         IF start[k].status = "live" THEN now[k] = start[k] ELSE now[k].status # "live"
CompactionInv == sound => \A k \in Keys : KeyInv(k)
=============================================================================
