--------------------------------- MODULE Lsm ---------------------------------
(***************************************************************************)
(* The engine's pure data operations: memtables and SSTables as maps from  *)
(* keys to entries, newest-wins lookup and merge, and the Version a        *)
(* manifest records (src/src/{memtable/mod,iter/mod,manifest,compaction}). *)
(*                                                                         *)
(* The bytes of a value are abstracted to the sequence number of the write *)
(* that stored them: two writes are never confused, and a tombstone stays  *)
(* distinct from a value.  A table's metadata is abstracted to its id.     *)
(***************************************************************************)
EXTENDS Integers, Sequences, SequencesExt, FiniteSetsExt

CONSTANT Keys

ASSUME KeysAssumption == Keys # {}

Kinds == {"Value", "Tombstone"}

\* InternalValue: the seq that wrote it and what it wrote.
Entry == [seq : Nat \ {0}, kind : Kinds]

\* "No table mentions the key"; real seqs start at 1 (Version::empty).
Absent == [seq |-> 0, kind |-> "None"]

Table == [Keys -> Entry \cup {Absent}]

EmptyTable == [k \in Keys |-> Absent]

IsEmpty(table) == \A k \in Keys : table[k] = Absent

\* What a user sees of an entry: the write it came from, 0 for None.
Value(e) == IF e.kind = "Value" THEN e.seq ELSE 0

\* Mutant of InsertIfNewer: the plain insert, the last caller wins.
InsertAlways(table, k, e) == [table EXCEPT ![k] = e]

\* Memtable::insert_if_newer: a write that lost the race by seq is dropped.
InsertIfNewer(table, k, e) ==
  IF table[k].seq >= e.seq THEN table ELSE [table EXCEPT ![k] = e]

\* memtable/mod.rs: what an entry weighs.  Every key is the empty one and every
\* value one byte: the lightest entries there are.
ENTRY_OVERHEAD == 32
PayloadBytes(e) == IF e.kind = "Value" THEN 1 ELSE 0

\* Mutant of EntryBytes: the fixed charge per entry is left out.
EntryBytesBare(e) == IF e = Absent THEN 0 ELSE PayloadBytes(e)

EntryBytes(e) == IF e = Absent THEN 0 ELSE PayloadBytes(e) + ENTRY_OVERHEAD

\* insert_if_newer's bookkeeping: approx_bytes - outgoing + incoming.
BytesAfter(bytes, table, k, e) ==
  IF table[k].seq >= e.seq THEN bytes ELSE bytes - EntryBytes(table[k]) + EntryBytes(e)

-----------------------------------------------------------------------------
\* The first source that mentions k, in the order a point lookup probes them.
FirstHit(sources, k) ==
  LET hits == {i \in DOMAIN sources : sources[i][k] # Absent}
  IN  IF hits = {} THEN Absent ELSE sources[Min(hits)][k]

\* Mutant of Newest: the heap's seq comparison is reversed.
Oldest(sources, k) ==
  LET seqs == {sources[i][k].seq : i \in DOMAIN sources} \ {0}
      tops == {i \in DOMAIN sources : sources[i][k].seq \in seqs
                                      /\ \A s \in seqs : sources[i][k].seq <= s}
  IN  IF seqs = {} THEN Absent ELSE sources[Min(tops)][k]

\* HeapHead's order among equal keys: the largest seq, then the lowest source.
Newest(sources, k) ==
  LET seqs == {sources[i][k].seq : i \in DOMAIN sources} \ {0}
      tops == {i \in DOMAIN sources : sources[i][k].seq \in seqs
                                      /\ \A s \in seqs : sources[i][k].seq >= s}
  IN  IF seqs = {} THEN Absent ELSE sources[Min(tops)][k]

\* MergeIterator over whole tables: one entry per key, the newest.
Merge(sources) == [k \in Keys |-> Newest(sources, k)]

\* The filter of compact_tier at the bottom of the tree.
DropTombstones(table) ==
  [k \in Keys |-> IF table[k].kind = "Tombstone" THEN Absent ELSE table[k]]

-----------------------------------------------------------------------------
\* manifest.rs: tiers[1] is tier 0, the youngest; a tier lists ids oldest first.
Version == [tiers : Seq(Seq(Nat)), nextSeq : Nat, nextTableId : Nat]

EmptyVersion == [tiers |-> <<>>, nextSeq |-> 1, nextTableId |-> 1]

Max2(a, b) == IF a >= b THEN a ELSE b

\* Version::referenced_ids.
ReferencedIds(v) == UNION {ToSet(v.tiers[t]) : t \in DOMAIN v.tiers}

\* Mutant of TablesNewestFirst: a tier is probed oldest table first.
TablesTierOrder(v) == FlattenSeq(v.tiers)

\* Version::tables_newest_first.
TablesNewestFirst(v) ==
  FlattenSeq([t \in DOMAIN v.tiers |-> Reverse(v.tiers[t])])

\* `while matches!(tiers.last(), Some(tier) if tier.is_empty()) { pop }`
Trim(tiers) ==
  SubSeq(tiers, 1, Max({0} \cup {t \in DOMAIN tiers : tiers[t] # <<>>}))

\* Mutant of Flushed: the write clock is not carried into the manifest.
FlushedKeepsSeq(v, id, nextSeq) ==
  [tiers |-> IF v.tiers = <<>> THEN <<<<id>>>>
             ELSE [v.tiers EXCEPT ![1] = Append(@, id)],
   nextSeq |-> v.nextSeq,
   nextTableId |-> Max2(v.nextTableId, id + 1)]

\* Mutant of Flushed: the table's id is not consumed.
FlushedKeepsId(v, id, nextSeq) ==
  [tiers |-> IF v.tiers = <<>> THEN <<<<id>>>>
             ELSE [v.tiers EXCEPT ![1] = Append(@, id)],
   nextSeq |-> Max2(nextSeq, v.nextSeq),
   nextTableId |-> v.nextTableId]

\* Version::flushed: a new youngest table in tier 0.
Flushed(v, id, nextSeq) ==
  [tiers |-> IF v.tiers = <<>> THEN <<<<id>>>>
             ELSE [v.tiers EXCEPT ![1] = Append(@, id)],
   nextSeq |-> Max2(nextSeq, v.nextSeq),
   nextTableId |-> Max2(v.nextTableId, id + 1)]

\* Version::compacted: tier t gives way to one table at the end of tier t + 1.
Compacted(v, t, id) ==
  LET grown == IF t + 1 \in DOMAIN v.tiers THEN v.tiers ELSE Append(v.tiers, <<>>)
  IN  [v EXCEPT !.tiers = Trim([grown EXCEPT ![t] = <<>>, ![t + 1] = Append(@, id)]),
                !.nextTableId = Max2(@, id + 1)]

\* Mutant of Cleared: nothing survived, so nothing is changed.
ClearedNothing(v, t) == v

\* compact_tier's other outcome: nothing survived, the tier is just cleared.
Cleared(v, t) == [v EXCEPT !.tiers = Trim([v.tiers EXCEPT ![t] = <<>>])]

\* Mutant of OutputIsBottom: every compaction takes itself for the bottom one.
OutputAlwaysBottom(v, t) == TRUE

\* output_is_bottom: nothing older than tier t's tables is left below it.
OutputIsBottom(v, t) == \A i \in DOMAIN v.tiers : i > t => v.tiers[i] = <<>>

\* maybe_compact: the youngest tier that has reached the fanout, 0 for none.
TierToCompact(v, fanout) ==
  LET due == {t \in DOMAIN v.tiers : Len(v.tiers[t]) >= fanout}
  IN  IF due = {} THEN 0 ELSE Min(due)

\* compact_tier's table: the merge of tier t, its tombstones kept unless bottom.
CompactionOutput(v, t, tables) ==
  LET merged == Merge([i \in DOMAIN v.tiers[t] |-> tables[v.tiers[t][i]]])
  IN  IF OutputIsBottom(v, t) THEN DropTombstones(merged) ELSE merged
==============================================================================
