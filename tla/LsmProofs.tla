------------------------------ MODULE LsmProofs ------------------------------
(***************************************************************************)
(* What the engine's data operations return: inserts, merges and the edits *)
(* of a Version, for any keys, tables and tiers.                           *)
(***************************************************************************)
EXTENDS Lsm, SeqLemmas

-----------------------------------------------------------------------------
\* Entries, and tables of entries, written before the clock shows n.
Below(n) == {e \in Entry \cup {Absent} : e.seq < n}
TablesBelow(n) == [Keys -> Below(n)]

\* What approx_bytes counts: the entries, and the values among them.
Support(table) == {k \in Keys : table[k] # Absent}
Valued(table) == {k \in Keys : table[k].kind = "Value"}
Weight(table) == ENTRY_OVERHEAD * Cardinality(Support(table)) + Cardinality(Valued(table))

\* Every table the version names is among `files`, and older than its clock.
Holds(v, files) ==
  \A id \in ReferencedIds(v) : id \in DOMAIN files /\ files[id] \in TablesBelow(v.nextSeq)

-----------------------------------------------------------------------------
\* Entries and the empty table, below any clock that has started.
LEMMA BelowFacts ==
  ASSUME NEW n \in Nat \ {0}
  PROVE  /\ Absent \in Below(n)
         /\ \A e \in Entry : e.seq < n => e \in Below(n)
         /\ \A e \in Below(n) : e.seq \in Nat /\ e.seq < n /\ (e.seq = 0 <=> e = Absent)
         /\ Absent \notin Entry /\ Absent.kind \notin Kinds /\ Absent.seq = 0
  BY DEF Below, Absent, Entry, Kinds

\* A later clock allows more.
LEMMA BelowMonotone ==
  ASSUME NEW m \in Nat, NEW n \in Nat, m <= n
  PROVE  Below(m) \subseteq Below(n) /\ TablesBelow(m) \subseteq TablesBelow(n)
<1>1. Below(m) \subseteq Below(n)
  BY DEF Below, Entry, Absent
<1> QED
  BY <1>1 DEF TablesBelow

\* Tables below a clock are tables.
LEMMA BelowTable ==
  ASSUME NEW n \in Nat
  PROVE  TablesBelow(n) \subseteq Table
  BY DEF TablesBelow, Below, Table

\* An empty table weighs nothing, and only an empty one does.
LEMMA EmptyWeight ==
  ASSUME NEW n \in Nat \ {0}
  PROVE  /\ EmptyTable \in TablesBelow(n) /\ IsEmpty(EmptyTable)
         /\ Support(EmptyTable) = {} /\ Valued(EmptyTable) = {}
         /\ IsFiniteSet(Support(EmptyTable)) /\ Weight(EmptyTable) = 0
<1>1. EmptyTable \in TablesBelow(n) /\ IsEmpty(EmptyTable)
  BY BelowFacts DEF EmptyTable, TablesBelow, IsEmpty
<1>2. Support(EmptyTable) = {} /\ Valued(EmptyTable) = {}
  BY DEF Support, Valued, EmptyTable, Absent
<1> QED
  BY <1>1, <1>2, FS_EmptySet DEF Weight, ENTRY_OVERHEAD

\* The counts behind a table's weight.
LEMMA WeightCounts ==
  ASSUME NEW n \in Nat \ {0}, NEW table \in TablesBelow(n), IsFiniteSet(Support(table))
  PROVE  /\ IsFiniteSet(Valued(table)) /\ Valued(table) \subseteq Support(table)
         /\ Cardinality(Support(table)) \in Nat /\ Cardinality(Valued(table)) \in Nat
         /\ Weight(table) \in Nat
         /\ Weight(table) = 0 <=> IsEmpty(table)
<1>1. Valued(table) \subseteq Support(table)
  BY DEF Valued, Support, Absent
<1>2. IsFiniteSet(Valued(table))
  BY <1>1, FS_Subset
<1>3. Cardinality(Support(table)) \in Nat /\ Cardinality(Valued(table)) \in Nat
  BY <1>2, FS_CardinalityType
<1>4. Weight(table) = 0 <=> Cardinality(Support(table)) = 0
  <2>1. IsEmpty(table) => Valued(table) = {}
    BY DEF IsEmpty, Valued, Absent
  <2>2. Cardinality(Support(table)) = 0 => Support(table) = {}
    BY FS_EmptySet
  <2>3. Cardinality(Support(table)) = 0 => Cardinality(Valued(table)) = 0
    BY <1>1, <2>2, FS_EmptySet
  <2> QED
    BY <1>3, <2>3 DEF Weight, ENTRY_OVERHEAD
<1>5. Cardinality(Support(table)) = 0 <=> Support(table) = {}
  BY FS_EmptySet
<1>6. Support(table) = {} <=> IsEmpty(table)
  BY DEF Support, IsEmpty
<1> QED
  BY <1>1, <1>2, <1>3, <1>4, <1>5, <1>6 DEF Weight, ENTRY_OVERHEAD

\* insert_if_newer keeps a table below the clock and its weight in step with
\* approx_bytes - outgoing + incoming.
LEMMA InsertWeight ==
  ASSUME NEW n \in Nat \ {0}, NEW table \in TablesBelow(n), IsFiniteSet(Support(table)),
         NEW k \in Keys, NEW e \in Entry, e.seq < n
  PROVE  /\ InsertIfNewer(table, k, e) \in TablesBelow(n)
         /\ IsFiniteSet(Support(InsertIfNewer(table, k, e)))
         /\ BytesAfter(Weight(table), table, k, e) = Weight(InsertIfNewer(table, k, e))
<1>1. CASE table[k].seq >= e.seq
  BY <1>1 DEF InsertIfNewer, BytesAfter
<1>2. CASE ~(table[k].seq >= e.seq)
  <2> DEFINE new == [table EXCEPT ![k] = e]
             S == Support(table)
             V == Valued(table)
  <2>1. InsertIfNewer(table, k, e) = new
    BY <1>2 DEF InsertIfNewer
  <2>2. e \in Below(n) /\ e # Absent /\ e.kind \in Kinds
    BY BelowFacts DEF Entry
  <2>3. new \in TablesBelow(n) /\ new[k] = e /\ \A j \in Keys : j # k => new[j] = table[j]
    BY <2>2 DEF TablesBelow
  <2>4. Support(new) = S \cup {k}
    BY <2>2, <2>3 DEF Support
  <2>5. Valued(new) = IF e.kind = "Value" THEN V \cup {k} ELSE V \ {k}
    BY <2>3 DEF Valued
  <2>6. /\ IsFiniteSet(V) /\ Cardinality(S) \in Nat /\ Cardinality(V) \in Nat
        /\ V \subseteq S
    BY WeightCounts
  <2>7. /\ k \in S <=> table[k] # Absent
        /\ k \in V <=> table[k].kind = "Value"
    BY DEF Support, Valued
  <2> HIDE DEF new, S, V
  <2>8. /\ IsFiniteSet(S \cup {k})
        /\ Cardinality(S \cup {k}) = IF k \in S THEN Cardinality(S) ELSE Cardinality(S) + 1
    <3>1. IsFiniteSet(S)
      BY DEF S
    <3> QED
      BY <3>1, FS_AddElement
  <2>9. Cardinality(V \cup {k}) = IF k \in V THEN Cardinality(V) ELSE Cardinality(V) + 1
    BY <2>6, FS_AddElement
  <2>10. Cardinality(V \ {k}) = IF k \in V THEN Cardinality(V) - 1 ELSE Cardinality(V)
    BY <2>6, FS_RemoveElement
  <2>11. /\ Weight(table) = 32 * Cardinality(S) + Cardinality(V)
         /\ Weight(new) = 32 * Cardinality(S \cup {k})
                          + (IF e.kind = "Value" THEN Cardinality(V \cup {k})
                             ELSE Cardinality(V \ {k}))
    BY <2>4, <2>5 DEF Weight, ENTRY_OVERHEAD, S, V
  <2>12. /\ EntryBytes(table[k]) = IF k \in S THEN 32 + (IF k \in V THEN 1 ELSE 0) ELSE 0
         /\ EntryBytes(e) = IF e.kind = "Value" THEN 33 ELSE 32
    BY <2>2, <2>7 DEF EntryBytes, PayloadBytes, ENTRY_OVERHEAD
  <2>13. BytesAfter(Weight(table), table, k, e)
           = Weight(table) - EntryBytes(table[k]) + EntryBytes(e)
    BY <1>2 DEF BytesAfter
  <2>14. k \in V => k \in S
    BY <2>6
  <2>15. BytesAfter(Weight(table), table, k, e) = Weight(new)
    BY <2>6, <2>8, <2>9, <2>10, <2>11, <2>12, <2>13, <2>14
  <2> QED
    BY <2>1, <2>3, <2>4, <2>8, <2>15
<1> QED
  BY <1>1, <1>2

-----------------------------------------------------------------------------
\* The newest entry of some sources is an entry of one of them.
LEMMA NewestBelow ==
  ASSUME NEW n \in Nat \ {0}, NEW sources, NEW k \in Keys,
         \A i \in DOMAIN sources : sources[i] \in TablesBelow(n),
         DOMAIN sources \subseteq Nat
  PROVE  Newest(sources, k) \in Below(n)
<1> DEFINE seqs == {sources[i][k].seq : i \in DOMAIN sources} \ {0}
           tops == {i \in DOMAIN sources : sources[i][k].seq \in seqs
                                           /\ \A s \in seqs : sources[i][k].seq >= s}
<1>1. \A i \in DOMAIN sources : sources[i][k] \in Below(n)
  BY DEF TablesBelow
<1>2. CASE seqs = {}
  BY <1>2, BelowFacts DEF Newest
<1>3. CASE seqs # {}
  <2>1. seqs \in SUBSET Nat /\ \A s \in seqs : s <= n
    BY <1>1, BelowFacts
  <2>2. Max(seqs) \in seqs /\ \A s \in seqs : s <= Max(seqs)
    <3> HIDE DEF seqs
    <3> QED
      BY <1>3, <2>1, MaxOfNats
  <2>3. tops # {}
    BY <2>1, <2>2
  <2>4. Min(tops) \in tops
    <3>1. tops \in SUBSET Nat
      OBVIOUS
    <3> HIDE DEF tops
    <3> QED
      BY <2>3, <3>1, MinOfNats
  <2>5. Newest(sources, k) = sources[Min(tops)][k]
    BY <1>3 DEF Newest
  <2> QED
    BY <1>1, <2>4, <2>5
<1> QED
  BY <1>2, <1>3

\* A merge of tables, with or without its tombstones, is a table.
LEMMA MergeBelow ==
  ASSUME NEW n \in Nat \ {0}, NEW sources,
         \A i \in DOMAIN sources : sources[i] \in TablesBelow(n),
         DOMAIN sources \subseteq Nat
  PROVE  /\ Merge(sources) \in TablesBelow(n)
         /\ DropTombstones(Merge(sources)) \in TablesBelow(n)
<1>1. \A k \in Keys : Newest(sources, k) \in Below(n)
  BY NewestBelow
<1>2. Merge(sources) \in TablesBelow(n)
  BY <1>1 DEF Merge, TablesBelow
<1> QED
  BY <1>2, BelowFacts DEF DropTombstones, TablesBelow

\* The ids of a version are those of its tiers.
LEMMA TierIds ==
  ASSUME NEW v \in Version
  PROVE  /\ \A t \in DOMAIN v.tiers : v.tiers[t] \in Seq(Nat)
         /\ \A t \in DOMAIN v.tiers : \A i \in DOMAIN v.tiers[t] :
              v.tiers[t][i] \in ReferencedIds(v)
         /\ \A id \in ReferencedIds(v) :
              \E t \in DOMAIN v.tiers : \E i \in DOMAIN v.tiers[t] : id = v.tiers[t][i]
         /\ ReferencedIds(v) \subseteq Nat
<1>1. \A t \in DOMAIN v.tiers : v.tiers[t] \in Seq(Nat)
  BY DEF Version
<1>2. \A id \in ReferencedIds(v) :
        \E t \in DOMAIN v.tiers : \E i \in DOMAIN v.tiers[t] : id = v.tiers[t][i]
  BY DEF ReferencedIds, ToSet
<1> QED
  BY <1>1, <1>2 DEF ReferencedIds, ToSet

\* maybe_compact picks a tier of the version.
LEMMA TierPicked ==
  ASSUME NEW v \in Version, NEW fanout, TierToCompact(v, fanout) # 0
  PROVE  TierToCompact(v, fanout) \in DOMAIN v.tiers
<1> DEFINE due == {t \in DOMAIN v.tiers : Len(v.tiers[t]) >= fanout}
<1>1. due # {} /\ TierToCompact(v, fanout) = Min(due)
  BY DEF TierToCompact
<1>2. due \in SUBSET Nat
  BY DEF Version
<1>3. Min(due) \in due
  <2> HIDE DEF due
  <2> QED
    BY <1>1, <1>2, MinOfNats
<1> QED
  BY <1>1, <1>3

\* compact_tier's output is older than the version it compacts.
LEMMA CompactionBelow ==
  ASSUME NEW v \in Version, v.nextSeq # 0, NEW files, Holds(v, files), NEW t \in DOMAIN v.tiers
  PROVE  CompactionOutput(v, t, files) \in TablesBelow(v.nextSeq)
<1> DEFINE sources == [i \in DOMAIN v.tiers[t] |-> files[v.tiers[t][i]]]
<1>1. v.nextSeq \in Nat \ {0}
  BY DEF Version
<1>2. DOMAIN sources \subseteq Nat
  BY TierIds
<1>3. \A i \in DOMAIN sources : sources[i] \in TablesBelow(v.nextSeq)
  BY TierIds DEF Holds
<1>4. /\ Merge(sources) \in TablesBelow(v.nextSeq)
      /\ DropTombstones(Merge(sources)) \in TablesBelow(v.nextSeq)
  <2> HIDE DEF sources
  <2> QED
    BY <1>1, <1>2, <1>3, MergeBelow
<1> QED
  BY <1>4 DEF CompactionOutput

-----------------------------------------------------------------------------
\* Trim drops tiers from the end.
LEMMA TrimTiers ==
  ASSUME NEW tiers \in Seq(Seq(Nat))
  PROVE  /\ Trim(tiers) \in Seq(Seq(Nat))
         /\ DOMAIN Trim(tiers) \subseteq DOMAIN tiers
         /\ \A t \in DOMAIN Trim(tiers) : Trim(tiers)[t] = tiers[t]
<1> DEFINE used == {0} \cup {t \in DOMAIN tiers : tiers[t] # <<>>}
<1>1. used \in SUBSET Nat /\ used # {} /\ \A t \in used : t <= Len(tiers)
  OBVIOUS
<1>2. Max(used) \in used
  <2> HIDE DEF used
  <2>1. Len(tiers) \in Nat
    OBVIOUS
  <2> QED
    BY <1>1, <2>1, MaxOfNats
<1>3. Max(used) \in 0 .. Len(tiers)
  BY <1>1, <1>2
<1>4. Trim(tiers) = SubSeq(tiers, 1, Max(used))
  BY DEF Trim
<1> HIDE DEF used
<1>5. /\ SubSeq(tiers, 1, Max(used)) \in Seq(Seq(Nat))
      /\ Len(SubSeq(tiers, 1, Max(used))) = Max(used)
      /\ \A t \in 1 .. Max(used) : SubSeq(tiers, 1, Max(used))[t] = tiers[t]
  BY <1>3
<1> QED
  BY <1>3, <1>4, <1>5

\* A version whose tiers hold only ids of v, or id itself.
LEMMA IdsWithin ==
  ASSUME NEW tiers \in Seq(Seq(Nat)), NEW ids,
         \A t \in DOMAIN tiers : \A i \in DOMAIN tiers[t] : tiers[t][i] \in ids,
         NEW v, v.tiers = tiers
  PROVE  ReferencedIds(v) \subseteq ids
  BY DEF ReferencedIds, ToSet

\* Version::flushed adds its table and takes the write clock over.
LEMMA FlushedVersion ==
  ASSUME NEW v \in Version, NEW id \in Nat, NEW n \in Nat
  PROVE  /\ Flushed(v, id, n) \in Version
         /\ ReferencedIds(Flushed(v, id, n)) \subseteq ReferencedIds(v) \cup {id}
         /\ Flushed(v, id, n).nextSeq = Max2(n, v.nextSeq)
<1> DEFINE tiers == IF v.tiers = <<>> THEN <<<<id>>>> ELSE [v.tiers EXCEPT ![1] = Append(@, id)]
           ids == ReferencedIds(v) \cup {id}
<1>1. v.tiers \in Seq(Seq(Nat)) /\ v.nextSeq \in Nat /\ v.nextTableId \in Nat
  BY DEF Version
<1>2. CASE v.tiers = <<>>
  <2>1. tiers = <<<<id>>>> /\ tiers \in Seq(Seq(Nat))
    BY <1>2
  <2>2. \A t \in DOMAIN tiers : \A i \in DOMAIN tiers[t] : tiers[t][i] \in ids
    BY <2>1
  <2> HIDE DEF ids
  <2>3. Flushed(v, id, n).tiers = tiers
    BY DEF Flushed
  <2>4. Flushed(v, id, n) \in Version
    BY <1>1, <2>1 DEF Flushed, Version, Max2
  <2> HIDE DEF tiers
  <2>5. ReferencedIds(Flushed(v, id, n)) \subseteq ids
    BY <2>1, <2>2, <2>3, IdsWithin
  <2> QED
    BY <2>4, <2>5 DEF Flushed, ids
<1>3. CASE v.tiers # <<>>
  <2>1. 1 \in DOMAIN v.tiers /\ v.tiers[1] \in Seq(Nat)
    BY <1>1, <1>3
  <2>2. Append(v.tiers[1], id) \in Seq(Nat)
    BY <2>1
  <2>3. tiers = [v.tiers EXCEPT ![1] = Append(v.tiers[1], id)] /\ tiers \in Seq(Seq(Nat))
    BY <1>1, <1>3, <2>2
  <2>4. ASSUME NEW t \in DOMAIN tiers, NEW i \in DOMAIN tiers[t] PROVE tiers[t][i] \in ids
    <3>1. t \in DOMAIN v.tiers
      BY <2>3
    <3>2. CASE t = 1
      <4>1. tiers[t] = Append(v.tiers[1], id)
        BY <2>1, <2>3, <3>2
      <4>2. (i \in DOMAIN v.tiers[1] /\ tiers[t][i] = v.tiers[1][i]) \/ tiers[t][i] = id
        <5> DEFINE old == v.tiers[1]
                   new == tiers[t]
        <5>1. new = Append(old, id) /\ old \in Seq(Nat) /\ i \in DOMAIN new
          BY <2>1, <4>1
        <5> HIDE DEF old, new
        <5>2. (i \in DOMAIN old /\ new[i] = old[i]) \/ new[i] = id
          BY <5>1
        <5> QED
          BY <5>2 DEF old, new
      <4> QED
        BY <2>1, <4>2, TierIds
    <3>3. CASE t # 1
      <4>1. tiers[t] = v.tiers[t]
        BY <2>3, <3>1, <3>3
      <4> QED
        BY <3>1, <4>1, TierIds
    <3> QED
      BY <3>2, <3>3
  <2> HIDE DEF ids
  <2>5. Flushed(v, id, n).tiers = tiers
    BY DEF Flushed
  <2> HIDE DEF tiers
  <2>6. ReferencedIds(Flushed(v, id, n)) \subseteq ids
    BY <2>3, <2>4, <2>5, IdsWithin
  <2>7. Flushed(v, id, n) \in Version
    BY <1>1, <2>3 DEF Flushed, Version, Max2, tiers
  <2> QED
    BY <2>6, <2>7 DEF Flushed, ids
<1> QED
  BY <1>2, <1>3

\* Trimming keeps the ids within bounds.
LEMMA TrimIds ==
  ASSUME NEW tiers \in Seq(Seq(Nat)), NEW ids,
         \A t \in DOMAIN tiers : \A i \in DOMAIN tiers[t] : tiers[t][i] \in ids,
         NEW v, v.tiers = Trim(tiers)
  PROVE  ReferencedIds(v) \subseteq ids
<1>1. \A t \in DOMAIN Trim(tiers) : \A i \in DOMAIN Trim(tiers)[t] : Trim(tiers)[t][i] \in ids
  BY TrimTiers
<1>2. Trim(tiers) \in Seq(Seq(Nat))
  BY TrimTiers
<1> QED
  BY <1>1, <1>2, IdsWithin

\* compact_tier's install of an empty output only drops ids.
LEMMA ClearedVersion ==
  ASSUME NEW v \in Version, NEW t \in DOMAIN v.tiers
  PROVE  /\ Cleared(v, t) \in Version
         /\ ReferencedIds(Cleared(v, t)) \subseteq ReferencedIds(v)
         /\ Cleared(v, t).nextSeq = v.nextSeq
<1> DEFINE tiers == [v.tiers EXCEPT ![t] = <<>>]
           ids == ReferencedIds(v)
<1>1. v.tiers \in Seq(Seq(Nat)) /\ v.nextSeq \in Nat /\ v.nextTableId \in Nat
  BY DEF Version
<1>2. tiers \in Seq(Seq(Nat)) /\ DOMAIN tiers = DOMAIN v.tiers
  <2>1. <<>> \in Seq(Nat)
    OBVIOUS
  <2> QED
    BY <1>1, <2>1
<1>3. \A u \in DOMAIN tiers : \A i \in DOMAIN tiers[u] : tiers[u][i] \in ids
  <2>1. \A u \in DOMAIN tiers : tiers[u] = IF u = t THEN <<>> ELSE v.tiers[u]
    BY <1>1
  <2> QED
    BY <1>2, <2>1, TierIds
<1>4. Cleared(v, t) = [v EXCEPT !.tiers = Trim(tiers)]
  BY DEF Cleared
<1> HIDE DEF tiers, ids
<1>5. Trim(tiers) \in Seq(Seq(Nat))
  BY <1>2, TrimTiers
<1>6. Cleared(v, t) \in Version /\ Cleared(v, t).nextSeq = v.nextSeq
      /\ Cleared(v, t).tiers = Trim(tiers)
  BY <1>4, <1>5 DEF Version
<1>7. ReferencedIds(Cleared(v, t)) \subseteq ids
  BY <1>2, <1>3, <1>6, TrimIds
<1> QED
  BY <1>6, <1>7 DEF ids

\* Version::compacted keeps the write clock and adds only its output's id.
LEMMA CompactedVersion ==
  ASSUME NEW v \in Version, NEW t \in DOMAIN v.tiers, NEW id \in Nat
  PROVE  /\ Compacted(v, t, id) \in Version
         /\ ReferencedIds(Compacted(v, t, id)) \subseteq ReferencedIds(v) \cup {id}
         /\ Compacted(v, t, id).nextSeq = v.nextSeq
<1> DEFINE grown == IF t + 1 \in DOMAIN v.tiers THEN v.tiers ELSE Append(v.tiers, <<>>)
           tiers == [grown EXCEPT ![t] = <<>>, ![t + 1] = Append(@, id)]
           ids == ReferencedIds(v) \cup {id}
<1>1. /\ v.tiers \in Seq(Seq(Nat)) /\ v.nextSeq \in Nat /\ v.nextTableId \in Nat
      /\ t \in Nat /\ t # t + 1 /\ <<>> \in Seq(Nat)
  BY DEF Version
<1>2. /\ grown \in Seq(Seq(Nat)) /\ t \in DOMAIN grown /\ t + 1 \in DOMAIN grown
      /\ \A u \in DOMAIN grown : (u \in DOMAIN v.tiers /\ grown[u] = v.tiers[u])
                                 \/ grown[u] = <<>>
  <2>1. CASE t + 1 \in DOMAIN v.tiers
    BY <1>1, <2>1
  <2>2. CASE t + 1 \notin DOMAIN v.tiers
    <3>1. t = Len(v.tiers) /\ grown = Append(v.tiers, <<>>)
      BY <1>1, <2>2
    <3>2. Len(grown) = Len(v.tiers) + 1 /\ grown \in Seq(Seq(Nat))
      BY <1>1, <3>1
    <3>3. \A u \in 1 .. Len(v.tiers) : grown[u] = v.tiers[u]
      BY <1>1, <3>1
    <3>4. grown[Len(v.tiers) + 1] = <<>>
      BY <1>1, <3>1
    <3> HIDE DEF grown
    <3> QED
      BY <1>1, <3>1, <3>2, <3>3, <3>4
  <2> QED
    BY <2>1, <2>2
<1>3. \A u \in DOMAIN grown : \A i \in DOMAIN grown[u] : grown[u][i] \in ids
  <2> HIDE DEF grown
  <2> QED
    BY <1>2, TierIds
<1>4. Compacted(v, t, id) = [v EXCEPT !.tiers = Trim(tiers),
                                      !.nextTableId = Max2(v.nextTableId, id + 1)]
  BY DEF Compacted
<1> HIDE DEF grown
<1>5. grown[t + 1] \in Seq(Nat) /\ Append(grown[t + 1], id) \in Seq(Nat)
  BY <1>2
<1>6. /\ DOMAIN tiers = DOMAIN grown
      /\ tiers[t] = <<>> /\ tiers[t + 1] = Append(grown[t + 1], id)
      /\ \A u \in DOMAIN grown : u \notin {t, t + 1} => tiers[u] = grown[u]
  BY <1>1, <1>2
<1>7. tiers \in Seq(Seq(Nat))
  BY <1>1, <1>2, <1>5, SMTT(30)
<1> HIDE DEF tiers
<1>8. ASSUME NEW u \in DOMAIN tiers, NEW i \in DOMAIN tiers[u] PROVE tiers[u][i] \in ids
  <2>1. CASE u = t
    BY <1>6, <2>1
  <2>2. CASE u = t + 1
    <3> DEFINE old == grown[t + 1]
               new == tiers[u]
    <3>1. new = Append(old, id) /\ old \in Seq(Nat) /\ i \in DOMAIN new
      BY <1>5, <1>6, <2>2
    <3> HIDE DEF old, new
    <3>2. (i \in DOMAIN old /\ new[i] = old[i]) \/ new[i] = id
      BY <3>1
    <3> QED
      BY <1>2, <1>3, <3>2 DEF old, new
  <2>3. CASE u \notin {t, t + 1}
    BY <1>3, <1>6, <2>3
  <2> QED
    BY <2>1, <2>2, <2>3
<1>9. Trim(tiers) \in Seq(Seq(Nat))
  BY <1>7, TrimTiers
<1>10. /\ Compacted(v, t, id) \in Version /\ Compacted(v, t, id).nextSeq = v.nextSeq
       /\ Compacted(v, t, id).tiers = Trim(tiers)
  <2>1. Max2(v.nextTableId, id + 1) \in Nat
    BY <1>1 DEF Max2
  <2> QED
    BY <1>1, <1>4, <1>9, <2>1 DEF Version
<1> HIDE DEF ids
<1>11. ReferencedIds(Compacted(v, t, id)) \subseteq ids
  BY <1>7, <1>8, <1>10, TrimIds
<1> QED
  BY <1>10, <1>11 DEF ids

\* Where sources are ordered by seq, the first hit of a point lookup is the
\* entry a merging scan picks.
LEMMA FirstHitNewest ==
  ASSUME NEW n \in Nat \ {0}, NEW sources \in Seq(TablesBelow(n)), NEW k \in Keys,
         \A i, j \in DOMAIN sources :
           i < j /\ sources[i][k] # Absent => sources[i][k].seq >= sources[j][k].seq
  PROVE  FirstHit(sources, k) = Newest(sources, k)
<1> DEFINE dom == DOMAIN sources
           E(i) == sources[i][k]
           hits == {i \in dom : E(i) # Absent}
           seqs == {E(i).seq : i \in dom} \ {0}
           tops == {i \in dom : E(i).seq \in seqs /\ \A s \in seqs : E(i).seq >= s}
<1>1. /\ FirstHit(sources, k) = IF hits = {} THEN Absent ELSE E(Min(hits))
      /\ Newest(sources, k) = IF seqs = {} THEN Absent ELSE E(Min(tops))
  BY DEF FirstHit, Newest
<1>2. dom \subseteq Nat /\ \A i \in dom : sources[i] \in TablesBelow(n)
  OBVIOUS
<1>3. \A i \in dom : E(i) \in Below(n)
  BY <1>2 DEF TablesBelow
<1>4. \A i \in dom : E(i).seq \in Nat /\ (E(i).seq = 0 <=> E(i) = Absent)
  BY <1>3, BelowFacts
<1>5. \A i, j \in dom : i < j /\ E(i) # Absent => E(i).seq >= E(j).seq
  OBVIOUS
<1> HIDE DEF dom, E
<1>6. hits = {} <=> seqs = {}
  BY <1>4
<1>7. CASE hits = {}
  BY <1>1, <1>6, <1>7
<1>8. CASE hits # {}
  <2> DEFINE m == Min(hits)
  <2>1. hits \in SUBSET Nat
    BY <1>2
  <2>2. m \in hits /\ \A i \in hits : m <= i
    <3> HIDE DEF hits
    <3> QED
      BY <1>8, <2>1, MinOfNats
  <2> HIDE DEF m
  <2>3. m \in dom /\ E(m) # Absent /\ m \in Nat /\ E(m).seq \in Nat /\ E(m).seq # 0
    BY <1>4, <2>1, <2>2
  <2>4. E(m).seq \in seqs
    BY <2>3
  <2>5. ASSUME NEW i \in dom PROVE E(m).seq >= E(i).seq
    <3>1. CASE E(i) = Absent
      <4>1. E(i).seq = 0
        BY <1>4, <3>1
      <4> QED
        BY <2>3, <4>1
    <3>2. CASE E(i) # Absent
      <4>1. m <= i /\ i \in Nat
        BY <1>2, <2>2, <3>2
      <4>2. CASE m = i
        BY <2>3, <4>2
      <4>3. CASE m # i
        <5>1. m < i
          BY <2>3, <4>1, <4>3
        <5> QED
          BY <1>5, <2>3, <5>1
      <4> QED
        BY <4>2, <4>3
    <3> QED
      BY <3>1, <3>2
  <2>6. m \in tops
    BY <2>3, <2>4, <2>5
  <2>7. \A i \in tops : m <= i
    <3>1. \A i \in tops : i \in dom /\ E(i).seq # 0
      OBVIOUS
    <3>2. \A i \in tops : i \in hits
      BY <1>4, <3>1
    <3> HIDE DEF tops, hits
    <3> QED
      BY <2>2, <3>2
  <2>8. tops \in SUBSET Nat
    BY <1>2
  <2> HIDE DEF tops, hits
  <2>9. Min(tops) \in tops /\ \A i \in tops : Min(tops) <= i
    BY <2>6, <2>8, MinOfNats
  <2>10. Min(tops) = m
    <3> DEFINE q == Min(tops)
    <3>1. q \in Nat /\ m <= q /\ q <= m
      BY <2>6, <2>7, <2>8, <2>9
    <3> HIDE DEF q
    <3>2. q = m
      BY <2>3, <3>1
    <3> QED
      BY <3>2 DEF q
  <2>11. seqs # {}
    BY <2>4
  <2> QED
    BY <1>1, <1>8, <2>10, <2>11 DEF m
<1> QED
  BY <1>7, <1>8

-----------------------------------------------------------------------------
\* Entry e, if there is one, is at least as new as f.
Over(e, f) == e # Absent => e.seq >= f.seq
TableOver(a, b) == \A k \in Keys : Over(a[k], b[k])

\* The tables of a version, tier by tier and newest first within a tier.
TiersOrdered(v, files) ==
  \A t, u \in DOMAIN v.tiers : \A i \in DOMAIN v.tiers[t], j \in DOMAIN v.tiers[u] :
    t < u \/ (t = u /\ i > j) => TableOver(files[v.tiers[t][i]], files[v.tiers[u][j]])

\* Place i of tier t of version w is the one v has there, outside tier `gone`, or
\* it is behind everything v has in tier `home` and holds the new table.
OldSlot(v, w, gone, t, i) ==
  /\ t \in DOMAIN v.tiers /\ t # gone /\ i \in DOMAIN v.tiers[t]
  /\ w.tiers[t][i] = v.tiers[t][i]
NewSlot(v, w, home, id, t, i) ==
  /\ t = home /\ i = Len(w.tiers[t]) /\ w.tiers[t][i] = id
  /\ t \in DOMAIN v.tiers => \A j \in DOMAIN v.tiers[t] : j < i
Replaces(v, w, gone, home, id) ==
  \A t \in DOMAIN w.tiers : \A i \in DOMAIN w.tiers[t] :
    OldSlot(v, w, gone, t, i) \/ NewSlot(v, w, home, id, t, i)

\* The order is kept when the new table is as new as those at and below its tier
\* and no newer than those above.
LEMMA OrderReplaced ==
  ASSUME NEW v \in Version, NEW w \in Version, NEW gone \in Nat, NEW home \in Nat, NEW id,
         NEW files, TiersOrdered(v, files), Replaces(v, w, gone, home, id),
         \A t \in DOMAIN v.tiers : \A i \in DOMAIN v.tiers[t] : t # gone =>
           /\ t >= home => TableOver(files[id], files[v.tiers[t][i]])
           /\ t < home => TableOver(files[v.tiers[t][i]], files[id])
  PROVE  TiersOrdered(w, files)
<1> SUFFICES ASSUME NEW t \in DOMAIN w.tiers, NEW u \in DOMAIN w.tiers,
                    NEW i \in DOMAIN w.tiers[t], NEW j \in DOMAIN w.tiers[u],
                    t < u \/ (t = u /\ i > j)
             PROVE  TableOver(files[w.tiers[t][i]], files[w.tiers[u][j]])
  BY DEF TiersOrdered
<1>1. t \in Nat /\ u \in Nat /\ i \in Nat /\ j \in Nat
  <2>1. w.tiers \in Seq(Seq(Nat))
    BY DEF Version
  <2> DEFINE tiers == w.tiers
  <2>2. t \in Nat /\ u \in Nat
    <3>1. tiers \in Seq(Seq(Nat)) /\ t \in DOMAIN tiers /\ u \in DOMAIN tiers
      BY <2>1
    <3> HIDE DEF tiers
    <3> QED
      BY <3>1
  <2> DEFINE a == w.tiers[t]
             b == w.tiers[u]
  <2>3. a \in Seq(Nat) /\ b \in Seq(Nat) /\ i \in DOMAIN a /\ j \in DOMAIN b
    BY <2>1
  <2> HIDE DEF a, b
  <2> QED
    BY <2>2, <2>3
<1>2. CASE OldSlot(v, w, gone, t, i) /\ OldSlot(v, w, gone, u, j)
  BY <1>2 DEF OldSlot, TiersOrdered
<1>3. CASE OldSlot(v, w, gone, t, i) /\ NewSlot(v, w, home, id, u, j)
  <2>1. t < home
    BY <1>1, <1>3 DEF OldSlot, NewSlot
  <2> QED
    BY <1>3, <2>1 DEF OldSlot, NewSlot
<1>4. CASE NewSlot(v, w, home, id, t, i) /\ OldSlot(v, w, gone, u, j)
  <2>1. u >= home
    BY <1>1, <1>4 DEF OldSlot, NewSlot
  <2> QED
    BY <1>4, <2>1 DEF OldSlot, NewSlot
<1>5. ~(NewSlot(v, w, home, id, t, i) /\ NewSlot(v, w, home, id, u, j))
  BY <1>1 DEF NewSlot
<1> QED
  BY <1>2, <1>3, <1>4, <1>5 DEF Replaces

\* The last place of a sequence that was appended to.
LEMMA AppendSlots ==
  ASSUME NEW S, NEW old \in Seq(S), NEW x \in S, NEW i \in DOMAIN Append(old, x)
  PROVE  \/ i \in DOMAIN old /\ Append(old, x)[i] = old[i]
         \/ /\ i = Len(Append(old, x)) /\ Append(old, x)[i] = x
            /\ \A j \in DOMAIN old : j < i
  OBVIOUS

\* Version::flushed puts its table behind tier 0.
LEMMA FlushedSlots ==
  ASSUME NEW v \in Version, NEW id \in Nat, NEW n \in Nat
  PROVE  Replaces(v, Flushed(v, id, n), 0, 1, id)
<1> DEFINE w == Flushed(v, id, n)
<1>1. v.tiers \in Seq(Seq(Nat))
  BY DEF Version
<1>2. CASE v.tiers = <<>>
  <2>1. w.tiers = <<<<id>>>>
    BY <1>2 DEF Flushed
  <2>2. DOMAIN w.tiers = {1} /\ w.tiers[1] = <<id>> /\ DOMAIN v.tiers = {}
    BY <1>2, <2>1
  <2>3. Len(w.tiers[1]) = 1 /\ DOMAIN w.tiers[1] = {1} /\ w.tiers[1][1] = id
    BY <2>2
  <2> QED
    BY <2>2, <2>3 DEF Replaces, NewSlot
<1>3. CASE v.tiers # <<>>
  <2>1. 1 \in DOMAIN v.tiers /\ v.tiers[1] \in Seq(Nat)
    BY <1>1, <1>3
  <2>2. w.tiers = [v.tiers EXCEPT ![1] = Append(v.tiers[1], id)]
    BY <1>3 DEF Flushed
  <2>3. /\ DOMAIN w.tiers = DOMAIN v.tiers /\ w.tiers[1] = Append(v.tiers[1], id)
        /\ \A t \in DOMAIN v.tiers : t # 1 => w.tiers[t] = v.tiers[t]
        /\ \A t \in DOMAIN v.tiers : t # 0
    BY <1>1, <2>1, <2>2
  <2> HIDE DEF w
  <2> SUFFICES ASSUME NEW t \in DOMAIN w.tiers, NEW i \in DOMAIN w.tiers[t]
               PROVE  OldSlot(v, w, 0, t, i) \/ NewSlot(v, w, 1, id, t, i)
    BY DEF Replaces, w
  <2>4. CASE t = 1
    <3>1. \/ i \in DOMAIN v.tiers[1] /\ w.tiers[1][i] = v.tiers[1][i]
          \/ /\ i = Len(w.tiers[1]) /\ w.tiers[1][i] = id
             /\ \A j \in DOMAIN v.tiers[1] : j < i
      <4> DEFINE old == v.tiers[1]
      <4>1. old \in Seq(Nat) /\ i \in DOMAIN Append(old, id)
        BY <2>1, <2>3, <2>4
      <4> HIDE DEF old
      <4>2. \/ i \in DOMAIN old /\ Append(old, id)[i] = old[i]
            \/ /\ i = Len(Append(old, id)) /\ Append(old, id)[i] = id
               /\ \A j \in DOMAIN old : j < i
        BY <4>1, AppendSlots
      <4> QED
        BY <2>3, <4>2 DEF old
    <3> QED
      BY <2>1, <2>3, <2>4, <3>1 DEF OldSlot, NewSlot
  <2>5. CASE t # 1
    BY <2>3, <2>5 DEF OldSlot
  <2> QED
    BY <2>4, <2>5
<1> QED
  BY <1>2, <1>3

\* Trimming removes no place.
LEMMA TrimSlots ==
  ASSUME NEW v, NEW tiers \in Seq(Seq(Nat)), NEW gone, NEW home, NEW id, NEW w,
         w.tiers = Trim(tiers), Replaces(v, [tiers |-> tiers], gone, home, id)
  PROVE  Replaces(v, w, gone, home, id)
<1>1. /\ DOMAIN w.tiers \subseteq DOMAIN tiers
      /\ \A t \in DOMAIN w.tiers : w.tiers[t] = tiers[t]
  BY TrimTiers
<1>2. [tiers |-> tiers].tiers = tiers
  OBVIOUS
<1> QED
  BY <1>1, <1>2 DEF Replaces, OldSlot, NewSlot

\* compact_tier's empty output removes a tier and nothing else.
LEMMA ClearedSlots ==
  ASSUME NEW v \in Version, NEW t \in DOMAIN v.tiers, NEW home, NEW id
  PROVE  Replaces(v, Cleared(v, t), t, home, id)
<1> DEFINE tiers == [v.tiers EXCEPT ![t] = <<>>]
           w == [tiers |-> tiers]
<1>1. v.tiers \in Seq(Seq(Nat))
  BY DEF Version
<1>2. tiers \in Seq(Seq(Nat)) /\ DOMAIN tiers = DOMAIN v.tiers
  <2>1. <<>> \in Seq(Nat)
    OBVIOUS
  <2> QED
    BY <1>1, <2>1
<1>3. \A u \in DOMAIN tiers : tiers[u] = IF u = t THEN <<>> ELSE v.tiers[u]
  BY <1>1
<1>4. Cleared(v, t).tiers = Trim(tiers)
  BY DEF Cleared, Version
<1> HIDE DEF tiers
<1>5. w.tiers = tiers
  OBVIOUS
<1>6. Replaces(v, w, t, home, id)
  <2> SUFFICES ASSUME NEW u \in DOMAIN tiers, NEW i \in DOMAIN tiers[u]
               PROVE  OldSlot(v, w, t, u, i)
    BY <1>5 DEF Replaces
  <2>1. u # t
    BY <1>3
  <2> QED
    BY <1>2, <1>3, <1>5, <2>1 DEF OldSlot
<1> QED
  BY <1>2, <1>4, <1>6, TrimSlots

\* Version::compacted empties tier t and puts its table behind tier t + 1.
LEMMA CompactedSlots ==
  ASSUME NEW v \in Version, NEW t \in DOMAIN v.tiers, NEW id \in Nat
  PROVE  Replaces(v, Compacted(v, t, id), t, t + 1, id)
<1> DEFINE grown == IF t + 1 \in DOMAIN v.tiers THEN v.tiers ELSE Append(v.tiers, <<>>)
           tiers == [grown EXCEPT ![t] = <<>>, ![t + 1] = Append(@, id)]
           w == [tiers |-> tiers]
<1>1. v.tiers \in Seq(Seq(Nat)) /\ t \in Nat /\ t # t + 1 /\ <<>> \in Seq(Nat)
  BY DEF Version
<1>2. /\ grown \in Seq(Seq(Nat)) /\ t \in DOMAIN grown /\ t + 1 \in DOMAIN grown
      /\ \A u \in DOMAIN grown : (u \in DOMAIN v.tiers /\ grown[u] = v.tiers[u])
                                 \/ (u \notin DOMAIN v.tiers /\ grown[u] = <<>>)
  <2>1. CASE t + 1 \in DOMAIN v.tiers
    BY <1>1, <2>1
  <2>2. CASE t + 1 \notin DOMAIN v.tiers
    <3>1. t = Len(v.tiers) /\ grown = Append(v.tiers, <<>>)
      BY <1>1, <2>2
    <3>2. Len(grown) = Len(v.tiers) + 1 /\ grown \in Seq(Seq(Nat))
      BY <1>1, <3>1
    <3>3. \A u \in 1 .. Len(v.tiers) : grown[u] = v.tiers[u]
      BY <1>1, <3>1
    <3>4. grown[Len(v.tiers) + 1] = <<>>
      BY <1>1, <3>1
    <3> HIDE DEF grown
    <3> QED
      BY <1>1, <3>1, <3>2, <3>3, <3>4
  <2> QED
    BY <2>1, <2>2
<1>3. Compacted(v, t, id).tiers = Trim(tiers)
  BY DEF Compacted, Version
<1> HIDE DEF grown
<1>4. grown[t + 1] \in Seq(Nat) /\ Append(grown[t + 1], id) \in Seq(Nat)
  BY <1>2
<1>5. /\ DOMAIN tiers = DOMAIN grown
      /\ tiers[t] = <<>> /\ tiers[t + 1] = Append(grown[t + 1], id)
      /\ \A u \in DOMAIN grown : u \notin {t, t + 1} => tiers[u] = grown[u]
  BY <1>1, <1>2
<1>6. tiers \in Seq(Seq(Nat))
  BY <1>1, <1>2, <1>4
<1> HIDE DEF tiers
<1>7. w.tiers = tiers
  OBVIOUS
<1> HIDE DEF w
<1>8. Replaces(v, w, t, t + 1, id)
  <2> SUFFICES ASSUME NEW u \in DOMAIN tiers, NEW i \in DOMAIN tiers[u]
               PROVE  OldSlot(v, w, t, u, i) \/ NewSlot(v, w, t + 1, id, u, i)
    BY <1>7 DEF Replaces
  <2>1. u # t
    BY <1>5
  <2>2. CASE u = t + 1
    <3> DEFINE old == grown[t + 1]
    <3>1. old \in Seq(Nat) /\ tiers[u] = Append(old, id) /\ i \in DOMAIN Append(old, id)
      BY <1>4, <1>5, <2>2
    <3>2. (u \in DOMAIN v.tiers /\ old = v.tiers[u]) \/ (u \notin DOMAIN v.tiers /\ old = <<>>)
      BY <1>2, <2>2
    <3> HIDE DEF old
    <3>3. \/ i \in DOMAIN old /\ Append(old, id)[i] = old[i]
          \/ /\ i = Len(Append(old, id)) /\ Append(old, id)[i] = id
             /\ \A j \in DOMAIN old : j < i
      BY <3>1, AppendSlots
    <3>4. CASE i \in DOMAIN old /\ Append(old, id)[i] = old[i]
      <4>1. u \in DOMAIN v.tiers /\ old = v.tiers[u]
        BY <3>2, <3>4
      <4> QED
        BY <1>7, <2>1, <3>1, <3>4, <4>1 DEF OldSlot
    <3>5. CASE /\ i = Len(Append(old, id)) /\ Append(old, id)[i] = id
               /\ \A j \in DOMAIN old : j < i
      BY <1>7, <2>2, <3>1, <3>2, <3>5 DEF NewSlot
    <3> QED
      BY <3>3, <3>4, <3>5
  <2>3. CASE u # t + 1
    <3>1. u \in DOMAIN grown /\ tiers[u] = grown[u]
      BY <1>5, <2>1, <2>3
    <3>2. u \in DOMAIN v.tiers /\ tiers[u] = v.tiers[u]
      BY <1>2, <3>1
    <3> QED
      BY <1>7, <2>1, <3>2 DEF OldSlot
  <2> QED
    BY <2>2, <2>3
<1> QED
  BY <1>3, <1>6, <1>8, TrimSlots DEF w

\* What a compaction outputs for a key is nothing, or an entry of its tier.
LEMMA CompactionEntries ==
  ASSUME NEW v \in Version, v.nextSeq # 0, NEW files, Holds(v, files),
         NEW t \in DOMAIN v.tiers, NEW k \in Keys
  PROVE  \/ CompactionOutput(v, t, files)[k] = Absent
         \/ \E i \in DOMAIN v.tiers[t] :
              CompactionOutput(v, t, files)[k] = files[v.tiers[t][i]][k]
<1> DEFINE ids == v.tiers[t]
           sources == [i \in DOMAIN ids |-> files[ids[i]]]
           n == v.nextSeq
           seqs == {sources[i][k].seq : i \in DOMAIN sources} \ {0}
           tops == {i \in DOMAIN sources : sources[i][k].seq \in seqs
                                           /\ \A s \in seqs : sources[i][k].seq >= s}
<1>1. n \in Nat \ {0} /\ DOMAIN sources = DOMAIN ids /\ DOMAIN ids \subseteq Nat
  <2>1. ids \in Seq(Nat)
    BY TierIds
  <2> QED
    BY <2>1 DEF Version
<1>2. \A i \in DOMAIN sources : sources[i] = files[ids[i]] /\ sources[i] \in TablesBelow(n)
  BY TierIds DEF Holds
<1>3. CompactionOutput(v, t, files)[k] \in {Absent, Newest(sources, k)}
  BY DEF CompactionOutput, DropTombstones, Merge
<1> HIDE DEF sources, n, ids
<1>4. \A i \in DOMAIN sources : sources[i][k] \in Below(n)
  BY <1>2 DEF TablesBelow
<1>5. Newest(sources, k) = Absent \/ \E i \in DOMAIN sources : Newest(sources, k) = sources[i][k]
  <2>1. CASE seqs = {}
    BY <2>1 DEF Newest
  <2>2. CASE seqs # {}
    <3>1. seqs \in SUBSET Nat /\ \A s \in seqs : s <= n
      BY <1>1, <1>4, BelowFacts
    <3>2. Max(seqs) \in seqs /\ \A s \in seqs : s <= Max(seqs)
      <4> HIDE DEF seqs
      <4> QED
        BY <1>1, <2>2, <3>1, MaxOfNats
    <3>3. tops # {}
      BY <3>1, <3>2
    <3>4. Min(tops) \in tops
      <4>1. tops \in SUBSET Nat
        BY <1>1
      <4> HIDE DEF tops
      <4> QED
        BY <3>3, <4>1, MinOfNats
    <3>5. Newest(sources, k) = sources[Min(tops)][k]
      BY <2>2 DEF Newest
    <3> QED
      BY <3>4, <3>5
  <2> QED
    BY <2>1, <2>2
<1>6. CASE CompactionOutput(v, t, files)[k] = Absent
  BY <1>6
<1>7. CASE CompactionOutput(v, t, files)[k] = Newest(sources, k)
  BY <1>1, <1>2, <1>5, <1>7 DEF ids
<1> QED
  BY <1>3, <1>6, <1>7

-----------------------------------------------------------------------------
\* Trimming keeps every tier that has a table.
LEMMA TrimKeeps ==
  ASSUME NEW tiers \in Seq(Seq(Nat)), NEW t \in DOMAIN tiers, tiers[t] # <<>>
  PROVE  t \in DOMAIN Trim(tiers) /\ Trim(tiers)[t] = tiers[t]
<1> DEFINE used == {0} \cup {u \in DOMAIN tiers : tiers[u] # <<>>}
<1>1. used \in SUBSET Nat /\ t \in used /\ \A u \in used : u <= Len(tiers)
  OBVIOUS
<1>2. Max(used) \in used /\ t <= Max(used)
  <2> HIDE DEF used
  <2>1. Len(tiers) \in Nat
    OBVIOUS
  <2> QED
    BY <1>1, <2>1, MaxOfNats
<1>3. Max(used) \in 0 .. Len(tiers)
  BY <1>1, <1>2
<1>4. Trim(tiers) = SubSeq(tiers, 1, Max(used))
  BY DEF Trim
<1> HIDE DEF used
<1>5. Len(SubSeq(tiers, 1, Max(used))) = Max(used)
  BY <1>3
<1>6. t \in 1 .. Max(used)
  BY <1>2, <1>3
<1>7. t \in DOMAIN Trim(tiers)
  BY <1>3, <1>4, <1>5, <1>6
<1> QED
  BY <1>7, TrimTiers

\* Version::flushed forgets no table.
LEMMA FlushedKeeps ==
  ASSUME NEW v \in Version, NEW id \in Nat, NEW n \in Nat
  PROVE  ReferencedIds(v) \cup {id} \subseteq ReferencedIds(Flushed(v, id, n))
<1> DEFINE w == Flushed(v, id, n)
<1>1. v.tiers \in Seq(Seq(Nat))
  BY DEF Version
<1>2. w \in Version
  BY FlushedVersion
<1>3. CASE v.tiers = <<>>
  <2>1. w.tiers = <<<<id>>>> /\ DOMAIN v.tiers = {}
    BY <1>3 DEF Flushed
  <2>2. 1 \in DOMAIN w.tiers /\ 1 \in DOMAIN w.tiers[1] /\ w.tiers[1][1] = id
    BY <2>1
  <2> HIDE DEF w
  <2>3. id \in ReferencedIds(w)
    BY <1>2, <2>2, TierIds
  <2> QED
    BY <2>1, <2>3, TierIds DEF w
<1>4. CASE v.tiers # <<>>
  <2>1. 1 \in DOMAIN v.tiers /\ v.tiers[1] \in Seq(Nat)
    BY <1>1, <1>4
  <2>2. w.tiers = [v.tiers EXCEPT ![1] = Append(v.tiers[1], id)]
    BY <1>4 DEF Flushed
  <2>3. /\ DOMAIN w.tiers = DOMAIN v.tiers /\ w.tiers[1] = Append(v.tiers[1], id)
        /\ \A t \in DOMAIN v.tiers : t # 1 => w.tiers[t] = v.tiers[t]
    BY <1>1, <2>1, <2>2
  <2> HIDE DEF w
  <2>4. /\ Len(v.tiers[1]) + 1 \in DOMAIN w.tiers[1]
        /\ w.tiers[1][Len(v.tiers[1]) + 1] = id
        /\ \A i \in DOMAIN v.tiers[1] : i \in DOMAIN w.tiers[1] /\ w.tiers[1][i] = v.tiers[1][i]
    <3> DEFINE old == v.tiers[1]
    <3>1. old \in Seq(Nat) /\ w.tiers[1] = Append(old, id)
      BY <2>1, <2>3
    <3> HIDE DEF old
    <3>2. /\ Len(old) + 1 \in DOMAIN Append(old, id)
          /\ Append(old, id)[Len(old) + 1] = id
          /\ \A i \in DOMAIN old : i \in DOMAIN Append(old, id) /\ Append(old, id)[i] = old[i]
      BY <3>1
    <3> QED
      BY <3>1, <3>2 DEF old
  <2>5. id \in ReferencedIds(w)
    BY <1>2, <2>1, <2>3, <2>4, TierIds
  <2>6. ASSUME NEW x \in ReferencedIds(v) PROVE x \in ReferencedIds(w)
    <3>1. PICK t \in DOMAIN v.tiers : \E i \in DOMAIN v.tiers[t] : x = v.tiers[t][i]
      BY TierIds
    <3>2. PICK i \in DOMAIN v.tiers[t] : x = v.tiers[t][i]
      BY <3>1
    <3>3. t \in DOMAIN w.tiers /\ i \in DOMAIN w.tiers[t] /\ w.tiers[t][i] = x
      BY <2>3, <2>4, <3>2
    <3> QED
      BY <1>2, <3>3, TierIds
  <2> QED
    BY <2>5, <2>6 DEF w
<1> QED
  BY <1>3, <1>4

\* An empty output costs a version only the tier it compacted.
LEMMA ClearedKeeps ==
  ASSUME NEW v \in Version, NEW t \in DOMAIN v.tiers, NEW u \in DOMAIN v.tiers, u # t,
         NEW i \in DOMAIN v.tiers[u]
  PROVE  v.tiers[u][i] \in ReferencedIds(Cleared(v, t))
<1> DEFINE tiers == [v.tiers EXCEPT ![t] = <<>>]
           w == Cleared(v, t)
<1>1. v.tiers \in Seq(Seq(Nat)) /\ v.tiers[u] \in Seq(Nat) /\ v.tiers[u] # <<>>
  BY DEF Version
<1>2. tiers \in Seq(Seq(Nat)) /\ u \in DOMAIN tiers /\ tiers[u] = v.tiers[u]
  <2>1. <<>> \in Seq(Nat)
    OBVIOUS
  <2> QED
    BY <1>1, <2>1
<1>3. w.tiers = Trim(tiers)
  BY DEF Cleared, Version
<1>4. w \in Version
  BY ClearedVersion
<1> HIDE DEF tiers, w
<1>5. u \in DOMAIN w.tiers /\ w.tiers[u] = v.tiers[u]
  BY <1>1, <1>2, <1>3, TrimKeeps
<1> QED
  BY <1>4, <1>5, TierIds DEF w

\* So does an output that is installed, and the version has it.
LEMMA CompactedKeeps ==
  ASSUME NEW v \in Version, NEW t \in DOMAIN v.tiers, NEW id \in Nat
  PROVE  /\ id \in ReferencedIds(Compacted(v, t, id))
         /\ \A u \in DOMAIN v.tiers : \A i \in DOMAIN v.tiers[u] :
              u # t => v.tiers[u][i] \in ReferencedIds(Compacted(v, t, id))
<1> DEFINE grown == IF t + 1 \in DOMAIN v.tiers THEN v.tiers ELSE Append(v.tiers, <<>>)
           tiers == [grown EXCEPT ![t] = <<>>, ![t + 1] = Append(@, id)]
           w == Compacted(v, t, id)
<1>1. v.tiers \in Seq(Seq(Nat)) /\ t \in Nat /\ t # t + 1 /\ <<>> \in Seq(Nat)
  BY DEF Version
<1>2. /\ grown \in Seq(Seq(Nat)) /\ t \in DOMAIN grown /\ t + 1 \in DOMAIN grown
      /\ \A u \in DOMAIN v.tiers : u \in DOMAIN grown /\ grown[u] = v.tiers[u]
  <2>1. CASE t + 1 \in DOMAIN v.tiers
    BY <1>1, <2>1
  <2>2. CASE t + 1 \notin DOMAIN v.tiers
    <3>1. t = Len(v.tiers) /\ grown = Append(v.tiers, <<>>)
      BY <1>1, <2>2
    <3>2. Len(grown) = Len(v.tiers) + 1 /\ grown \in Seq(Seq(Nat))
      BY <1>1, <3>1
    <3>3. \A u \in 1 .. Len(v.tiers) : grown[u] = v.tiers[u]
      BY <1>1, <3>1
    <3> HIDE DEF grown
    <3> QED
      BY <1>1, <3>1, <3>2, <3>3
  <2> QED
    BY <2>1, <2>2
<1>3. w.tiers = Trim(tiers)
  BY DEF Compacted, Version
<1>4. w \in Version
  BY CompactedVersion
<1> HIDE DEF grown, w
<1>5. grown[t + 1] \in Seq(Nat) /\ Append(grown[t + 1], id) \in Seq(Nat)
  BY <1>2
<1>6. /\ DOMAIN tiers = DOMAIN grown /\ tiers[t + 1] = Append(grown[t + 1], id)
      /\ \A u \in DOMAIN grown : u \notin {t, t + 1} => tiers[u] = grown[u]
  BY <1>1, <1>2
<1>7. tiers \in Seq(Seq(Nat))
  BY <1>1, <1>2, <1>5
<1> HIDE DEF tiers
<1>8. /\ tiers[t + 1] # <<>>
      /\ Len(grown[t + 1]) + 1 \in DOMAIN tiers[t + 1]
      /\ tiers[t + 1][Len(grown[t + 1]) + 1] = id
      /\ \A i \in DOMAIN grown[t + 1] :
           i \in DOMAIN tiers[t + 1] /\ tiers[t + 1][i] = grown[t + 1][i]
  <2> DEFINE old == grown[t + 1]
  <2>1. old \in Seq(Nat) /\ tiers[t + 1] = Append(old, id)
    BY <1>5, <1>6
  <2> HIDE DEF old
  <2>2. /\ Append(old, id) # <<>>
        /\ Len(old) + 1 \in DOMAIN Append(old, id)
        /\ Append(old, id)[Len(old) + 1] = id
        /\ \A i \in DOMAIN old : i \in DOMAIN Append(old, id) /\ Append(old, id)[i] = old[i]
    BY <2>1
  <2> QED
    BY <2>1, <2>2 DEF old
<1>9. t + 1 \in DOMAIN w.tiers /\ w.tiers[t + 1] = tiers[t + 1]
  BY <1>2, <1>3, <1>6, <1>7, <1>8, TrimKeeps
<1>10. id \in ReferencedIds(w)
  BY <1>4, <1>8, <1>9, TierIds
<1>11. ASSUME NEW u \in DOMAIN v.tiers, NEW i \in DOMAIN v.tiers[u], u # t
       PROVE  v.tiers[u][i] \in ReferencedIds(w)
  <2>1. CASE u = t + 1
    <3>1. grown[t + 1] = v.tiers[u]
      BY <1>2, <2>1
    <3>2. i \in DOMAIN w.tiers[t + 1] /\ w.tiers[t + 1][i] = v.tiers[u][i]
      BY <1>8, <1>9, <3>1
    <3> QED
      BY <1>4, <1>9, <3>2, TierIds
  <2>2. CASE u # t + 1
    <3>1. u \in DOMAIN tiers /\ tiers[u] = v.tiers[u]
      BY <1>2, <1>6, <1>11, <2>2
    <3>2. tiers[u] # <<>>
      BY <1>1, <3>1
    <3>3. u \in DOMAIN w.tiers /\ w.tiers[u] = v.tiers[u]
      BY <1>3, <1>7, <3>1, <3>2, TrimKeeps
    <3> QED
      BY <1>4, <3>3, TierIds
  <2> QED
    BY <2>1, <2>2
<1> QED
  BY <1>10, <1>11 DEF w

\* The newest entry is at least as new as every source's, and one of them.
LEMMA NewestOver ==
  ASSUME NEW n \in Nat \ {0}, NEW sources, NEW k \in Keys,
         \A i \in DOMAIN sources : sources[i] \in TablesBelow(n),
         DOMAIN sources \subseteq Nat, NEW i \in DOMAIN sources
  PROVE  /\ Newest(sources, k).seq >= sources[i][k].seq
         /\ \E j \in DOMAIN sources : Newest(sources, k) = sources[j][k]
<1> DEFINE seqs == {sources[j][k].seq : j \in DOMAIN sources} \ {0}
           tops == {j \in DOMAIN sources : sources[j][k].seq \in seqs
                                           /\ \A s \in seqs : sources[j][k].seq >= s}
<1>1. \A j \in DOMAIN sources : sources[j][k] \in Below(n)
  BY DEF TablesBelow
<1>2. \A j \in DOMAIN sources : /\ sources[j][k].seq \in Nat /\ sources[j][k].seq < n
                                /\ (sources[j][k].seq = 0 <=> sources[j][k] = Absent)
  BY <1>1, BelowFacts
<1>3. CASE seqs = {}
  <2>1. sources[i][k].seq = 0 /\ sources[i][k] = Absent
    BY <1>2, <1>3
  <2>2. Newest(sources, k) = Absent
    BY <1>3 DEF Newest
  <2> QED
    BY <2>1, <2>2
<1>4. CASE seqs # {}
  <2>1. seqs \in SUBSET Nat /\ \A s \in seqs : s <= n
    BY <1>2
  <2>2. Max(seqs) \in seqs /\ \A s \in seqs : s <= Max(seqs)
    <3> HIDE DEF seqs
    <3> QED
      BY <1>4, <2>1, MaxOfNats
  <2>3. tops # {}
    BY <2>1, <2>2
  <2>4. Min(tops) \in tops
    <3>1. tops \in SUBSET Nat
      OBVIOUS
    <3> HIDE DEF tops
    <3> QED
      BY <2>3, <3>1, MinOfNats
  <2>5. Newest(sources, k) = sources[Min(tops)][k]
    BY <1>4 DEF Newest
  <2>6. sources[Min(tops)][k].seq >= sources[i][k].seq
    <3>0. Min(tops) \in DOMAIN sources
      BY <2>4
    <3>1. CASE sources[i][k].seq = 0
      <4> HIDE DEF seqs, tops
      <4>1. sources[Min(tops)][k].seq \in Nat
        BY <1>2, <3>0
      <4> QED
        BY <3>1, <4>1
    <3>2. CASE sources[i][k].seq # 0
      <4>1. sources[i][k].seq \in seqs
        BY <3>2
      <4> QED
        BY <2>4, <4>1
    <3> QED
      BY <3>1, <3>2
  <2> QED
    BY <2>4, <2>5, <2>6
<1> QED
  BY <1>3, <1>4

(***************************************************************************)
(* A compaction outputs for a key something as new as every table of its   *)
(* tier has; or nothing, at the bottom, because the newest of them is a    *)
(* tombstone.                                                              *)
(***************************************************************************)
LEMMA CompactionKeeps ==
  ASSUME NEW v \in Version, v.nextSeq # 0, NEW files, Holds(v, files),
         NEW t \in DOMAIN v.tiers, NEW k \in Keys, NEW i \in DOMAIN v.tiers[t]
  PROVE  \/ CompactionOutput(v, t, files)[k].seq >= files[v.tiers[t][i]][k].seq
         \/ /\ OutputIsBottom(v, t) /\ CompactionOutput(v, t, files)[k] = Absent
            /\ \E j \in DOMAIN v.tiers[t] :
                 /\ files[v.tiers[t][j]][k].kind = "Tombstone"
                 /\ files[v.tiers[t][j]][k].seq >= files[v.tiers[t][i]][k].seq
<1> DEFINE ids == v.tiers[t]
           sources == [j \in DOMAIN ids |-> files[ids[j]]]
           n == v.nextSeq
<1>1. n \in Nat \ {0} /\ DOMAIN sources = DOMAIN ids /\ DOMAIN ids \subseteq Nat
  <2>1. ids \in Seq(Nat)
    BY TierIds
  <2> QED
    BY <2>1 DEF Version
<1>2. \A j \in DOMAIN sources : sources[j] = files[ids[j]] /\ sources[j] \in TablesBelow(n)
  BY TierIds DEF Holds
<1>3. \/ CompactionOutput(v, t, files)[k] = Newest(sources, k)
      \/ /\ OutputIsBottom(v, t) /\ CompactionOutput(v, t, files)[k] = Absent
         /\ Newest(sources, k).kind = "Tombstone"
  BY DEF CompactionOutput, DropTombstones, Merge
<1> HIDE DEF sources, n
<1>4. /\ Newest(sources, k).seq >= sources[i][k].seq
      /\ \E j \in DOMAIN sources : Newest(sources, k) = sources[j][k]
  <2>1. i \in DOMAIN sources
    BY <1>1
  <2> QED
    BY <1>1, <1>2, <2>1, NewestOver
<1>5. CASE CompactionOutput(v, t, files)[k] = Newest(sources, k)
  BY <1>1, <1>2, <1>4, <1>5
<1>6. CASE /\ OutputIsBottom(v, t) /\ CompactionOutput(v, t, files)[k] = Absent
           /\ Newest(sources, k).kind = "Tombstone"
  <2>1. PICK j \in DOMAIN sources : Newest(sources, k) = sources[j][k]
    BY <1>4
  <2> QED
    BY <1>1, <1>2, <1>4, <1>6, <2>1
<1> QED
  BY <1>3, <1>5, <1>6
==============================================================================
