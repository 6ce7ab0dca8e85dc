---------------------------- MODULE DbOrderProofs ----------------------------
(***************************************************************************)
(* The order in which a point lookup probes its sources is the order of    *)
(* their sequence numbers, for any keys, threads, readers and bounds, as   *)
(* long as the process is not killed while it deletes the segments of a    *)
(* reset log and no operation of the reset fails once it has created its   *)
(* segment (the run db_kill_reset, with either fault, shows what goes      *)
(* wrong), and no frame of a failed group commit is logged after newer     *)
(* ones.                                                                   *)
(***************************************************************************)
EXTENDS DbDataProofs

\* The faults under which the order is kept.
KeepsOrder ==
  /\ "kill" \notin Faults /\ "reset" \notin Faults
  /\ Durability = "Always" \/ "io" \notin Faults

\* Every segment a crash may bring back.
LogSegs == ToSet(wal.gone) \cup ToSet(wal.old) \cup ToSet(wal.segs)

\* The seqs of the records of k, all of them and those a barrier has covered.
LoggedSeqs(segs, k) ==
  {s \in 1 .. MaxWrites : \E seg \in segs : \E i \in 1 .. Len(seg.recs) :
     DecodeRecord(seg.recs[i]).key = k /\ DecodeRecord(seg.recs[i]).seq = s}
SyncedSeqs(segs, k) ==
  {s \in 1 .. MaxWrites : \E seg \in segs : \E i \in 1 .. seg.synced :
     DecodeRecord(seg.recs[i]).key = k /\ DecodeRecord(seg.recs[i]).seq = s}

\* The versions that are read, or will be after a crash, with their files.
Views ==
  {[v |-> dir.live.manifest, files |-> dir.live.files],
   [v |-> dir.durable.manifest, files |-> dir.durable.files]}
  \cup (IF up THEN {[v |-> version, files |-> dir.live.files]} ELSE {})
  \cup (IF flush.stage \in Installing THEN {[v |-> flush.next, files |-> dir.live.files]}
        ELSE {})

Named == UNION {{w.files[id] : id \in ReferencedIds(w.v)} : w \in Views}
Stored == ToSet(frozen) \cup Named

\* The log has no queue of failed frames, no segments that a failed reset left
\* behind (Unspared), and is reset by one body at a time.
LogShape ==
  /\ "reset" \notin Faults
  /\ wal.queue = <<>>
  /\ flush.stage # "retire" => wal.old = <<>> /\ wal.gone = <<>>
  /\ flush.stage = "retire" => wal.segs = <<NewSegment>>
  /\ ~up => /\ active = EmptyTable /\ frozen = <<>> /\ dir.live = dir.durable
            /\ \A seg \in LogSegs : seg.synced = Len(seg.recs)

\* Claimed seqs are newer than every table; those being applied are durable.
ClaimsFresh ==
  /\ up => \A w \in Views : w.v.nextSeq <= nextSeq
  /\ \A t \in Gate!Claimed : \A table \in Stored : table \in TablesBelow(op[t].seq)
  /\ \A t \in Threads : pc[t] = "apply" => op[t].seq \in SyncedSeqs(LogSegs, op[t].key)

\* What is only in the active memtable is in the synced part of the log.
ActiveLogged ==
  \A k \in Keys : active[k] # Absent => active[k].seq \in SyncedSeqs(LogSegs, k)

(***************************************************************************)
(* What recovery will replay for a key is at least as new as every table's *)
(* entry for it: a record older than a table's entry stays in the log only *)
(* together with one that is not, which no power loss can tear off.        *)
(***************************************************************************)
LogCovers ==
  \A k \in Keys : \A s \in LoggedSeqs(LogSegs, k) : \A table \in Stored :
    \/ s >= table[k].seq
    \/ \E q \in SyncedSeqs(LogSegs, k) : q >= table[k].seq

MemOrder ==
  /\ \A table \in Stored : TableOver(active, table)
  /\ \A i, j \in DOMAIN frozen : i < j => TableOver(frozen[j], frozen[i])
  /\ \A i \in DOMAIN frozen : \A table \in Named : TableOver(frozen[i], table)

FilesOrder == \A w \in Views : TiersOrdered(w.v, w.files)

OrderInv == LogShape /\ ClaimsFresh /\ ActiveLogged /\ LogCovers /\ MemOrder /\ FilesOrder

-----------------------------------------------------------------------------
\* Replay keeps, per key, the record with the largest seq.
LEMMA ReplayNewest ==
  ASSUME NEW recs \in Seq(Rec), NEW k \in Keys
  PROVE  /\ \A i \in DOMAIN recs : recs[i].key = k => Replay(recs)[k].seq >= recs[i].seq
         /\ \/ Replay(recs)[k] = Absent
            \/ \E i \in DOMAIN recs : recs[i].key = k /\ Replay(recs)[k] = EntryOf(recs[i])
         /\ Replay(recs) \in Table
<1> DEFINE T(m) == ReplayTo(recs, m)
           n == Len(recs)
           Good(m) == /\ T(m) \in Table
                      /\ \A i \in 1 .. m : recs[i].key = k => T(m)[k].seq >= recs[i].seq
                      /\ \/ T(m)[k] = Absent
                         \/ \E i \in 1 .. m : recs[i].key = k /\ T(m)[k] = EntryOf(recs[i])
           P == {m \in Nat : m <= n => Good(m)}
<1>1. n \in Nat /\ DOMAIN recs = 1 .. n /\ \A i \in 1 .. n : recs[i] \in Rec
  OBVIOUS
<1>2. /\ T(0) = EmptyTable
      /\ \A m \in 1 .. n : T(m) = InsertIfNewer(T(m - 1), recs[m].key, EntryOf(recs[m]))
  BY <1>1, ReplayDef
<1> HIDE DEF T, n
<1>3. 0 \in P
  <2>1. Good(0)
    <3>1. EmptyTable \in Table /\ EmptyTable[k] = Absent
      BY DEF EmptyTable, Table
    <3> QED
      BY <1>2, <3>1
  <2> HIDE DEF Good
  <2> QED
    BY <2>1
<1>4. ASSUME NEW m \in Nat, m \in P PROVE m + 1 \in P
  <2> SUFFICES ASSUME m + 1 <= n PROVE Good(m + 1)
    <3> HIDE DEF Good
    <3> QED
      OBVIOUS
  <2>1. Good(m)
    <3> HIDE DEF Good
    <3> QED
      BY <1>1, <1>4
  <2>2. m + 1 \in 1 .. n /\ (m + 1) - 1 = m
    BY <1>1
  <2> DEFINE r == recs[m + 1]
             e == EntryOf(r)
             old == T(m)
             new == T(m + 1)
  <2>3. new = InsertIfNewer(old, r.key, e)
    BY <1>2, <2>2
  <2>4. /\ r \in Rec /\ r.key \in Keys /\ e \in Entry /\ e.seq = r.seq /\ r.seq \in Nat \ {0}
    BY <1>1, <2>2 DEF Rec, EntryOf, Entry
  <2>5. old \in Table /\ \A x \in Keys : old[x].seq \in Nat
    BY <2>1 DEF Table, Entry, Absent
  <2>6. /\ new \in Table
        /\ \/ new[k] = old[k] /\ (r.key = k => old[k].seq >= r.seq)
           \/ new[k] = e /\ r.key = k /\ r.seq > old[k].seq
    <3>1. CASE old[r.key].seq >= e.seq
      BY <2>3, <2>4, <2>5, <3>1 DEF InsertIfNewer
    <3>2. CASE ~(old[r.key].seq >= e.seq)
      <4>1. new = [old EXCEPT ![r.key] = e]
        BY <2>3, <3>2 DEF InsertIfNewer
      <4>2. new \in Table
        BY <2>4, <2>5, <4>1 DEF Table
      <4>3. new[k] = IF k = r.key THEN e ELSE old[k]
        BY <2>5, <4>1 DEF Table
      <4>4. r.seq > old[r.key].seq
        BY <2>4, <2>5, <3>2
      <4> QED
        BY <4>2, <4>3, <4>4
    <3> QED
      BY <3>1, <3>2
  <2>7. /\ \A i \in 1 .. m : recs[i].key = k => old[k].seq >= recs[i].seq
        /\ \/ old[k] = Absent
           \/ \E i \in 1 .. m : recs[i].key = k /\ old[k] = EntryOf(recs[i])
    BY <2>1
  <2>8. \A i \in 1 .. m + 1 : (i \in 1 .. m \/ i = m + 1) /\ recs[i].seq \in Nat
    BY <1>1, <2>2 DEF Rec
  <2>9. m + 1 \in 1 .. m + 1 /\ \A i \in 1 .. m : i \in 1 .. m + 1
    OBVIOUS
  <2>10. /\ \A i \in 1 .. m + 1 : recs[i].key = k => new[k].seq >= recs[i].seq
         /\ \/ new[k] = Absent
            \/ \E i \in 1 .. m + 1 : recs[i].key = k /\ new[k] = EntryOf(recs[i])
    <3>0. e = EntryOf(recs[m + 1])
      OBVIOUS
    <3> HIDE DEF old, new, e
    <3>1. CASE new[k] = old[k] /\ (r.key = k => old[k].seq >= r.seq)
      BY <2>7, <2>8, <2>9, <3>1
    <3>2. CASE new[k] = e /\ r.key = k /\ r.seq > old[k].seq
      BY <2>4, <2>5, <2>7, <2>8, <2>9, <3>0, <3>2
    <3> QED
      BY <2>6, <3>1, <3>2
  <2> QED
    BY <2>6, <2>10
<1>5. Good(n)
  <2> HIDE DEF P
  <2>1. Nat \subseteq P
    BY <1>3, <1>4, InductionOverNat
  <2> HIDE DEF Good
  <2> QED
    BY <1>1, <2>1 DEF P
<1> QED
  BY <1>1, <1>5 DEF T, n, Replay

\* What recovery replays for a key is the newest record the segments hold of it.
LEMMA RecoveredTable ==
  ASSUME NEW segs \in Seq(Segment), NEW k \in Keys
  PROVE  /\ \A s \in LoggedSeqs(ToSet(segs), k) : Replay(Records(segs))[k].seq >= s
         /\ \/ Replay(Records(segs))[k] = Absent
            \/ Replay(Records(segs))[k].seq \in LoggedSeqs(ToSet(segs), k)
         /\ Replay(Records(segs)) \in Table
<1> DEFINE lists == [i \in DOMAIN segs |-> segs[i].recs]
           all == FlattenSeq(lists)
           recs == Records(segs)
<1>1. /\ recs \in Seq({r \in Rec : r.seq <= MaxWrites})
      /\ recs = [i \in DOMAIN all |-> DecodeRecord(all[i])]
  BY RecordsType DEF Records
<1>2. Len(segs) \in Nat /\ DOMAIN segs = 1 .. Len(segs)
  OBVIOUS
<1>3. \A i \in 1 .. Len(segs) : segs[i].recs \in Seq(Payloads)
  BY DEF Segment
<1>4. lists \in Seq(Seq(Payloads)) /\ Len(lists) = Len(segs)
  BY <1>2, <1>3
<1>5. \A i \in 1 .. Len(segs) : lists[i] = segs[i].recs
  BY <1>2
<1> HIDE DEF lists
<1>6. all \in Seq(Payloads)
  BY <1>4, FlattenType
<1>7. OnlyThose(all, lists, Len(segs)) /\ AllOfThem(all, lists, Len(segs))
  BY <1>4, FlattenElements
<1> HIDE DEF all, recs
<1>8. /\ DOMAIN recs = 1 .. Len(all)
      /\ \A i \in 1 .. Len(all) : recs[i] = DecodeRecord(all[i])
  BY <1>1, <1>6
<1>9. recs \in Seq(Rec) /\ \A i \in DOMAIN recs : recs[i].seq \in 1 .. MaxWrites
  <2>1. \A i \in DOMAIN recs : recs[i] \in Rec /\ recs[i].seq <= MaxWrites
    BY <1>1
  <2>2. \A i \in DOMAIN recs : recs[i].seq \in Nat \ {0}
    BY <2>1 DEF Rec
  <2>3. recs \in Seq(Rec)
    BY <1>1
  <2> QED
    BY <2>1, <2>2, <2>3, DbAssumption
<1>10. /\ \A i \in DOMAIN recs : recs[i].key = k => Replay(recs)[k].seq >= recs[i].seq
       /\ \/ Replay(recs)[k] = Absent
          \/ \E i \in DOMAIN recs : recs[i].key = k /\ Replay(recs)[k].seq = recs[i].seq
       /\ Replay(recs) \in Table
  <2>1. /\ \A i \in DOMAIN recs : recs[i].key = k => Replay(recs)[k].seq >= recs[i].seq
        /\ \/ Replay(recs)[k] = Absent
           \/ \E i \in DOMAIN recs : recs[i].key = k /\ Replay(recs)[k] = EntryOf(recs[i])
        /\ Replay(recs) \in Table
    BY <1>9, ReplayNewest
  <2>2. \A i \in DOMAIN recs : EntryOf(recs[i]).seq = recs[i].seq
    BY DEF EntryOf
  <2> QED
    BY <2>1, <2>2
<1>11. ASSUME NEW s \in LoggedSeqs(ToSet(segs), k) PROVE Replay(recs)[k].seq >= s
  <2>1. PICK t \in 1 .. Len(segs) : \E i \in 1 .. Len(segs[t].recs) :
          DecodeRecord(segs[t].recs[i]).key = k /\ DecodeRecord(segs[t].recs[i]).seq = s
    BY <1>2, <1>11 DEF LoggedSeqs, ToSet
  <2>2. PICK j \in 1 .. Len(all) : DecodeRecord(all[j]).key = k /\ DecodeRecord(all[j]).seq = s
    BY <1>5, <1>7, <2>1 DEF AllOfThem
  <2>3. recs[j].key = k /\ recs[j].seq = s /\ j \in DOMAIN recs
    BY <1>8, <2>1, <2>2
  <2> QED
    BY <1>10, <2>3
<1>12. ASSUME NEW j \in DOMAIN recs, recs[j].key = k
       PROVE  recs[j].seq \in LoggedSeqs(ToSet(segs), k)
  <2>1. PICK t \in 1 .. Len(segs) : \E i \in 1 .. Len(segs[t].recs) : all[j] = segs[t].recs[i]
    <3>1. j \in 1 .. Len(all)
      BY <1>8
    <3>2. PICK t \in 1 .. Len(segs) : \E i \in 1 .. Len(lists[t]) : all[j] = lists[t][i]
      BY <1>7, <3>1 DEF OnlyThose
    <3>3. lists[t] = segs[t].recs
      BY <1>5
    <3> QED
      BY <3>2, <3>3
  <2>2. segs[t] \in ToSet(segs)
    BY <1>2 DEF ToSet
  <2> QED
    BY <1>8, <1>9, <1>12, <2>1, <2>2 DEF LoggedSeqs
<1> QED
  BY <1>10, <1>11, <1>12 DEF recs

-----------------------------------------------------------------------------
\* A step that adds no version, no record and no call, as the order sees it.
ViewsKept ==
  \A w \in Views' : \E u \in Views :
    w.v = u.v /\ \A id \in ReferencedIds(u.v) : w.files[id] = u.files[id]
LogKept ==
  \A k \in Keys : /\ LoggedSeqs(LogSegs', k) \subseteq LoggedSeqs(LogSegs, k)
                  /\ SyncedSeqs(LogSegs, k) \subseteq SyncedSeqs(LogSegs', k)
CallsKept ==
  /\ up' => up /\ nextSeq' = nextSeq
  /\ \A t \in Gate!Claimed' : t \in Gate!Claimed /\ op'[t] = op[t]
  /\ \A t \in Threads : pc'[t] = "apply" => pc[t] = "apply" /\ op'[t] = op[t]

\* Such a step keeps the tables of the views and their order.
LEMMA ViewsKeptOrder ==
  ASSUME FilesOrder, ViewsKept
  PROVE  /\ FilesOrder' /\ Named' \subseteq Named
         /\ \A w \in Views' : \E u \in Views : w.v = u.v
<1>1. ASSUME NEW w \in Views' PROVE TiersOrdered(w.v, w.files)
  <2>1. PICK u \in Views : w.v = u.v /\ \A id \in ReferencedIds(u.v) : w.files[id] = u.files[id]
    BY DEF ViewsKept
  <2>2. TiersOrdered(u.v, u.files)
    BY DEF FilesOrder
  <2>3. \A t \in DOMAIN u.v.tiers : \A i \in DOMAIN u.v.tiers[t] :
          u.v.tiers[t][i] \in ReferencedIds(u.v)
    BY DEF ReferencedIds, ToSet
  <2> QED
    BY <2>1, <2>2, <2>3 DEF TiersOrdered
<1>2. FilesOrder'
  BY <1>1 DEF FilesOrder
<1>3. Named' \subseteq Named
  <2> SUFFICES ASSUME NEW w \in Views', NEW id \in ReferencedIds(w.v) PROVE w.files[id] \in Named
    BY DEF Named
  <2>1. PICK u \in Views : w.v = u.v /\ \A x \in ReferencedIds(u.v) : w.files[x] = u.files[x]
    BY DEF ViewsKept
  <2> QED
    BY <2>1 DEF Named
<1> QED
  BY <1>2, <1>3 DEF ViewsKept

\* The order between the log, the memtables and the tables is then kept ...
LEMMA OrderKept ==
  ASSUME OrderInv, ViewsKept, LogKept, UNCHANGED <<active, frozen>>
  PROVE  ActiveLogged' /\ LogCovers' /\ MemOrder' /\ FilesOrder' /\ Stored' \subseteq Stored
<1>1. FilesOrder' /\ Named' \subseteq Named
  BY ViewsKeptOrder DEF OrderInv
<1>2. Stored' \subseteq Stored
  BY <1>1 DEF Stored
<1>3. ActiveLogged'
  BY DEF OrderInv, ActiveLogged, LogKept
<1>4. LogCovers'
  BY <1>2 DEF OrderInv, LogCovers, LogKept
<1>5. MemOrder'
  BY <1>1, <1>2 DEF OrderInv, MemOrder
<1> QED
  BY <1>1, <1>2, <1>3, <1>4, <1>5

\* ... and so are the claims.
LEMMA ClaimsKept ==
  ASSUME OrderInv, ViewsKept, LogKept, CallsKept, Stored' \subseteq Stored, OpsOK
  PROVE  ClaimsFresh'
<1>1. \A w \in Views' : \E u \in Views : w.v = u.v
  BY DEF ViewsKept
<1>2. up' => \A w \in Views' : w.v.nextSeq <= nextSeq'
  BY <1>1 DEF OrderInv, ClaimsFresh, CallsKept
<1>3. \A t \in Gate!Claimed' : \A table \in Stored' : table \in TablesBelow(op'[t].seq)
  BY DEF OrderInv, ClaimsFresh, CallsKept
<1>4. \A t \in Threads : pc'[t] = "apply" => op'[t].seq \in SyncedSeqs(LogSegs', op'[t].key)
  <2> SUFFICES ASSUME NEW t \in Threads, pc'[t] = "apply"
               PROVE  op'[t].seq \in SyncedSeqs(LogSegs', op'[t].key)
    OBVIOUS
  <2>1. pc[t] = "apply" /\ op'[t] = op[t] /\ t \in Gate!Claimed
    BY DEF CallsKept, Gate!Claimed
  <2>2. op[t].key \in Keys
    BY <2>1 DEF OpsOK, Rec
  <2> QED
    BY <2>1, <2>2 DEF OrderInv, ClaimsFresh, LogKept
<1> QED
  BY <1>2, <1>3, <1>4 DEF ClaimsFresh

\* The views of a step that only moves a call, a reader or the body's progress.
LEMMA ViewsSame ==
  ASSUME UNCHANGED <<dir, version, up>>,
         flush'.stage \in Installing => flush.stage \in Installing /\ flush'.next = flush.next
  PROVE  ViewsKept
<1>1. Views' \subseteq Views
  BY DEF Views
<1> QED
  BY <1>1 DEF ViewsKept

\* The log of a step that leaves it alone.
LEMMA LogSame ==
  ASSUME UNCHANGED wal
  PROVE  LogKept
  BY DEF LogKept, LogSegs

\* The log's shape when its stage does not matter to the step.
LEMMA ShapeSame ==
  ASSUME LogShape, UNCHANGED wal, up', flush'.stage = "retire" <=> flush.stage = "retire"
  PROVE  LogShape'
  BY DEF LogShape

\* A record is read back as it was logged.
LEMMA DecodeEncode ==
  ASSUME NEW r \in Rec
  PROVE  DecodeRecord(EncodeRecord(r)).key = r.key /\ DecodeRecord(EncodeRecord(r)).seq = r.seq
<1>1. CASE r.kind = "Value"
  <2> DEFINE buf == EncodeRecord(r)
  <2>1. buf = <<r.seq, 1, r.key, r.seq>>
    BY <1>1 DEF EncodeRecord, REC_TAG_PUT
  <2>2. buf[1] = r.seq /\ buf[3] = r.key
    BY <2>1
  <2> QED
    BY <2>2 DEF DecodeRecord
<1>2. CASE r.kind # "Value"
  <2> DEFINE buf == EncodeRecord(r)
  <2>1. buf = <<r.seq, 0, r.key>>
    BY <1>2 DEF EncodeRecord, REC_TAG_DELETE
  <2>2. buf[1] = r.seq /\ buf[3] = r.key
    BY <2>1
  <2> QED
    BY <2>2 DEF DecodeRecord
<1> QED
  BY <1>1, <1>2

\* The tables that a running engine names are older than its clock.
LEMMA StoredBelow ==
  ASSUME DataInv, OrderInv, up
  PROVE  Stored \subseteq TablesBelow(nextSeq)
<1>1. nextSeq \in Nat
  BY DbAssumption DEF DataInv, ClockOK, Clocks
<1>2. ToSet(frozen) \subseteq TablesBelow(nextSeq)
  BY DEF DataInv, BufferOK, ToSet
<1>3. ASSUME NEW w \in Views, NEW id \in ReferencedIds(w.v)
      PROVE  w.files[id] \in TablesBelow(nextSeq)
  <2>1. w.v \in Version /\ Holds(w.v, w.files)
    BY DEF Views, DataInv, FilesOK, View
  <2>2. w.v.nextSeq \in Nat /\ w.v.nextSeq <= nextSeq
    BY <2>1 DEF Version, OrderInv, ClaimsFresh
  <2>3. w.files[id] \in TablesBelow(w.v.nextSeq)
    BY <2>1 DEF Holds
  <2> QED
    BY <1>1, <2>2, <2>3, BelowMonotone
<1> QED
  BY <1>2, <1>3 DEF Stored, Named

-----------------------------------------------------------------------------
\* A step that leaves data and log alone and claims nothing.
LEMMA QuietStep ==
  ASSUME OrderInv, OpsOK, up, CallsKept,
         UNCHANGED <<wal, dir, version, up, active, frozen>>,
         flush'.stage \in Installing => flush.stage \in Installing /\ flush'.next = flush.next,
         flush'.stage = "retire" <=> flush.stage = "retire"
  PROVE  OrderInv'
<1>1. ViewsKept /\ LogKept
  BY ViewsSame, LogSame
<1>2. ActiveLogged' /\ LogCovers' /\ MemOrder' /\ FilesOrder' /\ Stored' \subseteq Stored
  BY <1>1, OrderKept
<1>3. ClaimsFresh'
  BY <1>1, <1>2, ClaimsKept
<1>4. LogShape'
  BY ShapeSame DEF OrderInv
<1> QED
  BY <1>2, <1>3, <1>4 DEF OrderInv

\* A call moves without claiming or logging anything.
LEMMA CallMoved ==
  ASSUME GateOK, NEW t \in Threads, up' => up, nextSeq' = nextSeq,
         NEW to, pc' = [pc EXCEPT ![t] = to], to # "apply",
         to \in {"append", "abort", "apply", "finish"} => t \in Gate!Claimed /\ op'[t] = op[t],
         \A u \in Threads : u # t => op'[u] = op[u]
  PROVE  CallsKept
<1>1. pc \in [Threads -> Gate!PCs]
  BY DEF GateOK, Gate!TypeOK
<1>2. \A u \in Threads : pc'[u] = IF u = t THEN to ELSE pc[u]
  BY <1>1
<1> QED
  BY <1>2 DEF CallsKept, Gate!Claimed

\* Steps of write() and flush() that only move the call through the monitor.
LEMMA PlainOrder ==
  ASSUME DataInv, GateOK, OrderInv, NEW t \in Threads, StartWrite(t) \/ WaitOrWake(t)
  PROVE  OrderInv'
<1>1. /\ up /\ UNCHANGED <<up, nextSeq, op, memVars, diskVars, version, flush>>
      /\ (pc' = pc \/ pc' = [pc EXCEPT ![t] = "claim"])
  BY DEF StartWrite, WaitOrWake, Gate!StartWrite, Gate!WaitForGate, Gate!WaitAgain,
         Gate!SpuriousWake, Gate!Goto
<1>2. CallsKept
  <2>1. CASE pc' = pc
    BY <1>1, <2>1 DEF CallsKept, Gate!Claimed
  <2>2. CASE pc' = [pc EXCEPT ![t] = "claim"]
    BY <1>1, <2>2, CallMoved
  <2> QED
    BY <1>1, <2>1, <2>2
<1> QED
  BY <1>1, <1>2, QuietStep DEF DataInv, memVars, diskVars

\* A write that returns leaves data and log alone.
LEMMA ReturnOrder ==
  ASSUME DataInv, GateOK, OrderInv, NEW t \in Threads, Abort(t) \/ Finish(t)
  PROVE  OrderInv'
<1>1. /\ up /\ UNCHANGED <<up, nextSeq, memVars, diskVars, version, flush>>
      /\ op' = [op EXCEPT ![t] = NoOp] /\ pc' = [pc EXCEPT ![t] = "idle"]
  BY DEF Abort, Finish, Acknowledge, Gate!Abort, Gate!Finish, Gate!Goto
<1>2. \A u \in Threads : u # t => op'[u] = op[u]
  BY <1>1
<1>3. CallsKept
  BY <1>1, <1>2, CallMoved
<1> QED
  BY <1>1, <1>3, QuietStep DEF DataInv, memVars, diskVars

\* So does entering flush_locked ...
LEMMA EnterOrder ==
  ASSUME DataInv, GateOK, OrderInv, NEW t \in Threads,
         FinishFull(t) \/ StartFlush(t) \/ EnterBody(t)
  PROVE  OrderInv'
<1>1. /\ up /\ UNCHANGED <<up, nextSeq, op, memVars, diskVars, version>>
      /\ (flush' = flush \/ flush' = [NoFlush EXCEPT !.stage = "freeze"])
      /\ mutex = NoThread
      /\ (pc' = [pc EXCEPT ![t] = "quiesce"] \/ pc' = [pc EXCEPT ![t] = "body"])
  BY DEF FinishFull, StartFlush, EnterBody, BeginBodyIfEntered, Gate!FinishFull,
         Gate!StartFlush, Gate!EnterBody, Gate!EnterFlush, Gate!Goto, Gate!Locks
<1>2. flush.stage = "none"
  BY <1>1, NoBody DEF DataInv
<1>3. flush'.stage \in {"none", "freeze"}
  BY <1>1, <1>2, NoFlushFacts
<1>4. CallsKept
  BY <1>1, CallMoved
<1> QED
  BY <1>1, <1>2, <1>3, <1>4, QuietStep DEF DataInv, memVars, diskVars, Installing

\* ... and returning from it.
LEMMA FlushDoneOrder ==
  ASSUME DataInv, GateOK, OrderInv, NEW t \in Threads, FlushDone(t)
  PROVE  OrderInv'
<1>1. /\ up /\ UNCHANGED <<up, nextSeq, memVars, diskVars, version>>
      /\ flush' = NoFlush /\ flush.stage \in {"done", "failed"}
      /\ (op' = op \/ op' = [op EXCEPT ![t] = NoOp]) /\ pc' = [pc EXCEPT ![t] = "idle"]
  BY DEF FlushDone, Acknowledge, Gate!FlushDone, Gate!Goto
<1>2. \A u \in Threads : u # t => op'[u] = op[u]
  BY <1>1 DEF DataInv, OpsOK
<1>3. CallsKept
  BY <1>1, <1>2, CallMoved
<1>4. flush'.stage = "none"
  BY <1>1, NoFlushFacts
<1> QED
  BY <1>1, <1>3, <1>4, QuietStep DEF DataInv, memVars, diskVars, Installing

\* A failed append leaves no frame behind for a later leader.
LEMMA AppendErrOrder ==
  ASSUME DataInv, GateOK, OrderInv, KeepsOrder, NEW t \in Threads, AppendErr(t)
  PROVE  OrderInv'
<1>1. /\ up /\ "io" \in Faults /\ UNCHANGED <<up, nextSeq, op, memVars, dir, version, flush>>
      /\ pc[t] = "append" /\ pc' = [pc EXCEPT ![t] = "abort"]
  BY Unspared DEF AppendErr, Fault, Gate!AppendErr, Gate!Goto, KeepsOrder
<1>2. wal' = wal
  BY <1>1, DbAssumption DEF AppendErr, KeepsOrder
<1>3. CallsKept
  BY <1>1, CallMoved DEF Gate!Claimed
<1> QED
  BY <1>1, <1>2, <1>3, QuietStep DEF DataInv, memVars

\* Phase 1: the seq that is claimed is newer than anything stored.
LEMMA ClaimOrder ==
  ASSUME DataInv, GateOK, OrderInv, NEW t \in Threads, NEW k \in Keys, NEW kind \in WriteKinds,
         Claim(t, k, kind)
  PROVE  OrderInv'
<1> DEFINE r == [key |-> k, seq |-> nextSeq, kind |-> kind]
<1>1. /\ up /\ nextSeq' = nextSeq + 1 /\ op' = [op EXCEPT ![t] = r]
      /\ UNCHANGED <<up, memVars, diskVars, version, flush>>
      /\ pc' = [pc EXCEPT ![t] = "append"]
  BY DEF Claim, Gate!Claim, Gate!Goto
<1>2. ViewsKept /\ LogKept
  BY <1>1, ViewsSame, LogSame DEF diskVars
<1>3. ActiveLogged' /\ LogCovers' /\ MemOrder' /\ FilesOrder' /\ Stored' \subseteq Stored
  BY <1>1, <1>2, OrderKept DEF memVars
<1>4. LogShape'
  BY <1>1, ShapeSame DEF OrderInv, diskVars
<1>5. \A u \in Threads : /\ pc'[u] = IF u = t THEN "append" ELSE pc[u]
                         /\ op'[u] = IF u = t THEN r ELSE op[u]
  BY <1>1 DEF GateOK, Gate!TypeOK, DataInv, OpsOK
<1>6. nextSeq \in Nat
  BY DbAssumption DEF DataInv, ClockOK, Clocks
<1>7. ClaimsFresh'
  <2>1. \A w \in Views' : w.v.nextSeq <= nextSeq'
    <3> SUFFICES ASSUME NEW w \in Views' PROVE w.v.nextSeq <= nextSeq'
      OBVIOUS
    <3>1. PICK u \in Views : w.v = u.v
      BY <1>2 DEF ViewsKept
    <3>2. u.v \in Version
      BY DEF Views, DataInv, FilesOK, View
    <3>3. u.v.nextSeq \in Nat /\ u.v.nextSeq <= nextSeq
      BY <1>1, <3>2 DEF Version, OrderInv, ClaimsFresh
    <3> QED
      BY <1>1, <1>6, <3>1, <3>3
  <2>2. ASSUME NEW u \in Gate!Claimed', NEW table \in Stored'
        PROVE  table \in TablesBelow(op'[u].seq)
    <3>1. CASE u = t
      <4>1. op'[u].seq = nextSeq
        BY <1>5, <3>1
      <4> QED
        BY <1>1, <1>3, <4>1, StoredBelow
    <3>2. CASE u # t
      <4>1. u \in Gate!Claimed /\ op'[u] = op[u]
        BY <1>5, <3>2 DEF Gate!Claimed
      <4> QED
        BY <1>3, <4>1 DEF OrderInv, ClaimsFresh
    <3> QED
      BY <3>1, <3>2
  <2>3. ASSUME NEW u \in Threads, pc'[u] = "apply"
        PROVE  op'[u].seq \in SyncedSeqs(LogSegs', op'[u].key)
    <3>1. pc[u] = "apply" /\ op'[u] = op[u]
      BY <1>5, <2>3
    <3>2. LogSegs' = LogSegs
      BY <1>1 DEF LogSegs, diskVars
    <3> QED
      BY <3>1, <3>2 DEF OrderInv, ClaimsFresh
  <2> QED
    BY <2>1, <2>2, <2>3 DEF ClaimsFresh
<1> QED
  BY <1>3, <1>4, <1>7 DEF OrderInv

-----------------------------------------------------------------------------
\* One segment of a log gives way to another.
SwapsSegment(before, after, old, new) ==
  /\ \A seg \in after : seg \in before \/ seg = new
  /\ \A seg \in before : seg \in after \/ seg = old
  /\ new \in after /\ old \in before

\* Replacing the last segment swaps it for the new one.
LEMMA LastReplaced ==
  ASSUME NEW segs \in Seq(Segment) \ {<<>>}, NEW new,
         NEW more, more = [segs EXCEPT ![Len(segs)] = new]
  PROVE  SwapsSegment(ToSet(segs), ToSet(more), segs[Len(segs)], new)
<1>1. Len(segs) \in DOMAIN segs /\ DOMAIN more = DOMAIN segs
  OBVIOUS
<1>2. \A i \in DOMAIN segs : more[i] = IF i = Len(segs) THEN new ELSE segs[i]
  OBVIOUS
<1> QED
  BY <1>1, <1>2 DEF ToSet, SwapsSegment

\* A frame at the end of the active segment adds its seq to the logged ones.
LEMMA FrameAppended ==
  ASSUME NEW before, NEW after, NEW last \in Segment, NEW new, NEW r \in Rec, NEW k \in Keys,
         SwapsSegment(before, after, last, new),
         new.recs = Append(last.recs, EncodeRecord(r)), new.synced = last.synced
  PROVE  /\ \A s \in LoggedSeqs(after, k) :
              s \in LoggedSeqs(before, k) \/ (k = r.key /\ s = r.seq)
         /\ SyncedSeqs(before, k) \subseteq SyncedSeqs(after, k)
<1> DEFINE buf == EncodeRecord(r)
<1>1. /\ \A seg \in after : seg \in before \/ seg = new
      /\ \A seg \in before : seg \in after \/ seg = last
      /\ new \in after /\ last \in before
  BY DEF SwapsSegment
<1>3. DecodeRecord(buf).key = r.key /\ DecodeRecord(buf).seq = r.seq
  BY DecodeEncode
<1> DEFINE recs == last.recs
           n == Len(recs)
<1>4. recs \in Seq(Payloads) /\ n \in Nat /\ last.synced \in Nat /\ last.synced <= n
  BY DEF Segment
<1>5. new.recs = Append(recs, buf) /\ new.synced = last.synced
  OBVIOUS
<1> HIDE DEF buf
<1>6. /\ \A i \in 1 .. Len(new.recs) : i \in 1 .. n \/ i = n + 1
      /\ \A i \in 1 .. n : new.recs[i] = recs[i] /\ i \in 1 .. Len(new.recs)
      /\ new.recs[n + 1] = buf
  <2> HIDE DEF recs
  <2>1. /\ \A i \in 1 .. Len(Append(recs, buf)) : i \in 1 .. n \/ i = n + 1
        /\ \A i \in 1 .. n : Append(recs, buf)[i] = recs[i] /\ i \in 1 .. Len(Append(recs, buf))
        /\ Append(recs, buf)[n + 1] = buf
    BY <1>4
  <2> QED
    BY <1>5, <2>1
<1> HIDE DEF n
<1>7. ASSUME NEW s \in LoggedSeqs(after, k)
      PROVE  s \in LoggedSeqs(before, k) \/ (k = r.key /\ s = r.seq)
  <2>1. PICK seg \in after : \E i \in 1 .. Len(seg.recs) :
          DecodeRecord(seg.recs[i]).key = k /\ DecodeRecord(seg.recs[i]).seq = s
    BY <1>7 DEF LoggedSeqs
  <2>2. s \in 1 .. MaxWrites
    BY <1>7 DEF LoggedSeqs
  <2>3. CASE seg \in before
    BY <2>1, <2>2, <2>3 DEF LoggedSeqs
  <2>4. CASE seg = new
    <3>1. PICK i \in 1 .. Len(new.recs) :
            DecodeRecord(new.recs[i]).key = k /\ DecodeRecord(new.recs[i]).seq = s
      BY <2>1, <2>4
    <3>2. CASE i \in 1 .. n
      <4>1. DecodeRecord(last.recs[i]).key = k /\ DecodeRecord(last.recs[i]).seq = s
        BY <1>6, <3>1, <3>2
      <4> QED
        BY <1>1, <2>2, <3>2, <4>1 DEF LoggedSeqs, n
    <3>3. CASE i = n + 1
      BY <1>3, <1>6, <3>1, <3>3
    <3> QED
      BY <1>6, <3>2, <3>3
  <2> QED
    BY <1>1, <2>3, <2>4
<1>8. ASSUME NEW s \in SyncedSeqs(before, k) PROVE s \in SyncedSeqs(after, k)
  <2>1. PICK seg \in before : \E i \in 1 .. seg.synced :
          DecodeRecord(seg.recs[i]).key = k /\ DecodeRecord(seg.recs[i]).seq = s
    BY <1>8 DEF SyncedSeqs
  <2>2. s \in 1 .. MaxWrites
    BY <1>8 DEF SyncedSeqs
  <2>3. CASE seg \in after
    BY <2>1, <2>2, <2>3 DEF SyncedSeqs
  <2>4. CASE seg = last
    <3>1. PICK i \in 1 .. last.synced :
            DecodeRecord(last.recs[i]).key = k /\ DecodeRecord(last.recs[i]).seq = s
      BY <2>1, <2>4
    <3>2. i \in 1 .. n
      BY <1>4 DEF n
    <3>3. new.recs[i] = last.recs[i] /\ i \in 1 .. new.synced
      BY <1>5, <1>6, <3>2
    <3> QED
      BY <1>1, <2>2, <3>1, <3>3 DEF SyncedSeqs
  <2> QED
    BY <1>1, <2>3, <2>4
<1> QED
  BY <1>7, <1>8

\* A barrier makes synced what was logged.
LEMMA FrameSynced ==
  ASSUME NEW before, NEW after, NEW last \in Segment, NEW new, NEW k \in Keys,
         SwapsSegment(before, after, last, new),
         new.recs = last.recs, new.synced = Len(last.recs)
  PROVE  /\ LoggedSeqs(after, k) \subseteq LoggedSeqs(before, k)
         /\ SyncedSeqs(before, k) \subseteq SyncedSeqs(after, k)
<1>1. /\ \A seg \in after : seg \in before \/ seg = new
      /\ \A seg \in before : seg \in after \/ seg = last
      /\ new \in after /\ last \in before
  BY DEF SwapsSegment
<1>3. Len(last.recs) \in Nat /\ last.synced \in Nat /\ last.synced <= Len(last.recs)
  <2>1. last.recs \in Seq(Payloads) /\ last.synced \in Nat /\ last.synced <= Len(last.recs)
    BY DEF Segment
  <2> QED
    BY <2>1
<1> DEFINE a == last.synced
           b == Len(last.recs)
<1>4. 1 .. a \subseteq 1 .. b
  <2>1. a \in Nat /\ b \in Nat /\ a <= b
    BY <1>3
  <2> HIDE DEF a, b
  <2> QED
    BY <2>1
<1>5. LoggedSeqs(after, k) \subseteq LoggedSeqs(before, k)
  BY <1>1 DEF LoggedSeqs
<1>6. SyncedSeqs(before, k) \subseteq SyncedSeqs(after, k)
  BY <1>1, <1>4 DEF SyncedSeqs
<1> QED
  BY <1>5, <1>6

\* Outside a reset the log is its live segments.
LEMMA LiveLog ==
  ASSUME LogShape, flush.stage # "retire"
  PROVE  LogSegs = ToSet(wal.segs) /\ wal.old = <<>> /\ wal.gone = <<>>
<1>1. ToSet(<<>>) = {}
  BY DEF ToSet
<1> QED
  BY <1>1 DEF LogShape, LogSegs

\* Phase 2: the record that is logged is newer than every table.
LEMMA LogOrder ==
  ASSUME DataInv, GateOK, OrderInv, NEW t \in Threads, LogRecord(t)
  PROVE  OrderInv' /\ ViewsKept
         /\ \A k \in Keys :
              /\ \A s \in LoggedSeqs(LogSegs', k) :
                   s \in LoggedSeqs(LogSegs, k) \/ (k = op[t].key /\ s = op[t].seq)
              /\ SyncedSeqs(LogSegs, k) \subseteq SyncedSeqs(LogSegs', k)
<1> DEFINE r == op[t]
           rec == EncodeRecord(r)
           seg == wal.segs[LastSeg]
           new == [seg EXCEPT !.recs = Append(seg.recs, rec)]
<1>1. /\ up /\ pc[t] = "append"
      /\ UNCHANGED <<gateVars, up, nextSeq, op, memVars, dir, version, flush>>
      /\ wal' = [wal EXCEPT !.segs[LastSeg].recs = @ \o wal.queue \o <<rec>>, !.queue = <<>>]
  BY DEF LogRecord
<1>2. t \in Gate!Claimed
  BY <1>1 DEF Gate!Claimed
<1>3. flush.stage = "none"
  BY <1>2, NoBody DEF DataInv
<1>4. /\ wal \in [segs : Seq(Segment), spare : Seq(Segment), old : Seq(Segment),
                  gone : Seq(Segment), queue : Seq(Payloads)]
      /\ wal.segs \in Seq(Segment) \ {<<>>} /\ wal.queue = <<>>
  BY Unspared DEF DataInv, LogOK, Log, OrderInv, LogShape
<1>5. seg \in Segment /\ seg.recs \in Seq(Payloads)
  BY <1>4 DEF LastSeg, Segment
<1>6. r \in Rec /\ r.seq < nextSeq /\ rec \in Payloads
  BY <1>2, ClaimedRecord DEF DataInv
<1>7. seg.recs \o wal.queue \o <<rec>> = Append(seg.recs, rec)
  <2> DEFINE recs == seg.recs
  <2>1. recs \in Seq(Payloads)
    BY <1>5
  <2> HIDE DEF recs, rec
  <2>2. recs \o <<>> = recs
    BY <2>1
  <2>3. recs \o <<rec>> = Append(recs, rec)
    BY <1>6, <2>1
  <2> QED
    BY <1>4, <2>2, <2>3 DEF recs
<1>8. /\ wal'.segs = [wal.segs EXCEPT ![LastSeg] = new]
      /\ wal'.old = wal.old /\ wal'.gone = wal.gone /\ wal'.queue = <<>>
  <2> DEFINE recs == seg.recs \o wal.queue \o <<rec>>
  <2>1. wal' = [wal EXCEPT !.segs[LastSeg].recs = recs, !.queue = <<>>]
    BY <1>1
  <2>2. recs = Append(seg.recs, rec)
    BY <1>7
  <2> HIDE DEF recs
  <2>3. wal'.segs = [wal.segs EXCEPT ![LastSeg] = [seg EXCEPT !.recs = recs]]
    BY <1>4, <2>1
  <2> QED
    BY <1>4, <2>1, <2>2, <2>3
<1>9. new.recs = Append(seg.recs, rec) /\ new.synced = seg.synced
  BY <1>5 DEF Segment
<1> HIDE DEF new
<1>10. SwapsSegment(ToSet(wal.segs), ToSet(wal'.segs), seg, new)
  BY <1>4, <1>8, LastReplaced DEF LastSeg
<1>11. LogSegs = ToSet(wal.segs) /\ LogSegs' = ToSet(wal'.segs)
  <2>1. wal.old = <<>> /\ wal.gone = <<>> /\ ToSet(<<>>) = {}
    BY <1>3, LiveLog DEF OrderInv, ToSet
  <2> QED
    BY <1>8, <2>1 DEF LogSegs
<1> HIDE DEF seg
<1>12. \A k \in Keys :
         /\ \A s \in LoggedSeqs(LogSegs', k) :
              s \in LoggedSeqs(LogSegs, k) \/ (k = r.key /\ s = r.seq)
         /\ SyncedSeqs(LogSegs, k) \subseteq SyncedSeqs(LogSegs', k)
  <2> SUFFICES ASSUME NEW k \in Keys
               PROVE  /\ \A s \in LoggedSeqs(LogSegs', k) :
                           s \in LoggedSeqs(LogSegs, k) \/ (k = r.key /\ s = r.seq)
                      /\ SyncedSeqs(LogSegs, k) \subseteq SyncedSeqs(LogSegs', k)
    OBVIOUS
  <2> DEFINE before == LogSegs
             after == LogSegs'
  <2>1. SwapsSegment(before, after, seg, new)
    BY <1>10, <1>11
  <2>2. new.recs = Append(seg.recs, EncodeRecord(r)) /\ new.synced = seg.synced
    BY <1>9
  <2> HIDE DEF before, after, r
  <2>3. /\ \A s \in LoggedSeqs(after, k) :
             s \in LoggedSeqs(before, k) \/ (k = r.key /\ s = r.seq)
        /\ SyncedSeqs(before, k) \subseteq SyncedSeqs(after, k)
    BY <1>5, <1>6, <2>1, <2>2, FrameAppended
  <2> QED
    BY <2>3 DEF before, after
<1>13. ViewsKept
  BY <1>1, ViewsSame
<1>14. FilesOrder' /\ Named' \subseteq Named /\ Stored' \subseteq Stored
  BY <1>1, <1>13, ViewsKeptOrder DEF OrderInv, Stored, memVars
<1>15. ActiveLogged' /\ MemOrder'
  BY <1>1, <1>12, <1>14 DEF OrderInv, ActiveLogged, MemOrder, memVars
<1>16. LogCovers'
  <2> SUFFICES ASSUME NEW k \in Keys, NEW s \in LoggedSeqs(LogSegs', k), NEW table \in Stored'
               PROVE  \/ s >= table[k].seq
                      \/ \E q \in SyncedSeqs(LogSegs', k) : q >= table[k].seq
    BY DEF LogCovers
  <2>1. CASE s \in LoggedSeqs(LogSegs, k)
    BY <1>12, <1>14, <2>1 DEF OrderInv, LogCovers
  <2>2. CASE k = r.key /\ s = r.seq
    <3>1. table \in TablesBelow(r.seq)
      BY <1>2, <1>14 DEF OrderInv, ClaimsFresh
    <3>2. r.seq \in Nat \ {0} /\ table[k] \in Below(r.seq)
      BY <1>6, <3>1 DEF Rec, TablesBelow
    <3>3. table[k].seq \in Nat /\ table[k].seq < r.seq
      BY <3>2, BelowFacts
    <3> QED
      BY <2>2, <3>2, <3>3
  <2> QED
    BY <1>12, <2>1, <2>2
<1>17. ClaimsFresh'
  <2>1. \A w \in Views' : \E u \in Views : w.v = u.v
    BY <1>13 DEF ViewsKept
  <2>2. up' => \A w \in Views' : w.v.nextSeq <= nextSeq'
    BY <1>1, <2>1 DEF OrderInv, ClaimsFresh
  <2>3. \A u \in Gate!Claimed' : \A table \in Stored' : table \in TablesBelow(op'[u].seq)
    BY <1>1, <1>14 DEF OrderInv, ClaimsFresh, gateVars, Gate!Claimed
  <2>4. ASSUME NEW u \in Threads, pc'[u] = "apply"
        PROVE  op'[u].seq \in SyncedSeqs(LogSegs', op'[u].key)
    <3>1. pc[u] = "apply" /\ u \in Gate!Claimed /\ op'[u] = op[u]
      BY <1>1, <2>4 DEF gateVars, Gate!Claimed
    <3>2. op[u].key \in Keys
      BY <3>1 DEF DataInv, OpsOK, Rec
    <3> QED
      BY <1>12, <3>1, <3>2 DEF OrderInv, ClaimsFresh
  <2> QED
    BY <2>2, <2>3, <2>4 DEF ClaimsFresh
<1>18. LogShape'
  BY <1>1, <1>3, <1>8 DEF OrderInv, LogShape
<1> QED
  BY <1>12, <1>13, <1>14, <1>15, <1>16, <1>17, <1>18 DEF OrderInv

\* wal.append returns: the record is below the barrier of its segment.
LEMMA AppendOkOrder ==
  ASSUME DataInv, GateOK, OrderInv, NEW t \in Threads, AppendOk(t)
  PROVE  OrderInv'
<1>1. /\ up /\ Durable(op[t]) /\ UNCHANGED <<up, nextSeq, op, memVars, diskVars, version, flush>>
      /\ pc[t] = "append" /\ pc' = [pc EXCEPT ![t] = "apply"]
  BY DEF AppendOk, Gate!AppendOk, Gate!Goto
<1>2. ViewsKept /\ LogKept
  BY <1>1, ViewsSame, LogSame DEF diskVars
<1>3. ActiveLogged' /\ LogCovers' /\ MemOrder' /\ FilesOrder' /\ Stored' \subseteq Stored
  BY <1>1, <1>2, OrderKept DEF memVars
<1>4. LogShape'
  BY <1>1, ShapeSame DEF OrderInv, diskVars
<1>5. \A u \in Threads : pc'[u] = IF u = t THEN "apply" ELSE pc[u]
  BY <1>1 DEF GateOK, Gate!TypeOK
<1>6. op[t].seq \in SyncedSeqs(LogSegs, op[t].key)
  <2>1. t \in Gate!Claimed
    BY <1>1 DEF Gate!Claimed
  <2>2. op[t] \in Rec /\ op[t].seq < nextSeq
    BY <2>1, ClaimedRecord DEF DataInv
  <2>3. PICK i \in DOMAIN wal.segs : \E n \in 1 .. wal.segs[i].synced :
          wal.segs[i].recs[n] = EncodeRecord(op[t])
    BY <1>1 DEF Durable
  <2>4. wal.segs[i] \in LogSegs
    BY DEF LogSegs, ToSet
  <2>5. op[t].seq \in 1 .. MaxWrites
    BY <2>2, DbAssumption DEF DataInv, ClockOK, Clocks, Rec
  <2>6. /\ DecodeRecord(EncodeRecord(op[t])).key = op[t].key
        /\ DecodeRecord(EncodeRecord(op[t])).seq = op[t].seq
    BY <2>2, DecodeEncode
  <2> QED
    BY <2>3, <2>4, <2>5, <2>6 DEF SyncedSeqs
<1>7. ClaimsFresh'
  <2>1. \A w \in Views' : \E u \in Views : w.v = u.v
    BY <1>2 DEF ViewsKept
  <2>2. up' => \A w \in Views' : w.v.nextSeq <= nextSeq'
    BY <1>1, <2>1 DEF OrderInv, ClaimsFresh
  <2>3. Gate!Claimed' \subseteq Gate!Claimed
    BY <1>1, <1>5 DEF Gate!Claimed
  <2>4. \A u \in Gate!Claimed' : \A table \in Stored' : table \in TablesBelow(op'[u].seq)
    BY <1>1, <1>3, <2>3 DEF OrderInv, ClaimsFresh
  <2>5. LogSegs' = LogSegs
    BY <1>1 DEF LogSegs, diskVars
  <2>6. \A u \in Threads : pc'[u] = "apply" => op'[u].seq \in SyncedSeqs(LogSegs', op'[u].key)
    BY <1>1, <1>5, <1>6, <2>5 DEF OrderInv, ClaimsFresh
  <2> QED
    BY <2>2, <2>4, <2>6 DEF ClaimsFresh
<1> QED
  BY <1>3, <1>4, <1>7 DEF OrderInv

\* Phase 3: the entry is newer than every table and its record is synced.
LEMMA ApplyOrder ==
  ASSUME DataInv, GateOK, OrderInv, NEW t \in Threads, Apply(t)
  PROVE  OrderInv'
<1> DEFINE k == op[t].key
           e == EntryOf(op[t])
<1>1. /\ up /\ active' = InsertIfNewer(active, k, e)
      /\ UNCHANGED <<up, nextSeq, op, frozen, diskVars, version, flush>>
      /\ pc[t] = "apply" /\ pc' = [pc EXCEPT ![t] = "finish"]
  BY DEF Apply, Gate!Apply, Gate!Goto
<1>2. t \in Gate!Claimed
  BY <1>1 DEF Gate!Claimed
<1>3. op[t] \in Rec
  BY <1>2, ClaimedRecord DEF DataInv
<1>4. k \in Keys /\ e.seq = op[t].seq /\ op[t].seq \in Nat \ {0}
  BY <1>3 DEF Rec, EntryOf
<1>5. active \in Table
  <2>1. nextSeq \in Nat /\ active \in TablesBelow(nextSeq)
    BY DbAssumption DEF DataInv, BufferOK, ClockOK, Clocks
  <2> QED
    BY <2>1, BelowTable
<1> HIDE DEF e
<1>6. \A x \in Keys : active'[x] = active[x] \/ (x = k /\ active'[x] = e)
  BY <1>1, <1>4, <1>5 DEF InsertIfNewer, Table
<1>7. ViewsKept /\ LogKept /\ LogSegs' = LogSegs
  BY <1>1, ViewsSame, LogSame DEF diskVars, LogSegs
<1>8. FilesOrder' /\ Named' \subseteq Named /\ Stored' \subseteq Stored
  BY <1>1, <1>7, ViewsKeptOrder DEF OrderInv, Stored
<1>9. CallsKept
  BY <1>1, <1>2, CallMoved
<1>10. ClaimsFresh'
  BY <1>7, <1>8, <1>9, ClaimsKept DEF DataInv
<1>11. LogCovers'
  BY <1>7, <1>8 DEF OrderInv, LogCovers
<1>12. ActiveLogged'
  <2>1. op[t].seq \in SyncedSeqs(LogSegs, k)
    BY <1>1 DEF OrderInv, ClaimsFresh
  <2> QED
    BY <1>4, <1>6, <1>7, <2>1 DEF OrderInv, ActiveLogged
<1>13. ASSUME NEW table \in Stored', NEW x \in Keys PROVE Over(active'[x], table[x])
  <2>1. table \in Stored
    BY <1>8
  <2>2. CASE active'[x] = active[x]
    BY <2>1, <2>2 DEF OrderInv, MemOrder, TableOver
  <2>3. CASE x = k /\ active'[x] = e
    <3>1. table \in TablesBelow(op[t].seq)
      BY <1>2, <2>1 DEF OrderInv, ClaimsFresh
    <3>2. table[x] \in Below(op[t].seq)
      BY <3>1 DEF TablesBelow
    <3>3. table[x].seq \in Nat /\ table[x].seq < op[t].seq
      BY <1>4, <3>2, BelowFacts
    <3> QED
      BY <1>4, <2>3, <3>3 DEF Over
  <2> QED
    BY <1>6, <2>2, <2>3
<1>14. MemOrder'
  BY <1>1, <1>8, <1>13 DEF OrderInv, MemOrder, TableOver
<1>15. LogShape'
  BY <1>1, ShapeSame DEF OrderInv, diskVars
<1> QED
  BY <1>8, <1>10, <1>11, <1>12, <1>14, <1>15 DEF OrderInv

\* sync_dir makes the live view the durable one.
LEMMA ViewsSynced ==
  ASSUME FilesOK, dir' = [dir EXCEPT !.durable = dir.live], UNCHANGED <<version, up>>,
         flush'.stage \in Installing => flush.stage \in Installing /\ flush'.next = flush.next
  PROVE  ViewsKept
<1>1. dir'.live = dir.live /\ dir'.durable = dir.live
  BY DEF FilesOK
<1>2. Views' \subseteq Views
  BY <1>1 DEF Views
<1> QED
  BY <1>2 DEF ViewsKept

\* More segments log and sync more; an empty one adds nothing.
LEMMA MoreSegments ==
  ASSUME NEW S, NEW T, S \subseteq T, NEW k \in Keys
  PROVE  /\ SyncedSeqs(S, k) \subseteq SyncedSeqs(T, k)
         /\ T \subseteq S \cup {NewSegment} => LoggedSeqs(T, k) \subseteq LoggedSeqs(S, k)
<1>1. SyncedSeqs(S, k) \subseteq SyncedSeqs(T, k)
  BY DEF SyncedSeqs
<1>2. 1 .. Len(NewSegment.recs) = {}
  BY DEF NewSegment
<1>3. T \subseteq S \cup {NewSegment} => LoggedSeqs(T, k) \subseteq LoggedSeqs(S, k)
  BY <1>2 DEF LoggedSeqs
<1> QED
  BY <1>1, <1>3

\* The barrier of a commit, and the roll of a full segment.
LEMMA SyncLogOrder ==
  ASSUME DataInv, GateOK, OrderInv, SyncLog
  PROVE  OrderInv' /\ ViewsKept /\ LogKept
<1> DEFINE seg == wal.segs[LastSeg]
           done == [seg EXCEPT !.synced = Len(seg.recs)]
           segs == [wal.segs EXCEPT ![LastSeg] = done]
<1>1. /\ up /\ seg.synced < Len(seg.recs)
      /\ UNCHANGED <<gateVars, up, nextSeq, op, memVars, version, flush>>
  BY DEF SyncLog
<1>2. /\ wal \in [segs : Seq(Segment), spare : Seq(Segment), old : Seq(Segment),
                  gone : Seq(Segment), queue : Seq(Payloads)]
      /\ wal.segs \in Seq(Segment) \ {<<>>}
  BY DEF DataInv, LogOK, Log, SyncLog
<1>3. [wal.segs EXCEPT ![LastSeg].synced = Len(seg.recs)] = segs
  OBVIOUS
<1>4. /\ wal'.segs = segs \/ wal'.segs = Append(segs, NewSegment)
      /\ wal'.old = wal.old /\ (wal'.gone = wal.gone \/ wal'.gone = <<>>)
      /\ wal'.queue = wal.queue
      /\ (dir' = dir \/ dir' = [dir EXCEPT !.durable = dir.live])
  BY <1>2, <1>3 DEF SyncLog
<1>5. seg \in Segment
  BY <1>2 DEF LastSeg
<1>6. flush.stage # "retire"
  <2> SUFFICES ASSUME flush.stage = "retire" PROVE FALSE
    OBVIOUS
  <2>1. wal.segs = <<NewSegment>>
    BY DEF OrderInv, LogShape
  <2>2. seg = NewSegment
    BY <2>1 DEF LastSeg
  <2> HIDE DEF seg
  <2> QED
    BY <1>1, <2>2 DEF NewSegment
<1>7. LogSegs = ToSet(wal.segs) /\ wal.old = <<>> /\ wal.gone = <<>>
  BY <1>6, LiveLog DEF OrderInv
<1>8. LogSegs' = ToSet(wal'.segs)
  <2>1. ToSet(<<>>) = {}
    BY DEF ToSet
  <2> QED
    BY <1>4, <1>7, <2>1 DEF LogSegs
<1>9. done.recs = seg.recs /\ done.synced = Len(seg.recs)
  BY <1>5 DEF Segment
<1>10. SwapsSegment(ToSet(wal.segs), ToSet(segs), seg, done)
  <2> HIDE DEF done
  <2> QED
    BY <1>2, LastReplaced DEF LastSeg
<1>11. segs \in Seq(Segment)
  <2>1. done \in Segment
    <3> HIDE DEF seg
    <3>1. seg.recs \in Seq(Payloads) /\ Len(seg.recs) \in Nat
      BY <1>5 DEF Segment
    <3> QED
      BY <1>5, <3>1 DEF Segment
  <2> HIDE DEF done, seg
  <2> QED
    BY <1>2, <2>1, SegmentGrown DEF LastSeg
<1> HIDE DEF done, seg, segs
<1>12. \A k \in Keys : /\ LoggedSeqs(ToSet(segs), k) \subseteq LoggedSeqs(LogSegs, k)
                       /\ SyncedSeqs(LogSegs, k) \subseteq SyncedSeqs(ToSet(segs), k)
  BY <1>5, <1>7, <1>9, <1>10, FrameSynced
<1>13. ToSet(segs) \subseteq LogSegs' /\ LogSegs' \subseteq ToSet(segs) \cup {NewSegment}
  <2>1. CASE wal'.segs = segs
    BY <1>8, <2>1
  <2>2. CASE wal'.segs = Append(segs, NewSegment)
    <3> DEFINE new == Append(segs, NewSegment)
               n == Len(segs)
    <3>1. /\ DOMAIN segs = 1 .. n /\ n \in Nat /\ DOMAIN new = 1 .. n + 1
          /\ \A i \in 1 .. n : new[i] = segs[i]
          /\ new[n + 1] = NewSegment
      BY <1>11
    <3> HIDE DEF new, n
    <3>2. ToSet(segs) \subseteq ToSet(new) /\ ToSet(new) \subseteq ToSet(segs) \cup {NewSegment}
      BY <3>1 DEF ToSet
    <3> QED
      BY <1>8, <2>2, <3>2 DEF new
  <2> QED
    BY <1>4, <2>1, <2>2
<1>14. LogKept
  <2> SUFFICES ASSUME NEW k \in Keys
               PROVE  /\ LoggedSeqs(LogSegs', k) \subseteq LoggedSeqs(LogSegs, k)
                      /\ SyncedSeqs(LogSegs, k) \subseteq SyncedSeqs(LogSegs', k)
    BY DEF LogKept
  <2>1. /\ SyncedSeqs(ToSet(segs), k) \subseteq SyncedSeqs(LogSegs', k)
        /\ LoggedSeqs(LogSegs', k) \subseteq LoggedSeqs(ToSet(segs), k)
    BY <1>13, MoreSegments
  <2> QED
    BY <1>12, <2>1
<1>15. ViewsKept
  BY <1>1, <1>4, ViewsSame, ViewsSynced DEF DataInv
<1>16. ActiveLogged' /\ LogCovers' /\ MemOrder' /\ FilesOrder' /\ Stored' \subseteq Stored
  BY <1>1, <1>14, <1>15, OrderKept DEF memVars
<1>17. CallsKept
  BY <1>1 DEF CallsKept, gateVars, Gate!Claimed
<1>18. ClaimsFresh'
  BY <1>14, <1>15, <1>16, <1>17, ClaimsKept DEF DataInv
<1>19. LogShape'
  BY <1>1, <1>4, <1>6, <1>7 DEF OrderInv, LogShape
<1> QED
  BY <1>14, <1>15, <1>16, <1>18, <1>19 DEF OrderInv

\* Every step of put, delete and flush.
LEMMA WriterOrder ==
  ASSUME DataInv, GateOK, OrderInv, KeepsOrder, NEW t \in Threads, WriterStep(t)
  PROVE  OrderInv'
  BY PlainOrder, ClaimOrder, LogOrder, AppendOkOrder, AppendErrOrder, ReturnOrder, ApplyOrder,
     EnterOrder, FlushDoneOrder DEF WriterStep

-----------------------------------------------------------------------------
\* While a flush body runs no write is in flight.
LEMMA BodyAlone ==
  ASSUME DataInv, GateOK, flush.stage # "none"
  PROVE  Gate!Claimed = {} /\ \A t \in Threads : pc[t] # "apply"
<1>1. Gate!Claimed = {}
  BY NoBody DEF DataInv
<1> QED
  BY <1>1 DEF Gate!Claimed

\* A step of the body that keeps memtables, views and log.
LEMMA BodyOrder ==
  ASSUME DataInv, OrderInv, UNCHANGED <<gateVars, up, nextSeq, op, active, frozen>>,
         ViewsKept, LogKept, LogShape'
  PROVE  OrderInv'
<1>1. ActiveLogged' /\ LogCovers' /\ MemOrder' /\ FilesOrder' /\ Stored' \subseteq Stored
  BY OrderKept
<1>2. CallsKept
  BY DEF CallsKept, gateVars, Gate!Claimed
<1>3. ClaimsFresh'
  BY <1>1, <1>2, ClaimsKept DEF DataInv
<1> QED
  BY <1>1, <1>3 DEF OrderInv

\* The rename: the next version, a view already, becomes the manifest.
LEMMA RenameOrder ==
  ASSUME DataInv, OrderInv, RenameManifest
  PROVE  OrderInv' /\ ViewsKept /\ LogKept
<1>1. /\ up /\ flush.stage = "rename" /\ flush' = [flush EXCEPT !.stage = "sync"]
      /\ dir' = [dir EXCEPT !.live.manifest = flush.next]
      /\ UNCHANGED <<gateVars, up, nextSeq, op, memVars, wal, version>>
  BY DEF RenameManifest, InBody
<1>2. flush'.stage = "sync" /\ flush'.next = flush.next
  BY <1>1 DEF DataInv, StageOK
<1>3. /\ dir'.live.manifest = flush.next /\ dir'.live.files = dir.live.files
      /\ dir'.durable = dir.durable
  BY <1>1 DEF DataInv, FilesOK, View
<1>4. Views' \subseteq Views
  <2>1. flush.stage \in Installing
    BY <1>1 DEF Installing
  <2> QED
    BY <1>1, <1>2, <1>3, <2>1 DEF Views
<1>5. ViewsKept
  BY <1>4 DEF ViewsKept
<1>6. LogShape'
  BY <1>1, <1>2, ShapeSame DEF OrderInv
<1> QED
  BY <1>1, <1>5, <1>6, LogSame, BodyOrder DEF memVars

\* The swap: it becomes the current version.
LEMMA SwapOrder ==
  ASSUME DataInv, OrderInv, SwapVersion
  PROVE  OrderInv' /\ ViewsKept /\ LogKept
<1>1. /\ up /\ flush.stage = "swap" /\ flush' = [flush EXCEPT !.stage = "gc"]
      /\ version' = flush.next
      /\ UNCHANGED <<gateVars, up, nextSeq, op, memVars, diskVars>>
  BY DEF SwapVersion, InBody
<1>2. flush'.stage = "gc"
  BY <1>1 DEF DataInv, StageOK
<1>3. Views' \subseteq Views
  <2>1. flush.stage \in Installing /\ flush'.stage \notin Installing
    BY <1>1, <1>2 DEF Installing
  <2> QED
    BY <1>1, <2>1 DEF Views, diskVars
<1>4. ViewsKept
  BY <1>3 DEF ViewsKept
<1>5. LogShape'
  BY <1>1, <1>2, ShapeSame DEF OrderInv, diskVars
<1> QED
  BY <1>1, <1>4, <1>5, LogSame, BodyOrder DEF memVars, diskVars

\* gc() deletes no table of a view.
LEMMA GcOrder ==
  ASSUME DataInv, OrderInv, GcTables
  PROVE  OrderInv' /\ ViewsKept /\ LogKept
<1> DEFINE retired == {v \in obsolete : Pinned(v)}
           files == dir.live.files
           keep == LiveIds(retired) \cap DOMAIN files
           kept == [id \in keep |-> files[id]]
           stage == IF keep = DOMAIN files THEN flush.after ELSE "gcsync"
<1>1. /\ up /\ flush.stage = "gc" /\ dir' = [dir EXCEPT !.live.files = kept]
      /\ flush' = [flush EXCEPT !.stage = stage]
      /\ UNCHANGED <<gateVars, up, nextSeq, op, memVars, wal, version>>
  BY DEF GcTables, InBody
<1>2. ReferencedIds(version) \subseteq keep
  BY <1>1 DEF DataInv, FilesOK, Holds, LiveIds
<1>3. stage \in {"discard", "compact", "gcsync"}
  BY <1>1 DEF DataInv, StageOK, Collecting
<1>4. \A id \in ReferencedIds(version) : kept[id] = files[id]
  BY <1>2
<1> HIDE DEF stage, kept, keep
<1>5. flush'.stage = stage /\ stage \notin Installing /\ stage # "retire"
  BY <1>1, <1>3 DEF DataInv, StageOK, Installing
<1>6. /\ dir'.live.manifest = version /\ dir'.live.files = kept /\ dir'.durable = dir.durable
      /\ dir.live.manifest = version
  BY <1>1 DEF DataInv, FilesOK, View
<1>7. ViewsKept
  <2> SUFFICES ASSUME NEW w \in Views'
               PROVE  \E u \in Views :
                        w.v = u.v /\ \A id \in ReferencedIds(u.v) : w.files[id] = u.files[id]
    BY DEF ViewsKept
  <2>1. w \in {[v |-> version, files |-> kept],
               [v |-> dir.durable.manifest, files |-> dir.durable.files]}
    BY <1>1, <1>5, <1>6 DEF Views
  <2>2. CASE w = [v |-> version, files |-> kept]
    <3> DEFINE u == [v |-> version, files |-> files]
    <3>1. u \in Views
      BY <1>6 DEF Views
    <3>2. w.v = u.v /\ \A id \in ReferencedIds(u.v) : w.files[id] = u.files[id]
      BY <1>4, <2>2
    <3> QED
      BY <3>1, <3>2
  <2>3. CASE w = [v |-> dir.durable.manifest, files |-> dir.durable.files]
    BY <2>3 DEF Views
  <2> QED
    BY <2>1, <2>2, <2>3
<1>8. LogShape'
  BY <1>1, <1>5, ShapeSame DEF OrderInv
<1> QED
  BY <1>1, <1>7, <1>8, LogSame, BodyOrder DEF memVars

\* sync_dir: the durable directory becomes the live one, a view already.
LEMMA SyncOrder ==
  ASSUME DataInv, OrderInv, SyncManifest \/ GcSync
  PROVE  OrderInv' /\ ViewsKept /\ LogKept
<1> DEFINE stage == IF flush.stage = "sync" THEN "swap" ELSE flush.after
<1>1. /\ up /\ flush.stage \in {"sync", "gcsync"}
      /\ flush' = [flush EXCEPT !.stage = stage]
      /\ dir' = [dir EXCEPT !.durable = dir.live] /\ wal' = [wal EXCEPT !.gone = <<>>]
      /\ UNCHANGED <<gateVars, up, nextSeq, op, memVars, version>>
  BY DEF SyncManifest, GcSync, SyncDir, InBody
<1>2. /\ stage \in {"swap", "discard", "compact"}
      /\ stage = "swap" => flush.stage = "sync"
  BY <1>1 DEF DataInv, StageOK, Collecting
<1> HIDE DEF stage
<1>3. flush'.stage = stage /\ flush'.next = flush.next
  BY <1>1 DEF DataInv, StageOK
<1>4. ViewsKept
  BY <1>1, <1>2, <1>3, ViewsSynced DEF DataInv, Installing
<1>5. wal' = wal
  <2>1. wal.gone = <<>>
    BY <1>1 DEF OrderInv, LogShape
  <2> QED
    BY <1>1, <2>1 DEF DataInv, LogOK, Log
<1>6. LogShape'
  BY <1>1, <1>2, <1>3, <1>5, ShapeSame DEF OrderInv
<1> QED
  BY <1>1, <1>4, <1>5, <1>6, LogSame, BodyOrder DEF memVars

\* The body ends, done or failed.
LEMMA EndOrder ==
  ASSUME DataInv, OrderInv, CompactNothing \/ FlushErr
  PROVE  OrderInv' /\ ViewsKept /\ LogKept
<1>1. /\ up /\ flush.stage # "retire"
      /\ flush' = [NoFlush EXCEPT !.stage = "done"] \/ flush' = [NoFlush EXCEPT !.stage = "failed"]
      /\ UNCHANGED <<gateVars, up, nextSeq, op, memVars, diskVars, version>>
  BY DEF CompactNothing, FlushErr, InBody
<1>2. flush'.stage \in {"done", "failed"}
  BY <1>1, NoFlushFacts
<1>3. ViewsKept
  BY <1>1, <1>2, ViewsSame DEF diskVars, Installing
<1>4. LogShape'
  BY <1>1, <1>2, ShapeSame DEF OrderInv, diskVars
<1> QED
  BY <1>1, <1>3, <1>4, LogSame, BodyOrder DEF memVars, diskVars

\* The oldest frozen memtable leaves the read set.
LEMMA DiscardOrder ==
  ASSUME DataInv, GateOK, OrderInv, Discard
  PROVE  OrderInv'
<1>1. /\ up /\ flush.stage = "discard" /\ frozen' = Tail(frozen)
      /\ flush' = [NoFlush EXCEPT !.stage = "table"]
      /\ UNCHANGED <<gateVars, up, nextSeq, op, active, diskVars, version>>
  BY DEF Discard, InBody
<1>2. flush'.stage = "table"
  BY <1>1, NoFlushFacts
<1>3. ViewsKept /\ LogKept /\ LogSegs' = LogSegs
  BY <1>1, <1>2, ViewsSame, LogSame DEF diskVars, Installing, LogSegs
<1>4. \A i \in DOMAIN frozen' : /\ i + 1 \in DOMAIN frozen /\ frozen'[i] = frozen[i + 1]
                                /\ i \in Nat
  <2> DEFINE tables == TablesBelow(nextSeq)
  <2>1. frozen \in Seq(tables) /\ frozen # <<>>
    BY <1>1 DEF DataInv, BufferOK
  <2> HIDE DEF tables
  <2> QED
    BY <1>1, <2>1
<1>5. FilesOrder' /\ Named' \subseteq Named
  BY <1>3, ViewsKeptOrder DEF OrderInv
<1>6. Stored' \subseteq Stored
  BY <1>4, <1>5 DEF Stored, ToSet
<1>7. CallsKept
  BY <1>1 DEF CallsKept, gateVars, Gate!Claimed
<1>8. ClaimsFresh'
  BY <1>3, <1>6, <1>7, ClaimsKept DEF DataInv
<1>9. ActiveLogged' /\ LogCovers'
  BY <1>1, <1>3, <1>6 DEF OrderInv, ActiveLogged, LogCovers
<1>10. MemOrder'
  <2>1. \A table \in Stored' : TableOver(active', table)
    BY <1>1, <1>6 DEF OrderInv, MemOrder
  <2>2. ASSUME NEW i \in DOMAIN frozen', NEW j \in DOMAIN frozen', i < j
        PROVE  TableOver(frozen'[j], frozen'[i])
    <3>1. i + 1 < j + 1
      BY <1>4, <2>2
    <3> QED
      BY <1>4, <3>1 DEF OrderInv, MemOrder
  <2>3. \A i \in DOMAIN frozen' : \A table \in Named' : TableOver(frozen'[i], table)
    BY <1>4, <1>5 DEF OrderInv, MemOrder
  <2> QED
    BY <2>1, <2>2, <2>3 DEF MemOrder
<1>11. LogShape'
  BY <1>1, <1>2, ShapeSame DEF OrderInv, diskVars
<1> QED
  BY <1>5, <1>8, <1>9, <1>10, <1>11 DEF OrderInv

\* Wal::reset starts: a fresh segment, the others still to be deleted.
LEMMA ResetOrder ==
  ASSUME DataInv, OrderInv, ResetCreate
  PROVE  OrderInv' /\ ViewsKept /\ LogKept
<1>1. /\ up /\ flush.stage = "table"
      /\ wal' = [wal EXCEPT !.segs = <<NewSegment>>, !.old = wal.segs, !.gone = <<>>]
      /\ dir' = [dir EXCEPT !.durable = dir.live]
      /\ flush' = [flush EXCEPT !.stage = "retire"]
      /\ UNCHANGED <<gateVars, up, nextSeq, op, memVars, version>>
  BY DEF ResetCreate, InBody
<1>2. flush'.stage = "retire"
  BY <1>1 DEF DataInv, StageOK
<1>3. ViewsKept
  BY <1>1, <1>2, ViewsSynced DEF DataInv, Installing
<1>4. /\ wal'.segs = <<NewSegment>> /\ wal'.old = wal.segs /\ wal'.gone = <<>>
      /\ wal'.queue = wal.queue
  BY <1>1 DEF DataInv, LogOK, Log
<1>5. LogSegs = ToSet(wal.segs)
  BY <1>1, LiveLog DEF OrderInv
<1>6. LogSegs \subseteq LogSegs' /\ LogSegs' \subseteq LogSegs \cup {NewSegment}
  <2>1. ToSet(<<>>) = {} /\ ToSet(<<NewSegment>>) = {NewSegment}
    BY DEF ToSet
  <2> QED
    BY <1>4, <1>5, <2>1 DEF LogSegs
<1>7. LogKept
  <2> HIDE DEF LogSegs
  <2> QED
    BY <1>6, MoreSegments DEF LogKept
<1>8. LogShape'
  BY <1>1, <1>2, <1>4 DEF OrderInv, LogShape
<1> QED
  BY <1>1, <1>3, <1>7, <1>8, BodyOrder DEF memVars

\* A deleted segment may come back until the directory is synced.
LEMMA RetireOrder ==
  ASSUME DataInv, OrderInv, RetireSegment
  PROVE  OrderInv' /\ ViewsKept /\ LogKept
<1>1. /\ up /\ flush.stage = "retire" /\ wal.old # <<>>
      /\ wal' = [wal EXCEPT !.old = Tail(@), !.gone = Append(@, Head(wal.old))]
      /\ UNCHANGED <<gateVars, up, nextSeq, op, memVars, dir, version, flush>>
  BY DEF RetireSegment, InBody
<1>2. /\ wal'.segs = wal.segs /\ wal'.old = Tail(wal.old)
      /\ wal'.gone = Append(wal.gone, Head(wal.old)) /\ wal'.queue = wal.queue
      /\ wal.old \in Seq(Segment) /\ wal.gone \in Seq(Segment)
  BY <1>1 DEF DataInv, LogOK, Log
<1> DEFINE old == wal.old
           gone == wal.gone
<1>3. old \in Seq(Segment) /\ gone \in Seq(Segment) /\ old # <<>>
  BY <1>1, <1>2
<1>4. LogSegs = ToSet(gone) \cup ToSet(old) \cup ToSet(wal.segs)
  BY DEF LogSegs
<1>5. LogSegs' = ToSet(Append(gone, Head(old))) \cup ToSet(Tail(old)) \cup ToSet(wal.segs)
  BY <1>2 DEF LogSegs
<1> HIDE DEF old, gone
<1>6. /\ \A x : x \in ToSet(old) <=> x = Head(old) \/ x \in ToSet(Tail(old))
      /\ \A x : x \in ToSet(Append(gone, Head(old))) <=> x = Head(old) \/ x \in ToSet(gone)
  <2>1. /\ Len(old) \in Nat \ {0} /\ DOMAIN old = 1 .. Len(old) /\ Head(old) = old[1]
        /\ DOMAIN Tail(old) = 1 .. Len(old) - 1
        /\ \A i \in 1 .. Len(old) - 1 : Tail(old)[i] = old[i + 1]
    BY <1>3
  <2>2. \A i \in 1 .. Len(old) : i # 1 => i - 1 \in 1 .. Len(old) - 1 /\ (i - 1) + 1 = i
    BY <2>1
  <2>3. \A i \in 1 .. Len(old) - 1 : i + 1 \in 1 .. Len(old)
    BY <2>1
  <2>4. 1 \in 1 .. Len(old)
    BY <2>1
  <2>5. \A x : x \in ToSet(old) <=> x = Head(old) \/ x \in ToSet(Tail(old))
    <3>1. ASSUME NEW x, x \in ToSet(old) PROVE x = Head(old) \/ x \in ToSet(Tail(old))
      <4>1. PICK i \in 1 .. Len(old) : x = old[i]
        BY <2>1, <3>1 DEF ToSet
      <4>2. CASE i = 1
        BY <2>1, <4>1, <4>2
      <4>3. CASE i # 1
        <5>1. i - 1 \in 1 .. Len(old) - 1 /\ Tail(old)[i - 1] = old[i]
          BY <2>1, <2>2, <4>3
        <5> QED
          BY <2>1, <4>1, <5>1 DEF ToSet
      <4> QED
        BY <4>2, <4>3
    <3>2. ASSUME NEW x, x = Head(old) \/ x \in ToSet(Tail(old)) PROVE x \in ToSet(old)
      BY <2>1, <2>3, <2>4, <3>2 DEF ToSet
    <3> QED
      BY <3>1, <3>2
  <2> DEFINE seg == Head(old)
             n == Len(gone)
             new == Append(gone, seg)
  <2>6. /\ n \in Nat /\ DOMAIN gone = 1 .. n /\ DOMAIN new = 1 .. n + 1
        /\ new[n + 1] = seg /\ \A i \in 1 .. n : new[i] = gone[i]
    <3> HIDE DEF seg
    <3> QED
      BY <1>3
  <2>7. \A x : x \in ToSet(new) <=> x = seg \/ x \in ToSet(gone)
    <3> HIDE DEF seg, n, new
    <3> QED
      BY <2>6 DEF ToSet
  <2> QED
    BY <2>5, <2>7
<1>7. \A x : x \in LogSegs' <=> x \in LogSegs
  BY <1>4, <1>5, <1>6
<1>8. LogKept
  BY <1>7 DEF LogKept, LoggedSeqs, SyncedSeqs
<1>9. LogShape'
  BY <1>1, <1>2 DEF OrderInv, LogShape
<1> QED
  BY <1>1, <1>8, <1>9, ViewsSame, BodyOrder DEF memVars

\* The reset is durable: the log is empty, and so are the memtables.
LEMMA ResetSyncOrder ==
  ASSUME DataInv, GateOK, OrderInv, ResetSync
  PROVE  OrderInv' /\ ViewsKept /\ \A k \in Keys : LoggedSeqs(LogSegs', k) = {}
<1>1. /\ up /\ flush.stage = "retire" /\ wal.old = <<>>
      /\ flush' = [flush EXCEPT !.stage = "compact"]
      /\ dir' = [dir EXCEPT !.durable = dir.live] /\ wal' = [wal EXCEPT !.gone = <<>>]
      /\ UNCHANGED <<gateVars, up, nextSeq, op, memVars, version>>
  BY DEF ResetSync, SyncDir, InBody
<1>2. flush'.stage = "compact"
  BY <1>1 DEF DataInv, StageOK
<1>3. ViewsKept
  BY <1>1, <1>2, ViewsSynced DEF DataInv, Installing
<1>4. /\ wal'.segs = <<NewSegment>> /\ wal'.old = <<>> /\ wal'.gone = <<>> /\ wal'.queue = <<>>
  BY <1>1 DEF DataInv, LogOK, Log, OrderInv, LogShape
<1>5. LogSegs' = {NewSegment}
  <2>1. ToSet(<<>>) = {} /\ ToSet(<<NewSegment>>) = {NewSegment}
    BY DEF ToSet
  <2> QED
    BY <1>4, <2>1 DEF LogSegs
<1>6. \A k \in Keys : LoggedSeqs(LogSegs', k) = {}
  <2>1. 1 .. Len(NewSegment.recs) = {}
    BY DEF NewSegment
  <2> QED
    BY <1>5, <2>1 DEF LoggedSeqs
<1>7. FilesOrder' /\ Named' \subseteq Named /\ Stored' \subseteq Stored
  BY <1>1, <1>3, ViewsKeptOrder DEF OrderInv, Stored, memVars
<1>8. LogCovers'
  BY <1>6 DEF LogCovers
<1>9. ActiveLogged'
  <2>1. IsEmpty(active')
    BY <1>1 DEF DataInv, BufferOK, BufferDrained, memVars
  <2> QED
    BY <2>1 DEF ActiveLogged, IsEmpty
<1>10. MemOrder'
  BY <1>1, <1>7 DEF OrderInv, MemOrder, memVars
<1>11. ClaimsFresh'
  <2>1. Gate!Claimed' = {} /\ \A t \in Threads : pc'[t] # "apply"
    BY <1>1, BodyAlone DEF gateVars, Gate!Claimed
  <2>2. \A w \in Views' : \E u \in Views : w.v = u.v
    BY <1>3 DEF ViewsKept
  <2>3. up' => \A w \in Views' : w.v.nextSeq <= nextSeq'
    BY <1>1, <2>2 DEF OrderInv, ClaimsFresh
  <2> QED
    BY <2>1, <2>3 DEF ClaimsFresh
<1>12. LogShape'
  BY <1>1, <1>2, <1>4 DEF OrderInv, LogShape
<1> QED
  BY <1>3, <1>6, <1>7, <1>8, <1>9, <1>10, <1>11, <1>12 DEF OrderInv

\* No claim is pending while the body runs, so its claims are about clocks only.
LEMMA BodyClaims ==
  ASSUME DataInv, GateOK, flush.stage # "none", pc' = pc,
         \A w \in Views' : w.v.nextSeq <= nextSeq'
  PROVE  ClaimsFresh'
<1>1. Gate!Claimed' = {} /\ \A t \in Threads : pc'[t] # "apply"
  BY BodyAlone DEF Gate!Claimed
<1> QED
  BY <1>1 DEF ClaimsFresh

\* The active memtable is frozen: it is above all that is frozen or flushed.
LEMMA FreezeOrder ==
  ASSUME DataInv, GateOK, OrderInv, Freeze
  PROVE  OrderInv'
<1>1. /\ up /\ flush.stage = "freeze" /\ flush' = [flush EXCEPT !.stage = "table"]
      /\ UNCHANGED <<gateVars, up, nextSeq, op, diskVars, version>>
  BY DEF Freeze, InBody
<1>2. flush'.stage = "table"
  BY <1>1 DEF DataInv, StageOK
<1>3. ViewsKept /\ LogKept /\ LogSegs' = LogSegs
  BY <1>1, <1>2, ViewsSame, LogSame DEF diskVars, Installing, LogSegs
<1>4. LogShape'
  BY <1>1, <1>2, ShapeSame DEF OrderInv, diskVars
<1>5. CASE bytes = 0
  <2>1. UNCHANGED <<active, frozen>>
    BY <1>5 DEF Freeze, memVars
  <2> QED
    BY <1>1, <1>3, <1>4, <2>1, BodyOrder
<1>6. CASE bytes # 0
  <2>1. frozen' = Append(frozen, active) /\ active' = EmptyTable
    BY <1>6 DEF Freeze
  <2> DEFINE n == Len(frozen)
  <2>2. /\ n \in Nat /\ DOMAIN frozen = 1 .. n /\ DOMAIN frozen' = 1 .. n + 1
        /\ frozen'[n + 1] = active /\ \A i \in 1 .. n : frozen'[i] = frozen[i]
    <3> DEFINE tables == TablesBelow(nextSeq)
    <3>1. frozen \in Seq(tables) /\ active \in tables
      BY DEF DataInv, BufferOK
    <3> HIDE DEF tables
    <3> QED
      BY <2>1, <3>1
  <2> HIDE DEF n
  <2>3. \A i \in DOMAIN frozen' : i \in Nat /\ (i \in DOMAIN frozen \/ i = n + 1)
    BY <2>2
  <2>4. FilesOrder' /\ Named' \subseteq Named
    BY <1>3, ViewsKeptOrder DEF OrderInv
  <2>5. \A table \in Stored' : table \in Stored \/ table = active
    BY <2>2, <2>3, <2>4 DEF Stored, ToSet
  <2>6. \A k \in Keys : active'[k] = Absent
    BY <2>1 DEF EmptyTable
  <2>7. ActiveLogged'
    BY <2>6 DEF ActiveLogged
  <2>8. LogCovers'
    <3> SUFFICES ASSUME NEW k \in Keys, NEW s \in LoggedSeqs(LogSegs, k), NEW table \in Stored'
                 PROVE  \/ s >= table[k].seq
                        \/ \E q \in SyncedSeqs(LogSegs, k) : q >= table[k].seq
      BY <1>3 DEF LogCovers
    <3>1. CASE table \in Stored
      BY <3>1 DEF OrderInv, LogCovers
    <3>2. CASE table = active
      <4>1. CASE active[k] = Absent
        <5>1. s \in Nat
          BY DbAssumption DEF LoggedSeqs
        <5> QED
          BY <3>2, <4>1, <5>1 DEF Absent
      <4>2. CASE active[k] # Absent
        <5>1. active[k].seq \in SyncedSeqs(LogSegs, k)
          BY <4>2 DEF OrderInv, ActiveLogged
        <5>2. active[k].seq \in Nat
          BY <5>1, DbAssumption DEF SyncedSeqs
        <5> QED
          BY <3>2, <5>1, <5>2
      <4> QED
        BY <4>1, <4>2
    <3> QED
      BY <2>5, <3>1, <3>2
  <2>9. MemOrder'
    <3>1. \A table \in Stored' : TableOver(active', table)
      BY <2>6 DEF TableOver, Over
    <3>2. ASSUME NEW i \in DOMAIN frozen', NEW j \in DOMAIN frozen', i < j
          PROVE  TableOver(frozen'[j], frozen'[i])
      <4>1. i \in DOMAIN frozen /\ frozen'[i] = frozen[i]
        BY <2>2, <3>2
      <4>2. CASE j \in DOMAIN frozen
        BY <2>2, <3>2, <4>1, <4>2 DEF OrderInv, MemOrder
      <4>3. CASE j = n + 1
        <5>1. frozen[i] \in Stored
          BY <4>1 DEF Stored, ToSet
        <5> QED
          BY <2>2, <4>1, <4>3, <5>1 DEF OrderInv, MemOrder
      <4> QED
        BY <2>3, <4>2, <4>3
    <3>3. ASSUME NEW i \in DOMAIN frozen', NEW table \in Named'
          PROVE  TableOver(frozen'[i], table)
      <4>1. table \in Named /\ table \in Stored
        BY <2>4 DEF Stored
      <4>2. CASE i \in DOMAIN frozen
        BY <2>2, <4>1, <4>2 DEF OrderInv, MemOrder
      <4>3. CASE i = n + 1
        BY <2>2, <4>1, <4>3 DEF OrderInv, MemOrder
      <4> QED
        BY <2>3, <4>2, <4>3
    <3> QED
      BY <3>1, <3>2, <3>3 DEF MemOrder
  <2>10. \A w \in Views' : w.v.nextSeq <= nextSeq'
    BY <1>1, <1>3 DEF ViewsKept, OrderInv, ClaimsFresh
  <2>11. ClaimsFresh'
    BY <1>1, <2>10, BodyClaims DEF gateVars
  <2> QED
    BY <1>4, <2>4, <2>7, <2>8, <2>9, <2>11 DEF OrderInv
<1> QED
  BY <1>5, <1>6

\* write_table adds a view: the version about to be installed, and its new table.
LEMMA TableViews ==
  ASSUME DataInv, up, NEW content \in TablesBelow(nextSeq), NEW next, NEW after,
         WriteTable(content, next, after), flush.stage \in {"table", "compact"},
         UNCHANGED <<up, version>>, version.nextTableId \notin DOMAIN dir.live.files,
         ReferencedIds(next) \subseteq ReferencedIds(version) \cup {version.nextTableId}
  PROVE  /\ flush' = [stage |-> "rename", base |-> version, next |-> next, after |-> after]
         /\ dir'.live.files[version.nextTableId] = content
         /\ \A i \in DOMAIN dir.live.files : dir'.live.files[i] = dir.live.files[i]
         /\ ReferencedIds(version) \subseteq DOMAIN dir.live.files
         /\ \A w \in Views' :
              \/ w = [v |-> next, files |-> dir'.live.files]
              \/ \E u \in Views :
                   w.v = u.v /\ \A i \in ReferencedIds(u.v) : w.files[i] = u.files[i]
         /\ \A table \in Named' : table \in Named \/ table = content
<1> DEFINE id == version.nextTableId
           files == dir.live.files
           more == WithTable(files, id, content)
           new == [v |-> next, files |-> more]
<1>1. /\ flush' = [stage |-> "rename", base |-> version, next |-> next, after |-> after]
      /\ dir' = [dir EXCEPT !.live.files = more]
  BY DEF WriteTable
<1>2. flush'.stage = "rename" /\ flush'.next = next
  BY <1>1
<1>3. /\ content \in Table /\ files \in Files /\ id \in Nat
      /\ dir \in [live : View, durable : View]
  BY DbAssumption, BelowTable DEF DataInv, ClockOK, Clocks, FilesOK, View, Version
<1>4. more[id] = content /\ \A i \in DOMAIN files : more[i] = files[i]
  <2>1. id \notin DOMAIN files
    OBVIOUS
  <2> HIDE DEF files, id
  <2> QED
    BY <1>3, <2>1, FileAdded DEF files
<1> HIDE DEF more
<1>5. /\ dir'.live.files = more /\ dir'.live.manifest = dir.live.manifest
      /\ dir'.durable = dir.durable
  BY <1>1, <1>3 DEF View
<1>6. /\ ReferencedIds(version) \subseteq DOMAIN files
      /\ ReferencedIds(dir.live.manifest) \subseteq DOMAIN files
  BY DEF DataInv, FilesOK, Holds
<1>7. flush.stage \notin Installing /\ flush'.stage \in Installing
  BY <1>2 DEF Installing
<1>8. ASSUME NEW w \in Views', w # new
      PROVE  \E u \in Views :
               w.v = u.v /\ \A i \in ReferencedIds(u.v) : w.files[i] = u.files[i]
  <2>1. w \in {[v |-> dir.live.manifest, files |-> more], [v |-> version, files |-> more],
               [v |-> dir.durable.manifest, files |-> dir.durable.files]}
    BY <1>2, <1>5, <1>8 DEF Views
  <2>2. CASE w = [v |-> dir.live.manifest, files |-> more]
    <3> DEFINE u == [v |-> dir.live.manifest, files |-> files]
    <3>1. u \in Views
      BY DEF Views
    <3>2. w.v = u.v /\ \A i \in ReferencedIds(u.v) : w.files[i] = u.files[i]
      BY <1>4, <1>6, <2>2
    <3> QED
      BY <3>1, <3>2
  <2>3. CASE w = [v |-> version, files |-> more]
    <3> DEFINE u == [v |-> version, files |-> files]
    <3>1. u \in Views
      BY DEF Views
    <3>2. w.v = u.v /\ \A i \in ReferencedIds(u.v) : w.files[i] = u.files[i]
      BY <1>4, <1>6, <2>3
    <3> QED
      BY <3>1, <3>2
  <2>4. CASE w = [v |-> dir.durable.manifest, files |-> dir.durable.files]
    BY <2>4 DEF Views
  <2> QED
    BY <2>1, <2>2, <2>3, <2>4
<1>9. \A table \in Named' : table \in Named \/ table = content
  <2> SUFFICES ASSUME NEW w \in Views', NEW i \in ReferencedIds(w.v)
               PROVE  w.files[i] \in Named \/ w.files[i] = content
    BY DEF Named
  <2>1. CASE w = new
    <3>1. w.v = next /\ w.files = more
      BY <2>1
    <3>2. CASE i = id
      BY <1>4, <3>1, <3>2
    <3>3. CASE i \in ReferencedIds(version)
      <4> DEFINE u == [v |-> version, files |-> files]
      <4>1. u \in Views /\ u.v = version /\ u.files = files
        BY DEF Views
      <4>2. w.files[i] = u.files[i]
        BY <1>4, <1>6, <3>1, <3>3, <4>1
      <4> HIDE DEF u
      <4> QED
        BY <3>3, <4>1, <4>2 DEF Named
    <3> QED
      BY <3>1, <3>2, <3>3
  <2>2. CASE w # new
    BY <1>8, <2>2 DEF Named
  <2> QED
    BY <2>1, <2>2
<1> QED
  BY <1>1, <1>4, <1>5, <1>6, <1>8, <1>9

\* The order of all sources is kept if the new table fits below the memtables and
\* among the tables of its version.
LEMMA TableOrder ==
  ASSUME DataInv, GateOK, OrderInv, up, NEW content \in TablesBelow(nextSeq), NEW next,
         NEW after, WriteTable(content, next, after), flush.stage \in {"table", "compact"},
         UNCHANGED <<gateVars, up, nextSeq, op, memVars, wal, version>>,
         next.nextSeq <= nextSeq,
         ReferencedIds(next) \subseteq ReferencedIds(version) \cup {version.nextTableId},
         \A k \in Keys : \/ content[k] = Absent
                         \/ \E table \in Stored : content[k] = table[k],
         \A i \in DOMAIN frozen : TableOver(frozen[i], content),
         \A files : /\ files[version.nextTableId] = content
                    /\ \A id \in ReferencedIds(version) : files[id] = dir.live.files[id]
                    => TiersOrdered(next, files)
  PROVE  OrderInv'
<1> DEFINE id == version.nextTableId
<1>1. LogSegs' = LogSegs /\ LogKept
  BY LogSame DEF LogSegs
<1>2. IsEmpty(active) /\ UNCHANGED <<active, frozen>>
  BY DEF DataInv, BufferOK, BufferDrained, memVars
<1>3. CASE id \in DOMAIN dir.live.files
  <2>1. flush' = [flush EXCEPT !.stage = "failed"] /\ dir' = dir
    BY <1>3 DEF WriteTable
  <2>2. flush'.stage = "failed"
    BY <2>1 DEF DataInv, StageOK
  <2>3. ViewsKept
    BY <2>1, <2>2, ViewsSame DEF Installing
  <2>4. LogShape'
    BY <2>2, ShapeSame DEF OrderInv
  <2> QED
    BY <1>1, <1>2, <2>3, <2>4, BodyOrder
<1>4. CASE id \notin DOMAIN dir.live.files
  <2> DEFINE files == dir.live.files
             more == dir'.live.files
             new == [v |-> next, files |-> more]
  <2>1. /\ flush' = [stage |-> "rename", base |-> version, next |-> next, after |-> after]
        /\ more[id] = content /\ \A i \in DOMAIN files : more[i] = files[i]
        /\ ReferencedIds(version) \subseteq DOMAIN files
    BY <1>4, TableViews
  <2>2. flush'.stage = "rename" /\ flush'.next = next
    BY <2>1
  <2>3. ASSUME NEW w \in Views', w # new
        PROVE  \E u \in Views :
                 w.v = u.v /\ \A i \in ReferencedIds(u.v) : w.files[i] = u.files[i]
    BY <1>4, <2>3, TableViews
  <2>4. \A table \in Named' : table \in Named \/ table = content
    BY <1>4, TableViews
  <2> HIDE DEF more
  <2>5. TiersOrdered(next, more)
    BY <2>1
  <2>6. FilesOrder'
    <3> SUFFICES ASSUME NEW w \in Views' PROVE TiersOrdered(w.v, w.files)
      BY DEF FilesOrder
    <3>1. CASE w = new
      BY <2>5, <3>1
    <3>2. CASE w # new
      <4>1. PICK u \in Views :
              w.v = u.v /\ \A i \in ReferencedIds(u.v) : w.files[i] = u.files[i]
        BY <2>3, <3>2
      <4>2. TiersOrdered(u.v, u.files)
        BY DEF OrderInv, FilesOrder
      <4>3. \A t \in DOMAIN u.v.tiers : \A i \in DOMAIN u.v.tiers[t] :
              u.v.tiers[t][i] \in ReferencedIds(u.v)
        BY DEF ReferencedIds, ToSet
      <4> QED
        BY <4>1, <4>2, <4>3 DEF TiersOrdered
    <3> QED
      BY <3>1, <3>2
  <2>7. \A table \in Stored' : table \in Stored \/ table = content
    BY <1>2, <2>4 DEF Stored
  <2>8. ActiveLogged'
    BY <1>2 DEF ActiveLogged, IsEmpty
  <2>9. LogCovers'
    <3> SUFFICES ASSUME NEW k \in Keys, NEW s \in LoggedSeqs(LogSegs, k), NEW table \in Stored'
                 PROVE  \/ s >= table[k].seq
                        \/ \E q \in SyncedSeqs(LogSegs, k) : q >= table[k].seq
      BY <1>1 DEF LogCovers
    <3>1. s \in Nat
      BY DbAssumption DEF LoggedSeqs
    <3>2. (\E old \in Stored : table[k] = old[k]) \/ table[k] = Absent
      BY <2>7
    <3> QED
      BY <3>1, <3>2 DEF OrderInv, LogCovers, Absent
  <2>10. MemOrder'
    <3>1. \A table \in Stored' : TableOver(active', table)
      BY <1>2 DEF TableOver, Over, IsEmpty
    <3>2. \A i \in DOMAIN frozen' : \A table \in Named' : TableOver(frozen'[i], table)
      BY <1>2, <2>4 DEF OrderInv, MemOrder
    <3> QED
      BY <1>2, <3>1, <3>2 DEF OrderInv, MemOrder
  <2>11. \A w \in Views' : w.v.nextSeq <= nextSeq'
    <3> SUFFICES ASSUME NEW w \in Views' PROVE w.v.nextSeq <= nextSeq
      OBVIOUS
    <3>1. CASE w = new
      BY <3>1
    <3>2. CASE w # new
      BY <2>3, <3>2 DEF OrderInv, ClaimsFresh
    <3> QED
      BY <3>1, <3>2
  <2>12. ClaimsFresh'
    BY <2>11, BodyClaims DEF gateVars
  <2>13. LogShape'
    BY <2>2, ShapeSame DEF OrderInv
  <2> QED
    BY <2>6, <2>8, <2>9, <2>10, <2>12, <2>13 DEF OrderInv
<1> QED
  BY <1>3, <1>4

\* The order of a version's tables is that of the files it names.
LEMMA TiersSame ==
  ASSUME NEW v, NEW files, NEW more, TiersOrdered(v, files),
         \A id \in ReferencedIds(v) : more[id] = files[id]
  PROVE  TiersOrdered(v, more)
<1>1. \A t \in DOMAIN v.tiers : \A i \in DOMAIN v.tiers[t] : v.tiers[t][i] \in ReferencedIds(v)
  BY DEF ReferencedIds, ToSet
<1> QED
  BY <1>1 DEF TiersOrdered

\* The running version is a view, in order, and its tables are stored.
LEMMA CurrentView ==
  ASSUME DataInv, OrderInv, up
  PROVE  /\ version \in Version /\ version.nextSeq \in 1 .. nextSeq
         /\ Holds(version, dir.live.files) /\ version.nextTableId \in Nat
         /\ TiersOrdered(version, dir.live.files)
         /\ \A id \in ReferencedIds(version) : dir.live.files[id] \in Named
<1> DEFINE u == [v |-> version, files |-> dir.live.files]
<1>1. u \in Views /\ u.v = version /\ u.files = dir.live.files
  BY DEF Views
<1>2. TiersOrdered(version, dir.live.files)
  BY <1>1 DEF OrderInv, FilesOrder
<1> HIDE DEF u
<1>3. \A id \in ReferencedIds(version) : dir.live.files[id] \in Named
  BY <1>1 DEF Named
<1> QED
  BY <1>2, <1>3 DEF DataInv, FilesOK, Version

\* The oldest frozen memtable is above every table, and below the other frozen ones.
LEMMA FlushTableOrder ==
  ASSUME DataInv, GateOK, OrderInv, FlushTable
  PROVE  OrderInv'
<1> DEFINE id == version.nextTableId
           next == Flushed(version, id, nextSeq)
           content == Head(frozen)
<1>1. /\ up /\ flush.stage = "table" /\ frozen # <<>> /\ WriteTable(content, next, "discard")
      /\ UNCHANGED <<gateVars, up, nextSeq, op, memVars, wal, version>>
  BY DEF FlushTable, InBody
<1>2. /\ version \in Version /\ version.nextSeq \in 1 .. nextSeq /\ id \in Nat
      /\ TiersOrdered(version, dir.live.files)
      /\ \A i \in ReferencedIds(version) : dir.live.files[i] \in Named
  BY <1>1, CurrentView
<1>3. nextSeq \in Nat \ {0}
  BY DbAssumption DEF DataInv, ClockOK, Clocks
<1>4. /\ next \in Version /\ next.nextSeq = Max2(nextSeq, version.nextSeq)
      /\ ReferencedIds(next) \subseteq ReferencedIds(version) \cup {id}
  BY <1>2, <1>3, FlushedVersion
<1>5. next.nextSeq <= nextSeq
  BY <1>2, <1>3, <1>4 DEF Max2
<1>6. Replaces(version, next, 0, 1, id)
  BY <1>2, <1>3, FlushedSlots
<1>7. /\ content \in TablesBelow(nextSeq) /\ content = frozen[1] /\ 1 \in DOMAIN frozen
      /\ DOMAIN frozen \subseteq Nat \ {0}
  <2> DEFINE tables == TablesBelow(nextSeq)
  <2>1. frozen \in Seq(tables)
    BY DEF DataInv, BufferOK
  <2> HIDE DEF tables
  <2>2. content \in tables /\ content = frozen[1] /\ 1 \in DOMAIN frozen
        /\ DOMAIN frozen \subseteq Nat \ {0}
    BY <1>1, <2>1
  <2> QED
    BY <2>2 DEF tables
<1> HIDE DEF next, content
<1>8. content \in Stored
  BY <1>7 DEF Stored, ToSet
<1>9. \A i \in DOMAIN frozen : TableOver(frozen[i], content)
  <2> SUFFICES ASSUME NEW i \in DOMAIN frozen PROVE TableOver(frozen[i], frozen[1])
    BY <1>7
  <2>1. CASE i = 1
    <3>1. \A k \in Keys : content[k].seq \in Nat
      BY <1>3, <1>7, BelowFacts DEF TablesBelow
    <3> QED
      BY <1>7, <2>1, <3>1 DEF TableOver, Over
  <2>2. CASE i # 1
    <3>1. 1 < i
      BY <1>7, <2>2
    <3> QED
      BY <1>7, <3>1 DEF OrderInv, MemOrder
  <2> QED
    BY <2>1, <2>2
<1>10. ASSUME NEW files, files[id] = content,
              \A i \in ReferencedIds(version) : files[i] = dir.live.files[i]
       PROVE  TiersOrdered(next, files)
  <2>1. TiersOrdered(version, files)
    BY <1>2, <1>10, TiersSame
  <2>2. \A t \in DOMAIN version.tiers : \A i \in DOMAIN version.tiers[t] :
          t >= 1 /\ TableOver(files[id], files[version.tiers[t][i]])
    <3> SUFFICES ASSUME NEW t \in DOMAIN version.tiers, NEW i \in DOMAIN version.tiers[t]
                 PROVE  t >= 1 /\ TableOver(files[id], files[version.tiers[t][i]])
      OBVIOUS
    <3>1. version.tiers[t][i] \in ReferencedIds(version)
      BY <1>2, TierIds
    <3>2. files[version.tiers[t][i]] \in Named
      BY <1>2, <1>10, <3>1
    <3>3. TableOver(content, files[version.tiers[t][i]])
      BY <1>7, <3>2 DEF OrderInv, MemOrder
    <3>4. t >= 1
      BY <1>2 DEF Version
    <3> QED
      BY <1>10, <3>3, <3>4
  <2>3. \A t \in DOMAIN version.tiers : ~(t < 1)
    BY <1>2 DEF Version
  <2>4. \A t \in DOMAIN version.tiers : \A i \in DOMAIN version.tiers[t] : t # 0 =>
          /\ t >= 1 => TableOver(files[id], files[version.tiers[t][i]])
          /\ t < 1 => TableOver(files[version.tiers[t][i]], files[id])
    BY <2>2, <2>3
  <2>5. 0 \in Nat /\ 1 \in Nat
    OBVIOUS
  <2> QED
    BY <1>2, <1>4, <1>6, <2>1, <2>4, <2>5, OrderReplaced
<1> QED
  BY <1>1, <1>4, <1>5, <1>7, <1>8, <1>9, <1>10, TableOrder

\* A compaction's output takes the place of its tier: below the tiers above it and
\* above those below it, as each of its entries was.
LEMMA CompactOrder ==
  ASSUME DataInv, GateOK, OrderInv, Compact
  PROVE  OrderInv'
<1> DEFINE tier == TierToCompact(version, TierFanout)
           id == version.nextTableId
           live == dir.live.files
           output == CompactionOutput(version, tier, live)
           next == IF IsEmpty(output) THEN Cleared(version, tier)
                   ELSE Compacted(version, tier, id)
<1>1. /\ up /\ flush.stage = "compact" /\ tier # 0 /\ WriteTable(output, next, "compact")
      /\ UNCHANGED <<gateVars, up, nextSeq, op, memVars, wal, version>>
  BY DEF Compact, InBody
<1>2. /\ version \in Version /\ version.nextSeq \in 1 .. nextSeq /\ id \in Nat
      /\ Holds(version, live) /\ TiersOrdered(version, live)
      /\ \A i \in ReferencedIds(version) : live[i] \in Named
  BY <1>1, CurrentView
<1>3. nextSeq \in Nat \ {0} /\ version.nextSeq \in Nat \ {0}
  BY <1>2, DbAssumption DEF DataInv, ClockOK, Clocks
<1>4. tier \in DOMAIN version.tiers
  BY <1>1, <1>2, TierPicked
<1>5. tier \in Nat /\ tier + 1 \in Nat /\ DOMAIN version.tiers \subseteq Nat
  BY <1>2, <1>4 DEF Version
<1> HIDE DEF tier
<1>6. output \in TablesBelow(version.nextSeq)
  BY <1>2, <1>3, <1>4, CompactionBelow
<1>7. \A k \in Keys : \/ output[k] = Absent
                      \/ \E i \in DOMAIN version.tiers[tier] :
                           output[k] = live[version.tiers[tier][i]][k]
  BY <1>2, <1>3, <1>4, CompactionEntries
<1> HIDE DEF output
<1>8. output \in TablesBelow(nextSeq)
  BY <1>2, <1>3, <1>6, BelowMonotone
<1>9. /\ next \in Version /\ next.nextSeq = version.nextSeq
      /\ ReferencedIds(next) \subseteq ReferencedIds(version) \cup {id}
  <2>1. /\ Cleared(version, tier) \in Version /\ Cleared(version, tier).nextSeq = version.nextSeq
        /\ ReferencedIds(Cleared(version, tier)) \subseteq ReferencedIds(version)
    BY <1>2, <1>4, ClearedVersion
  <2>2. /\ Compacted(version, tier, id) \in Version
        /\ Compacted(version, tier, id).nextSeq = version.nextSeq
        /\ ReferencedIds(Compacted(version, tier, id)) \subseteq ReferencedIds(version) \cup {id}
    BY <1>2, <1>4, CompactedVersion
  <2> QED
    BY <2>1, <2>2
<1>10. Replaces(version, next, tier, tier + 1, id)
  BY <1>2, <1>4, ClearedSlots, CompactedSlots
<1> HIDE DEF next
<1>11. next.nextSeq <= nextSeq
  BY <1>2, <1>3, <1>9
<1>12. frozen = <<>>
  BY <1>1 DEF DataInv, BufferOK, BufferDrained
<1>13. \A i \in DOMAIN version.tiers[tier] : live[version.tiers[tier][i]] \in Stored
  BY <1>2, <1>4, TierIds DEF Stored
<1>14. \A k \in Keys : output[k] = Absent \/ \E table \in Stored : output[k] = table[k]
  BY <1>7, <1>13
<1>15. ASSUME NEW files, files[id] = output,
              \A i \in ReferencedIds(version) : files[i] = live[i]
       PROVE  TiersOrdered(next, files)
  <2>1. TiersOrdered(version, files)
    BY <1>2, <1>15, TiersSame
  <2>2. \A t \in DOMAIN version.tiers : \A i \in DOMAIN version.tiers[t] :
          files[version.tiers[t][i]] = live[version.tiers[t][i]]
    BY <1>2, <1>15, TierIds
  <2>3. ASSUME NEW t \in DOMAIN version.tiers, NEW i \in DOMAIN version.tiers[t], t # tier
        PROVE  /\ t >= tier + 1 => TableOver(files[id], files[version.tiers[t][i]])
               /\ t < tier + 1 => TableOver(files[version.tiers[t][i]], files[id])
    <3> DEFINE old == files[version.tiers[t][i]]
    <3>1. \A j \in DOMAIN version.tiers[tier] :
            /\ t > tier => TableOver(files[version.tiers[tier][j]], old)
            /\ t < tier => TableOver(old, files[version.tiers[tier][j]])
      BY <1>4, <1>5, <2>1 DEF TiersOrdered
    <3>2. \A k \in Keys : \/ output[k] = Absent
                          \/ \E j \in DOMAIN version.tiers[tier] :
                               output[k] = files[version.tiers[tier][j]][k]
      BY <1>4, <1>7, <2>2
    <3>3. \A k \in Keys : old[k].seq \in Nat
      <4>1. old \in TablesBelow(version.nextSeq)
        BY <1>2, <2>2, TierIds DEF Holds
      <4> QED
        BY <1>3, <4>1, BelowFacts DEF TablesBelow
    <3> HIDE DEF old
    <3>4. CASE t > tier
      <4>1. TableOver(output, old)
        BY <3>1, <3>2, <3>4 DEF TableOver, Over
      <4> QED
        BY <1>5, <1>15, <3>4, <4>1 DEF old
    <3>5. CASE t < tier
      <4>1. TableOver(old, output)
        BY <3>1, <3>2, <3>3, <3>5 DEF TableOver, Over, Absent
      <4> QED
        BY <1>5, <1>15, <3>5, <4>1 DEF old
    <3> QED
      BY <1>5, <2>3, <3>4, <3>5
  <2> QED
    BY <1>2, <1>5, <1>9, <1>10, <2>1, <2>3, OrderReplaced
<1>16. \A i \in DOMAIN frozen : TableOver(frozen[i], output)
  BY <1>12
<1> QED
  BY <1>1, <1>8, <1>9, <1>11, <1>14, <1>15, <1>16, TableOrder

\* Every step of the flush body.
LEMMA FlushOrder ==
  ASSUME DataInv, GateOK, OrderInv, FlushStep
  PROVE  OrderInv'
<1>1. ~RetireSpare /\ ~ResetErr
  BY Unspared DEF OrderInv, LogShape
<1> QED
  BY <1>1, FreezeOrder, FlushTableOrder, RenameOrder, SyncOrder, SwapOrder, GcOrder,
     DiscardOrder, ResetOrder, RetireOrder, ResetSyncOrder, CompactOrder, EndOrder DEF FlushStep

\* Readers change nothing that others see.
LEMMA ReaderOrder ==
  ASSUME DataInv, OrderInv, NEW r \in Readers, ReaderStep(r)
  PROVE  OrderInv'
<1>1. up /\ UNCHANGED <<gateVars, up, nextSeq, op, memVars, diskVars, version, flush>>
  BY DEF ReaderStep, ReadStart, ReadMem, ReadPin, ReadTables, ReadReturn
<1>2. CallsKept
  BY <1>1 DEF CallsKept, gateVars, Gate!Claimed
<1> QED
  BY <1>1, <1>2, QuietStep DEF DataInv, memVars, diskVars

-----------------------------------------------------------------------------
\* The segments of the log, and the tables, as DataInv types them.
LEMMA LogTyped ==
  ASSUME DataInv
  PROVE  LogSegs \subseteq Segment
<1>1. /\ wal.segs \in Seq(Segment) /\ wal.old \in Seq(Segment) /\ wal.gone \in Seq(Segment)
  BY DEF DataInv, LogOK, Log
<1>2. ASSUME NEW s \in Seq(Segment) PROVE ToSet(s) \subseteq Segment
  BY DEF ToSet
<1> QED
  BY <1>1, <1>2 DEF LogSegs

\* The seqs of stored tables are numbers.
LEMMA StoredTyped ==
  ASSUME DataInv, NEW table \in Stored, NEW k \in Keys
  PROVE  table[k].seq \in Nat
<1>1. CASE table \in ToSet(frozen)
  <2>1. nextSeq \in Nat \ {0} /\ table \in TablesBelow(nextSeq)
    BY <1>1, DbAssumption DEF DataInv, ClockOK, Clocks, BufferOK, ToSet
  <2> QED
    BY <2>1, BelowFacts DEF TablesBelow
<1>2. CASE table \in Named
  <2>1. PICK w \in Views : \E id \in ReferencedIds(w.v) : table = w.files[id]
    BY <1>2 DEF Named
  <2>2. w.v \in Version /\ Holds(w.v, w.files)
    BY DEF Views, DataInv, FilesOK, View
  <2>3. table \in TablesBelow(w.v.nextSeq) /\ w.v.nextSeq \in Nat
    BY <2>1, <2>2 DEF Holds, Version
  <2>4. table[k] \in Entry \cup {Absent}
    BY <2>3 DEF TablesBelow, Below
  <2> QED
    BY <2>4 DEF Entry, Absent
<1> QED
  BY <1>1, <1>2 DEF Stored

\* What a barrier covered is in the log; in a log synced to its end all of it is.
LEMMA SyncedLogged ==
  ASSUME NEW segs \in SUBSET Segment, NEW k \in Keys
  PROVE  /\ SyncedSeqs(segs, k) \subseteq LoggedSeqs(segs, k)
         /\ (\A seg \in segs : seg.synced = Len(seg.recs))
            => LoggedSeqs(segs, k) \subseteq SyncedSeqs(segs, k)
<1>1. \A seg \in segs : 1 .. seg.synced \subseteq 1 .. Len(seg.recs)
  <2> SUFFICES ASSUME NEW seg \in segs PROVE 1 .. seg.synced \subseteq 1 .. Len(seg.recs)
    OBVIOUS
  <2> DEFINE a == seg.synced
             b == Len(seg.recs)
  <2>1. seg.recs \in Seq(Payloads) /\ a \in Nat /\ a <= b
    BY DEF Segment
  <2>2. b \in Nat
    BY <2>1
  <2> HIDE DEF a, b
  <2>3. 1 .. a \subseteq 1 .. b
    BY <2>1, <2>2
  <2> QED
    BY <2>3 DEF a, b
<1> QED
  BY <1>1 DEF SyncedSeqs, LoggedSeqs

\* A torn segment keeps what its barrier covered and is synced to its end.
LEMMA TornKeeps ==
  ASSUME NEW seg \in Segment, NEW cut \in Torn(seg)
  PROVE  /\ cut.synced = Len(cut.recs)
         /\ \A i \in 1 .. Len(cut.recs) : i \in 1 .. Len(seg.recs) /\ cut.recs[i] = seg.recs[i]
         /\ \A i \in 1 .. seg.synced : i \in 1 .. cut.synced
<1>1. PICK n \in seg.synced .. Len(seg.recs) :
        cut = [recs |-> SubSeq(seg.recs, 1, n), synced |-> n]
  BY DEF Torn
<1> DEFINE recs == seg.recs
           a == seg.synced
<1>2. recs \in Seq(Payloads) /\ a \in Nat /\ Len(recs) \in Nat /\ n \in a .. Len(recs)
  BY DEF Segment
<1>3. cut.recs = SubSeq(recs, 1, n) /\ cut.synced = n
  BY <1>1
<1> HIDE DEF recs, a
<1>4. n \in Nat /\ n <= Len(recs) /\ a <= n
  BY <1>2
<1>5. /\ Len(SubSeq(recs, 1, n)) = n
      /\ \A i \in 1 .. n : i \in 1 .. Len(recs) /\ SubSeq(recs, 1, n)[i] = recs[i]
  BY <1>2, <1>4
<1>6. \A i \in 1 .. a : i \in 1 .. n
  BY <1>2, <1>4
<1> QED
  BY <1>3, <1>5, <1>6 DEF recs, a

\* So a power loss takes no synced record from the log and adds none.
LEMMA TornLog ==
  ASSUME NEW before \in SUBSET Segment, NEW after, NEW k \in Keys,
         \A cut \in after : \E seg \in before : cut \in Torn(seg),
         \A seg \in before : \E cut \in after : cut \in Torn(seg)
  PROVE  /\ LoggedSeqs(after, k) \subseteq LoggedSeqs(before, k)
         /\ SyncedSeqs(before, k) \subseteq SyncedSeqs(after, k)
         /\ \A cut \in after : cut.synced = Len(cut.recs)
<1>1. ASSUME NEW s \in LoggedSeqs(after, k) PROVE s \in LoggedSeqs(before, k)
  <2>1. s \in 1 .. MaxWrites /\ \E cut \in after : \E i \in 1 .. Len(cut.recs) :
          DecodeRecord(cut.recs[i]).key = k /\ DecodeRecord(cut.recs[i]).seq = s
    BY <1>1 DEF LoggedSeqs
  <2>2. PICK cut \in after : \E i \in 1 .. Len(cut.recs) :
          DecodeRecord(cut.recs[i]).key = k /\ DecodeRecord(cut.recs[i]).seq = s
    BY <2>1
  <2>3. PICK seg \in before : cut \in Torn(seg)
    OBVIOUS
  <2>4. \A i \in 1 .. Len(cut.recs) : i \in 1 .. Len(seg.recs) /\ cut.recs[i] = seg.recs[i]
    BY <2>3, TornKeeps
  <2> QED
    BY <2>1, <2>2, <2>4 DEF LoggedSeqs
<1>2. ASSUME NEW s \in SyncedSeqs(before, k) PROVE s \in SyncedSeqs(after, k)
  <2>1. s \in 1 .. MaxWrites /\ \E seg \in before : \E i \in 1 .. seg.synced :
          DecodeRecord(seg.recs[i]).key = k /\ DecodeRecord(seg.recs[i]).seq = s
    BY <1>2 DEF SyncedSeqs
  <2>2. PICK seg \in before : \E i \in 1 .. seg.synced :
          DecodeRecord(seg.recs[i]).key = k /\ DecodeRecord(seg.recs[i]).seq = s
    BY <2>1
  <2>3. PICK cut \in after : cut \in Torn(seg)
    OBVIOUS
  <2>4. /\ cut.synced = Len(cut.recs)
        /\ \A i \in 1 .. Len(cut.recs) : i \in 1 .. Len(seg.recs) /\ cut.recs[i] = seg.recs[i]
        /\ \A i \in 1 .. seg.synced : i \in 1 .. cut.synced
    BY <2>3, TornKeeps
  <2> QED
    BY <2>1, <2>2, <2>4 DEF SyncedSeqs
<1>3. \A cut \in after : cut.synced = Len(cut.recs)
  BY TornKeeps
<1> QED
  BY <1>1, <1>2, <1>3

\* A power loss: the log covers what the durable manifest names.
LEMMA PowerLossOrder ==
  ASSUME DataInv, OrderInv, PowerLoss
  PROVE  OrderInv' /\ ViewsKept /\ LogKept
<1> DEFINE front == wal.gone \o wal.old
           all == front \o wal.segs
           view == [live |-> dir.durable, durable |-> dir.durable]
<1>1. PICK image \in PowerImages : Die(image.segs, <<>>, view)
  BY Unspared DEF OrderInv, LogShape
<1>2. \A i \in DOMAIN all : image.segs[i] \in Torn(all[i])
  <2>1. PICK s \in {f \in [DOMAIN all -> UNION {Torn(all[i]) : i \in DOMAIN all}] :
                      \A i \in DOMAIN all : f[i] \in Torn(all[i])} :
          image = [segs |-> s, manifest |-> dir.durable.manifest, files |-> dir.durable.files]
    BY DEF PowerImages
  <2>2. image.segs = s
    BY <2>1
  <2> HIDE DEF all
  <2> QED
    BY <2>1, <2>2
<1>3. DOMAIN image.segs = DOMAIN all
  <2>1. PICK s \in {f \in [DOMAIN all -> UNION {Torn(all[i]) : i \in DOMAIN all}] :
                      \A i \in DOMAIN all : f[i] \in Torn(all[i])} :
          image = [segs |-> s, manifest |-> dir.durable.manifest, files |-> dir.durable.files]
    BY DEF PowerImages
  <2>2. image.segs = s
    BY <2>1
  <2> HIDE DEF all
  <2> QED
    BY <2>1, <2>2
<1>4. \A x : x \in ToSet(all) <=> x \in LogSegs
  <2>1. ASSUME NEW a \in Seq(Segment), NEW b \in Seq(Segment)
        PROVE  \A x : x \in ToSet(a \o b) <=> x \in ToSet(a) \/ x \in ToSet(b)
    BY <2>1, ConcatSet
  <2>2. wal.segs \in Seq(Segment) /\ wal.old \in Seq(Segment) /\ wal.gone \in Seq(Segment)
    BY DEF DataInv, LogOK, Log
  <2>3. front \in Seq(Segment)
    BY <2>2, ConcatType
  <2>4. \A x : x \in ToSet(front) <=> x \in ToSet(wal.gone) \/ x \in ToSet(wal.old)
    BY <2>1, <2>2
  <2> HIDE DEF front
  <2>5. \A x : x \in ToSet(all) <=> x \in ToSet(front) \/ x \in ToSet(wal.segs)
    BY <2>1, <2>2, <2>3
  <2> QED
    BY <2>4, <2>5 DEF LogSegs
<1> HIDE DEF all
<1>5. /\ up' = FALSE /\ active' = EmptyTable /\ frozen' = <<>>
      /\ wal' = [segs |-> image.segs, spare |-> <<>>, old |-> <<>>, gone |-> <<>>,
                 queue |-> <<>>]
      /\ dir' = view /\ flush' = NoFlush /\ pc' = [t \in Threads |-> "idle"]
  BY <1>1 DEF Die, Gate!Restart
<1>6. \A x : x \in LogSegs' <=> x \in ToSet(image.segs)
  <2>1. ToSet(<<>>) = {}
    BY DEF ToSet
  <2>2. wal'.segs = image.segs /\ wal'.old = <<>> /\ wal'.gone = <<>>
    BY <1>5
  <2> QED
    BY <2>1, <2>2 DEF LogSegs
<1>7. /\ \A cut \in LogSegs' : \E seg \in LogSegs : cut \in Torn(seg)
      /\ \A seg \in LogSegs : \E cut \in LogSegs' : cut \in Torn(seg)
  BY <1>2, <1>3, <1>4, <1>6 DEF ToSet
<1>8. LogKept /\ \A seg \in LogSegs' : seg.synced = Len(seg.recs)
  <2>1. LogSegs \in SUBSET Segment
    BY LogTyped
  <2> DEFINE before == LogSegs
             after == LogSegs'
  <2>2. \A k \in Keys : /\ LoggedSeqs(after, k) \subseteq LoggedSeqs(before, k)
                        /\ SyncedSeqs(before, k) \subseteq SyncedSeqs(after, k)
                        /\ \A cut \in after : cut.synced = Len(cut.recs)
    <3>1. /\ before \in SUBSET Segment
          /\ \A cut \in after : \E seg \in before : cut \in Torn(seg)
          /\ \A seg \in before : \E cut \in after : cut \in Torn(seg)
      BY <1>7, <2>1
    <3> HIDE DEF before, after
    <3> QED
      BY <3>1, TornLog
  <2> QED
    BY <2>2, KeysAssumption DEF LogKept
<1>9. flush'.stage = "none"
  BY <1>5, NoFlushFacts
<1>10. /\ dir'.live = dir.durable /\ dir'.durable = dir.durable
  BY <1>5
<1>11. ViewsKept
  <2>1. Views' \subseteq Views
    BY <1>5, <1>9, <1>10 DEF Views, Installing
  <2> QED
    BY <2>1 DEF ViewsKept
<1>12. FilesOrder' /\ Named' \subseteq Named
  BY <1>11, ViewsKeptOrder DEF OrderInv
<1>13. ToSet(<<>>) = {} /\ DOMAIN <<>> = {}
  BY DEF ToSet
<1>14. Stored' \subseteq Stored
  BY <1>5, <1>12, <1>13 DEF Stored
<1>15. \A k \in Keys : active'[k] = Absent
  BY <1>5 DEF EmptyTable
<1>16. ActiveLogged'
  BY <1>15 DEF ActiveLogged
<1>17. LogCovers'
  BY <1>8, <1>14 DEF OrderInv, LogCovers, LogKept
<1>18. MemOrder'
  BY <1>5, <1>13, <1>15 DEF MemOrder, TableOver, Over
<1>19. ClaimsFresh'
  BY <1>5 DEF ClaimsFresh, Gate!Claimed
<1>20. LogShape'
  <2>1. wal'.queue = <<>> /\ wal'.old = <<>> /\ wal'.gone = <<>>
    BY <1>5
  <2> QED
    BY <1>5, <1>8, <1>9, <1>10, <2>1 DEF OrderInv, LogShape
<1> QED
  BY <1>8, <1>11, <1>12, <1>16, <1>17, <1>18, <1>19, <1>20 DEF OrderInv

\* What a recovery replays is synced, and above everything the manifest names.
LEMMA RecoveredOver ==
  ASSUME DataInv, OrderInv, ~up
  PROVE  /\ \A k \in Keys : Replay(Records(wal.segs))[k] # Absent =>
              Replay(Records(wal.segs))[k].seq \in SyncedSeqs(LogSegs, k)
         /\ \A table \in Stored : TableOver(Replay(Records(wal.segs)), table)
<1> DEFINE replayed == Replay(Records(wal.segs))
<1>1. wal.segs \in Seq(Segment) /\ flush.stage = "none"
  BY DEF DataInv, LogOK, Log, ClockOK
<1>2. LogSegs = ToSet(wal.segs)
  BY <1>1, LiveLog DEF OrderInv
<1>3. \A k \in Keys :
        /\ SyncedSeqs(LogSegs, k) \subseteq LoggedSeqs(LogSegs, k)
        /\ LoggedSeqs(LogSegs, k) \subseteq SyncedSeqs(LogSegs, k)
  <2>1. LogSegs \in SUBSET Segment /\ \A seg \in LogSegs : seg.synced = Len(seg.recs)
    BY LogTyped DEF OrderInv, LogShape
  <2> HIDE DEF LogSegs
  <2> QED
    BY <2>1, SyncedLogged
<1>4. \A k \in Keys :
        /\ \A s \in LoggedSeqs(LogSegs, k) : replayed[k].seq >= s
        /\ replayed[k] = Absent \/ replayed[k].seq \in LoggedSeqs(LogSegs, k)
  BY <1>1, <1>2, RecoveredTable
<1> HIDE DEF replayed
<1>5. ASSUME NEW table \in Stored, NEW k \in Keys, replayed[k] # Absent
      PROVE  replayed[k].seq >= table[k].seq
  <2> DEFINE s == replayed[k].seq
  <2>1. s \in LoggedSeqs(LogSegs, k)
    BY <1>4, <1>5
  <2>2. s \in Nat /\ table[k].seq \in Nat
    BY <2>1, StoredTyped, DbAssumption DEF LoggedSeqs
  <2>3. \/ s >= table[k].seq
        \/ \E q \in SyncedSeqs(LogSegs, k) : q >= table[k].seq
    BY <2>1 DEF OrderInv, LogCovers
  <2>4. ASSUME NEW q \in SyncedSeqs(LogSegs, k), q >= table[k].seq
        PROVE  s >= table[k].seq
    <3>1. s >= q /\ q \in Nat
      BY <1>3, <1>4, DbAssumption DEF SyncedSeqs
    <3> HIDE DEF s
    <3> QED
      BY <2>2, <2>4, <3>1
  <2> QED
    BY <2>3, <2>4
<1>6. \A table \in Stored : TableOver(replayed, table)
  BY <1>5 DEF TableOver, Over
<1>7. \A k \in Keys : replayed[k] # Absent => replayed[k].seq \in SyncedSeqs(LogSegs, k)
  BY <1>3, <1>4
<1> QED
  BY <1>6, <1>7 DEF replayed

\* Recovery: what is replayed is above everything the manifest names.
LEMMA OpenOrder ==
  ASSUME DataInv, OrderInv, Open
  PROVE  OrderInv' /\ ViewsKept /\ LogSegs' = LogSegs /\ LogSegs = ToSet(wal.segs)
<1> DEFINE recs == Records(wal.segs)
           clock == RecoveredSeq(dir.live.manifest, recs)
<1>1. /\ ~up /\ up' = TRUE /\ version' = dir.live.manifest /\ active' = Replay(recs)
      /\ nextSeq' = clock
      /\ wal' = [wal EXCEPT !.segs = IF @ = <<>> THEN <<NewSegment>> ELSE @]
      /\ UNCHANGED <<gateVars, op, frozen, dir, flush>>
  BY DEF Open
<1>2. /\ wal \in [segs : Seq(Segment), spare : Seq(Segment), old : Seq(Segment),
                  gone : Seq(Segment), queue : Seq(Payloads)]
      /\ wal.segs # <<>>
  BY Unspared DEF DataInv, LogOK, Log, OrderInv, LogShape
<1>3. wal' = wal
  BY <1>1, <1>2
<1>4. flush.stage = "none" /\ \A t \in Threads : pc'[t] = "idle"
  BY <1>1 DEF DataInv, ClockOK, gateVars
<1>5. LogSegs' = LogSegs /\ LogKept /\ LogSegs = ToSet(wal.segs)
  BY <1>3, <1>4, LogSame, LiveLog DEF LogSegs, OrderInv
<1>6. Views' \subseteq Views
  BY <1>1, <1>4 DEF Views, Installing
<1>7. ViewsKept
  BY <1>6 DEF ViewsKept
<1>8. FilesOrder' /\ Named' \subseteq Named /\ Stored' \subseteq Stored
  BY <1>1, <1>7, ViewsKeptOrder DEF OrderInv, Stored
<1>9. LogCovers'
  BY <1>5, <1>8 DEF OrderInv, LogCovers
<1>10. \A k \in Keys : active'[k] # Absent => active'[k].seq \in SyncedSeqs(LogSegs, k)
  BY <1>1, RecoveredOver
<1>11. \A table \in Stored : TableOver(active', table)
  BY <1>1, RecoveredOver
<1>12. ActiveLogged'
  BY <1>5, <1>10 DEF ActiveLogged
<1>13. MemOrder'
  BY <1>1, <1>8, <1>11 DEF OrderInv, MemOrder
<1>14. ClaimsFresh'
  <2>1. recs \in Seq({r \in Rec : r.seq <= MaxWrites})
    BY <1>2, RecordsType
  <2>2. dir.live.manifest \in Version /\ dir.live.manifest.nextSeq \in Clocks
    BY DEF DataInv, FilesOK, View
  <2> HIDE DEF recs
  <2>3. dir.live.manifest.nextSeq <= clock
    BY <2>1, <2>2, RecoveredClock
  <2> HIDE DEF clock
  <2>4. dir.live = dir.durable
    BY <1>1 DEF OrderInv, LogShape
  <2>5. \A w \in Views' : w.v = dir.live.manifest
    BY <1>1, <1>4, <2>4 DEF Views, Installing
  <2>6. \A w \in Views' : w.v.nextSeq <= nextSeq'
    BY <1>1, <2>3, <2>5
  <2> QED
    BY <1>4, <2>6 DEF ClaimsFresh, Gate!Claimed
<1>15. LogShape'
  BY <1>1, <1>3, <1>4, ShapeSame DEF OrderInv
<1> QED
  BY <1>5, <1>7, <1>8, <1>9, <1>12, <1>13, <1>14, <1>15 DEF OrderInv

\* A freshly created database.
LEMMA InitOrder == KeepsOrder /\ Init => OrderInv
<1> SUFFICES ASSUME KeepsOrder, Init PROVE OrderInv
  OBVIOUS
<1>1. /\ up = TRUE /\ nextSeq = 1 /\ active = EmptyTable /\ frozen = <<>> /\ wal = NoLog
      /\ dir = [live |-> NoFiles, durable |-> NoFiles] /\ version = EmptyVersion
      /\ flush = NoFlush /\ pc = [t \in Threads |-> "idle"]
  BY DEF Init, Gate!Init
<1>2. /\ wal.segs = <<NewSegment>> /\ wal.old = <<>> /\ wal.gone = <<>> /\ wal.queue = <<>>
  BY <1>1 DEF NoLog
<1>3. flush.stage = "none"
  BY <1>1, NoFlushFacts
<1>4. \A w \in Views : w.v = EmptyVersion
  BY <1>1, <1>3 DEF Views, Installing, NoFiles
<1>5. ReferencedIds(EmptyVersion) = {} /\ EmptyVersion.nextSeq = 1 /\ EmptyVersion.tiers = <<>>
  BY DEF ReferencedIds, EmptyVersion
<1>6. Named = {}
  BY <1>4, <1>5 DEF Named
<1>7. ToSet(<<>>) = {} /\ DOMAIN <<>> = {}
  BY DEF ToSet
<1>8. Stored = {}
  BY <1>1, <1>6, <1>7 DEF Stored
<1>9. LogShape
  BY <1>1, <1>2, <1>3 DEF KeepsOrder, LogShape
<1>10. ClaimsFresh
  BY <1>1, <1>4, <1>5, <1>8 DEF ClaimsFresh
<1>11. ActiveLogged
  BY <1>1 DEF ActiveLogged, EmptyTable
<1>12. LogCovers /\ MemOrder
  BY <1>1, <1>6, <1>7, <1>8 DEF LogCovers, MemOrder
<1>13. FilesOrder
  BY <1>4, <1>5, <1>7 DEF FilesOrder, TiersOrdered
<1> QED
  BY <1>9, <1>10, <1>11, <1>12, <1>13 DEF OrderInv

(***************************************************************************)
(* The order invariant holds in every behaviour of Db under KeepsOrder.    *)
(***************************************************************************)
THEOREM DbOrderInductive == KeepsOrder => (Spec => []OrderInv)
<1> SUFFICES ASSUME KeepsOrder PROVE Spec => []OrderInv
  OBVIOUS
<1>1. DataInv /\ GateOK /\ OrderInv /\ [Next]_vars => OrderInv'
  <2> SUFFICES ASSUME DataInv, GateOK, OrderInv, [Next]_vars PROVE OrderInv'
    OBVIOUS
  <2>1. CASE UNCHANGED vars
    <3>1. /\ UNCHANGED <<gateVars, up, nextSeq, op, active, frozen>>
          /\ UNCHANGED <<wal, dir, version, flush>>
      BY <2>1 DEF vars, memVars, diskVars
    <3>2. ViewsKept /\ LogKept
      BY <3>1, ViewsSame, LogSame
    <3>3. LogShape'
      BY <3>1 DEF OrderInv, LogShape, LogSegs
    <3> QED
      BY <3>1, <3>2, <3>3, BodyOrder
  <2>2. ~Kill
    BY DEF KeepsOrder, Kill, Fault
  <2>3. CASE SyncLog
    BY <2>3, SyncLogOrder
  <2> QED
    BY <2>1, <2>2, <2>3, WriterOrder, FlushOrder, ReaderOrder, PowerLossOrder, OpenOrder
       DEF Next
<1> QED
  BY <1>1, InitOrder, DbDataInductive, DbGateOK, PTL DEF Spec

-----------------------------------------------------------------------------
\* Sources in the order of their seqs.
Ordered(sources) ==
  \A i, j \in DOMAIN sources : i < j => TableOver(sources[i], sources[j])

\* A concatenation is in order when its parts are, and each to each other.
LEMMA ConcatOrdered ==
  ASSUME NEW S, NEW a \in Seq(S), NEW b \in Seq(S), Ordered(a), Ordered(b),
         \A i \in DOMAIN a, j \in DOMAIN b : TableOver(a[i], b[j])
  PROVE  Ordered(a \o b)
<1> DEFINE c == a \o b
           m == Len(a)
<1>1. c \in Seq(S) /\ Len(c) = m + Len(b)
  BY ConcatType
<1>2. /\ \A i \in 1 .. m : c[i] = a[i]
      /\ \A i \in 1 .. Len(c) : i > m => i - m \in 1 .. Len(b) /\ c[i] = b[i - m]
  BY ConcatIndex
<1> HIDE DEF c
<1>3. /\ m \in Nat /\ Len(b) \in Nat /\ Len(c) \in Nat
      /\ DOMAIN a = 1 .. m /\ DOMAIN b = 1 .. Len(b) /\ DOMAIN c = 1 .. Len(c)
  BY <1>1
<1> HIDE DEF m
<1> SUFFICES ASSUME NEW i \in 1 .. Len(c), NEW j \in 1 .. Len(c), i < j
             PROVE  TableOver(c[i], c[j])
  BY <1>3 DEF Ordered, c
<1>4. CASE j <= m
  <2>1. i \in 1 .. m /\ j \in 1 .. m
    BY <1>3, <1>4
  <2> QED
    BY <1>2, <1>3, <2>1 DEF Ordered
<1>5. CASE i <= m /\ j > m
  <2>1. i \in 1 .. m /\ j - m \in 1 .. Len(b)
    BY <1>2, <1>3, <1>5
  <2>2. TableOver(a[i], b[j - m])
    BY <1>3, <2>1
  <2> QED
    BY <1>2, <1>5, <2>1, <2>2
<1>6. CASE i > m /\ j > m
  <2>1. i - m \in 1 .. Len(b) /\ j - m \in 1 .. Len(b) /\ i - m < j - m
    BY <1>2, <1>3, <1>6
  <2>2. TableOver(b[i - m], b[j - m])
    BY <1>3, <2>1 DEF Ordered
  <2> QED
    BY <1>2, <1>6, <2>2
<1> QED
  BY <1>3, <1>4, <1>5, <1>6

\* tables_newest_first probes a version's tables from the newest to the oldest.
LEMMA TablesOrdered ==
  ASSUME NEW v \in Version, NEW files, TiersOrdered(v, files)
  PROVE  Ordered(TableSources(v, files))
<1> DEFINE tiers == v.tiers
           rev == [t \in DOMAIN tiers |-> Reverse(tiers[t])]
           ids == FlattenSeq(rev)
           n == Len(tiers)
<1>1. tiers \in Seq(Seq(Nat))
  BY DEF Version
<1> HIDE DEF tiers
<1>2. n \in Nat /\ DOMAIN tiers = 1 .. n /\ \A t \in 1 .. n : tiers[t] \in Seq(Nat)
  BY <1>1
<1>3. \A t \in 1 .. n : rev[t] = Reverse(tiers[t]) /\ rev[t] \in Seq(Nat)
  BY <1>2, ReverseType
<1>4. rev \in Seq(Seq(Nat)) /\ Len(rev) = n
  <2>1. DOMAIN rev = 1 .. n /\ rev = [t \in 1 .. n |-> rev[t]]
    BY <1>2
  <2> DEFINE out == Seq(Nat)
  <2>2. \A t \in 1 .. n : rev[t] \in out
    BY <1>3
  <2> HIDE DEF rev, n, out
  <2>3. rev \in Seq(out) /\ Len(rev) = n
    BY <1>2, <2>1, <2>2
  <2> QED
    BY <2>3 DEF out
<1>5. \A t \in 1 .. n : \A a \in 1 .. Len(rev[t]) :
        /\ (Len(tiers[t]) - a) + 1 \in DOMAIN tiers[t]
        /\ rev[t][a] = tiers[t][(Len(tiers[t]) - a) + 1]
        /\ Len(tiers[t]) \in Nat /\ a \in Nat
  <2> SUFFICES ASSUME NEW t \in 1 .. n, NEW a \in 1 .. Len(rev[t])
               PROVE  /\ (Len(tiers[t]) - a) + 1 \in DOMAIN tiers[t]
                      /\ rev[t][a] = tiers[t][(Len(tiers[t]) - a) + 1]
                      /\ Len(tiers[t]) \in Nat /\ a \in Nat
    OBVIOUS
  <2> DEFINE tier == tiers[t]
  <2>1. tier \in Seq(Nat) /\ rev[t] = Reverse(tier)
    BY <1>2, <1>3
  <2> HIDE DEF tier, rev, n
  <2>2. a \in 1 .. Len(tier)
    BY <2>1, ReverseType
  <2>3. /\ (Len(tier) - a) + 1 \in DOMAIN tier /\ Len(tier) \in Nat /\ a \in Nat
        /\ Reverse(tier)[a] = tier[(Len(tier) - a) + 1]
    BY <2>1, <2>2 DEF Reverse
  <2> QED
    BY <2>1, <2>3 DEF tier
<1> HIDE DEF rev
<1>6. InOrder(ids, rev, n) /\ ids \in Seq(Nat)
  BY <1>4, FlattenElements, FlattenType
<1>7. TableSources(v, files) = [i \in DOMAIN ids |-> files[ids[i]]]
  BY DEF TableSources, TablesNewestFirst, rev, tiers
<1> HIDE DEF ids
<1> SUFFICES ASSUME NEW i \in 1 .. Len(ids), NEW j \in 1 .. Len(ids), i < j
             PROVE  TableOver(files[ids[i]], files[ids[j]])
  BY <1>6, <1>7, SMTT(30) DEF Ordered
<1>8. PICK t \in 1 .. n, u \in 1 .. n : \E a \in 1 .. Len(rev[t]), b \in 1 .. Len(rev[u]) :
        /\ ids[i] = rev[t][a] /\ ids[j] = rev[u][b]
        /\ t < u \/ (t = u /\ a < b)
  BY <1>6 DEF InOrder
<1>9. PICK a \in 1 .. Len(rev[t]), b \in 1 .. Len(rev[u]) :
        /\ ids[i] = rev[t][a] /\ ids[j] = rev[u][b]
        /\ t < u \/ (t = u /\ a < b)
  BY <1>8
<1> DEFINE x == (Len(tiers[t]) - a) + 1
           y == (Len(tiers[u]) - b) + 1
<1>10. /\ x \in DOMAIN tiers[t] /\ y \in DOMAIN tiers[u]
       /\ ids[i] = tiers[t][x] /\ ids[j] = tiers[u][y]
       /\ t = u /\ a < b => x > y
  <2>1. /\ x \in DOMAIN tiers[t] /\ rev[t][a] = tiers[t][x]
        /\ Len(tiers[t]) \in Nat /\ a \in Nat
    BY <1>5
  <2>2. /\ y \in DOMAIN tiers[u] /\ rev[u][b] = tiers[u][y]
        /\ Len(tiers[u]) \in Nat /\ b \in Nat
    BY <1>5
  <2>3. t = u /\ a < b => x > y
    BY <2>1, <2>2
  <2> QED
    BY <1>9, <2>1, <2>2, <2>3
<1> HIDE DEF x, y
<1>11. t < u \/ (t = u /\ x > y)
  BY <1>9, <1>10
<1>12. TableOver(files[tiers[t][x]], files[tiers[u][y]])
  BY <1>2, <1>10, <1>11 DEF TiersOrdered, tiers
<1> QED
  BY <1>10, <1>12

\* The sources of a lookup are tables, in order, in a running process ...
LEMMA LiveOrdered ==
  ASSUME DataInv, OrderInv, up
  PROVE  Ordered(LiveSources)
<1> DEFINE S == TablesBelow(nextSeq)
           mem == <<active>>
           rev == Reverse(frozen)
           ssts == TableSources(version, dir.live.files)
           n == Len(frozen)
<1>1. mem \in Seq(S) /\ frozen \in Seq(S) /\ rev \in Seq(S) /\ Len(rev) = Len(frozen)
  BY ReverseType DEF DataInv, BufferOK
<1>2. ssts \in Seq(S) /\ Ordered(ssts) /\ \A i \in DOMAIN ssts : ssts[i] \in Named
  <2>1. /\ version \in Version /\ version.nextSeq \in 1 .. nextSeq
        /\ Holds(version, dir.live.files) /\ TiersOrdered(version, dir.live.files)
        /\ \A id \in ReferencedIds(version) : dir.live.files[id] \in Named
    BY CurrentView
  <2>2. nextSeq \in Nat /\ version.nextSeq <= nextSeq
    BY <2>1, DbAssumption DEF DataInv, ClockOK, Clocks
  <2>3. ssts \in Seq(S) /\ Ordered(ssts)
    BY <2>1, <2>2, TableSourcesBelow, TablesOrdered
  <2> DEFINE ids == TablesNewestFirst(version)
  <2>4. ids \in Seq(ReferencedIds(version)) /\ ssts = [i \in DOMAIN ids |-> dir.live.files[ids[i]]]
    BY <2>1, NewestFirstIds DEF TableSources
  <2> HIDE DEF ids, ssts
  <2>5. \A i \in DOMAIN ssts : ssts[i] \in Named
    BY <2>1, <2>4
  <2> QED
    BY <2>3, <2>5
<1>3. \A i \in DOMAIN rev : /\ i \in 1 .. n /\ n \in Nat /\ (n - i) + 1 \in DOMAIN frozen
                            /\ rev[i] = frozen[(n - i) + 1]
  <2> HIDE DEF S
  <2> QED
    BY <1>1 DEF Reverse
<1>4. LiveSources = (mem \o rev) \o ssts
  BY DEF LiveSources, MemSources
<1>5. DOMAIN mem = {1} /\ mem[1] = active
  OBVIOUS
<1> HIDE DEF S, mem, rev, ssts, n
<1>6. Ordered(mem)
  BY <1>5 DEF Ordered
<1>7. Ordered(rev)
  <2> SUFFICES ASSUME NEW i \in DOMAIN rev, NEW j \in DOMAIN rev, i < j
               PROVE  TableOver(rev[i], rev[j])
    BY DEF Ordered
  <2>1. (n - j) + 1 < (n - i) + 1
    BY <1>3
  <2> QED
    BY <1>3, <2>1 DEF OrderInv, MemOrder
<1>8. \A i \in DOMAIN mem, j \in DOMAIN rev : TableOver(mem[i], rev[j])
  <2>1. \A j \in DOMAIN rev : rev[j] \in Stored
    BY <1>3 DEF Stored, ToSet
  <2> QED
    BY <1>5, <2>1 DEF OrderInv, MemOrder
<1> DEFINE front == mem \o rev
<1>9. Ordered(front) /\ front \in Seq(S)
  BY <1>1, <1>6, <1>7, <1>8, ConcatOrdered, ConcatType
<1>10. \A i \in DOMAIN front : front[i] = active \/ \E j \in DOMAIN frozen : front[i] = frozen[j]
  <2>1. /\ Len(mem) = 1 /\ DOMAIN rev = 1 .. Len(rev) /\ DOMAIN front = 1 .. Len(front)
        /\ Len(front) \in Nat
    BY <1>1, <1>9 DEF mem
  <2>2. /\ \A i \in 1 .. Len(mem) : front[i] = mem[i]
        /\ \A i \in 1 .. Len(front) : i > Len(mem) =>
             i - Len(mem) \in 1 .. Len(rev) /\ front[i] = rev[i - Len(mem)]
    BY <1>1, ConcatIndex
  <2> HIDE DEF front
  <2>3. \A i \in DOMAIN front : i = 1 \/ i > 1
    BY <2>1
  <2>4. \A i \in DOMAIN front : front[i] = mem[1] \/ \E j \in DOMAIN rev : front[i] = rev[j]
    BY <2>1, <2>2, <2>3
  <2> QED
    BY <1>3, <1>5, <2>4
<1>11. LiveSources = front \o ssts
  BY <1>4
<1> HIDE DEF front
<1>12. \A i \in DOMAIN front, j \in DOMAIN ssts : TableOver(front[i], ssts[j])
  <2>1. \A j \in DOMAIN ssts : ssts[j] \in Named /\ ssts[j] \in Stored
    BY <1>2 DEF Stored
  <2> QED
    BY <1>10, <2>1 DEF OrderInv, MemOrder
<1>13. Ordered(front \o ssts)
  BY <1>2, <1>9, <1>12, ConcatOrdered
<1> QED
  BY <1>11, <1>13

\* ... and after a power loss, for the process that will open the directory.
LEMMA ImageOrdered ==
  ASSUME DataInv, OrderInv, ~up
  PROVE  /\ Ordered(ImageSources(KillImage))
         /\ ImageSources(KillImage) \in Seq(TablesBelow(MaxWrites + 1))
<1> DEFINE S == TablesBelow(MaxWrites + 1)
           recs == Records(wal.segs)
           mem == <<Replay(recs)>>
           v == dir.live.manifest
           ssts == TableSources(v, dir.live.files)
<1>1. wal.segs \in Seq(Segment) /\ flush.stage = "none"
  BY DEF DataInv, LogOK, Log, ClockOK
<1>2. wal.old \o wal.segs = wal.segs
  <2>1. wal.old = <<>>
    BY <1>1 DEF OrderInv, LogShape
  <2> QED
    BY <1>1, <2>1
<1>3. ImageSources(KillImage) = mem \o ssts
  BY <1>2 DEF ImageSources, KillImage
<1>4. MaxWrites + 1 \in Nat \ {0}
  BY DbAssumption
<1>5. recs \in Seq({r \in Rec : r.seq <= MaxWrites})
  BY <1>1, RecordsType
<1>6. \A table \in Stored : TableOver(Replay(recs), table)
  BY RecoveredOver
<1>7. Replay(recs) \in S
  <2> HIDE DEF recs
  <2>1. recs \in Seq(Rec)
    BY <1>5
  <2>2. \A i \in DOMAIN recs : recs[i].seq < MaxWrites + 1
    <3>1. \A i \in DOMAIN recs : recs[i] \in Rec /\ recs[i].seq <= MaxWrites
      BY <1>5
    <3> QED
      BY <3>1, DbAssumption DEF Rec
  <2> QED
    BY <1>4, <2>1, <2>2, ReplayWeight
<1>8. ssts \in Seq(S) /\ Ordered(ssts) /\ \A i \in DOMAIN ssts : ssts[i] \in Stored
  <2> DEFINE w == [v |-> v, files |-> dir.live.files]
  <2>1. w \in Views /\ w.v = v /\ w.files = dir.live.files
    BY DEF Views
  <2>2. TiersOrdered(v, dir.live.files)
    BY <2>1 DEF OrderInv, FilesOrder
  <2> HIDE DEF w
  <2>3. \A id \in ReferencedIds(v) : dir.live.files[id] \in Stored
    BY <2>1 DEF Stored, Named
  <2>4. v \in Version /\ v.nextSeq \in Clocks /\ Holds(v, dir.live.files)
    BY DEF DataInv, FilesOK, View
  <2>5. v.nextSeq <= MaxWrites + 1
    BY <2>4, DbAssumption DEF Clocks
  <2>6. ssts \in Seq(S) /\ Ordered(ssts)
    BY <1>4, <2>2, <2>4, <2>5, TableSourcesBelow, TablesOrdered
  <2> DEFINE ids == TablesNewestFirst(v)
  <2>7. ids \in Seq(ReferencedIds(v)) /\ ssts = [i \in DOMAIN ids |-> dir.live.files[ids[i]]]
    BY <2>4, NewestFirstIds DEF TableSources
  <2> HIDE DEF ids, ssts
  <2>8. \A i \in DOMAIN ssts : ssts[i] \in Stored
    BY <2>3, <2>7
  <2> QED
    BY <2>6, <2>8
<1>9. mem \in Seq(S) /\ DOMAIN mem = {1} /\ mem[1] = Replay(recs)
  BY <1>7
<1> HIDE DEF S, recs, mem, ssts
<1>10. Ordered(mem)
  BY <1>9 DEF Ordered
<1>11. \A i \in DOMAIN mem, j \in DOMAIN ssts : TableOver(mem[i], ssts[j])
  BY <1>6, <1>8, <1>9
<1>12. Ordered(mem \o ssts) /\ mem \o ssts \in Seq(S)
  BY <1>8, <1>9, <1>10, <1>11, ConcatOrdered, ConcatType
<1> QED
  BY <1>3, <1>12 DEF S

\* Both cases, as the properties look at them.
LEMMA SourcesOrdered ==
  ASSUME DataInv, OrderInv
  PROVE  Ordered(Sources) /\ Sources \in Seq(TablesBelow(MaxWrites + 1))
<1>1. CASE up
  <2>1. Sources = LiveSources
    BY <1>1 DEF Sources
  <2>2. LiveSources \in Seq(TablesBelow(nextSeq))
    BY <1>1, LiveSourcesBelow
  <2>3. nextSeq \in Nat /\ MaxWrites + 1 \in Nat /\ nextSeq <= MaxWrites + 1
    BY DbAssumption DEF DataInv, ClockOK, Clocks
  <2> DEFINE A == TablesBelow(nextSeq)
             B == TablesBelow(MaxWrites + 1)
  <2>4. A \subseteq B /\ LiveSources \in Seq(A)
    BY <2>2, <2>3, BelowMonotone
  <2> HIDE DEF A, B
  <2>5. LiveSources \in Seq(B)
    BY <2>4
  <2> QED
    BY <1>1, <2>1, <2>5, LiveOrdered DEF B
<1>2. CASE ~up
  BY <1>2, ImageOrdered DEF Sources
<1> QED
  BY <1>1, <1>2

(***************************************************************************)
(* A point lookup probes its sources in the order of their sequence        *)
(* numbers (get and tables_newest_first, db.rs and manifest.rs): flushes,  *)
(* compactions into the next tier, WAL replay over tables that are already *)
(* flushed and writes in flight keep it, for every sequence of power       *)
(* losses and, under Always, of failing storage operations of append and   *)
(* of flush bodies, those of Wal::reset after its create excepted.         *)
(***************************************************************************)
THEOREM DbSeqOrder == KeepsOrder => (Spec => []SeqOrder)
<1>1. DataInv /\ OrderInv => SeqOrder
  <2> SUFFICES ASSUME DataInv, OrderInv PROVE SeqOrder
    OBVIOUS
  <2>1. Ordered(Sources)
    BY SourcesOrdered
  <2> QED
    BY <2>1 DEF SeqOrder, Ordered, TableOver, Over
<1> SUFFICES ASSUME KeepsOrder PROVE Spec => []SeqOrder
  OBVIOUS
<1>2. Spec => []OrderInv
  BY DbOrderInductive
<1> QED
  BY <1>1, <1>2, DbDataInductive, PTL

(***************************************************************************)
(* So get, which stops at its first hit, and scan, which merges all        *)
(* sources by sequence number, never disagree about a key, under the       *)
(* faults of KeepsOrder.                                                   *)
(***************************************************************************)
THEOREM DbGetScanAgree == KeepsOrder => (Spec => []GetScanAgree)
<1>1. DataInv /\ OrderInv => GetScanAgree
  <2> SUFFICES ASSUME DataInv, OrderInv, NEW k \in Keys
               PROVE  Value(FirstHit(Sources, k)) = Value(Newest(Sources, k))
    BY DEF GetScanAgree
  <2>1. Ordered(Sources) /\ Sources \in Seq(TablesBelow(MaxWrites + 1))
    BY SourcesOrdered
  <2>2. \A i, j \in DOMAIN Sources :
          i < j /\ Sources[i][k] # Absent => Sources[i][k].seq >= Sources[j][k].seq
    BY <2>1 DEF Ordered, TableOver, Over
  <2>3. MaxWrites + 1 \in Nat \ {0}
    BY DbAssumption
  <2>4. FirstHit(Sources, k) = Newest(Sources, k)
    BY <2>1, <2>2, <2>3, FirstHitNewest
  <2> QED
    BY <2>4
<1> SUFFICES ASSUME KeepsOrder PROVE Spec => []GetScanAgree
  OBVIOUS
<1>2. Spec => []OrderInv
  BY DbOrderInductive
<1> QED
  BY <1>1, <1>2, DbDataInductive, PTL

-----------------------------------------------------------------------------
(***************************************************************************)
(* Zero acked-write loss, for any keys, threads, readers and bounds, under *)
(* the faults that keep the order of the sources (KeepsOrder).             *)
(***************************************************************************)

\* Threads whose write is in the memtable and has not returned yet.
Applied == {t \in Threads : pc[t] \in {"finish", "quiesce", "body"} /\ op[t] # NoOp}

\* The seqs of k that no failure may undo: acked, or about to be.
InEffect(k) ==
  ({acked[k]} \cup {op[t].seq : t \in {u \in Applied : op[u].key = k}}) \ {0}

\* The seqs of k a running process has in memory, and those recovery will have.
MemSeqs(k) == {active[k].seq} \cup {frozen[i][k].seq : i \in DOMAIN frozen}
Held(k) == IF up THEN MemSeqs(k) ELSE SyncedSeqs(LogSegs, k)

(***************************************************************************)
(* The write s of k is kept by the memory and a version together: one of   *)
(* them has an entry at least as new, or neither has any, a delete at      *)
(* least as new took effect, and replay can bring back nothing older.      *)
(***************************************************************************)
Kept(w, k, s) ==
  \/ \E q \in Held(k) : q >= s
  \/ \E id \in ReferencedIds(w.v) : w.files[id][k].seq >= s
  \/ /\ erased[k] >= s /\ s < w.v.nextSeq
     /\ \A id \in ReferencedIds(w.v) : w.files[id][k] = Absent
     /\ \A q \in LoggedSeqs(LogSegs, k) : q >= s

Settled == \A w \in Views : \A k \in Keys : \A s \in InEffect(k) : Kept(w, k, s)

\* A thread that has no write in progress carries no record.
HistoryOK ==
  /\ acked \in [Keys -> Nat] /\ erased \in [Keys -> Nat]
  /\ \A t \in Threads : pc[t] \in {"idle", "claim"} => op[t] = NoOp
  /\ up => \A k \in Keys : \A s \in InEffect(k) : s < nextSeq

\* A claimed write is newer than what is in effect, or loses to the memtable.
ClaimsLater ==
  \A k \in Keys : \A t \in Gate!Claimed : \A s \in InEffect(k) :
    op[t].key = k => s < op[t].seq \/ active[k].seq >= s

\* What waits for its flush is in the synced part of the log ...
FrozenLogged ==
  \A i \in DOMAIN frozen : \A k \in Keys :
    frozen[i][k] # Absent => frozen[i][k].seq \in SyncedSeqs(LogSegs, k)

\* ... which is empty when tables are compacted ...
LogDrained ==
  (flush.stage = "compact" \/ (flush.stage \in Installing \cup Collecting
                               /\ flush.after = "compact"))
    => \A k \in Keys : LoggedSeqs(LogSegs, k) = {}

\* ... and it is discarded when every version that may be read has its table.
HasHead(v, files) == \E id \in ReferencedIds(v) : files[id] = Head(frozen)
HeadFlushed ==
  /\ flush.stage \in Installing /\ flush.after = "discard" =>
       HasHead(flush.next, dir.live.files)
  /\ flush.stage = "swap" /\ flush.after = "discard" =>
       HasHead(dir.durable.manifest, dir.durable.files)
  /\ flush.stage = "discard" \/ (flush.stage \in Collecting /\ flush.after = "discard") =>
       \A w \in Views : HasHead(w.v, w.files)

\* A tombstone in a table stands for a delete that took effect.
Erasing(table) == \A k \in Keys : table[k].kind = "Tombstone" => table[k].seq <= erased[k]
ErasedCovers == \A table \in {active} \cup Stored : Erasing(table)

AckedInv ==
  /\ HistoryOK /\ ClaimsLater /\ FrozenLogged /\ LogDrained /\ HeadFlushed /\ ErasedCovers
  /\ Settled

-----------------------------------------------------------------------------
\* A step that puts no write into effect, keeps what is held in memory or will be
\* recovered, and logs nothing.
EffectKept == \A k \in Keys : InEffect(k)' \subseteq InEffect(k)
HeldKept ==
  \A k \in Keys : \A s \in Nat \ {0} :
    (\E q \in Held(k) : q >= s) => \E q \in Held(k)' : q >= s
LogShrinks == \A k \in Keys : LoggedSeqs(LogSegs', k) \subseteq LoggedSeqs(LogSegs, k)
ErasedGrows == \A k \in Keys : erased'[k] \in Nat /\ erased'[k] >= erased[k]
ClaimsSame == \A t \in Gate!Claimed' : t \in Gate!Claimed /\ op'[t] = op[t]

\* What is in effect is a sequence number.
LEMMA EffectTyped ==
  ASSUME OpsOK, HistoryOK, NEW k \in Keys
  PROVE  InEffect(k) \subseteq Nat \ {0}
<1>1. acked[k] \in Nat
  BY DEF HistoryOK
<1>2. \A t \in Threads : op[t].seq \in Nat
  BY DEF OpsOK, Rec, NoOp
<1> QED
  BY <1>1, <1>2 DEF InEffect, Applied

\* Such a step loses no write.
LEMMA SettledKept ==
  ASSUME OpsOK, HistoryOK, Settled, ViewsKept, EffectKept, HeldKept, LogShrinks, ErasedGrows
  PROVE  Settled'
<1> SUFFICES ASSUME NEW w \in Views', NEW k \in Keys, NEW s \in InEffect(k)'
             PROVE  Kept(w, k, s)'
  BY DEF Settled
<1>1. PICK u \in Views : w.v = u.v /\ \A id \in ReferencedIds(u.v) : w.files[id] = u.files[id]
  BY DEF ViewsKept
<1>2. s \in InEffect(k) /\ s \in Nat \ {0}
  BY EffectTyped DEF EffectKept
<1>3. Kept(u, k, s)
  BY <1>2 DEF Settled
<1>4. CASE \E q \in Held(k) : q >= s
  BY <1>2, <1>4 DEF HeldKept, Kept
<1>5. CASE \E id \in ReferencedIds(u.v) : u.files[id][k].seq >= s
  BY <1>1, <1>5 DEF Kept
<1>6. CASE /\ erased[k] >= s /\ s < u.v.nextSeq
           /\ \A id \in ReferencedIds(u.v) : u.files[id][k] = Absent
           /\ \A q \in LoggedSeqs(LogSegs, k) : q >= s
  <2>1. erased'[k] >= s
    BY <1>2, <1>6 DEF ErasedGrows, HistoryOK
  <2>2. \A q \in LoggedSeqs(LogSegs', k) : q >= s
    BY <1>6 DEF LogShrinks
  <2> QED
    BY <1>1, <1>6, <2>1, <2>2 DEF Kept
<1> QED
  BY <1>3, <1>4, <1>5, <1>6 DEF Kept

\* A step of a running process that keeps the memtables: the claims stay later than
\* what is in effect, and every tombstone stands for a delete that took effect.
LEMMA RunningKept ==
  ASSUME OpsOK, FilesOrder, AckedInv, up, up', UNCHANGED <<active, frozen, erased>>,
         ViewsKept, LogShrinks, EffectKept, ClaimsSame
  PROVE  ClaimsLater' /\ ErasedCovers' /\ Settled'
<1>1. ClaimsLater'
  BY DEF ClaimsLater, AckedInv, ClaimsSame, EffectKept
<1>2. ErasedCovers'
  <2>1. Named' \subseteq Named
    BY ViewsKeptOrder
  <2>2. Stored' \subseteq Stored
    BY <2>1 DEF Stored
  <2> QED
    BY <2>2 DEF AckedInv, ErasedCovers, Erasing
<1>3. HeldKept
  BY DEF HeldKept, Held, MemSeqs
<1>4. ErasedGrows
  BY DEF ErasedGrows, AckedInv, HistoryOK
<1> QED
  BY <1>1, <1>2, <1>3, <1>4, SettledKept DEF AckedInv

\* Steps that only move a call: nothing is written, and no table is on its way.
LEMMA QuietAcked ==
  ASSUME OpsOK, FilesOrder, AckedInv, HistoryOK', EffectKept, ClaimsSame, up,
         UNCHANGED <<wal, dir, version, up, active, frozen, erased>>,
         flush' = flush \/ flush'.stage \in {"none", "freeze", "done", "failed"}
  PROVE  AckedInv'
<1>1. flush'.stage \in Installing => flush.stage \in Installing /\ flush'.next = flush.next
  BY DEF Installing
<1>2. ViewsKept /\ LogKept
  BY <1>1, ViewsSame, LogSame
<1>3. ClaimsLater' /\ ErasedCovers' /\ Settled'
  BY <1>2, RunningKept DEF LogKept, LogShrinks
<1>4. FrozenLogged'
  BY DEF AckedInv, FrozenLogged, LogSegs
<1>5. LogDrained' /\ HeadFlushed'
  <2>1. CASE flush' = flush
    <3>1. Views' = Views
      BY <2>1 DEF Views
    <3> QED
      BY <2>1, <3>1 DEF AckedInv, LogDrained, LogSegs, HeadFlushed, HasHead
  <2>2. CASE flush'.stage \in {"none", "freeze", "done", "failed"}
    BY <2>2 DEF LogDrained, HeadFlushed, Installing, Collecting
  <2> QED
    BY <2>1, <2>2
<1> QED
  BY <1>3, <1>4, <1>5 DEF AckedInv

\* A call moves on, and returns with its write acknowledged or dropped.
LEMMA CallReturns ==
  ASSUME OpsOK, GateOK, HistoryOK, NEW t \in Threads, up, up', nextSeq' = nextSeq,
         erased' = erased, NEW to, pc' = [pc EXCEPT ![t] = to],
         \A u \in Threads : u # t => op'[u] = op[u],
         t \in Applied' => t \in Applied /\ op'[t] = op[t],
         to \in {"append", "abort", "apply", "finish"} => t \in Gate!Claimed /\ op'[t] = op[t],
         to \in {"idle", "claim"} => op'[t] = NoOp,
         \/ acked' = acked
         \/ t \in Applied /\ acked' = [acked EXCEPT ![op[t].key] = Max2(@, op[t].seq)]
  PROVE  HistoryOK' /\ EffectKept /\ ClaimsSame
<1>1. \A u \in Threads : pc'[u] = IF u = t THEN to ELSE pc[u]
  BY DEF GateOK, Gate!TypeOK
<1>2. \A u \in Applied' : u \in Applied /\ op'[u] = op[u]
  BY <1>1 DEF Applied
<1>3. op[t].key \in Keys /\ op[t].seq \in Nat
  BY KeysAssumption DEF OpsOK, Rec, NoOp
<1>4. \A k \in Keys : acked'[k] = acked[k] \/ (t \in Applied /\ op[t].key = k /\ acked'[k] = op[t].seq)
  BY <1>3 DEF Max2, HistoryOK
<1>5. EffectKept
  BY <1>2, <1>4 DEF EffectKept, InEffect
<1>6. acked' \in [Keys -> Nat]
  <2>1. Max2(acked[op[t].key], op[t].seq) \in Nat
    BY <1>3 DEF Max2, HistoryOK
  <2> QED
    BY <1>3, <2>1 DEF HistoryOK
<1>7. \A u \in Threads : pc'[u] \in {"idle", "claim"} => op'[u] = NoOp
  BY <1>1 DEF HistoryOK
<1>8. HistoryOK'
  BY <1>5, <1>6, <1>7 DEF HistoryOK, EffectKept
<1>9. ClaimsSame
  BY <1>1 DEF ClaimsSame, Gate!Claimed
<1> QED
  BY <1>5, <1>8, <1>9

-----------------------------------------------------------------------------
\* Steps of write() and flush() before the record is in the log or the memtable.
LEMMA PlainAcked ==
  ASSUME DataInv, GateOK, OrderInv, AckedInv, KeepsOrder, NEW t \in Threads,
         StartWrite(t) \/ WaitOrWake(t) \/ AppendOk(t) \/ AppendErr(t) \/ Abort(t)
  PROVE  AckedInv'
<1>1. /\ up /\ UNCHANGED <<up, nextSeq, memVars, dir, version, flush, acked, erased>>
  BY DEF StartWrite, WaitOrWake, AppendOk, AppendErr, Abort, diskVars, ghostVars
<1>2. wal' = wal
  <2>1. AppendErr(t) => "io" \in Faults
    BY Unspared DEF Fault, KeepsOrder
  <2> QED
    BY <2>1, DbAssumption DEF StartWrite, WaitOrWake, AppendOk, AppendErr, Abort, diskVars,
                              KeepsOrder
<1>3. OpsOK /\ FilesOrder /\ HistoryOK
  BY DEF DataInv, OrderInv, AckedInv
<1>4. HistoryOK' /\ EffectKept /\ ClaimsSame
  <2>1. CASE StartWrite(t)
    <3>1. op' = op /\ pc[t] = "idle" /\ pc' = [pc EXCEPT ![t] = "claim"]
      BY <2>1 DEF StartWrite, Gate!StartWrite, Gate!Goto
    <3>2. op'[t] = NoOp /\ t \notin Applied'
      BY <1>3, <3>1 DEF HistoryOK, Applied, GateOK, Gate!TypeOK
    <3> QED
      BY <1>1, <1>3, <3>1, <3>2, CallReturns
  <2>2. CASE WaitOrWake(t)
    <3>1. op' = op /\ pc' = pc
      BY <2>2 DEF WaitOrWake, Gate!WaitForGate, Gate!WaitAgain, Gate!SpuriousWake
    <3> QED
      BY <1>1, <1>3, <3>1 DEF HistoryOK, EffectKept, ClaimsSame, InEffect, Applied, Gate!Claimed
  <2>3. CASE AppendOk(t) \/ AppendErr(t)
    <3>1. PICK to \in {"apply", "abort"} :
            op' = op /\ pc[t] = "append" /\ pc' = [pc EXCEPT ![t] = to]
      BY <2>3 DEF AppendOk, AppendErr, Gate!AppendOk, Gate!AppendErr, Gate!Goto
    <3>2. t \in Gate!Claimed /\ t \notin Applied'
      BY <3>1 DEF Gate!Claimed, Applied, GateOK, Gate!TypeOK
    <3> QED
      BY <1>1, <1>3, <3>1, <3>2, CallReturns
  <2>4. CASE Abort(t)
    <3>1. /\ op' = [op EXCEPT ![t] = NoOp] /\ pc' = [pc EXCEPT ![t] = "idle"]
          /\ op'[t] = NoOp /\ \A u \in Threads : u # t => op'[u] = op[u]
      BY <1>3, <2>4 DEF Abort, Gate!Abort, Gate!Goto, OpsOK
    <3>2. t \notin Applied'
      BY <3>1 DEF Applied
    <3> QED
      BY <1>1, <1>3, <3>1, <3>2, CallReturns
  <2> QED
    BY <2>1, <2>2, <2>3, <2>4
<1> QED
  BY <1>1, <1>2, <1>3, <1>4, QuietAcked DEF memVars

\* A write that returns Ok was in effect before.
LEMMA FinishAcked ==
  ASSUME DataInv, GateOK, OrderInv, AckedInv, NEW t \in Threads, Finish(t)
  PROVE  AckedInv'
<1>1. /\ up /\ UNCHANGED <<up, nextSeq, memVars, diskVars, version, flush, erased>>
      /\ acked' = [acked EXCEPT ![op[t].key] = Max2(@, op[t].seq)]
      /\ op' = [op EXCEPT ![t] = NoOp] /\ pc[t] = "finish" /\ pc' = [pc EXCEPT ![t] = "idle"]
  BY DEF Finish, Acknowledge, Gate!Finish, Gate!Goto
<1>2. OpsOK /\ FilesOrder /\ HistoryOK
  BY DEF DataInv, OrderInv, AckedInv
<1>3. op'[t] = NoOp /\ \A u \in Threads : u # t => op'[u] = op[u]
  BY <1>1, <1>2 DEF OpsOK
<1>4. t \in Applied /\ t \notin Applied'
  BY <1>1, <1>2, <1>3 DEF OpsOK, Applied, Gate!Claimed, Rec, Kinds, NoOp
<1>5. HistoryOK' /\ EffectKept /\ ClaimsSame
  BY <1>1, <1>2, <1>3, <1>4, CallReturns
<1> QED
  BY <1>1, <1>2, <1>5, QuietAcked DEF memVars, diskVars

\* flush_locked is entered; a write that runs it stays in effect.
LEMMA EnterAcked ==
  ASSUME DataInv, GateOK, OrderInv, AckedInv, NEW t \in Threads,
         FinishFull(t) \/ StartFlush(t) \/ EnterBody(t)
  PROVE  AckedInv'
<1>1. /\ up /\ UNCHANGED <<up, nextSeq, op, memVars, diskVars, version, acked, erased>>
      /\ (flush' = flush \/ flush' = [NoFlush EXCEPT !.stage = "freeze"])
      /\ pc[t] \in {"finish", "idle", "quiesce"}
  BY DEF FinishFull, StartFlush, EnterBody, BeginBodyIfEntered, Gate!FinishFull,
         Gate!StartFlush, Gate!EnterBody, Gate!EnterFlush, Gate!Goto, ghostVars
<1>2. PICK to \in {"quiesce", "body"} : pc' = [pc EXCEPT ![t] = to]
  BY DEF FinishFull, StartFlush, EnterBody, Gate!FinishFull, Gate!StartFlush, Gate!EnterBody,
         Gate!EnterFlush, Gate!Goto
<1>3. OpsOK /\ FilesOrder /\ HistoryOK
  BY DEF DataInv, OrderInv, AckedInv
<1>4. t \in Applied' => t \in Applied
  BY <1>1, <1>3 DEF HistoryOK, Applied
<1>5. HistoryOK' /\ EffectKept /\ ClaimsSame
  BY <1>1, <1>2, <1>3, <1>4, CallReturns
<1>6. flush' = flush \/ flush'.stage = "freeze"
  BY <1>1, NoFlushFacts
<1> QED
  BY <1>1, <1>3, <1>5, <1>6, QuietAcked DEF memVars, diskVars

\* A write() that ran the flush returns its result.
LEMMA FlushDoneAcked ==
  ASSUME DataInv, GateOK, OrderInv, AckedInv, NEW t \in Threads, FlushDone(t)
  PROVE  AckedInv'
<1>1. /\ up /\ UNCHANGED <<up, nextSeq, memVars, diskVars, version, erased>>
      /\ flush' = NoFlush /\ pc[t] = "body" /\ pc' = [pc EXCEPT ![t] = "idle"]
      /\ \/ op[t] = NoOp /\ op' = op /\ acked' = acked
         \/ op[t] # NoOp /\ op' = [op EXCEPT ![t] = NoOp] /\ acked' = acked
         \/ /\ op[t] # NoOp /\ op' = [op EXCEPT ![t] = NoOp]
            /\ acked' = [acked EXCEPT ![op[t].key] = Max2(@, op[t].seq)]
  BY DEF FlushDone, Acknowledge, Gate!FlushDone, Gate!Goto
<1>2. OpsOK /\ FilesOrder /\ HistoryOK
  BY DEF DataInv, OrderInv, AckedInv
<1>3. op'[t] = NoOp /\ \A u \in Threads : u # t => op'[u] = op[u]
  BY <1>1, <1>2 DEF OpsOK
<1>4. (op[t] # NoOp => t \in Applied) /\ t \notin Applied'
  BY <1>1, <1>3 DEF Applied
<1>5. HistoryOK' /\ EffectKept /\ ClaimsSame
  BY <1>1, <1>2, <1>3, <1>4, CallReturns
<1>6. flush'.stage = "none"
  BY <1>1, NoFlushFacts
<1> QED
  BY <1>1, <1>2, <1>5, <1>6, QuietAcked DEF memVars, diskVars

\* Phase 1: the claimed seq is newer than everything in effect.
LEMMA ClaimAcked ==
  ASSUME DataInv, GateOK, OrderInv, AckedInv, NEW t \in Threads, NEW k \in Keys,
         NEW kind \in WriteKinds, Claim(t, k, kind)
  PROVE  AckedInv'
<1>1. /\ up /\ UNCHANGED <<up, memVars, diskVars, version, flush, acked, erased>>
      /\ op' = [op EXCEPT ![t] = [key |-> k, seq |-> nextSeq, kind |-> kind]]
      /\ nextSeq' = nextSeq + 1 /\ nextSeq \in Nat
      /\ pc' = [pc EXCEPT ![t] = "append"]
  BY DEF Claim, Gate!Claim, Gate!Goto, ghostVars, DataInv, ClockOK, Clocks
<1>2. OpsOK /\ FilesOrder /\ HistoryOK
  BY DEF DataInv, OrderInv, AckedInv
<1>3. /\ \A u \in Threads : pc'[u] = IF u = t THEN "append" ELSE pc[u]
      /\ \A u \in Threads : u # t => op'[u] = op[u]
      /\ op'[t].seq = nextSeq
  BY <1>1, <1>2 DEF GateOK, Gate!TypeOK, OpsOK
<1>4. EffectKept
  <2>1. \A u \in Applied' : u \in Applied /\ op'[u] = op[u]
    BY <1>3 DEF Applied
  <2> QED
    BY <1>1, <2>1 DEF EffectKept, InEffect
<1>5. \A j \in Keys : \A s \in InEffect(j)' : s \in Nat /\ s < nextSeq
  BY <1>1, <1>2, <1>4, EffectTyped DEF EffectKept, HistoryOK
<1>6. HistoryOK'
  BY <1>1, <1>2, <1>3, <1>5 DEF HistoryOK
<1>7. ClaimsLater'
  <2> SUFFICES ASSUME NEW j \in Keys, NEW u \in Gate!Claimed', NEW s \in InEffect(j)',
                      op'[u].key = j
               PROVE  s < op'[u].seq \/ active'[j].seq >= s
    BY DEF ClaimsLater
  <2>1. CASE u = t
    BY <1>3, <1>5, <2>1
  <2>2. CASE u # t
    <3>1. u \in Gate!Claimed /\ op'[u] = op[u] /\ s \in InEffect(j)
      BY <1>3, <1>4, <2>2 DEF Gate!Claimed, EffectKept
    <3> QED
      BY <1>1, <3>1 DEF AckedInv, ClaimsLater, memVars
  <2> QED
    BY <2>1, <2>2
<1>8. UNCHANGED <<active, frozen, wal, dir>> /\ Views' = Views
  BY <1>1 DEF memVars, diskVars, Views
<1>9. /\ FrozenLogged' /\ LogDrained' /\ HeadFlushed' /\ ErasedCovers'
  BY <1>1, <1>8 DEF AckedInv, FrozenLogged, LogDrained, HeadFlushed, HasHead, ErasedCovers,
                    Erasing, LogSegs, Stored, Named
<1>10. Settled'
  <2>1. ViewsKept /\ HeldKept /\ LogShrinks /\ ErasedGrows
    BY <1>1, <1>2, <1>8
       DEF ViewsKept, HeldKept, LogShrinks, ErasedGrows, Held, MemSeqs, LogSegs, HistoryOK
  <2> QED
    BY <1>2, <1>4, <2>1, SettledKept DEF AckedInv
<1> QED
  BY <1>6, <1>7, <1>9, <1>10 DEF AckedInv

-----------------------------------------------------------------------------
\* Steps beside the calls that keep the memtables, the views and the log.
LEMMA BesideCalls ==
  ASSUME DataInv, OrderInv, AckedInv, up,
         UNCHANGED <<gateVars, up, nextSeq, op, memVars, ghostVars>>, ViewsKept, LogKept
  PROVE  HistoryOK' /\ ClaimsLater' /\ FrozenLogged' /\ ErasedCovers' /\ Settled'
<1>1. UNCHANGED <<pc, op, active, frozen, erased, acked>>
  BY DEF gateVars, memVars, ghostVars
<1>2. HistoryOK' /\ EffectKept /\ ClaimsSame
  BY <1>1 DEF AckedInv, HistoryOK, EffectKept, ClaimsSame, InEffect, Applied, Gate!Claimed
<1>3. ClaimsLater' /\ ErasedCovers' /\ Settled'
  BY <1>1, <1>2, RunningKept DEF DataInv, OrderInv, LogKept, LogShrinks
<1>4. FrozenLogged'
  BY <1>1 DEF AckedInv, FrozenLogged, LogKept
<1> QED
  BY <1>2, <1>3, <1>4

\* The log stays drained when the body stays on its way to the next compaction.
LEMMA StaysDrained ==
  ASSUME LogDrained, LogShrinks, flush'.after = flush.after,
         flush'.stage \in Installing \cup Collecting => flush.stage \in Installing \cup Collecting,
         flush'.stage = "compact" =>
           flush.stage = "compact"
           \/ (flush.stage \in Installing \cup Collecting /\ flush.after = "compact")
  PROVE  LogDrained'
<1> SUFFICES ASSUME \/ flush'.stage = "compact"
                    \/ flush'.stage \in Installing \cup Collecting /\ flush'.after = "compact",
                    NEW k \in Keys
             PROVE  LoggedSeqs(LogSegs', k) = {}
  BY DEF LogDrained
<1>1. LoggedSeqs(LogSegs, k) = {}
  BY DEF LogDrained
<1> QED
  BY <1>1 DEF LogShrinks

\* Every view still has the flushed table.
LEMMA HeadStays ==
  ASSUME ViewsKept, frozen' = frozen, \A w \in Views : HasHead(w.v, w.files)
  PROVE  \A w \in Views' : HasHead(w.v, w.files)'
  BY DEF ViewsKept, HasHead

\* The rename of the manifest.
LEMMA RenameAcked ==
  ASSUME DataInv, OrderInv, AckedInv, RenameManifest
  PROVE  AckedInv'
<1>1. /\ up /\ UNCHANGED <<gateVars, up, nextSeq, op, memVars, ghostVars>>
      /\ flush' = [flush EXCEPT !.stage = "sync"] /\ flush.stage = "rename"
      /\ dir' = [dir EXCEPT !.live.manifest = flush.next]
  BY DEF RenameManifest, InBody
<1>2. ViewsKept /\ LogKept
  BY RenameOrder
<1>3. HistoryOK' /\ ClaimsLater' /\ FrozenLogged' /\ ErasedCovers' /\ Settled'
  BY <1>1, <1>2, BesideCalls
<1>4. flush'.stage = "sync" /\ flush'.next = flush.next /\ flush'.after = flush.after
  BY <1>1 DEF DataInv, StageOK
<1>5. LogDrained'
  BY <1>1, <1>2, <1>4, StaysDrained DEF AckedInv, LogKept, LogShrinks, Installing, Collecting
<1>6. HeadFlushed'
  <2>1. dir'.live.files = dir.live.files /\ frozen' = frozen
    BY <1>1 DEF DataInv, FilesOK, View, memVars
  <2> QED
    BY <1>1, <1>4, <2>1 DEF AckedInv, HeadFlushed, HasHead, Installing, Collecting
<1> QED
  BY <1>3, <1>5, <1>6 DEF AckedInv

\* The sync_dir behind it, and the one after a gc.
LEMMA SyncAcked ==
  ASSUME DataInv, OrderInv, AckedInv, SyncManifest \/ GcSync
  PROVE  AckedInv'
<1>1. /\ up /\ UNCHANGED <<gateVars, up, nextSeq, op, memVars, ghostVars>>
      /\ dir' = [dir EXCEPT !.durable = dir.live]
      /\ \/ flush.stage = "sync" /\ flush' = [flush EXCEPT !.stage = "swap"]
         \/ flush.stage = "gcsync" /\ flush' = [flush EXCEPT !.stage = flush.after]
  BY DEF SyncManifest, GcSync, SyncDir, InBody
<1>2. ViewsKept /\ LogKept
  BY SyncOrder
<1>3. HistoryOK' /\ ClaimsLater' /\ FrozenLogged' /\ ErasedCovers' /\ Settled'
  BY <1>1, <1>2, BesideCalls
<1>4. /\ flush'.next = flush.next /\ flush'.after = flush.after
      /\ \/ flush.stage = "sync" /\ flush'.stage = "swap"
         \/ flush.stage = "gcsync" /\ flush'.stage = flush.after
      /\ flush.stage = "gcsync" => flush.after \in {"discard", "compact"}
  BY <1>1 DEF DataInv, StageOK, Collecting
<1>5. LogDrained'
  BY <1>2, <1>4, StaysDrained DEF AckedInv, LogKept, LogShrinks, Installing, Collecting
<1>6. HeadFlushed'
  <2>1. /\ dir'.live = dir.live /\ dir'.durable = dir.live /\ frozen' = frozen
        /\ flush.stage = "sync" => dir.live.manifest = flush.next
    BY <1>1 DEF DataInv, FilesOK, memVars
  <2>2. CASE flush.stage = "sync"
    BY <1>4, <2>1, <2>2 DEF AckedInv, HeadFlushed, HasHead, Installing, Collecting
  <2>3. CASE flush.stage = "gcsync"
    <3>1. flush.after = "discard" => \A w \in Views : HasHead(w.v, w.files)
      BY <2>3 DEF AckedInv, HeadFlushed, Collecting
    <3>2. flush.after = "discard" => \A w \in Views' : HasHead(w.v, w.files)'
      BY <1>2, <2>1, <3>1, HeadStays
    <3> QED
      BY <1>4, <2>3, <3>2 DEF HeadFlushed, Installing, Collecting
  <2> QED
    BY <1>4, <2>2, <2>3
<1> QED
  BY <1>3, <1>5, <1>6 DEF AckedInv

\* The swap of the current version: from here every view has the flushed table.
LEMMA SwapAcked ==
  ASSUME DataInv, OrderInv, AckedInv, SwapVersion
  PROVE  AckedInv'
<1>1. /\ up /\ UNCHANGED <<gateVars, up, nextSeq, op, memVars, ghostVars, dir>>
      /\ flush' = [flush EXCEPT !.stage = "gc"] /\ flush.stage = "swap"
      /\ version' = flush.next
  BY DEF SwapVersion, InBody, diskVars
<1>2. ViewsKept /\ LogKept
  BY SwapOrder
<1>3. HistoryOK' /\ ClaimsLater' /\ FrozenLogged' /\ ErasedCovers' /\ Settled'
  BY <1>1, <1>2, BesideCalls
<1>4. flush'.stage = "gc" /\ flush'.after = flush.after
  BY <1>1 DEF DataInv, StageOK
<1>5. LogDrained'
  BY <1>1, <1>2, <1>4, StaysDrained DEF AckedInv, LogKept, LogShrinks, Installing, Collecting
<1>6. HeadFlushed'
  <2> SUFFICES ASSUME flush.after = "discard", NEW w \in Views'
               PROVE  HasHead(w.v, w.files)'
    BY <1>4 DEF HeadFlushed, Installing, Collecting
  <2>1. dir.live.manifest = flush.next /\ frozen' = frozen
    BY <1>1 DEF DataInv, FilesOK, memVars
  <2>2. /\ HasHead(flush.next, dir.live.files)
        /\ HasHead(dir.durable.manifest, dir.durable.files)
    BY <1>1 DEF AckedInv, HeadFlushed, Installing
  <2>3. \/ w = [v |-> flush.next, files |-> dir.live.files]
        \/ w = [v |-> dir.durable.manifest, files |-> dir.durable.files]
    BY <1>1, <1>4, <2>1 DEF Views, Installing
  <2> QED
    BY <2>1, <2>2, <2>3 DEF HasHead
<1> QED
  BY <1>3, <1>5, <1>6 DEF AckedInv

\* gc() keeps the tables of every view.
LEMMA GcAcked ==
  ASSUME DataInv, OrderInv, AckedInv, GcTables
  PROVE  AckedInv'
<1>1. /\ up /\ UNCHANGED <<gateVars, up, nextSeq, op, memVars, ghostVars>> /\ flush.stage = "gc"
  BY DEF GcTables, InBody
<1>2. PICK s \in {flush.after, "gcsync"} : flush' = [flush EXCEPT !.stage = s]
  BY DEF GcTables
<1>3. ViewsKept /\ LogKept
  BY GcOrder
<1>4. HistoryOK' /\ ClaimsLater' /\ FrozenLogged' /\ ErasedCovers' /\ Settled'
  BY <1>1, <1>3, BesideCalls
<1>5. /\ flush'.stage = s /\ flush'.after = flush.after
      /\ flush.after \in {"discard", "compact"}
  BY <1>1, <1>2 DEF DataInv, StageOK, Collecting
<1>6. LogDrained'
  BY <1>1, <1>3, <1>5, StaysDrained DEF AckedInv, LogKept, LogShrinks, Installing, Collecting
<1>7. HeadFlushed'
  <2>1. flush.after = "discard" => \A w \in Views : HasHead(w.v, w.files)
    BY <1>1 DEF AckedInv, HeadFlushed, Collecting
  <2>2. flush.after = "discard" => \A w \in Views' : HasHead(w.v, w.files)'
    BY <1>1, <1>3, <2>1, HeadStays DEF memVars
  <2> QED
    BY <1>5, <2>2 DEF HeadFlushed, Installing, Collecting
<1> QED
  BY <1>4, <1>6, <1>7 DEF AckedInv

\* The body ends, or Wal::reset moves on: no table is on its way.
LEMMA ResetAcked ==
  ASSUME DataInv, OrderInv, AckedInv,
         CompactNothing \/ FlushErr \/ ResetCreate \/ RetireSegment
  PROVE  AckedInv'
<1>1. up /\ UNCHANGED <<gateVars, up, nextSeq, op, memVars, ghostVars>>
  BY DEF CompactNothing, FlushErr, ResetCreate, RetireSegment, InBody
<1>2. ViewsKept /\ LogKept
  BY EndOrder, ResetOrder, RetireOrder
<1>3. HistoryOK' /\ ClaimsLater' /\ FrozenLogged' /\ ErasedCovers' /\ Settled'
  BY <1>1, <1>2, BesideCalls
<1>4. flush'.stage \in {"done", "failed", "retire"}
  BY NoFlushFacts DEF CompactNothing, FlushErr, ResetCreate, RetireSegment, InBody, DataInv, StageOK
<1>5. LogDrained' /\ HeadFlushed'
  BY <1>4 DEF LogDrained, HeadFlushed, Installing, Collecting
<1> QED
  BY <1>3, <1>5 DEF AckedInv

\* The reset is durable: the log is empty, and the memtables were before it.
LEMMA ResetSyncAcked ==
  ASSUME DataInv, GateOK, OrderInv, AckedInv, ResetSync
  PROVE  AckedInv'
<1>1. /\ up /\ UNCHANGED <<gateVars, up, nextSeq, op, memVars, ghostVars>>
      /\ flush' = [flush EXCEPT !.stage = "compact"] /\ flush.stage = "retire"
  BY DEF ResetSync, InBody
<1>2. UNCHANGED <<pc, op, active, frozen, erased, acked>>
  BY <1>1 DEF gateVars, memVars, ghostVars
<1>3. HistoryOK' /\ EffectKept /\ ClaimsSame
  BY <1>1, <1>2 DEF AckedInv, HistoryOK, EffectKept, ClaimsSame, InEffect, Applied, Gate!Claimed
<1>4. ViewsKept /\ \A k \in Keys : LoggedSeqs(LogSegs', k) = {}
  BY ResetSyncOrder
<1>5. ClaimsLater' /\ ErasedCovers' /\ Settled'
  BY <1>1, <1>2, <1>3, <1>4, RunningKept DEF DataInv, OrderInv, LogShrinks
<1>6. FrozenLogged'
  <2>1. frozen' = <<>>
    BY <1>1, <1>2 DEF DataInv, BufferOK, BufferDrained
  <2> QED
    BY <2>1 DEF FrozenLogged
<1>7. LogDrained'
  BY <1>4 DEF LogDrained
<1>8. HeadFlushed'
  <2>1. flush'.stage = "compact"
    BY <1>1 DEF DataInv, StageOK
  <2> QED
    BY <2>1 DEF HeadFlushed, Installing, Collecting
<1> QED
  BY <1>3, <1>5, <1>6, <1>7, <1>8 DEF AckedInv

-----------------------------------------------------------------------------
\* Phase 2: the record that is logged is newer than what a delete has taken out of
\* memtables and tables, so its replay brings back nothing that was in effect.
LEMMA LogAcked ==
  ASSUME DataInv, GateOK, OrderInv, AckedInv, NEW t \in Threads, LogRecord(t)
  PROVE  AckedInv'
<1>1. /\ up /\ up' /\ pc[t] = "append"
      /\ UNCHANGED <<gateVars, nextSeq, op, memVars, dir, version, flush, ghostVars>>
  BY DEF LogRecord
<1>2. UNCHANGED <<pc, active, frozen, erased, acked>> /\ Views' = Views
  BY <1>1 DEF gateVars, memVars, ghostVars, Views
<1>3. /\ \A k \in Keys :
              /\ \A s \in LoggedSeqs(LogSegs', k) :
                   s \in LoggedSeqs(LogSegs, k) \/ (k = op[t].key /\ s = op[t].seq)
              /\ SyncedSeqs(LogSegs, k) \subseteq SyncedSeqs(LogSegs', k)
  BY LogOrder
<1>4. OpsOK /\ HistoryOK /\ t \in Gate!Claimed
  BY <1>1 DEF DataInv, AckedInv, Gate!Claimed
<1>5. op[t].seq \in Nat
  BY <1>4 DEF OpsOK, Rec
<1>6. HistoryOK' /\ ClaimsLater' /\ ErasedCovers'
  BY <1>1, <1>2 DEF AckedInv, HistoryOK, ClaimsLater, ErasedCovers, Erasing, InEffect, Applied,
                    Gate!Claimed, Stored, Named
<1>7. FrozenLogged'
  BY <1>2, <1>3 DEF AckedInv, FrozenLogged
<1>8. LogDrained' /\ HeadFlushed'
  <2>1. flush.stage = "none"
    BY <1>4, NoBody DEF DataInv
  <2> QED
    BY <1>1, <2>1 DEF LogDrained, HeadFlushed, Installing, Collecting
<1>9. Settled'
  <2> SUFFICES ASSUME NEW w \in Views, NEW k \in Keys, NEW s \in InEffect(k)
               PROVE  Kept(w, k, s)'
    BY <1>1, <1>2 DEF Settled, InEffect, Applied
  <2>1. Kept(w, k, s)
    BY DEF AckedInv, Settled
  <2>2. Held(k)' = Held(k)
    BY <1>1, <1>2 DEF Held, MemSeqs
  <2>3. CASE \E q \in Held(k) : q >= s
    BY <2>2, <2>3 DEF Kept
  <2>4. CASE \E id \in ReferencedIds(w.v) : w.files[id][k].seq >= s
    BY <2>4 DEF Kept
  <2>5. CASE /\ erased[k] >= s /\ s < w.v.nextSeq
             /\ \A id \in ReferencedIds(w.v) : w.files[id][k] = Absent
             /\ \A q \in LoggedSeqs(LogSegs, k) : q >= s
             /\ ~\E q \in Held(k) : q >= s
    <3>1. active[k].seq \in Held(k)
      BY <1>1 DEF Held, MemSeqs
    <3>2. op[t].key = k => s < op[t].seq
      BY <1>4, <2>5, <3>1 DEF AckedInv, ClaimsLater
    <3>3. s \in Nat
      BY <1>4, EffectTyped
    <3>4. \A q \in LoggedSeqs(LogSegs', k) : q >= s
      BY <1>3, <1>5, <2>5, <3>2, <3>3
    <3> QED
      BY <1>2, <2>5, <3>4 DEF Kept
  <2> QED
    BY <2>1, <2>3, <2>4, <2>5 DEF Kept
<1> QED
  BY <1>6, <1>7, <1>8, <1>9 DEF AckedInv

\* Phase 3 as the memtable sees it: no entry of it gets older.
LEMMA Inserted ==
  ASSUME NEW n \in Nat, NEW table \in TablesBelow(n), NEW k \in Keys, NEW e \in Entry
  PROVE  /\ InsertIfNewer(table, k, e) = [table EXCEPT ![k] = InsertIfNewer(table, k, e)[k]]
         /\ InsertIfNewer(table, k, e)[k] \in {table[k], e}
         /\ InsertIfNewer(table, k, e)[k].seq >= e.seq
         /\ InsertIfNewer(table, k, e)[k].seq >= table[k].seq
         /\ table[k].seq \in Nat
<1>1. table \in [Keys -> Below(n)] /\ table[k].seq \in Nat /\ e.seq \in Nat
  BY DEF TablesBelow, Below, Entry, Absent
<1>2. CASE table[k].seq >= e.seq
  BY <1>1, <1>2 DEF InsertIfNewer
<1>3. CASE ~(table[k].seq >= e.seq)
  BY <1>1, <1>3 DEF InsertIfNewer
<1> QED
  BY <1>2, <1>3

\* Phase 3: the write takes effect, and a delete erases.
LEMMA ApplyAcked ==
  ASSUME DataInv, GateOK, OrderInv, AckedInv, NEW t \in Threads, Apply(t)
  PROVE  AckedInv'
<1> DEFINE k == op[t].key
           e == EntryOf(op[t])
<1>1. /\ up /\ up' /\ UNCHANGED <<nextSeq, op, frozen, wal, dir, version, flush, acked>>
      /\ pc[t] = "apply" /\ pc' = [pc EXCEPT ![t] = "finish"]
      /\ active' = InsertIfNewer(active, k, e)
      /\ erased' = IF op[t].kind = "Tombstone" THEN [erased EXCEPT ![k] = Max2(@, op[t].seq)]
                   ELSE erased
  BY DEF Apply, Gate!Apply, Gate!Goto, diskVars
<1>2. /\ OpsOK /\ HistoryOK /\ t \in Gate!Claimed /\ nextSeq \in Nat
      /\ active \in TablesBelow(nextSeq)
  BY <1>1 DEF DataInv, ClockOK, Clocks, BufferOK, AckedInv, Gate!Claimed
<1>3. /\ op[t] \in Rec /\ k \in Keys /\ op[t].seq \in Nat \ {0} /\ e \in Entry
      /\ e.seq = op[t].seq /\ e.kind = op[t].kind /\ op[t].seq < nextSeq
  BY <1>2 DEF OpsOK, Rec, EntryOf, Entry
<1> HIDE DEF e
<1>4. /\ active' = [active EXCEPT ![k] = active'[k]]
      /\ active'[k] \in {active[k], e} /\ active'[k].seq >= op[t].seq
      /\ active'[k].seq >= active[k].seq
  BY <1>1, <1>2, <1>3, Inserted
<1>5. \A j \in Keys : /\ active[j].seq \in Nat /\ active'[j].seq \in Nat
                      /\ active'[j].seq >= active[j].seq
                      /\ j # k => active'[j] = active[j]
  BY <1>2, <1>3, <1>4 DEF TablesBelow, Below, Entry, Absent
<1>6. erased' \in [Keys -> Nat] /\ ErasedGrows
  BY <1>1, <1>2, <1>3 DEF HistoryOK, ErasedGrows, Max2
<1>7. /\ \A u \in Threads : pc'[u] = IF u = t THEN "finish" ELSE pc[u]
      /\ Gate!Claimed' = Gate!Claimed
  BY <1>1 DEF GateOK, Gate!TypeOK, Gate!Claimed
<1>8. \A j \in Keys : \A s \in InEffect(j)' : s \in InEffect(j) \/ (j = k /\ s = op[t].seq)
  <2>1. \A u \in Applied' : u \in Applied \/ u = t
    BY <1>1, <1>7 DEF Applied
  <2> QED
    BY <1>1, <2>1 DEF InEffect
<1>9. HistoryOK'
  <2>1. \A j \in Keys : \A s \in InEffect(j)' : s < nextSeq'
    BY <1>1, <1>2, <1>3, <1>8 DEF HistoryOK
  <2> QED
    BY <1>1, <1>2, <1>6, <1>7, <2>1 DEF HistoryOK
<1>10. ClaimsLater'
  <2> SUFFICES ASSUME NEW j \in Keys, NEW u \in Gate!Claimed, NEW s \in InEffect(j)',
                      op[u].key = j
               PROVE  s < op[u].seq \/ active'[j].seq >= s
    BY <1>1, <1>7 DEF ClaimsLater
  <2>1. CASE j = k /\ s = op[t].seq
    BY <1>4, <2>1
  <2>2. CASE s \in InEffect(j)
    <3>1. s < op[u].seq \/ active[j].seq >= s
      BY <2>2 DEF AckedInv, ClaimsLater
    <3>2. s \in Nat
      BY <1>2, <2>2, EffectTyped
    <3> QED
      BY <1>5, <3>1, <3>2
  <2> QED
    BY <1>8, <2>1, <2>2
<1>11. Views' = Views /\ Stored' = Stored
  BY <1>1 DEF Views, Stored, Named
<1>12. FrozenLogged' /\ LogDrained' /\ HeadFlushed'
  BY <1>1, <1>11 DEF AckedInv, FrozenLogged, LogDrained, HeadFlushed, HasHead, LogSegs
<1>13. ErasedCovers'
  <2> SUFFICES ASSUME NEW table \in {active'} \cup Stored, NEW j \in Keys,
                      table[j].kind = "Tombstone"
               PROVE  table[j].seq <= erased'[j]
    BY <1>11 DEF ErasedCovers, Erasing
  <2>1. ASSUME NEW old \in {active} \cup Stored, old[j].kind = "Tombstone", old[j].seq \in Nat
        PROVE  old[j].seq <= erased'[j]
    <3>1. old[j].seq <= erased[j]
      BY <2>1 DEF AckedInv, ErasedCovers, Erasing
    <3> QED
      BY <1>2, <1>6, <2>1, <3>1 DEF ErasedGrows, HistoryOK
  <2>2. CASE table \in Stored
    BY <2>1, <2>2, StoredTyped
  <2>3. CASE table = active' /\ active'[j] = active[j]
    BY <1>5, <2>1, <2>3
  <2>4. CASE table = active' /\ j = k /\ active'[k] = e
    BY <1>1, <1>2, <1>3, <2>4 DEF Max2, HistoryOK
  <2> QED
    BY <1>4, <1>5, <2>2, <2>3, <2>4
<1>14. Settled'
  <2> SUFFICES ASSUME NEW w \in Views, NEW j \in Keys, NEW s \in InEffect(j)'
               PROVE  Kept(w, j, s)'
    BY <1>11 DEF Settled
  <2>1. active'[j].seq \in Held(j)'
    BY <1>1 DEF Held, MemSeqs
  <2>2. CASE j = k /\ s = op[t].seq
    BY <1>4, <2>1, <2>2 DEF Kept
  <2>3. CASE s \in InEffect(j)
    <3>1. Kept(w, j, s) /\ s \in Nat
      BY <1>2, <2>3, EffectTyped DEF AckedInv, Settled
    <3>2. CASE \E q \in Held(j) : q >= s
      <4>1. PICK q \in Held(j) : q >= s
        BY <3>2
      <4>2. q = active[j].seq \/ q \in Held(j)'
        BY <1>1, <4>1 DEF Held, MemSeqs
      <4>3. q = active[j].seq => active'[j].seq >= s
        BY <1>5, <3>1, <4>1
      <4> QED
        BY <2>1, <4>1, <4>2, <4>3 DEF Kept
    <3>3. CASE \E id \in ReferencedIds(w.v) : w.files[id][j].seq >= s
      BY <3>3 DEF Kept
    <3>4. CASE /\ erased[j] >= s /\ s < w.v.nextSeq
               /\ \A id \in ReferencedIds(w.v) : w.files[id][j] = Absent
               /\ \A q \in LoggedSeqs(LogSegs, j) : q >= s
      <4>1. erased'[j] >= s
        BY <1>2, <1>6, <3>1, <3>4 DEF ErasedGrows, HistoryOK
      <4>2. \A q \in LoggedSeqs(LogSegs', j) : q >= s
        BY <1>1, <3>4 DEF LogSegs
      <4> QED
        BY <3>4, <4>1, <4>2 DEF Kept
    <3> QED
      BY <3>1, <3>2, <3>3, <3>4 DEF Kept
  <2> QED
    BY <1>8, <2>2, <2>3
<1> QED
  BY <1>9, <1>10, <1>12, <1>13, <1>14 DEF AckedInv

-----------------------------------------------------------------------------
\* The barrier of a commit.
LEMMA SyncLogAcked ==
  ASSUME DataInv, GateOK, OrderInv, AckedInv, SyncLog
  PROVE  AckedInv'
<1>1. /\ up /\ UNCHANGED <<gateVars, up, nextSeq, op, memVars, ghostVars, version, flush>>
      /\ dir' = dir \/ dir' = [dir EXCEPT !.durable = dir.live]
  BY DEF SyncLog
<1>2. ViewsKept /\ LogKept
  BY SyncLogOrder
<1>3. HistoryOK' /\ ClaimsLater' /\ FrozenLogged' /\ ErasedCovers' /\ Settled'
  BY <1>1, <1>2, BesideCalls
<1>4. LogDrained'
  BY <1>1, <1>2, StaysDrained DEF AckedInv, LogKept, LogShrinks
<1>5. HeadFlushed'
  <2>1. /\ dir'.live = dir.live /\ (dir'.durable = dir.durable \/ dir'.durable = dir.live)
        /\ frozen' = frozen
        /\ flush.stage = "swap" => dir.live.manifest = flush.next
    BY <1>1 DEF DataInv, FilesOK, memVars
  <2>2. flush.stage \in Installing /\ flush.after = "discard" =>
          HasHead(flush.next, dir.live.files)'
    BY <1>1, <2>1 DEF AckedInv, HeadFlushed, HasHead
  <2>3. flush.stage = "swap" /\ flush.after = "discard" =>
          HasHead(dir.durable.manifest, dir.durable.files)'
    BY <1>1, <2>1 DEF AckedInv, HeadFlushed, HasHead, Installing
  <2>4. (flush.stage = "discard" \/ (flush.stage \in Collecting /\ flush.after = "discard")) =>
          \A w \in Views' : HasHead(w.v, w.files)'
    BY <1>2, <2>1, HeadStays DEF AckedInv, HeadFlushed
  <2> QED
    BY <1>1, <2>2, <2>3, <2>4 DEF HeadFlushed
<1> QED
  BY <1>3, <1>4, <1>5 DEF AckedInv

\* The active memtable is frozen: what memory holds stays the same.
LEMMA FreezeAcked ==
  ASSUME DataInv, GateOK, OrderInv, AckedInv, Freeze
  PROVE  AckedInv'
<1>1. /\ up /\ flush.stage = "freeze" /\ flush' = [flush EXCEPT !.stage = "table"]
      /\ UNCHANGED <<pc, up, nextSeq, op, wal, dir, version, acked, erased>>
      /\ \/ UNCHANGED <<active, frozen>>
         \/ frozen' = Append(frozen, active) /\ active' = EmptyTable
  BY DEF Freeze, InBody, gateVars, memVars, diskVars, ghostVars
<1>2. flush'.stage = "table" /\ Views' = Views
  BY <1>1 DEF DataInv, StageOK, Views, Installing
<1>3. HistoryOK' /\ EffectKept
  BY <1>1 DEF AckedInv, HistoryOK, EffectKept, InEffect, Applied
<1>4. ClaimsLater'
  <2>1. Gate!Claimed' = {}
    BY <1>1, BodyAlone DEF Gate!Claimed
  <2> QED
    BY <2>1 DEF ClaimsLater
<1>5. LogDrained' /\ HeadFlushed'
  BY <1>2 DEF LogDrained, HeadFlushed, Installing, Collecting
<1>6. CASE UNCHANGED <<active, frozen>>
  <2>1. FrozenLogged' /\ ErasedCovers'
    BY <1>1, <1>2, <1>6 DEF AckedInv, FrozenLogged, ErasedCovers, Erasing, LogSegs, Stored, Named
  <2>2. ViewsKept /\ LogShrinks /\ ErasedGrows /\ HeldKept
    BY <1>1, <1>2, <1>6
       DEF ViewsKept, LogShrinks, ErasedGrows, LogSegs, AckedInv, HistoryOK, HeldKept, Held, MemSeqs
  <2>3. Settled'
    BY <1>3, <2>2, SettledKept DEF AckedInv, DataInv
  <2> QED
    BY <1>3, <1>4, <1>5, <2>1, <2>3 DEF AckedInv
<1>7. CASE frozen' = Append(frozen, active) /\ active' = EmptyTable
  <2>1. frozen \in Seq(TablesBelow(nextSeq)) /\ active \in TablesBelow(nextSeq)
    BY DEF DataInv, BufferOK
  <2>2. /\ DOMAIN frozen' = DOMAIN frozen \cup {Len(frozen) + 1}
        /\ \A i \in DOMAIN frozen : frozen'[i] = frozen[i]
        /\ frozen'[Len(frozen) + 1] = active
    BY <1>7, <2>1
  <2>3. FrozenLogged'
    BY <1>1, <2>2 DEF AckedInv, OrderInv, ActiveLogged, FrozenLogged, LogSegs
  <2>4. ToSet(frozen') \subseteq ToSet(frozen) \cup {active}
    BY <2>2 DEF ToSet
  <2>5. ErasedCovers'
    <3>1. Stored' \subseteq Stored \cup {active}
      BY <1>2, <2>4 DEF Stored, Named
    <3>2. Erasing(EmptyTable)'
      BY DEF Erasing, EmptyTable, Absent
    <3>3. \A table \in Stored \cup {active} : Erasing(table)'
      BY <1>1 DEF AckedInv, ErasedCovers, Erasing
    <3> QED
      BY <1>7, <3>1, <3>2, <3>3 DEF ErasedCovers
  <2>6. HeldKept
    <3>1. \A k \in Keys : MemSeqs(k) \subseteq MemSeqs(k)'
      BY <2>2 DEF MemSeqs
    <3> QED
      BY <1>1, <3>1 DEF HeldKept, Held
  <2>7. ViewsKept /\ LogShrinks /\ ErasedGrows
    BY <1>1, <1>2 DEF ViewsKept, LogShrinks, ErasedGrows, LogSegs, AckedInv, HistoryOK
  <2>8. Settled'
    BY <1>3, <2>6, <2>7, SettledKept DEF AckedInv, DataInv
  <2> QED
    BY <1>3, <1>4, <1>5, <2>3, <2>5, <2>8 DEF AckedInv
<1> QED
  BY <1>1, <1>6, <1>7

\* The flushed memtable leaves the read set: every view has its table.
LEMMA DiscardAcked ==
  ASSUME DataInv, GateOK, OrderInv, AckedInv, Discard
  PROVE  AckedInv'
<1>1. /\ up /\ flush.stage = "discard" /\ flush' = [NoFlush EXCEPT !.stage = "table"]
      /\ UNCHANGED <<pc, up, nextSeq, op, active, wal, dir, version, acked, erased>>
      /\ LogSegs' = LogSegs
  BY DEF Discard, InBody, gateVars, diskVars, ghostVars, LogSegs
<1>2. flush'.stage = "table"
  BY <1>1, NoFlushFacts
<1>3. Views' = Views
  BY <1>1, <1>2 DEF Views, Installing
<1>4. frozen \in Seq(TablesBelow(nextSeq)) /\ frozen # <<>>
  BY <1>1 DEF DataInv, BufferOK
<1>5. /\ Head(frozen) = frozen[1]
      /\ \A i \in DOMAIN frozen' : i + 1 \in DOMAIN frozen /\ frozen'[i] = frozen[i + 1]
      /\ \A i \in DOMAIN frozen : i = 1 \/ \E j \in DOMAIN frozen' : frozen[i] = frozen'[j]
  <2> DEFINE tables == TablesBelow(nextSeq)
  <2>1. frozen \in Seq(tables) /\ frozen' = Tail(frozen)
    BY <1>4 DEF Discard
  <2> HIDE DEF tables
  <2>2. \A i \in DOMAIN frozen : i = 1 \/ (i - 1 \in DOMAIN frozen' /\ frozen[i] = frozen'[i - 1])
    BY <1>4, <2>1
  <2> QED
    BY <1>4, <2>1, <2>2
<1>6. HistoryOK' /\ EffectKept
  BY <1>1 DEF AckedInv, HistoryOK, EffectKept, InEffect, Applied
<1>7. ClaimsLater'
  <2>1. Gate!Claimed' = {}
    BY <1>1, BodyAlone DEF Gate!Claimed
  <2> QED
    BY <2>1 DEF ClaimsLater
<1>8. LogDrained' /\ HeadFlushed'
  BY <1>2 DEF LogDrained, HeadFlushed, Installing, Collecting
<1>9. FrozenLogged'
  BY <1>1, <1>5 DEF AckedInv, FrozenLogged
<1>10. ErasedCovers'
  <2>1. ToSet(frozen') \subseteq ToSet(frozen)
    BY <1>5 DEF ToSet
  <2>2. Stored' \subseteq Stored
    BY <1>3, <2>1 DEF Stored, Named
  <2> QED
    BY <1>1, <2>2 DEF AckedInv, ErasedCovers, Erasing
<1>11. Settled'
  <2> SUFFICES ASSUME NEW w \in Views, NEW k \in Keys, NEW s \in InEffect(k)
               PROVE  Kept(w, k, s)'
    BY <1>3, <1>6 DEF Settled, EffectKept
  <2>1. Kept(w, k, s)
    BY DEF AckedInv, Settled
  <2>2. CASE \E q \in Held(k) : q >= s
    <3>1. PICK q \in Held(k) : q >= s
      BY <2>2
    <3>2. q \in Held(k)' \/ q = Head(frozen)[k].seq
      BY <1>1, <1>5, <3>1 DEF Held, MemSeqs
    <3>3. HasHead(w.v, w.files)
      BY <1>1 DEF AckedInv, HeadFlushed
    <3> QED
      BY <3>1, <3>2, <3>3 DEF HasHead, Kept
  <2>3. CASE \E id \in ReferencedIds(w.v) : w.files[id][k].seq >= s
    BY <2>3 DEF Kept
  <2>4. CASE /\ erased[k] >= s /\ s < w.v.nextSeq
             /\ \A id \in ReferencedIds(w.v) : w.files[id][k] = Absent
             /\ \A q \in LoggedSeqs(LogSegs, k) : q >= s
    BY <1>1, <2>4 DEF Kept
  <2> QED
    BY <2>1, <2>2, <2>3, <2>4 DEF Kept
<1> QED
  BY <1>6, <1>7, <1>8, <1>9, <1>10, <1>11 DEF AckedInv

-----------------------------------------------------------------------------
\* A power loss: what was in memory is in the synced part of the log.
LEMMA PowerLossAcked ==
  ASSUME DataInv, OrderInv, AckedInv, PowerLoss
  PROVE  AckedInv'
<1>1. /\ up' = FALSE /\ active' = EmptyTable /\ frozen' = <<>> /\ flush' = NoFlush
      /\ pc' = [t \in Threads |-> "idle"] /\ op' = [t \in Threads |-> NoOp]
      /\ UNCHANGED <<acked, erased>>
  BY DEF PowerLoss, Die, Gate!Restart
<1>2. ViewsKept /\ LogKept
  BY PowerLossOrder
<1>3. HistoryOK' /\ Gate!Claimed' = {} /\ EffectKept
  BY <1>1 DEF AckedInv, HistoryOK, Gate!Claimed, EffectKept, InEffect, Applied
<1>4. ClaimsLater' /\ FrozenLogged'
  BY <1>1, <1>3 DEF ClaimsLater, FrozenLogged
<1>5. LogDrained' /\ HeadFlushed'
  <2>1. flush'.stage = "none"
    BY <1>1, NoFlushFacts
  <2> QED
    BY <2>1 DEF LogDrained, HeadFlushed, Installing, Collecting
<1>6. ErasedCovers'
  <2>1. Named' \subseteq Named
    BY <1>2, ViewsKeptOrder DEF OrderInv
  <2>2. Stored' \subseteq Stored
    BY <1>1, <2>1 DEF Stored, ToSet
  <2>3. Erasing(EmptyTable)'
    BY DEF Erasing, EmptyTable, Absent
  <2> QED
    BY <1>1, <2>2, <2>3 DEF AckedInv, ErasedCovers, Erasing
<1>7. HeldKept
  <2> SUFFICES ASSUME NEW k \in Keys, NEW s \in Nat \ {0}, NEW q \in Held(k), q >= s
               PROVE  \E p \in Held(k)' : p >= s
    BY DEF HeldKept
  <2>1. q \in SyncedSeqs(LogSegs, k)
    <3>1. CASE ~up
      BY <3>1 DEF Held
    <3>2. CASE up /\ q = active[k].seq
      <4>1. active[k] # Absent
        BY <3>2 DEF Absent
      <4> QED
        BY <3>2, <4>1 DEF OrderInv, ActiveLogged
    <3>3. CASE up /\ \E i \in DOMAIN frozen : q = frozen[i][k].seq
      <4>1. PICK i \in DOMAIN frozen : q = frozen[i][k].seq
        BY <3>3
      <4>2. frozen[i][k] # Absent
        BY <4>1 DEF Absent
      <4> QED
        BY <4>1, <4>2 DEF AckedInv, FrozenLogged
    <3> QED
      BY <3>1, <3>2, <3>3 DEF Held, MemSeqs
  <2>2. Held(k)' = SyncedSeqs(LogSegs', k)
    BY <1>1 DEF Held
  <2> QED
    BY <1>2, <2>1, <2>2 DEF LogKept
<1>8. LogShrinks /\ ErasedGrows
  BY <1>1, <1>2 DEF LogKept, LogShrinks, ErasedGrows, AckedInv, HistoryOK
<1>9. Settled'
  BY <1>2, <1>3, <1>7, <1>8, SettledKept DEF AckedInv, DataInv
<1> QED
  BY <1>3, <1>4, <1>5, <1>6, <1>9 DEF AckedInv

\* A recovery takes over every delete that it replays.
LEMMA RecoveredDeletes ==
  ASSUME HistoryOK, NEW recs \in Seq({r \in Rec : r.seq <= MaxWrites}), NEW k \in Keys
  PROVE  /\ RecoveredErased(recs)[k] \in Nat /\ RecoveredErased(recs)[k] >= erased[k]
         /\ \A i \in DOMAIN recs : recs[i].key = k /\ recs[i].kind = "Tombstone" =>
              recs[i].seq <= RecoveredErased(recs)[k]
<1> DEFINE S == {erased[k]} \cup {recs[i].seq : i \in {j \in DOMAIN recs :
                                    recs[j].key = k /\ recs[j].kind = "Tombstone"}}
<1>1. \A i \in DOMAIN recs : recs[i].seq \in Nat /\ recs[i].seq <= MaxWrites
  <2>1. \A i \in DOMAIN recs : recs[i] \in {r \in Rec : r.seq <= MaxWrites}
    OBVIOUS
  <2> QED
    BY <2>1 DEF Rec
<1>2. erased[k] \in Nat /\ MaxWrites \in Nat
  BY DbAssumption DEF HistoryOK
<1>3. /\ S \in SUBSET Nat /\ S # {} /\ erased[k] + MaxWrites \in Nat
      /\ \A m \in S : m <= erased[k] + MaxWrites
  BY <1>1, <1>2, SMTT(30)
<1>4. RecoveredErased(recs)[k] = Max(S)
  BY DEF RecoveredErased
<1>5. /\ erased[k] \in S
      /\ \A i \in DOMAIN recs : recs[i].key = k /\ recs[i].kind = "Tombstone" => recs[i].seq \in S
  OBVIOUS
<1> HIDE DEF S
<1>6. Max(S) \in S /\ \A m \in S : m <= Max(S)
  BY <1>3, MaxOfNats
<1> QED
  BY <1>3, <1>4, <1>5, <1>6

\* open_on: the log is replayed over the manifest's version.
LEMMA OpenAcked ==
  ASSUME DataInv, OrderInv, AckedInv, Open
  PROVE  AckedInv'
<1> DEFINE recs == Records(wal.segs)
           manifest == dir.live.manifest
<1>1. /\ ~up /\ up' /\ active' = Replay(recs) /\ nextSeq' = RecoveredSeq(manifest, recs)
      /\ erased' = RecoveredErased(recs)
      /\ UNCHANGED <<pc, op, frozen, dir, flush, acked>>
  BY DEF Open, gateVars
<1>2. ViewsKept /\ LogSegs' = LogSegs /\ LogSegs = ToSet(wal.segs)
  BY OpenOrder
<1>3. /\ OpsOK /\ HistoryOK /\ flush.stage = "none" /\ wal.segs \in Seq(Segment)
      /\ \A t \in Threads : pc[t] = "idle"
      /\ dir.live.manifest \in Version /\ dir.live.manifest.nextSeq \in Clocks
      /\ Holds(dir.live.manifest, dir.live.files)
  BY <1>1 DEF DataInv, ClockOK, LogOK, Log, FilesOK, View, AckedInv
<1>4. recs \in Seq({r \in Rec : r.seq <= MaxWrites})
  BY <1>3, RecordsType
<1>5. recs \in Seq(Rec)
  BY <1>4
<1>6. \A k \in Keys : /\ \A s \in LoggedSeqs(LogSegs, k) : active'[k].seq >= s
                      /\ active'[k].seq \in Nat
  BY <1>1, <1>2, <1>3, RecoveredTable DEF Table, Entry, Absent
<1>7. \A k \in Keys : \/ active'[k] = Absent
                      \/ \E i \in DOMAIN recs : recs[i].key = k /\ active'[k] = EntryOf(recs[i])
  BY <1>1, <1>5, ReplayNewest
<1>8. /\ nextSeq' \in Clocks /\ manifest.nextSeq <= nextSeq'
      /\ \A i \in DOMAIN recs : recs[i].seq < nextSeq'
  BY <1>1, <1>3, <1>4, RecoveredClock
<1>9. \A k \in Keys :
        /\ erased'[k] \in Nat /\ erased'[k] >= erased[k]
        /\ \A i \in DOMAIN recs : recs[i].key = k /\ recs[i].kind = "Tombstone" =>
             recs[i].seq <= erased'[k]
  BY <1>1, <1>3, <1>4, RecoveredDeletes
<1>10. erased' \in [Keys -> Nat]
  BY <1>1, <1>9 DEF RecoveredErased
<1> HIDE DEF recs
<1>11. EffectKept /\ ErasedGrows /\ LogShrinks
  BY <1>1, <1>2, <1>9 DEF EffectKept, InEffect, Applied, ErasedGrows, LogShrinks
<1>12. HeldKept
  <2>1. \A k \in Keys : SyncedSeqs(LogSegs, k) \subseteq LoggedSeqs(LogSegs, k)
    BY LogTyped, SyncedLogged
  <2> SUFFICES ASSUME NEW k \in Keys, NEW s \in Nat \ {0}, NEW q \in Held(k), q >= s
               PROVE  \E p \in Held(k)' : p >= s
    BY DEF HeldKept
  <2>2. q \in LoggedSeqs(LogSegs, k) /\ q \in Nat
    BY <1>1, <2>1, DbAssumption DEF Held, LoggedSeqs
  <2>3. active'[k].seq >= s
    BY <1>6, <2>2
  <2> QED
    BY <1>1, <2>3 DEF Held, MemSeqs
<1>13. Settled'
  BY <1>2, <1>3, <1>11, <1>12, SettledKept DEF AckedInv
<1>14. HistoryOK'
  <2>1. ASSUME NEW k \in Keys, NEW s \in InEffect(k)' PROVE s < nextSeq'
    <3>1. s \in InEffect(k) /\ s \in Nat \ {0} /\ nextSeq' \in Nat
      BY <1>3, <1>8, <1>11, EffectTyped DEF EffectKept, Clocks
    <3> DEFINE w == [v |-> manifest, files |-> dir.live.files]
    <3>2. w \in Views
      BY DEF Views
    <3>3. Kept(w, k, s)
      BY <3>1, <3>2 DEF AckedInv, Settled
    <3>4. CASE \E q \in Held(k) : q >= s
      <4>1. \E q \in Held(k)' : q >= s
        BY <1>12, <3>1, <3>4 DEF HeldKept
      <4>2. frozen' = <<>>
        BY <1>1 DEF OrderInv, LogShape
      <4>3. active'[k].seq >= s
        BY <1>1, <4>1, <4>2 DEF Held, MemSeqs
      <4>4. active'[k] # Absent
        BY <3>1, <4>3 DEF Absent
      <4>5. PICK i \in DOMAIN recs : active'[k] = EntryOf(recs[i])
        BY <1>7, <4>4
      <4>6. active'[k].seq < nextSeq'
        BY <1>8, <4>5 DEF EntryOf
      <4> QED
        BY <1>6, <3>1, <4>3, <4>6
    <3>5. CASE \E id \in ReferencedIds(manifest) : dir.live.files[id][k].seq >= s
      <4>1. PICK id \in ReferencedIds(manifest) : dir.live.files[id][k].seq >= s
        BY <3>5
      <4>2. dir.live.files[id][k] \in Below(manifest.nextSeq)
        BY <1>3 DEF Holds, TablesBelow
      <4>3. dir.live.files[id][k].seq \in Nat /\ dir.live.files[id][k].seq < manifest.nextSeq
        BY <4>2 DEF Below, Entry, Absent
      <4> QED
        BY <1>3, <1>8, <3>1, <4>1, <4>3 DEF Clocks
    <3>6. CASE s < manifest.nextSeq
      BY <1>3, <1>8, <3>1, <3>6 DEF Clocks
    <3> QED
      BY <3>3, <3>4, <3>5, <3>6 DEF Kept
  <2> QED
    BY <1>1, <1>3, <1>10, <2>1 DEF HistoryOK
<1>15. ClaimsLater' /\ FrozenLogged' /\ LogDrained' /\ HeadFlushed'
  <2>1. Gate!Claimed' = {} /\ frozen' = <<>>
    BY <1>1, <1>3 DEF Gate!Claimed, OrderInv, LogShape
  <2> QED
    BY <1>1, <1>3, <2>1
       DEF ClaimsLater, FrozenLogged, LogDrained, HeadFlushed, Installing, Collecting
<1>16. ErasedCovers'
  <2>1. Named' \subseteq Named
    BY <1>2, ViewsKeptOrder DEF OrderInv
  <2>2. Stored' \subseteq Stored
    BY <1>1, <2>1 DEF Stored
  <2>3. Erasing(active)'
    <3> SUFFICES ASSUME NEW k \in Keys, active'[k].kind = "Tombstone"
                 PROVE  active'[k].seq <= erased'[k]
      BY DEF Erasing
    <3>1. active'[k] # Absent
      BY DEF Absent
    <3>2. PICK i \in DOMAIN recs : recs[i].key = k /\ active'[k] = EntryOf(recs[i])
      BY <1>7, <3>1
    <3>3. active'[k].seq = recs[i].seq /\ active'[k].kind = recs[i].kind
      BY <3>2 DEF EntryOf
    <3> QED
      BY <1>9, <3>2, <3>3
  <2>4. ASSUME NEW table \in Stored PROVE Erasing(table)'
    <3>1. \A k \in Keys : table[k].kind = "Tombstone" => table[k].seq <= erased[k]
      BY <2>4 DEF AckedInv, ErasedCovers, Erasing
    <3>2. \A k \in Keys : table[k].seq \in Nat
      BY <2>4, StoredTyped
    <3> QED
      BY <1>3, <1>9, <3>1, <3>2 DEF Erasing, HistoryOK
  <2> QED
    BY <2>2, <2>3, <2>4 DEF ErasedCovers
<1> QED
  BY <1>13, <1>14, <1>15, <1>16 DEF AckedInv

\* A freshly created database.
LEMMA InitAcked == Init => AckedInv
<1> SUFFICES ASSUME Init PROVE AckedInv
  OBVIOUS
<1>1. /\ up = TRUE /\ active = EmptyTable /\ frozen = <<>> /\ flush = NoFlush
      /\ dir = [live |-> NoFiles, durable |-> NoFiles] /\ version = EmptyVersion
      /\ pc = [t \in Threads |-> "idle"] /\ op = [t \in Threads |-> NoOp]
      /\ acked = [k \in Keys |-> 0] /\ erased = [k \in Keys |-> 0]
  BY DEF Init, Gate!Init
<1>2. \A k \in Keys : InEffect(k) = {}
  BY <1>1 DEF InEffect, Applied
<1>3. HistoryOK /\ ClaimsLater /\ FrozenLogged /\ Settled
  BY <1>1, <1>2 DEF HistoryOK, ClaimsLater, FrozenLogged, Settled
<1>4. LogDrained /\ HeadFlushed
  BY <1>1, NoFlushFacts DEF LogDrained, HeadFlushed, Installing, Collecting
<1>5. Stored = {}
  <2>1. \A w \in Views : w.v = EmptyVersion
    BY <1>1, NoFlushFacts DEF Views, Installing, NoFiles
  <2>2. Named = {}
    BY <2>1, NoFlushFacts DEF Named
  <2> QED
    BY <1>1, <2>2 DEF Stored, ToSet
<1>6. ErasedCovers
  BY <1>1, <1>5 DEF ErasedCovers, Erasing, EmptyTable, Absent
<1> QED
  BY <1>3, <1>4, <1>6 DEF AckedInv

-----------------------------------------------------------------------------
\* write_table, for a new table that keeps every write together with the version
\* that will name it.
LEMMA TableAcked ==
  ASSUME DataInv, GateOK, OrderInv, AckedInv, up, NEW content \in TablesBelow(nextSeq), NEW next,
         NEW after, WriteTable(content, next, after), flush.stage \in {"table", "compact"},
         UNCHANGED <<gateVars, up, nextSeq, op, memVars, wal, version, ghostVars>>,
         ReferencedIds(next) \subseteq ReferencedIds(version) \cup {version.nextTableId},
         \A k \in Keys : \/ content[k] = Absent
                         \/ \E table \in Stored : content[k] = table[k],
         after = "discard" => /\ content = Head(frozen)
                              /\ version.nextTableId \in ReferencedIds(next),
         after = "compact" => flush.stage = "compact",
         \A files : /\ files[version.nextTableId] = content
                    /\ \A id \in ReferencedIds(version) : files[id] = dir.live.files[id]
                    => \A k \in Keys : \A s \in InEffect(k) :
                         Kept([v |-> next, files |-> files], k, s)
  PROVE  AckedInv'
<1> DEFINE id == version.nextTableId
<1>1. UNCHANGED <<pc, op, active, frozen, erased, acked, wal>> /\ LogSegs' = LogSegs
  BY DEF gateVars, memVars, ghostVars, LogSegs
<1>2. HistoryOK' /\ EffectKept /\ ClaimsSame
  BY <1>1 DEF AckedInv, HistoryOK, EffectKept, ClaimsSame, InEffect, Applied, Gate!Claimed
<1>3. CASE id \in DOMAIN dir.live.files
  <2>1. flush' = [flush EXCEPT !.stage = "failed"] /\ dir' = dir
    BY <1>3 DEF WriteTable
  <2>2. flush'.stage = "failed"
    BY <2>1 DEF DataInv, StageOK
  <2> QED
    BY <1>1, <1>2, <2>1, <2>2, QuietAcked DEF DataInv, OrderInv
<1>4. CASE id \notin DOMAIN dir.live.files
  <2> DEFINE files == dir.live.files
             more == dir'.live.files
             new == [v |-> next, files |-> more]
  <2>1. /\ flush' = [stage |-> "rename", base |-> version, next |-> next, after |-> after]
        /\ more[id] = content /\ \A i \in DOMAIN files : more[i] = files[i]
        /\ ReferencedIds(version) \subseteq DOMAIN files
    BY <1>4, TableViews
  <2>2. flush'.stage = "rename" /\ flush'.next = next /\ flush'.after = after
    BY <2>1
  <2>3. \A w \in Views' :
          w = new \/ \E u \in Views :
                       w.v = u.v /\ \A i \in ReferencedIds(u.v) : w.files[i] = u.files[i]
    BY <1>4, TableViews
  <2>4. \A table \in Named' : table \in Named \/ table = content
    BY <1>4, TableViews
  <2>5. HeadFlushed'
    <3>1. after = "discard" => \E i \in ReferencedIds(next) : dir'.live.files[i] = Head(frozen')
      BY <1>1, <2>1
    <3> QED
      BY <2>2, <3>1 DEF HeadFlushed, HasHead, Installing, Collecting
  <2> HIDE DEF more
  <2>6. LogDrained'
    BY <1>1, <2>2 DEF AckedInv, LogDrained, Installing
  <2>7. ErasedCovers'
    <3>1. Erasing(content)
      <4> SUFFICES ASSUME NEW k \in Keys, content[k].kind = "Tombstone"
                   PROVE  content[k].seq <= erased[k]
        BY DEF Erasing
      <4>1. content[k] # Absent
        BY DEF Absent
      <4> QED
        BY <4>1 DEF AckedInv, ErasedCovers, Erasing
    <3>2. \A table \in Stored' : table \in Stored \/ table = content
      BY <1>1, <2>4 DEF Stored
    <3> QED
      BY <1>1, <3>1, <3>2 DEF AckedInv, ErasedCovers, Erasing
  <2>8. Settled'
    <3> SUFFICES ASSUME NEW w \in Views', NEW k \in Keys, NEW s \in InEffect(k)
                 PROVE  Kept(w, k, s)'
      BY <1>2 DEF Settled, EffectKept
    <3>1. Held(k)' = Held(k) /\ LoggedSeqs(LogSegs', k) = LoggedSeqs(LogSegs, k)
      BY <1>1 DEF Held, MemSeqs
    <3>2. CASE w = new
      <4>1. Kept(new, k, s)
        BY <2>1
      <4> QED
        BY <1>1, <3>1, <3>2, <4>1 DEF Kept
    <3>3. CASE \E u \in Views :
                 w.v = u.v /\ \A i \in ReferencedIds(u.v) : w.files[i] = u.files[i]
      <4>1. PICK u \in Views :
              w.v = u.v /\ \A i \in ReferencedIds(u.v) : w.files[i] = u.files[i]
        BY <3>3
      <4>2. Kept(u, k, s)
        BY DEF AckedInv, Settled
      <4> QED
        BY <1>1, <3>1, <4>1, <4>2 DEF Kept
    <3> QED
      BY <2>3, <3>2, <3>3
  <2>9. ClaimsLater' /\ FrozenLogged'
    BY <1>1 DEF AckedInv, ClaimsLater, FrozenLogged, InEffect, Applied, Gate!Claimed
  <2> QED
    BY <1>2, <2>5, <2>6, <2>7, <2>8, <2>9 DEF AckedInv
<1> QED
  BY <1>3, <1>4

\* The oldest frozen memtable becomes a table: its version has all that the current
\* one has, and that memtable.
LEMMA FlushTableAcked ==
  ASSUME DataInv, GateOK, OrderInv, AckedInv, FlushTable
  PROVE  AckedInv'
<1> DEFINE id == version.nextTableId
           next == Flushed(version, id, nextSeq)
           content == Head(frozen)
           live == dir.live.files
<1>1. /\ up /\ flush.stage = "table" /\ frozen # <<>> /\ WriteTable(content, next, "discard")
      /\ UNCHANGED <<gateVars, up, nextSeq, op, memVars, wal, version, ghostVars>>
  BY DEF FlushTable, InBody
<1>2. /\ version \in Version /\ version.nextSeq \in 1 .. nextSeq /\ id \in Nat
  BY <1>1, CurrentView
<1>3. nextSeq \in Nat \ {0}
  BY DbAssumption DEF DataInv, ClockOK, Clocks
<1>4. /\ next \in Version /\ next.nextSeq = Max2(nextSeq, version.nextSeq)
      /\ ReferencedIds(next) = ReferencedIds(version) \cup {id}
  BY <1>2, <1>3, FlushedVersion, FlushedKeeps
<1>5. next.nextSeq \in Nat /\ next.nextSeq = nextSeq
  BY <1>2, <1>3, <1>4 DEF Max2
<1>6. content \in TablesBelow(nextSeq) /\ content = frozen[1] /\ 1 \in DOMAIN frozen
  <2> DEFINE tables == TablesBelow(nextSeq)
  <2>1. frozen \in Seq(tables)
    BY DEF DataInv, BufferOK
  <2> HIDE DEF tables
  <2>2. content \in tables /\ content = frozen[1] /\ 1 \in DOMAIN frozen
    BY <1>1, <2>1
  <2> QED
    BY <2>2 DEF tables
<1> HIDE DEF next, content
<1>7. content \in Stored
  BY <1>6 DEF Stored, ToSet
<1>8. ASSUME NEW files, files[id] = content,
             \A i \in ReferencedIds(version) : files[i] = live[i],
             NEW k \in Keys, NEW s \in InEffect(k)
      PROVE  Kept([v |-> next, files |-> files], k, s)
  <2> DEFINE u == [v |-> version, files |-> live]
  <2>1. u \in Views
    BY <1>1 DEF Views
  <2>2. Kept(u, k, s) /\ s \in Nat \ {0}
    BY <2>1, EffectTyped DEF AckedInv, Settled, DataInv
  <2>3. CASE \E q \in Held(k) : q >= s
    BY <2>3 DEF Kept
  <2>4. CASE \E i \in ReferencedIds(version) : live[i][k].seq >= s
    BY <1>4, <1>8, <2>4 DEF Kept
  <2>5. CASE /\ erased[k] >= s /\ s < version.nextSeq
             /\ \A i \in ReferencedIds(version) : live[i][k] = Absent
             /\ \A q \in LoggedSeqs(LogSegs, k) : q >= s
    <3>1. CASE content[k] = Absent
      <4>1. \A i \in ReferencedIds(next) : files[i][k] = Absent
        BY <1>4, <1>8, <2>5, <3>1
      <4>2. s < next.nextSeq
        BY <1>2, <1>3, <1>5, <2>2, <2>5
      <4> QED
        BY <2>5, <4>1, <4>2 DEF Kept
    <3>2. CASE content[k] # Absent
      <4>1. content[k].seq \in SyncedSeqs(LogSegs, k)
        BY <1>6, <3>2 DEF AckedInv, FrozenLogged
      <4>2. content[k].seq >= s
        BY <2>5, <4>1, LogTyped, SyncedLogged
      <4> QED
        BY <1>4, <1>8, <4>2 DEF Kept
    <3> QED
      BY <3>1, <3>2
  <2> QED
    BY <2>2, <2>3, <2>4, <2>5 DEF Kept
<1> QED
  BY <1>1, <1>4, <1>6, <1>7, <1>8, TableAcked DEF content

\* A compaction: what its tier had for a key is in its output, or a tombstone of the
\* tier has taken it out at the bottom, when nothing in the log can bring it back.
LEMMA CompactAcked ==
  ASSUME DataInv, GateOK, OrderInv, AckedInv, Compact
  PROVE  AckedInv'
<1> DEFINE tier == TierToCompact(version, TierFanout)
           id == version.nextTableId
           live == dir.live.files
           output == CompactionOutput(version, tier, live)
           next == IF IsEmpty(output) THEN Cleared(version, tier)
                   ELSE Compacted(version, tier, id)
<1>1. /\ up /\ flush.stage = "compact" /\ tier # 0 /\ WriteTable(output, next, "compact")
      /\ UNCHANGED <<gateVars, up, nextSeq, op, memVars, wal, version, ghostVars>>
  BY DEF Compact, InBody
<1>2. /\ version \in Version /\ version.nextSeq \in 1 .. nextSeq /\ id \in Nat
      /\ Holds(version, live) /\ TiersOrdered(version, live)
      /\ \A i \in ReferencedIds(version) : live[i] \in Named
  BY <1>1, CurrentView
<1>3. nextSeq \in Nat \ {0} /\ version.nextSeq \in Nat \ {0}
  BY <1>2, DbAssumption DEF DataInv, ClockOK, Clocks
<1>4. tier \in DOMAIN version.tiers
  BY <1>1, <1>2, TierPicked
<1>5. tier \in Nat /\ DOMAIN version.tiers \subseteq Nat
  BY <1>2, <1>4 DEF Version
<1> HIDE DEF tier
<1>6. output \in TablesBelow(version.nextSeq)
  BY <1>2, <1>3, <1>4, CompactionBelow
<1>7. \A k \in Keys : \/ output[k] = Absent
                      \/ \E i \in DOMAIN version.tiers[tier] :
                           output[k] = live[version.tiers[tier][i]][k]
  BY <1>2, <1>3, <1>4, CompactionEntries
<1>8. \A k \in Keys : \A i \in DOMAIN version.tiers[tier] :
        \/ output[k].seq >= live[version.tiers[tier][i]][k].seq
        \/ /\ OutputIsBottom(version, tier) /\ output[k] = Absent
           /\ \E j \in DOMAIN version.tiers[tier] :
                /\ live[version.tiers[tier][j]][k].kind = "Tombstone"
                /\ live[version.tiers[tier][j]][k].seq >= live[version.tiers[tier][i]][k].seq
  BY <1>2, <1>3, <1>4, CompactionKeeps
<1> HIDE DEF output
<1>9. output \in TablesBelow(nextSeq)
  BY <1>2, <1>3, <1>6, BelowMonotone
<1>10. /\ next \in Version /\ next.nextSeq = version.nextSeq
       /\ ReferencedIds(next) \subseteq ReferencedIds(version) \cup {id}
  <2>1. /\ Cleared(version, tier) \in Version /\ Cleared(version, tier).nextSeq = version.nextSeq
        /\ ReferencedIds(Cleared(version, tier)) \subseteq ReferencedIds(version)
    BY <1>2, <1>4, ClearedVersion
  <2>2. /\ Compacted(version, tier, id) \in Version
        /\ Compacted(version, tier, id).nextSeq = version.nextSeq
        /\ ReferencedIds(Compacted(version, tier, id)) \subseteq ReferencedIds(version) \cup {id}
    BY <1>2, <1>4, CompactedVersion
  <2> QED
    BY <2>1, <2>2
<1>11. Replaces(version, next, tier, tier + 1, id)
  BY <1>2, <1>4, ClearedSlots, CompactedSlots
<1>12. /\ ~IsEmpty(output) => id \in ReferencedIds(next)
       /\ \A t \in DOMAIN version.tiers : \A i \in DOMAIN version.tiers[t] :
            t # tier => version.tiers[t][i] \in ReferencedIds(next)
  BY <1>2, <1>4, ClearedKeeps, CompactedKeeps
<1> HIDE DEF next
<1>13. \A t \in DOMAIN version.tiers : \A i \in DOMAIN version.tiers[t] :
         version.tiers[t][i] \in ReferencedIds(version)
  BY <1>2, TierIds
<1>14. \A k \in Keys : output[k] = Absent \/ \E table \in Stored : output[k] = table[k]
  BY <1>2, <1>4, <1>7, <1>13 DEF Stored
<1>15. \A i \in ReferencedIds(version) : \A k \in Keys :
         live[i][k].seq \in Nat /\ live[i][k].seq < version.nextSeq
  BY <1>2, <1>3, BelowFacts DEF Holds, TablesBelow
<1>16. \A k \in Keys : LoggedSeqs(LogSegs, k) = {}
  BY <1>1 DEF AckedInv, LogDrained
<1>17. ASSUME NEW files, files[id] = output,
              \A i \in ReferencedIds(version) : files[i] = live[i],
              NEW k \in Keys, NEW s \in InEffect(k)
       PROVE  Kept([v |-> next, files |-> files], k, s)
  <2> DEFINE u == [v |-> version, files |-> live]
  <2>1. u \in Views
    BY <1>1 DEF Views
  <2>2. Kept(u, k, s) /\ s \in Nat \ {0}
    BY <2>1, EffectTyped DEF AckedInv, Settled, DataInv
  <2>0. s \in Nat
    BY <2>2
  <2>3. CASE \E q \in Held(k) : q >= s
    BY <2>3 DEF Kept
  <2>4. CASE /\ erased[k] >= s /\ s < version.nextSeq
             /\ \A i \in ReferencedIds(version) : live[i][k] = Absent
             /\ \A q \in LoggedSeqs(LogSegs, k) : q >= s
    <3>1. output[k] = Absent
      BY <1>4, <1>7, <1>13, <2>4
    <3>2. \A i \in ReferencedIds(next) : files[i][k] = Absent
      BY <1>10, <1>17, <2>4, <3>1
    <3> QED
      BY <1>10, <2>4, <3>2 DEF Kept
  <2>5. CASE \E i \in ReferencedIds(version) : live[i][k].seq >= s
    <3>1. PICK t \in DOMAIN version.tiers : \E i \in DOMAIN version.tiers[t] :
            live[version.tiers[t][i]][k].seq >= s
      BY <1>2, <2>5, TierIds
    <3>2. PICK i \in DOMAIN version.tiers[t] : live[version.tiers[t][i]][k].seq >= s
      BY <3>1
    <3>3. CASE t # tier
      BY <1>12, <1>13, <1>17, <3>2, <3>3 DEF Kept
    <3>4. CASE t = tier /\ output[k].seq >= live[version.tiers[tier][i]][k].seq
      <4>1. output[k].seq >= s
        <5>1. output[k].seq \in Nat
          BY <1>3, <1>6, BelowFacts DEF TablesBelow
        <5> DEFINE old == live[version.tiers[tier][i]][k]
        <5>2. old.seq \in Nat /\ old.seq >= s
          BY <1>13, <1>15, <3>2, <3>4
        <5>3. output[k].seq >= old.seq
          BY <3>4
        <5> HIDE DEF old
        <5> QED
          BY <2>0, <5>1, <5>2, <5>3
      <4>2. ~IsEmpty(output)
        BY <2>2, <4>1 DEF IsEmpty, Absent
      <4> QED
        BY <1>12, <1>17, <4>1, <4>2 DEF Kept
    <3>5. CASE /\ t = tier /\ OutputIsBottom(version, tier) /\ output[k] = Absent
               /\ \E j \in DOMAIN version.tiers[tier] :
                    /\ live[version.tiers[tier][j]][k].kind = "Tombstone"
                    /\ live[version.tiers[tier][j]][k].seq >= live[version.tiers[tier][i]][k].seq
      <4>1. PICK j \in DOMAIN version.tiers[tier] :
              /\ live[version.tiers[tier][j]][k].kind = "Tombstone"
              /\ live[version.tiers[tier][j]][k].seq >= live[version.tiers[tier][i]][k].seq
        BY <3>5
      <4> DEFINE d == live[version.tiers[tier][j]][k]
      <4>2. d.seq \in Nat /\ d.seq < version.nextSeq /\ d.seq >= s
        <5> DEFINE old == live[version.tiers[tier][i]][k]
        <5>1. d.seq \in Nat /\ d.seq < version.nextSeq
          BY <1>4, <1>13, <1>15
        <5>2. old.seq \in Nat /\ old.seq >= s
          BY <1>13, <1>15, <3>2, <3>5
        <5>3. d.seq >= old.seq
          BY <4>1
        <5> HIDE DEF d, old
        <5> QED
          BY <2>0, <5>1, <5>2, <5>3
      <4>3. erased[k] >= s
        <5>1. live[version.tiers[tier][j]] \in Stored
          BY <1>2, <1>4, <1>13 DEF Stored
        <5>2. d.seq <= erased[k]
          BY <4>1, <5>1 DEF AckedInv, ErasedCovers, Erasing
        <5>3. erased[k] \in Nat
          BY DEF AckedInv, HistoryOK
        <5> HIDE DEF d
        <5> QED
          BY <2>0, <4>2, <5>2, <5>3
      <4>4. s < next.nextSeq
        <5> HIDE DEF d
        <5> QED
          BY <1>3, <1>10, <2>0, <4>2
      <4>5. ASSUME NEW x \in ReferencedIds(next), files[x][k] # Absent
            PROVE  files[x][k].seq >= s
        <5>1. PICK a \in DOMAIN next.tiers : \E b \in DOMAIN next.tiers[a] : x = next.tiers[a][b]
          BY <1>10, TierIds
        <5>2. PICK b \in DOMAIN next.tiers[a] : x = next.tiers[a][b]
          BY <5>1
        <5>3. ~NewSlot(version, next, tier + 1, id, a, b)
          BY <1>17, <3>5, <4>5, <5>2 DEF NewSlot
        <5>4. /\ a \in DOMAIN version.tiers /\ a # tier /\ b \in DOMAIN version.tiers[a]
              /\ x = version.tiers[a][b]
          BY <1>11, <5>2, <5>3 DEF Replaces, OldSlot
        <5>5. a < tier
          <6>0. version.tiers[a] # <<>>
            BY <5>4
          <6>1. OutputIsBottom(version, tier)
            BY <3>5
          <6>2. ~(a > tier)
            BY <5>4, <6>0, <6>1 DEF OutputIsBottom
          <6> QED
            BY <1>5, <5>4, <6>2
        <5>6. TableOver(live[x], live[version.tiers[tier][j]])
          BY <1>2, <1>4, <5>4, <5>5 DEF TiersOrdered
        <5>7. files[x] = live[x] /\ live[x][k].seq \in Nat
          BY <1>13, <1>15, <1>17, <5>4
        <5>8. live[x][k].seq >= d.seq
          BY <4>5, <5>6, <5>7 DEF TableOver, Over
        <5> HIDE DEF d
        <5> QED
          BY <2>0, <4>2, <5>7, <5>8
      <4>6. CASE \E x \in ReferencedIds(next) : files[x][k] # Absent
        BY <4>5, <4>6 DEF Kept
      <4>7. CASE \A x \in ReferencedIds(next) : files[x][k] = Absent
        BY <1>16, <4>3, <4>4, <4>7 DEF Kept
      <4> QED
        BY <4>6, <4>7
    <3> QED
      BY <1>8, <3>2, <3>3, <3>4, <3>5
  <2> QED
    BY <2>2, <2>3, <2>4, <2>5 DEF Kept
<1> QED
  BY <1>1, <1>9, <1>10, <1>14, <1>17, TableAcked

\* The steps of a call.
LEMMA WriterAcked ==
  ASSUME DataInv, GateOK, OrderInv, AckedInv, KeepsOrder, NEW t \in Threads, WriterStep(t)
  PROVE  AckedInv'
  BY PlainAcked, ClaimAcked, LogAcked, ApplyAcked, FinishAcked, EnterAcked, FlushDoneAcked
     DEF WriterStep

\* The steps of a flush body.
LEMMA FlushAcked ==
  ASSUME DataInv, GateOK, OrderInv, AckedInv, FlushStep
  PROVE  AckedInv'
<1>1. ~RetireSpare /\ ~ResetErr
  BY Unspared DEF OrderInv, LogShape
<1> QED
  BY <1>1, FreezeAcked, FlushTableAcked, RenameAcked, SyncAcked, SwapAcked, GcAcked,
     DiscardAcked, ResetAcked, ResetSyncAcked, CompactAcked DEF FlushStep

\* Readers keep everything.
LEMMA ReaderAcked ==
  ASSUME DataInv, OrderInv, AckedInv, NEW r \in Readers, ReaderStep(r)
  PROVE  AckedInv'
<1>1. /\ up /\ UNCHANGED <<gateVars, up, nextSeq, op, memVars, diskVars, version, flush, ghostVars>>
  BY DEF ReaderStep, ReadStart, ReadMem, ReadPin, ReadTables, ReadReturn
<1>2. UNCHANGED <<pc, op, active, frozen, erased, acked, wal, dir, version, up, flush>>
  BY <1>1 DEF gateVars, memVars, ghostVars, diskVars
<1>3. HistoryOK' /\ EffectKept /\ ClaimsSame
  BY <1>1, <1>2 DEF AckedInv, HistoryOK, EffectKept, ClaimsSame, InEffect, Applied, Gate!Claimed
<1> QED
  BY <1>1, <1>2, <1>3, QuietAcked DEF DataInv, OrderInv

(***************************************************************************)
(* The invariant behind zero acked-write loss: every write that returned   *)
(* Ok, or is in the memtable and about to, is kept in memory (or, after a  *)
(* power loss, in the log that will be replayed) or in the tables of each  *)
(* version that may still be read, and where a compaction has dropped it   *)
(* behind a delete, nothing older can come back.                           *)
(***************************************************************************)
THEOREM DbAckedInductive == KeepsOrder => (Spec => []AckedInv)
<1> SUFFICES ASSUME KeepsOrder PROVE Spec => []AckedInv
  OBVIOUS
<1>1. DataInv /\ GateOK /\ OrderInv /\ AckedInv /\ [Next]_vars => AckedInv'
  <2> SUFFICES ASSUME DataInv, GateOK, OrderInv, AckedInv, [Next]_vars PROVE AckedInv'
    OBVIOUS
  <2>1. CASE UNCHANGED vars
    <3>1. UNCHANGED <<pc, op, nextSeq, active, frozen, erased, acked, wal, dir, version, up, flush>>
      BY <2>1 DEF vars, gateVars, memVars, ghostVars, diskVars
    <3>2. Views' = Views /\ LogSegs' = LogSegs
      BY <3>1 DEF Views, LogSegs
    <3>3. \A k \in Keys : InEffect(k)' = InEffect(k) /\ Held(k)' = Held(k)
      BY <3>1, <3>2 DEF InEffect, Applied, Held, MemSeqs
    <3>4. Settled'
      BY <3>1, <3>2, <3>3 DEF AckedInv, Settled, Kept
    <3>5. HistoryOK' /\ ClaimsLater'
      BY <3>1, <3>3 DEF AckedInv, HistoryOK, ClaimsLater, Gate!Claimed
    <3>6. FrozenLogged' /\ LogDrained' /\ HeadFlushed' /\ ErasedCovers'
      BY <3>1, <3>2 DEF AckedInv, FrozenLogged, LogDrained, HeadFlushed, HasHead, ErasedCovers,
                        Erasing, Stored, Named
    <3> QED
      BY <3>4, <3>5, <3>6 DEF AckedInv
  <2>2. ~Kill
    BY DEF KeepsOrder, Kill, Fault
  <2>3. CASE SyncLog
    BY <2>3, SyncLogAcked
  <2> QED
    BY <2>1, <2>2, <2>3, WriterAcked, FlushAcked, ReaderAcked, PowerLossAcked, OpenAcked
       DEF Next
<1>2. Spec => []OrderInv
  BY DbOrderInductive
<1> QED
  BY <1>1, <1>2, InitAcked, DbDataInductive, DbGateOK, PTL DEF Spec

-----------------------------------------------------------------------------
\* A version's lookup order lists every table of the version.
LEMMA TableSet ==
  ASSUME NEW v \in Version, NEW files
  PROVE  ToSet(TableSources(v, files)) = {files[id] : id \in ReferencedIds(v)}
<1> DEFINE tiers == v.tiers
           rev == [t \in DOMAIN tiers |-> Reverse(tiers[t])]
           ids == FlattenSeq(rev)
           n == Len(tiers)
<1>1. tiers \in Seq(Seq(Nat))
  BY DEF Version
<1>2. ids \in Seq(ReferencedIds(v))
  BY NewestFirstIds DEF TablesNewestFirst
<1>3. TableSources(v, files) = [i \in DOMAIN ids |-> files[ids[i]]]
  BY DEF TableSources, TablesNewestFirst
<1> HIDE DEF tiers
<1>4. n \in Nat /\ DOMAIN tiers = 1 .. n /\ \A t \in 1 .. n : tiers[t] \in Seq(Nat)
  BY <1>1
<1>5. \A t \in 1 .. n : rev[t] = Reverse(tiers[t]) /\ rev[t] \in Seq(Nat)
  BY <1>4, ReverseType
<1>6. rev \in Seq(Seq(Nat)) /\ Len(rev) = n
  <2>1. DOMAIN rev = 1 .. n /\ rev = [t \in 1 .. n |-> rev[t]]
    BY <1>4
  <2> DEFINE out == Seq(Nat)
  <2>2. \A t \in 1 .. n : rev[t] \in out
    BY <1>5
  <2> HIDE DEF rev, n, out
  <2>3. rev \in Seq(out) /\ Len(rev) = n
    BY <1>4, <2>1, <2>2
  <2> QED
    BY <2>3 DEF out
<1>7. AllOfThem(ids, rev, n)
  <2> HIDE DEF rev
  <2> QED
    BY <1>6, FlattenElements
<1>8. \A t \in 1 .. n : ToSet(rev[t]) = ToSet(tiers[t])
  BY <1>4, <1>5, ReverseSet
<1> HIDE DEF rev, ids, n
<1>9. ASSUME NEW id \in ReferencedIds(v) PROVE id \in ToSet(ids)
  <2>1. PICK t \in 1 .. n : id \in ToSet(tiers[t])
    BY <1>4 DEF ReferencedIds, tiers
  <2>2. id \in ToSet(rev[t]) /\ rev[t] \in Seq(Nat)
    BY <1>5, <1>8, <2>1
  <2>3. PICK a \in 1 .. Len(rev[t]) : rev[t][a] = id
    BY <2>2 DEF ToSet
  <2>4. PICK i \in 1 .. Len(ids) : ids[i] = id
    BY <1>7, <2>3 DEF AllOfThem
  <2> QED
    BY <1>2, <2>4 DEF ToSet
<1>10. ToSet(ids) = ReferencedIds(v)
  BY <1>2, <1>9 DEF ToSet
<1>11. ToSet([i \in DOMAIN ids |-> files[ids[i]]]) = {files[id] : id \in ToSet(ids)}
  BY DEF ToSet
<1> QED
  BY <1>3, <1>10, <1>11

\* The tables a lookup consults in a running process ...
LEMMA LiveTables ==
  ASSUME DataInv, OrderInv, up
  PROVE  ToSet(Sources) = {active} \cup ToSet(frozen)
                          \cup {dir.live.files[id] : id \in ReferencedIds(version)}
<1> DEFINE S == TablesBelow(nextSeq)
           mem == <<active>>
           rev == Reverse(frozen)
           ssts == TableSources(version, dir.live.files)
<1>1. mem \in Seq(S) /\ frozen \in Seq(S) /\ rev \in Seq(S)
  BY ReverseType DEF DataInv, BufferOK
<1>2. /\ version \in Version /\ version.nextSeq \in 1 .. nextSeq
      /\ Holds(version, dir.live.files)
  BY CurrentView
<1>3. nextSeq \in Nat /\ version.nextSeq <= nextSeq
  BY <1>2, DbAssumption DEF DataInv, ClockOK, Clocks
<1>4. ssts \in Seq(S) /\ ToSet(ssts) = {dir.live.files[id] : id \in ReferencedIds(version)}
  BY <1>2, <1>3, TableSourcesBelow, TableSet
<1>5. Sources = (mem \o rev) \o ssts
  BY DEF Sources, LiveSources, MemSources
<1>6. ToSet(mem) = {active}
  BY DEF ToSet
<1>7. ToSet(rev) = ToSet(frozen)
  <2> HIDE DEF S
  <2> QED
    BY <1>1, ReverseSet
<1> HIDE DEF S, mem, rev, ssts
<1> DEFINE front == mem \o rev
<1>8. front \in Seq(S) /\ ToSet(front) = ToSet(mem) \cup ToSet(rev)
  BY <1>1, ConcatType, ConcatSet
<1>9. Sources = front \o ssts
  BY <1>5
<1> HIDE DEF front
<1>10. ToSet(Sources) = ToSet(front) \cup ToSet(ssts)
  BY <1>4, <1>8, <1>9, ConcatSet
<1> QED
  BY <1>4, <1>6, <1>7, <1>8, <1>10

\* ... and in the one that opens the directory after a power loss.
LEMMA ImageTables ==
  ASSUME DataInv, OrderInv, ~up
  PROVE  /\ ToSet(Sources) = {Replay(Records(wal.segs))}
              \cup {dir.live.files[id] : id \in ReferencedIds(dir.live.manifest)}
         /\ LogSegs = ToSet(wal.segs) /\ wal.segs \in Seq(Segment)
<1> DEFINE S == TablesBelow(MaxWrites + 1)
           recs == Records(wal.segs)
           mem == <<Replay(recs)>>
           v == dir.live.manifest
           ssts == TableSources(v, dir.live.files)
<1>1. wal.segs \in Seq(Segment) /\ flush.stage = "none" /\ wal.old = <<>> /\ wal.gone = <<>>
  BY DEF DataInv, LogOK, Log, ClockOK, OrderInv, LogShape
<1>2. wal.old \o wal.segs = wal.segs
  BY <1>1
<1>3. Sources = mem \o ssts
  BY <1>2 DEF Sources, ImageSources, KillImage
<1>4. LogSegs = ToSet(wal.segs)
  BY <1>1 DEF LogSegs, ToSet
<1>5. MaxWrites + 1 \in Nat \ {0}
  BY DbAssumption
<1>6. v \in Version /\ v.nextSeq \in Clocks /\ Holds(v, dir.live.files)
  BY DEF DataInv, FilesOK, View
<1>7. v.nextSeq <= MaxWrites + 1
  BY <1>6, DbAssumption DEF Clocks
<1>8. ssts \in Seq(S) /\ ToSet(ssts) = {dir.live.files[id] : id \in ReferencedIds(v)}
  BY <1>5, <1>6, <1>7, TableSourcesBelow, TableSet
<1>9. Replay(recs) \in S
  <2>1. recs \in Seq({r \in Rec : r.seq <= MaxWrites})
    BY <1>1, RecordsType
  <2> HIDE DEF recs
  <2>2. recs \in Seq(Rec)
    BY <2>1
  <2>3. \A i \in DOMAIN recs : recs[i].seq < MaxWrites + 1
    <3>1. \A i \in DOMAIN recs : recs[i] \in Rec /\ recs[i].seq <= MaxWrites
      BY <2>1
    <3> QED
      BY <3>1, DbAssumption DEF Rec
  <2> QED
    BY <1>5, <2>2, <2>3, ReplayWeight
<1>10. mem \in Seq(S) /\ ToSet(mem) = {Replay(recs)}
  BY <1>9 DEF ToSet
<1> HIDE DEF S, recs, mem, ssts
<1>11. ToSet(mem \o ssts) = ToSet(mem) \cup ToSet(ssts)
  BY <1>8, <1>10, ConcatSet
<1> QED
  BY <1>1, <1>3, <1>4, <1>8, <1>10, <1>11 DEF recs

\* get() returns an entry of one of its sources, as new as any of them has.
LEMMA VisibleNewest ==
  ASSUME DataInv, OrderInv, NEW k \in Keys
  PROVE  /\ Visible(k).seq \in Nat
         /\ Visible(k) = Absent \/ \E table \in ToSet(Sources) : Visible(k) = table[k]
         /\ \A table \in ToSet(Sources) : table[k].seq \in Nat /\ Visible(k).seq >= table[k].seq
<1> DEFINE n == MaxWrites + 1
           src == Sources
<1>1. n \in Nat \ {0} /\ src \in Seq(TablesBelow(n)) /\ Ordered(src)
  BY SourcesOrdered, DbAssumption
<1>2. Visible(k) = FirstHit(src, k)
  BY DEF Visible
<1> HIDE DEF n, src
<1>3. \A i, j \in DOMAIN src : i < j /\ src[i][k] # Absent => src[i][k].seq >= src[j][k].seq
  BY <1>1 DEF Ordered, TableOver, Over
<1>4. FirstHit(src, k) = Newest(src, k)
  BY <1>1, <1>3, FirstHitNewest
<1>5. DOMAIN src \subseteq Nat /\ \A i \in DOMAIN src : src[i] \in TablesBelow(n)
  BY <1>1
<1>6. Newest(src, k) \in Below(n)
  BY <1>1, <1>5, NewestBelow
<1>7. ASSUME NEW i \in DOMAIN src PROVE src[i][k].seq \in Nat /\ Newest(src, k).seq >= src[i][k].seq
  <2>1. src[i][k] \in Below(n)
    BY <1>5 DEF TablesBelow
  <2> QED
    BY <1>1, <1>5, <2>1, BelowFacts, NewestOver
<1>8. Newest(src, k) = Absent \/ \E i \in DOMAIN src : Newest(src, k) = src[i][k]
  <2>1. CASE DOMAIN src = {}
    BY <2>1 DEF Newest
  <2>2. CASE DOMAIN src # {}
    BY <1>1, <1>5, <2>2, NewestOver
  <2> QED
    BY <2>1, <2>2
<1>9. Newest(src, k).seq \in Nat
  BY <1>1, <1>6, BelowFacts
<1> QED
  BY <1>2, <1>4, <1>7, <1>8, <1>9 DEF ToSet, src

\* What is kept is what a lookup sees.
LEMMA AckedSeen ==
  ASSUME DataInv, OrderInv, AckedInv
  PROVE  AckedVisible
<1> SUFFICES ASSUME NEW k \in Keys
             PROVE  \/ Visible(k).seq >= acked[k]
                    \/ Visible(k) = Absent /\ erased[k] >= acked[k]
  BY DEF AckedVisible
<1> DEFINE e == Visible(k)
           s == acked[k]
<1>1. /\ e.seq \in Nat
      /\ e = Absent \/ \E table \in ToSet(Sources) : e = table[k]
      /\ \A table \in ToSet(Sources) : table[k].seq \in Nat /\ e.seq >= table[k].seq
  BY VisibleNewest
<1>2. s \in Nat
  BY DEF AckedInv, HistoryOK
<1>3. \A q \in SyncedSeqs(LogSegs, k) : q \in LoggedSeqs(LogSegs, k)
  BY LogTyped, SyncedLogged
<1> HIDE DEF e
<1>4. CASE s = 0
  BY <1>1, <1>4 DEF e
<1>5. CASE s # 0 /\ up
  <2> DEFINE w == [v |-> version, files |-> dir.live.files]
  <2>1. w \in Views /\ s \in InEffect(k)
    BY <1>5 DEF Views, InEffect
  <2>2. Kept(w, k, s) /\ Held(k) = MemSeqs(k)
    BY <1>5, <2>1 DEF AckedInv, Settled, Held
  <2>3. ToSet(Sources) = {active} \cup ToSet(frozen)
                         \cup {dir.live.files[id] : id \in ReferencedIds(version)}
    BY <1>5, LiveTables
  <2>4. CASE \E q \in Held(k) : q >= s
    <3>1. PICK table \in ToSet(Sources) : table[k].seq >= s
      BY <2>2, <2>3, <2>4 DEF MemSeqs, ToSet
    <3> QED
      BY <1>1, <1>2, <3>1 DEF e
  <2>5. CASE \E id \in ReferencedIds(version) : dir.live.files[id][k].seq >= s
    <3>1. PICK table \in ToSet(Sources) : table[k].seq >= s
      BY <2>3, <2>5
    <3> QED
      BY <1>1, <1>2, <3>1 DEF e
  <2>6. CASE /\ erased[k] >= s
             /\ \A id \in ReferencedIds(version) : dir.live.files[id][k] = Absent
             /\ \A q \in LoggedSeqs(LogSegs, k) : q >= s
             /\ e # Absent
    <3>1. PICK table \in {active} \cup ToSet(frozen) : e = table[k]
      BY <1>1, <2>3, <2>6
    <3>2. e.seq \in SyncedSeqs(LogSegs, k)
      BY <2>6, <3>1 DEF OrderInv, ActiveLogged, AckedInv, FrozenLogged, ToSet
    <3> QED
      BY <1>3, <2>6, <3>2 DEF e
  <2> QED
    BY <2>2, <2>4, <2>5, <2>6 DEF Kept, e
<1>6. CASE s # 0 /\ ~up
  <2> DEFINE v == dir.live.manifest
             w == [v |-> v, files |-> dir.live.files]
             table == Replay(Records(wal.segs))
  <2>1. w \in Views /\ s \in InEffect(k)
    BY <1>6 DEF Views, InEffect
  <2>2. Kept(w, k, s) /\ Held(k) = SyncedSeqs(LogSegs, k)
    BY <1>6, <2>1 DEF AckedInv, Settled, Held
  <2>3. /\ ToSet(Sources) = {table} \cup {dir.live.files[id] : id \in ReferencedIds(v)}
        /\ LogSegs = ToSet(wal.segs) /\ wal.segs \in Seq(Segment)
    BY <1>6, ImageTables
  <2>4. /\ \A q \in LoggedSeqs(LogSegs, k) : table[k].seq >= q
        /\ table[k] = Absent \/ table[k].seq \in LoggedSeqs(LogSegs, k)
    BY <2>3, RecoveredTable
  <2> HIDE DEF table
  <2>5. e.seq >= table[k].seq /\ table[k].seq \in Nat
    BY <1>1, <2>3
  <2>6. CASE \E q \in Held(k) : q >= s
    <3>1. PICK q \in LoggedSeqs(LogSegs, k) : q >= s
      BY <1>3, <2>2, <2>6
    <3>2. q \in Nat
      BY DbAssumption DEF LoggedSeqs
    <3>3. table[k].seq >= q
      BY <2>4
    <3> QED
      BY <1>1, <1>2, <2>5, <3>1, <3>2, <3>3 DEF e
  <2>7. CASE \E id \in ReferencedIds(v) : dir.live.files[id][k].seq >= s
    <3>1. PICK old \in ToSet(Sources) : old[k].seq >= s
      BY <2>3, <2>7
    <3> QED
      BY <1>1, <1>2, <3>1 DEF e
  <2>8. CASE /\ erased[k] >= s
             /\ \A id \in ReferencedIds(v) : dir.live.files[id][k] = Absent
             /\ \A q \in LoggedSeqs(LogSegs, k) : q >= s
             /\ e # Absent
    <3>1. e = table[k]
      BY <1>1, <2>3, <2>8
    <3> QED
      BY <2>4, <2>8, <3>1 DEF e
  <2> QED
    BY <2>2, <2>6, <2>7, <2>8 DEF Kept, e
<1> QED
  BY <1>4, <1>5, <1>6

(***************************************************************************)
(* Zero acked-write loss (write, flush_quiesced, compact_tier and open_on, *)
(* db.rs): whatever is flushed, compacted, reset, lost to power and        *)
(* replayed, get(k) answers, now or after the pending recovery, with an    *)
(* entry at least as new as every write of k that returned Ok, or with     *)
(* nothing behind a delete that is at least as new.  For any number of     *)
(* keys, threads and power losses and, under Always, of failing storage    *)
(* operations of append and of flush bodies, those of Wal::reset after its *)
(* create excepted.                                                        *)
(***************************************************************************)
THEOREM DbAckedVisible == KeepsOrder => (Spec => []AckedVisible)
<1> SUFFICES ASSUME KeepsOrder PROVE Spec => []AckedVisible
  OBVIOUS
<1>1. DataInv /\ OrderInv /\ AckedInv => AckedVisible
  BY AckedSeen
<1>2. (Spec => []OrderInv) /\ (Spec => []AckedInv)
  BY DbOrderInductive, DbAckedInductive
<1> QED
  BY <1>1, <1>2, DbDataInductive, PTL
=============================================================================
