---------------------------- MODULE DbDataProofs ----------------------------
(***************************************************************************)
(* The engine for any keys, threads, readers, bounds and faults.  First    *)
(* its write path: every step of Db is a step of the monitor of WriteGate  *)
(* or leaves it alone, so that what WriteGateProofs proves of the monitor  *)
(* holds of the engine.  Then its data: type correctness, what the buffer  *)
(* holds while a flush body runs, which table files exist, and the         *)
(* freshness of sequence numbers.                                          *)
(***************************************************************************)
EXTENDS Db, LsmProofs

GateProofs == INSTANCE WriteGateProofs

\* The calls of put, delete and flush move through the monitor's own steps.
LEMMA WriterSteps ==
  ASSUME NEW t \in Threads, WriterStep(t)
  PROVE  Gate!Next \/ UNCHANGED gateVars
<1>1. CASE StartWrite(t)
  BY <1>1 DEF StartWrite, Gate!Next
<1>2. CASE WaitOrWake(t)
  BY <1>2 DEF WaitOrWake, Gate!Next, Gate!Progress
<1>3. ASSUME NEW k \in Keys, NEW kind \in WriteKinds, Claim(t, k, kind)
      PROVE  Gate!Next
  BY <1>3 DEF Claim, Gate!Next, Gate!Progress
<1>4. CASE LogRecord(t)
  BY <1>4 DEF LogRecord
<1>5. CASE AppendOk(t)
  BY <1>5 DEF AppendOk, Gate!Next, Gate!Progress
<1>6. CASE AppendErr(t)
  BY <1>6 DEF AppendErr, Gate!Next, Gate!Progress
<1>7. CASE Abort(t)
  BY <1>7 DEF Abort, Gate!Next, Gate!Progress
<1>8. CASE Apply(t)
  BY <1>8 DEF Apply, Gate!Next, Gate!Progress
<1>9. CASE Finish(t) \/ FinishFull(t)
  BY <1>9 DEF Finish, FinishFull, Gate!Next, Gate!Progress
<1>10. CASE StartFlush(t)
  BY <1>10 DEF StartFlush, Gate!Next
<1>11. CASE EnterBody(t) \/ FlushDone(t)
  BY <1>11 DEF EnterBody, FlushDone, Gate!Next, Gate!Progress
<1> QED
  BY <1>1, <1>2, <1>3, <1>4, <1>5, <1>6, <1>7, <1>8, <1>9, <1>10, <1>11 DEF WriterStep

\* The steps inside a flush body, of the readers and of the log keep it as it is.
LEMMA OtherSteps ==
  ASSUME SyncLog \/ FlushStep \/ (\E r \in Readers : ReaderStep(r)) \/ Open
  PROVE  UNCHANGED gateVars
<1>1. CASE SyncLog
  BY <1>1 DEF SyncLog
<1>2. CASE Freeze \/ FlushTable \/ RenameManifest \/ SyncManifest \/ SwapVersion
  BY <1>2 DEF Freeze, FlushTable, RenameManifest, SyncManifest, SwapVersion
<1>3. CASE GcTables \/ GcSync \/ Discard
  BY <1>3 DEF GcTables, GcSync, Discard
<1>4. CASE ResetCreate \/ RetireSegment \/ RetireSpare \/ ResetSync \/ ResetErr
  BY <1>4 DEF ResetCreate, RetireSegment, RetireSpare, ResetSync, ResetErr
<1>5. CASE Compact \/ CompactNothing \/ FlushErr
  BY <1>5 DEF Compact, CompactNothing, FlushErr
<1>6. ASSUME NEW r \in Readers, ReaderStep(r) PROVE UNCHANGED gateVars
  BY <1>6 DEF ReaderStep, ReadStart, ReadMem, ReadPin, ReadTables, ReadReturn
<1>7. CASE Open
  BY <1>7 DEF Open
<1> QED
  BY <1>1, <1>2, <1>3, <1>4, <1>5, <1>6, <1>7 DEF FlushStep

\* A crash of the process is a restart of the monitor.
LEMMA Crashes ==
  ASSUME PowerLoss \/ Kill
  PROVE  Gate!Next
  BY DEF PowerLoss, Kill, Die, Gate!Next

(***************************************************************************)
(* The engine implements the monitor (write, flush, flush_locked and       *)
(* open_on, db.rs).                                                        *)
(***************************************************************************)
THEOREM DbImplementsGate == Spec => Gate!Spec
<1>1. Init => Gate!Init
  BY DEF Init
<1>2. [Next]_vars => [Gate!Next]_gateVars
  <2> SUFFICES ASSUME [Next]_vars PROVE Gate!Next \/ UNCHANGED gateVars
    BY DEF gateVars, Gate!gateVars
  <2>1. CASE UNCHANGED vars
    BY <2>1 DEF vars
  <2> QED
    BY <2>1, WriterSteps, OtherSteps, Crashes DEF Next
<1> QED
  BY <1>1, <1>2, PTL DEF Spec, Gate!Spec, gateVars, Gate!gateVars

\* The two instances of the monitor, plain and with its proofs, are the same.
LEMMA SameGate ==
  /\ Gate!Init <=> GateProofs!Init
  /\ [Gate!Next]_(Gate!gateVars) <=> [GateProofs!Next]_(GateProofs!gateVars)
  /\ Gate!QuiescedBody <=> GateProofs!QuiescedBody
  /\ Gate!NoLostWakeup /\ Gate!GateHasOwner
       <=> GateProofs!NoLostWakeup /\ GateProofs!GateHasOwner
<1>1. Gate!Next <=> GateProofs!Next
  BY DEF Gate!StartWrite, GateProofs!StartWrite, Gate!WaitForGate,
         GateProofs!WaitForGate, Gate!Claim, GateProofs!Claim, Gate!AppendOk,
         GateProofs!AppendOk, Gate!AppendErr, GateProofs!AppendErr, Gate!Abort,
         GateProofs!Abort, Gate!Apply, GateProofs!Apply, Gate!EnterFlush,
         GateProofs!EnterFlush, Gate!Finish, GateProofs!Finish, Gate!FinishFull,
         GateProofs!FinishFull, Gate!StartFlush, GateProofs!StartFlush, Gate!WaitAgain,
         GateProofs!WaitAgain, Gate!EnterBody, GateProofs!EnterBody, Gate!FlushDone,
         GateProofs!FlushDone, Gate!SpuriousWake, GateProofs!SpuriousWake,
         Gate!Restart, GateProofs!Restart, Gate!Progress, GateProofs!Progress,
         Gate!Next, GateProofs!Next, Gate!Goto, GateProofs!Goto, Gate!Locks,
         GateProofs!Locks
<1>2. Gate!QuiescedBody <=> GateProofs!QuiescedBody
  BY DEF Gate!QuiescedBody, GateProofs!QuiescedBody, Gate!Claimed, GateProofs!Claimed
<1>4. Gate!NoLostWakeup <=> GateProofs!NoLostWakeup
  BY DEF Gate!NoLostWakeup, GateProofs!NoLostWakeup, Gate!Claimed, GateProofs!Claimed
<1>5. Gate!GateHasOwner <=> GateProofs!GateHasOwner
  BY DEF Gate!GateHasOwner, GateProofs!GateHasOwner
<1>3. Gate!Init <=> GateProofs!Init
  BY DEF Gate!Init, GateProofs!Init
<1> QED
  BY <1>1, <1>2, <1>3, <1>4, <1>5 DEF Gate!gateVars, GateProofs!gateVars

(***************************************************************************)
(* In the engine, no write is between claiming its seq and its memtable    *)
(* insert while flush_quiesced freezes the memtable, persists next_seq and *)
(* resets the WAL: for any number of threads, keys and faults.             *)
(***************************************************************************)
THEOREM DbQuiescedBody == Spec => []Gate!QuiescedBody
<1>1. GateProofs!IsFiniteSet(Threads) /\ NoThread \notin Threads
  BY DbAssumption DEF IsFiniteSet, GateProofs!IsFiniteSet
<1>2. GateProofs!Spec => []GateProofs!QuiescedBody
  BY <1>1, GateProofs!GateQuiesced
<1>3. Gate!Spec => GateProofs!Spec
  BY SameGate, PTL DEF Gate!Spec, GateProofs!Spec
<1> QED
  BY DbImplementsGate, SameGate, <1>2, <1>3, PTL

(***************************************************************************)
(* In the engine, no thread sleeps on `quiesced` past the notify_all it    *)
(* waits for, and flush_pending is never left set with no flusher to clear *)
(* it, on the error paths of wal.append and of the flush body too.         *)
(***************************************************************************)
THEOREM DbNoLostWakeup == Spec => [](Gate!NoLostWakeup /\ Gate!GateHasOwner)
<1>1. GateProofs!IsFiniteSet(Threads) /\ NoThread \notin Threads
  BY DbAssumption DEF IsFiniteSet, GateProofs!IsFiniteSet
<1>2. GateProofs!Spec => [](GateProofs!NoLostWakeup /\ GateProofs!GateHasOwner)
  BY <1>1, GateProofs!GateNoLostWakeup
<1>3. Gate!Spec => GateProofs!Spec
  BY SameGate, PTL DEF Gate!Spec, GateProofs!Spec
<1> QED
  BY DbImplementsGate, SameGate, <1>2, <1>3, PTL

-----------------------------------------------------------------------------
Clocks == 1 .. MaxWrites + 1

\* What encode_record may have written to the log.
Payloads == {EncodeRecord(r) : r \in {q \in Rec : q.seq <= MaxWrites}}
Segment == {s \in [recs : Seq(Payloads), synced : Nat] : s.synced <= Len(s.recs)}

Files == UNION {[ids -> Table] : ids \in SUBSET Nat}
View == [manifest : Version, files : Files]

ClockOK ==
  /\ up \in BOOLEAN
  /\ nextSeq \in Clocks
  /\ faults \in 0 .. MaxFaults
  /\ lapped \subseteq Threads
  /\ ~up => /\ nextSeq = 1 /\ flush.stage = "none"
            /\ \A t \in Threads : pc[t] = "idle"

\* The stages between the table's creation and the end of its gc.
Installing == {"rename", "sync", "swap"}
Collecting == {"gc", "gcsync"}

\* The flush body runs exactly while a thread holds the mutex.
StageOK ==
  /\ flush = [stage |-> flush.stage, base |-> flush.base, next |-> flush.next,
              after |-> flush.after]
  /\ flush.stage \in Stages
  /\ flush.stage # "none" <=> mutex # NoThread
  /\ flush.stage \in Installing \cup Collecting => flush.after \in {"discard", "compact"}

\* A thread between phase 1 and the end of phase 3 carries a record.
OpsOK ==
  /\ op \in [Threads -> Rec \cup {NoOp}]
  /\ \A t \in Threads : op[t].seq < nextSeq
  /\ \A t \in Gate!Claimed : op[t] \in Rec

Log == [segs : Seq(Segment), spare : Seq(Segment), old : Seq(Segment), gone : Seq(Segment),
        queue : Seq(Payloads)]

\* Only a failed reset() takes the writer's segment away or leaves one behind it.
LogOK ==
  /\ wal \in Log
  /\ "reset" \notin Faults => wal.segs # <<>> /\ wal.spare = <<>>

\* active_bytes() weighs the active table exactly, and the body drains it.
BufferOK ==
  /\ active \in TablesBelow(nextSeq)
  /\ IsFiniteSet(Support(active)) /\ bytes = Weight(active)
  /\ frozen \in Seq(TablesBelow(nextSeq))
  /\ \A i \in DOMAIN frozen : ~IsEmpty(frozen[i])
  /\ BufferDrained
  /\ flush.stage \in Installing \cup Collecting =>
       (flush.after = "compact" <=> frozen = <<>>)
  /\ flush.stage = "discard" => frozen # <<>>

\* Every version that may be read, now or after a crash, names existing files.
FilesOK ==
  /\ dir \in [live : View, durable : View]
  /\ version \in Version /\ flush.next \in Version
  /\ \A view \in {dir.live, dir.durable} :
       view.manifest.nextSeq \in Clocks /\ Holds(view.manifest, view.files)
  /\ up => version.nextSeq \in 1 .. nextSeq /\ Holds(version, dir.live.files)
  /\ flush.stage \in Installing =>
       flush.next.nextSeq \in 1 .. nextSeq /\ Holds(flush.next, dir.live.files)
  /\ flush.stage \in {"sync", "swap"} => dir.live.manifest = flush.next
  /\ flush.stage = "gc" => dir.live.manifest = version

\* A pinned version is the current one or a retired one gc still counts.
ReadersOK ==
  /\ DOMAIN rd = Readers
  /\ \A r \in Readers :
       rd[r] = [at |-> rd[r].at, call |-> rd[r].call, key |-> rd[r].key,
                mem |-> rd[r].mem, pin |-> rd[r].pin, seen |-> rd[r].seen,
                got |-> rd[r].got]
  /\ \A r \in Readers : rd[r].at = "tables" =>
       /\ up /\ rd[r].pin \in obsolete \cup {version}
       /\ ReferencedIds(rd[r].pin) \subseteq DOMAIN dir.live.files

DataInv == ClockOK /\ StageOK /\ OpsOK /\ LogOK /\ BufferOK /\ FilesOK /\ ReadersOK

-----------------------------------------------------------------------------
\* decode_record undoes encode_record.
LEMMA Decoded ==
  ASSUME NEW buf \in Payloads
  PROVE  /\ DecodeRecord(buf) \in Rec /\ DecodeRecord(buf).seq <= MaxWrites
         /\ ~CorruptRecord(buf)
<1>1. PICK r \in Rec : r.seq <= MaxWrites /\ buf = EncodeRecord(r)
  BY DEF Payloads
<1>2. CASE r.kind = "Value"
  <2>1. buf = <<r.seq, 1, r.key, r.seq>>
    BY <1>1, <1>2 DEF EncodeRecord, REC_TAG_PUT
  <2>2. buf[1] = r.seq /\ buf[2] = 1 /\ buf[3] = r.key /\ Len(buf) = 4
    BY <2>1
  <2> QED
    BY <1>1, <1>2, <2>2 DEF DecodeRecord, CorruptRecord, REC_TAG_PUT, REC_TAG_DELETE, Rec
<1>3. CASE r.kind # "Value"
  <2>1. buf = <<r.seq, 0, r.key>> /\ r.kind = "Tombstone"
    BY <1>1, <1>3 DEF EncodeRecord, REC_TAG_DELETE, Rec, Kinds
  <2>2. buf[1] = r.seq /\ buf[2] = 0 /\ buf[3] = r.key /\ Len(buf) = 3
    BY <2>1
  <2> QED
    BY <1>1, <2>1, <2>2 DEF DecodeRecord, CorruptRecord, REC_TAG_PUT, REC_TAG_DELETE, Rec, Kinds
<1> QED
  BY <1>2, <1>3

\* What recovery reads back from a well-formed log.
LEMMA RecordsType ==
  ASSUME NEW segs \in Seq(Segment)
  PROVE  /\ Records(segs) \in Seq({r \in Rec : r.seq <= MaxWrites})
         /\ Decodable(segs)
<1> DEFINE all == [i \in DOMAIN segs |-> segs[i].recs]
<1>1. \A i \in DOMAIN segs : segs[i].recs \in Seq(Payloads)
  BY DEF Segment
<1>2. all \in Seq(Seq(Payloads))
  BY <1>1
<1>3. FlattenSeq(all) \in Seq(Payloads)
  <2> HIDE DEF all
  <2> QED
    BY <1>2, FlattenType
<1>4. Records(segs) = [i \in DOMAIN FlattenSeq(all) |-> DecodeRecord(FlattenSeq(all)[i])]
  BY DEF Records
<1>5. \A i \in DOMAIN FlattenSeq(all) :
        DecodeRecord(FlattenSeq(all)[i]) \in {r \in Rec : r.seq <= MaxWrites}
  <2> HIDE DEF all
  <2> QED
    BY <1>3, Decoded
<1>6. Records(segs) \in Seq({r \in Rec : r.seq <= MaxWrites})
  <2> HIDE DEF all
  <2>1. DOMAIN FlattenSeq(all) = 1 .. Len(FlattenSeq(all)) /\ Len(FlattenSeq(all)) \in Nat
    BY <1>3
  <2> QED
    BY <1>4, <1>5, <2>1
<1>7. Decodable(segs)
  BY <1>1, Decoded DEF Decodable, ToSet
<1> QED
  BY <1>6, <1>7

\* ReplayTo satisfies its recursive equation.
LEMMA ReplayDef ==
  ASSUME NEW recs, Len(recs) \in Nat
  PROVE  /\ ReplayTo(recs, 0) = EmptyTable
         /\ \A n \in 1 .. Len(recs) :
              ReplayTo(recs, n)
                = InsertIfNewer(ReplayTo(recs, n - 1), recs[n].key, EntryOf(recs[n]))
<1> DEFINE Step(table, i) == InsertIfNewer(table, recs[i].key, EntryOf(recs[i]))
           Eq(f, m) == f = [i \in 0 .. m |-> IF i = 0 THEN EmptyTable ELSE Step(f[i - 1], i)]
           P == {m \in Nat : \E f : Eq(f, m)}
<1>1. 0 \in P
  <2> DEFINE g == [i \in 0 .. 0 |-> EmptyTable]
  <2>1. Eq(g, 0)
    <3>1. \A i \in 0 .. 0 : i = 0
      OBVIOUS
    <3> QED
      BY <3>1
  <2> HIDE DEF g, Eq
  <2>2. \E h : Eq(h, 0)
    BY <2>1
  <2> QED
    BY <2>2
<1>2. ASSUME NEW m \in Nat, m \in P PROVE m + 1 \in P
  <2>1. PICK f : Eq(f, m)
    <3> HIDE DEF Eq
    <3> QED
      BY <1>2
  <2> DEFINE g == [i \in 0 .. m + 1 |-> IF i = m + 1 THEN Step(f[m], i) ELSE f[i]]
  <2>2. \A i \in 0 .. m + 1 : g[i] = IF i = 0 THEN EmptyTable ELSE Step(g[i - 1], i)
    <3> SUFFICES ASSUME NEW i \in 0 .. m + 1
                 PROVE  g[i] = IF i = 0 THEN EmptyTable ELSE Step(g[i - 1], i)
      OBVIOUS
    <3>1. i # 0 => i - 1 \in 0 .. m /\ g[i - 1] = f[i - 1]
      OBVIOUS
    <3>2. CASE i = m + 1
      <4>1. g[i] = Step(f[m], i) /\ i - 1 = m /\ i # 0
        BY <3>2
      <4> HIDE DEF g, Step
      <4> QED
        BY <3>1, <4>1
    <3>3. CASE i \in 0 .. m
      <4>1. f[i] = IF i = 0 THEN EmptyTable ELSE Step(f[i - 1], i)
        <5> HIDE DEF Step
        <5> QED
          BY <2>1, <3>3
      <4>2. g[i] = f[i]
        BY <3>3
      <4> HIDE DEF g, Step
      <4> QED
        BY <3>1, <3>3, <4>1, <4>2
    <3> QED
      BY <3>2, <3>3
  <2>3. Eq(g, m + 1)
    <3>1. g = [i \in 0 .. m + 1 |-> g[i]]
      OBVIOUS
    <3> HIDE DEF g, Step
    <3> QED
      BY <2>2, <3>1
  <2> HIDE DEF g, Eq
  <2>4. \E h : Eq(h, m + 1)
    BY <2>3
  <2> QED
    BY <2>4
<1> HIDE DEF P
<1>3. \A n \in Nat : \E h : Eq(h, n)
  <2>1. Nat \subseteq P
    BY <1>1, <1>2, InductionOverNat
  <2> HIDE DEF Eq
  <2> QED
    BY <2>1 DEF P
<1>4. ASSUME NEW n \in Nat
      PROVE  \E h : Eq(h, n) /\ ReplayTo(recs, n) = h[n]
  <2>1. ReplayTo(recs, n) = (CHOOSE h : Eq(h, n))[n]
    BY DEF ReplayTo
  <2>2. Eq(CHOOSE h : Eq(h, n), n)
    <3>1. \E h : Eq(h, n)
      BY <1>3
    <3> HIDE DEF Eq
    <3> QED
      BY <3>1
  <2> HIDE DEF Eq
  <2> QED
    BY <2>1, <2>2
<1>5. ASSUME NEW n \in Nat, NEW f, Eq(f, n)
      PROVE  f[0] = EmptyTable /\ \A i \in 1 .. n : f[i] = Step(f[i - 1], i)
  <2> HIDE DEF Step
  <2>1. \A i \in 0 .. n : f[i] = IF i = 0 THEN EmptyTable ELSE Step(f[i - 1], i)
    BY <1>5
  <2>2. \A i \in 1 .. n : i \in 0 .. n /\ i # 0
    OBVIOUS
  <2> QED
    BY <2>1, <2>2
<1> HIDE DEF Eq, Step
\* Two solutions agree as far as both are defined.
<1>6. ASSUME NEW n \in Nat, NEW f, Eq(f, n), NEW g, Eq(g, n + 1)
      PROVE  \A i \in 0 .. n : f[i] = g[i]
  <2> DEFINE Q == {i \in Nat : i \in 0 .. n => f[i] = g[i]}
  <2>1. f[0] = g[0]
    BY <1>5, <1>6
  <2>2. 0 \in Q
    BY <2>1
  <2>3. ASSUME NEW i \in Nat, i \in Q PROVE i + 1 \in Q
    <3> SUFFICES ASSUME i + 1 \in 0 .. n PROVE f[i + 1] = g[i + 1]
      OBVIOUS
    <3>1. f[i] = g[i] /\ i + 1 \in 1 .. n /\ i + 1 \in 1 .. n + 1 /\ (i + 1) - 1 = i
      BY <2>3
    <3>2. f[i + 1] = Step(f[(i + 1) - 1], i + 1)
      BY <1>5, <1>6, <3>1
    <3>3. g[i + 1] = Step(g[(i + 1) - 1], i + 1)
      BY <1>5, <1>6, <3>1
    <3> QED
      BY <3>1, <3>2, <3>3
  <2> HIDE DEF Q
  <2>4. Nat \subseteq Q
    BY <2>2, <2>3, InductionOverNat
  <2> QED
    BY <2>4 DEF Q
<1>7. ReplayTo(recs, 0) = EmptyTable
  BY <1>4, <1>5
<1>8. ASSUME NEW n \in 1 .. Len(recs) PROVE ReplayTo(recs, n) = Step(ReplayTo(recs, n - 1), n)
  <2>1. n \in Nat /\ n - 1 \in Nat /\ (n - 1) + 1 = n /\ n - 1 \in 0 .. n - 1 /\ n \in 1 .. n
    OBVIOUS
  <2>2. PICK f : Eq(f, n - 1) /\ ReplayTo(recs, n - 1) = f[n - 1]
    BY <1>4, <2>1
  <2>3. PICK g : Eq(g, n) /\ ReplayTo(recs, n) = g[n]
    BY <1>4, <2>1
  <2>4. f[n - 1] = g[n - 1]
    BY <1>6, <2>1, <2>2, <2>3
  <2>5. g[n] = Step(g[n - 1], n)
    BY <1>5, <2>1, <2>3
  <2> QED
    BY <2>2, <2>3, <2>4, <2>5
<1> QED
  BY <1>7, <1>8 DEF Step

\* ReplayBytes satisfies its recursive equation.
LEMMA ReplayBytesDef ==
  ASSUME NEW recs, Len(recs) \in Nat
  PROVE  \E h : /\ h[0] = 0 /\ ReplayBytes(recs) = h[Len(recs)]
                /\ \A i \in 1 .. Len(recs) :
                     h[i] = BytesAfter(h[i - 1], ReplayTo(recs, i - 1), recs[i].key,
                                       EntryOf(recs[i]))
<1> DEFINE Step(sum, i) == BytesAfter(sum, ReplayTo(recs, i - 1), recs[i].key, EntryOf(recs[i]))
           Eq(f, m) == f = [i \in 0 .. m |-> IF i = 0 THEN 0 ELSE Step(f[i - 1], i)]
           P == {m \in Nat : \E f : Eq(f, m)}
<1>1. 0 \in P
  <2> DEFINE g == [i \in 0 .. 0 |-> 0]
  <2>1. Eq(g, 0)
    <3>1. \A i \in 0 .. 0 : i = 0
      OBVIOUS
    <3> HIDE DEF Step
    <3> QED
      BY <3>1
  <2> HIDE DEF g, Eq
  <2>2. \E h : Eq(h, 0)
    BY <2>1
  <2> QED
    BY <2>2
<1>2. ASSUME NEW m \in Nat, m \in P PROVE m + 1 \in P
  <2>1. PICK f : Eq(f, m)
    <3> HIDE DEF Eq
    <3> QED
      BY <1>2
  <2> DEFINE g == [i \in 0 .. m + 1 |-> IF i = m + 1 THEN Step(f[m], i) ELSE f[i]]
  <2> HIDE DEF Step
  <2>2. \A i \in 0 .. m + 1 : g[i] = IF i = 0 THEN 0 ELSE Step(g[i - 1], i)
    <3> SUFFICES ASSUME NEW i \in 0 .. m + 1
                 PROVE  g[i] = IF i = 0 THEN 0 ELSE Step(g[i - 1], i)
      OBVIOUS
    <3>1. i # 0 => i - 1 \in 0 .. m /\ g[i - 1] = f[i - 1]
      OBVIOUS
    <3>2. CASE i = m + 1
      <4>1. g[i] = Step(f[m], i) /\ i - 1 = m /\ i # 0
        BY <3>2
      <4> HIDE DEF g
      <4> QED
        BY <3>1, <4>1
    <3>3. CASE i \in 0 .. m
      <4>1. f[i] = IF i = 0 THEN 0 ELSE Step(f[i - 1], i)
        BY <2>1, <3>3
      <4>2. g[i] = f[i]
        BY <3>3
      <4> HIDE DEF g
      <4> QED
        BY <3>1, <3>3, <4>1, <4>2
    <3> QED
      BY <3>2, <3>3
  <2>3. Eq(g, m + 1)
    <3>1. g = [i \in 0 .. m + 1 |-> g[i]]
      OBVIOUS
    <3> HIDE DEF g
    <3> QED
      BY <2>2, <3>1
  <2> HIDE DEF g, Eq
  <2>4. \E h : Eq(h, m + 1)
    BY <2>3
  <2> QED
    BY <2>4
<1> HIDE DEF P
<1>3. \E h : Eq(h, Len(recs))
  <2>1. Nat \subseteq P
    BY <1>1, <1>2, InductionOverNat
  <2> HIDE DEF Eq
  <2> QED
    BY <2>1 DEF P
<1> DEFINE total == CHOOSE h : Eq(h, Len(recs))
<1>4. ReplayBytes(recs) = total[Len(recs)]
  BY DEF ReplayBytes
<1>5. Eq(total, Len(recs))
  <2> HIDE DEF Eq
  <2> QED
    BY <1>3
<1> HIDE DEF Step, total
<1>6. \A i \in 0 .. Len(recs) : total[i] = IF i = 0 THEN 0 ELSE Step(total[i - 1], i)
  BY <1>5
<1> HIDE DEF Eq
<1>7. total[0] = 0 /\ \A i \in 1 .. Len(recs) : total[i] = Step(total[i - 1], i)
  <2>1. 0 \in 0 .. Len(recs) /\ \A i \in 1 .. Len(recs) : i \in 0 .. Len(recs) /\ i # 0
    OBVIOUS
  <2> QED
    BY <1>6, <2>1
<1> QED
  BY <1>4, <1>7 DEF Step

\* Recovery's memtable holds entries of the log only, and is weighed exactly.
LEMMA ReplayWeight ==
  ASSUME NEW n \in Nat \ {0}, NEW recs \in Seq(Rec), \A i \in DOMAIN recs : recs[i].seq < n
  PROVE  /\ Replay(recs) \in TablesBelow(n) /\ IsFiniteSet(Support(Replay(recs)))
         /\ ReplayBytes(recs) = Weight(Replay(recs))
<1> DEFINE T(i) == ReplayTo(recs, i)
<1>1. Len(recs) \in Nat /\ DOMAIN recs = 1 .. Len(recs)
  OBVIOUS
<1>2. PICK h : /\ h[0] = 0 /\ ReplayBytes(recs) = h[Len(recs)]
               /\ \A i \in 1 .. Len(recs) :
                    h[i] = BytesAfter(h[i - 1], ReplayTo(recs, i - 1), recs[i].key,
                                      EntryOf(recs[i]))
  BY <1>1, ReplayBytesDef
<1>3. /\ T(0) = EmptyTable
      /\ \A i \in 1 .. Len(recs) :
           T(i) = InsertIfNewer(T(i - 1), recs[i].key, EntryOf(recs[i]))
  BY <1>1, ReplayDef
<1>4. \A i \in 1 .. Len(recs) : /\ recs[i].key \in Keys /\ EntryOf(recs[i]) \in Entry
                                /\ EntryOf(recs[i]).seq < n
  <2> SUFFICES ASSUME NEW i \in 1 .. Len(recs)
               PROVE  /\ recs[i].key \in Keys /\ EntryOf(recs[i]) \in Entry
                      /\ EntryOf(recs[i]).seq < n
    OBVIOUS
  <2>1. recs[i] \in Rec /\ recs[i].seq < n
    BY <1>1
  <2> QED
    BY <2>1 DEF Rec, EntryOf, Entry
<1> HIDE DEF T
<1> DEFINE Good(i) == /\ T(i) \in TablesBelow(n) /\ IsFiniteSet(Support(T(i)))
                      /\ h[i] = Weight(T(i))
           P == {i \in Nat : i <= Len(recs) => Good(i)}
<1>5. 0 \in P
  <2>1. Good(0)
    BY <1>2, <1>3, EmptyWeight
  <2> HIDE DEF Good
  <2> QED
    BY <2>1
<1>6. ASSUME NEW i \in Nat, i \in P PROVE i + 1 \in P
  <2> SUFFICES ASSUME i + 1 <= Len(recs) PROVE Good(i + 1)
    <3> HIDE DEF Good
    <3> QED
      OBVIOUS
  <2>1. i + 1 \in 1 .. Len(recs) /\ (i + 1) - 1 = i /\ i <= Len(recs)
    BY <1>1
  <2>2. Good(i)
    <3> HIDE DEF Good
    <3> QED
      BY <1>6, <2>1
  <2> DEFINE k == recs[i + 1].key
             e == EntryOf(recs[i + 1])
  <2>3. k \in Keys /\ e \in Entry /\ e.seq < n
    BY <1>4, <2>1
  <2>4. T(i + 1) = InsertIfNewer(T(i), k, e)
    BY <1>3, <2>1
  <2>5. h[i + 1] = BytesAfter(h[i], T(i), k, e)
    BY <1>2, <2>1 DEF T
  <2> HIDE DEF k, e
  <2>6. /\ InsertIfNewer(T(i), k, e) \in TablesBelow(n)
        /\ IsFiniteSet(Support(InsertIfNewer(T(i), k, e)))
        /\ BytesAfter(Weight(T(i)), T(i), k, e) = Weight(InsertIfNewer(T(i), k, e))
    BY <2>2, <2>3, InsertWeight
  <2> QED
    BY <2>2, <2>4, <2>5, <2>6
<1>7. Good(Len(recs))
  <2> HIDE DEF P
  <2>1. Nat \subseteq P
    BY <1>5, <1>6, InductionOverNat
  <2> HIDE DEF Good
  <2> QED
    BY <1>1, <2>1 DEF P
<1> QED
  BY <1>2, <1>7 DEF T, Replay

\* next_seq after a recovery is past the manifest's clock and the whole log.
LEMMA RecoveredClock ==
  ASSUME NEW v \in Version, v.nextSeq \in Clocks,
         NEW recs \in Seq({r \in Rec : r.seq <= MaxWrites})
  PROVE  /\ RecoveredSeq(v, recs) \in Clocks /\ v.nextSeq <= RecoveredSeq(v, recs)
         /\ \A i \in DOMAIN recs : recs[i].seq < RecoveredSeq(v, recs)
<1> DEFINE S == {v.nextSeq} \cup {recs[i].seq + 1 : i \in DOMAIN recs}
<1>1. \A i \in DOMAIN recs : recs[i].seq \in Nat \ {0} /\ recs[i].seq <= MaxWrites
  BY DEF Rec
<1>2. MaxWrites \in Nat
  BY DbAssumption
<1>3. S \in SUBSET Nat /\ S # {} /\ MaxWrites + 1 \in Nat
  BY <1>1, <1>2, SMTT(30) DEF Clocks
<1>4. \A m \in S : m >= 1 /\ m <= MaxWrites + 1
  BY <1>1, <1>2 DEF Clocks
<1>5. RecoveredSeq(v, recs) = Max(S)
  BY DEF RecoveredSeq
<1>6. v.nextSeq \in S /\ \A i \in DOMAIN recs : recs[i].seq + 1 \in S
  OBVIOUS
<1> HIDE DEF S
<1>7. Max(S) \in S /\ \A m \in S : m <= Max(S)
  BY <1>3, <1>4, MaxOfNats
<1> DEFINE top == Max(S)
<1>8. top \in Nat /\ top >= 1 /\ top <= MaxWrites + 1 /\ v.nextSeq <= top
  BY <1>3, <1>4, <1>6, <1>7
<1>9. \A i \in DOMAIN recs : recs[i].seq + 1 <= top
  BY <1>6, <1>7
<1> HIDE DEF top
<1>10. top \in Clocks /\ \A i \in DOMAIN recs : recs[i].seq < top
  BY <1>1, <1>2, <1>8, <1>9 DEF Clocks
<1> QED
  BY <1>5, <1>8, <1>10 DEF top

-----------------------------------------------------------------------------
\* What the data needs of the monitor: who holds the mutex, and that a write in
\* flight keeps every flush body out.
GateOK ==
  /\ Gate!TypeOK
  /\ Gate!QuiescedBody
  /\ \A t \in Threads : pc[t] = "body" <=> mutex = t

\* The monitor's own invariant holds in the engine.
LEMMA DbGateOK == Spec => []GateOK
<1>1. GateProofs!IsFiniteSet(Threads) /\ NoThread \notin Threads
  BY DbAssumption DEF IsFiniteSet, GateProofs!IsFiniteSet
<1>2. GateProofs!Spec => []GateProofs!IInv
  BY <1>1, GateProofs!GateInductive
<1>3. Gate!Spec => GateProofs!Spec
  BY SameGate, PTL DEF Gate!Spec, GateProofs!Spec
<1>4. GateProofs!IInv => Gate!TypeOK /\ \A t \in Threads : pc[t] = "body" <=> mutex = t
  BY DEF GateProofs!IInv, GateProofs!TypeOK, GateProofs!GateInv, Gate!TypeOK,
         GateProofs!PCs, Gate!PCs
<1> QED
  BY DbImplementsGate, DbQuiescedBody, <1>2, <1>3, <1>4, PTL DEF GateOK

\* A write in flight, or a free mutex, means that no flush body runs.
LEMMA NoBody ==
  ASSUME StageOK, GateOK, mutex = NoThread \/ Gate!Claimed # {}
  PROVE  flush.stage = "none" /\ mutex = NoThread
  BY DbAssumption DEF StageOK, GateOK, Gate!QuiescedBody, Gate!TypeOK

\* The parts of the invariant that a step leaves alone.
LEMMA Frames ==
  /\ LogOK /\ UNCHANGED wal => LogOK'
  /\ OpsOK /\ UNCHANGED <<op, nextSeq>> /\ Gate!Claimed' \subseteq Gate!Claimed => OpsOK'
  /\ StageOK /\ UNCHANGED <<flush, mutex>> => StageOK'
  /\ BufferOK /\ UNCHANGED <<memVars, nextSeq, flush>> => BufferOK'
  /\ FilesOK /\ UNCHANGED <<dir, version, flush, nextSeq, up>> => FilesOK'
  /\ ReadersOK /\ UNCHANGED <<rd, up, obsolete, version, dir>> => ReadersOK'
<1>1. LogOK /\ UNCHANGED wal => LogOK'
  BY DEF LogOK
<1>2. OpsOK /\ UNCHANGED <<op, nextSeq>> /\ Gate!Claimed' \subseteq Gate!Claimed => OpsOK'
  BY DEF OpsOK
<1>3. StageOK /\ UNCHANGED <<flush, mutex>> => StageOK'
  BY DEF StageOK
<1>4. BufferOK /\ UNCHANGED <<memVars, nextSeq, flush>> => BufferOK'
  BY DEF BufferOK, BufferDrained, memVars
<1>5. FilesOK /\ UNCHANGED <<dir, version, flush, nextSeq, up>> => FilesOK'
  BY DEF FilesOK
<1>6. ReadersOK /\ UNCHANGED <<rd, up, obsolete, version, dir>> => ReadersOK'
  BY DEF ReadersOK
<1> QED
  BY <1>1, <1>2, <1>3, <1>4, <1>5, <1>6

\* An empty flush record satisfies whatever the invariant asks of a body.
LEMMA NoFlushFacts ==
  /\ EmptyVersion \in Version /\ ReferencedIds(EmptyVersion) = {}
  /\ EmptyVersion.nextSeq = 1 /\ NoFlush.stage = "none" /\ NoFlush.next = EmptyVersion
  /\ \A s : [NoFlush EXCEPT !.stage = s]
              = [stage |-> s, base |-> EmptyVersion, next |-> EmptyVersion, after |-> "none"]
  /\ NoFlush = [stage |-> "none", base |-> EmptyVersion, next |-> EmptyVersion, after |-> "none"]
  BY DEF EmptyVersion, Version, ReferencedIds, NoFlush

\* Steps of write() that move only through the monitor.
LEMMA PlainSteps ==
  ASSUME DataInv, GateOK, NEW t \in Threads, StartWrite(t) \/ WaitOrWake(t) \/ AppendOk(t)
  PROVE  DataInv'
<1>1. /\ UNCHANGED <<up, nextSeq, op, memVars, diskVars, version, obsolete, flush, rd,
                     faults, ghostVars>>
      /\ up
  BY DEF StartWrite, WaitOrWake, AppendOk
<1>2. mutex' = mutex /\ Gate!Claimed' \subseteq Gate!Claimed
  <2>1. pc \in [Threads -> Gate!PCs]
    BY DEF GateOK, Gate!TypeOK
  <2> QED
    BY <2>1 DEF StartWrite, WaitOrWake, AppendOk, Gate!StartWrite, Gate!WaitForGate,
       Gate!WaitAgain, Gate!SpuriousWake, Gate!AppendOk, Gate!Goto, Gate!Claimed
<1>3. ClockOK'
  BY <1>1 DEF DataInv, ClockOK, ghostVars
<1> QED
  BY <1>1, <1>2, <1>3, Frames DEF DataInv, diskVars

\* Phase 1: the clock moves past the claimed seq.
LEMMA ClaimStep ==
  ASSUME DataInv, GateOK, NEW t \in Threads, NEW k \in Keys, NEW kind \in WriteKinds,
         Claim(t, k, kind)
  PROVE  DataInv'
<1> DEFINE r == [key |-> k, seq |-> nextSeq, kind |-> kind]
<1>1. /\ up /\ nextSeq <= MaxWrites /\ nextSeq' = nextSeq + 1
      /\ op' = [op EXCEPT ![t] = r]
      /\ UNCHANGED <<up, memVars, diskVars, version, obsolete, flush, rd, faults, ghostVars>>
  BY DEF Claim
<1>2. mutex = NoThread /\ mutex' = mutex /\ pc' = [pc EXCEPT ![t] = "append"]
  BY DEF Claim, Gate!Claim, Gate!Locks, Gate!Goto
<1>3. flush.stage = "none"
  BY <1>2, NoBody DEF DataInv
<1>4. nextSeq \in Clocks /\ MaxWrites \in Nat /\ nextSeq \in Nat \ {0}
  BY DbAssumption DEF DataInv, ClockOK, Clocks
<1>5. ClockOK'
  BY <1>1, <1>4 DEF DataInv, ClockOK, Clocks, ghostVars
<1>6. OpsOK'
  <2>1. r \in Rec /\ r.seq < nextSeq'
    BY <1>1, <1>4, DbAssumption DEF Rec
  <2>2. op \in [Threads -> Rec \cup {NoOp}] /\ \A u \in Threads : op[u].seq \in Nat
    BY DEF DataInv, OpsOK, Rec, NoOp
  <2>3. \A u \in Threads : op'[u] = IF u = t THEN r ELSE op[u]
    BY <1>1, <2>2
  <2>4. Gate!Claimed' \subseteq Gate!Claimed \cup {t}
    BY <1>2 DEF GateOK, Gate!TypeOK, Gate!Claimed
  <2>5. op' \in [Threads -> Rec \cup {NoOp}]
    BY <1>1, <2>1, <2>2
  <2>6. Gate!Claimed \subseteq Threads
    BY DEF Gate!Claimed
  <2> HIDE DEF r
  <2> QED
    BY <1>1, <1>4, <2>1, <2>2, <2>3, <2>4, <2>5, <2>6 DEF DataInv, OpsOK
<1>7. BufferOK'
  <2>1. TablesBelow(nextSeq) \subseteq TablesBelow(nextSeq')
    BY <1>1, <1>4, BelowMonotone
  <2>2. frozen' \in Seq(TablesBelow(nextSeq'))
    <3>1. frozen \in Seq(TablesBelow(nextSeq)) /\ frozen' = frozen
      BY <1>1 DEF DataInv, BufferOK, memVars
    <3> QED
      BY <2>1, <3>1
  <2>3. active' \in TablesBelow(nextSeq')
    BY <1>1, <2>1 DEF DataInv, BufferOK, memVars
  <2> QED
    BY <1>1, <2>2, <2>3 DEF DataInv, BufferOK, memVars, BufferDrained
<1>8. FilesOK'
  <2>1. up /\ version.nextSeq \in 1 .. nextSeq => version.nextSeq \in 1 .. nextSeq'
    BY <1>1, <1>4
  <2> QED
    BY <1>1, <1>3, <2>1 DEF DataInv, FilesOK, diskVars, Installing
<1> QED
  BY <1>1, <1>2, <1>5, <1>6, <1>7, <1>8, Frames DEF DataInv, diskVars

\* Phase 2 fails, and the write gives up or finishes: its record is dropped.
LEMMA RecordDropped ==
  ASSUME OpsOK, GateOK, NEW t \in Threads, op' = [op EXCEPT ![t] = NoOp],
         nextSeq' = nextSeq, nextSeq \in Nat \ {0}, pc' = [pc EXCEPT ![t] = "idle"]
  PROVE  OpsOK'
<1>1. NoOp.seq = 0
  BY DEF NoOp
<1>2. op \in [Threads -> Rec \cup {NoOp}]
  BY DEF OpsOK
<1>3. \A u \in Threads : op'[u] = IF u = t THEN NoOp ELSE op[u]
  BY <1>2
<1>4. op' \in [Threads -> Rec \cup {NoOp}]
  BY <1>2
<1>5. Gate!Claimed' = Gate!Claimed \ {t} /\ Gate!Claimed \subseteq Threads
  BY DEF GateOK, Gate!TypeOK, Gate!Claimed
<1> QED
  BY <1>1, <1>2, <1>3, <1>4, <1>5 DEF OpsOK

\* The record a claimed write carries can be encoded.
LEMMA ClaimedRecord ==
  ASSUME ClockOK, OpsOK, NEW t \in Gate!Claimed
  PROVE  op[t] \in Rec /\ op[t].seq < nextSeq /\ EncodeRecord(op[t]) \in Payloads
<1>1. t \in Threads
  BY DEF Gate!Claimed
<1>2. op[t] \in Rec /\ op[t].seq < nextSeq
  BY <1>1 DEF OpsOK
<1>3. op[t].seq <= MaxWrites
  BY <1>2, DbAssumption DEF ClockOK, Clocks, Rec
<1> QED
  BY <1>2, <1>3 DEF Payloads

\* More records on the last segment, or a longer synced prefix, keep a log.
LEMMA SegmentGrown ==
  ASSUME NEW segs \in Seq(Segment), segs # <<>>, NEW new \in Segment
  PROVE  [segs EXCEPT ![Len(segs)] = new] \in Seq(Segment) \ {<<>>}
  OBVIOUS

\* Phase 2: frames reach the active segment.
LEMMA LogStep ==
  ASSUME DataInv, GateOK, NEW t \in Threads, LogRecord(t)
  PROVE  DataInv'
<1> DEFINE rec == EncodeRecord(op[t])
           seg == wal.segs[LastSeg]
           recs == seg.recs \o wal.queue \o <<rec>>
<1>1. /\ up /\ pc[t] = "append"
      /\ UNCHANGED <<gateVars, up, nextSeq, op, memVars, dir, version, obsolete, flush, rd,
                     faults, ghostVars>>
  BY DEF LogRecord
<1>2. wal' = [wal EXCEPT !.segs[LastSeg].recs = recs, !.queue = <<>>]
  BY DEF LogRecord
<1>3. rec \in Payloads
  BY <1>1, ClaimedRecord DEF DataInv, Gate!Claimed
<1>4. /\ wal \in [segs : Seq(Segment), spare : Seq(Segment), old : Seq(Segment),
                  gone : Seq(Segment), queue : Seq(Payloads)]
      /\ wal.segs # <<>> /\ ("reset" \notin Faults => wal.spare = <<>>)
  BY DEF DataInv, LogOK, Log, LogRecord
<1>5. seg \in Segment
  BY <1>4 DEF LastSeg
<1>6. recs \in Seq(Payloads) /\ Len(recs) >= Len(seg.recs)
  <2> HIDE DEF rec
  <2>1. seg.recs \in Seq(Payloads) /\ wal.queue \in Seq(Payloads)
    BY <1>4, <1>5 DEF Segment
  <2> HIDE DEF seg
  <2> DEFINE front == seg.recs \o wal.queue
             last == <<rec>>
  <2>2. recs = front \o last
    OBVIOUS
  <2>3. last \in Seq(Payloads) /\ Len(last) = 1
    BY <1>3
  <2>4. front \in Seq(Payloads) /\ Len(front) = Len(seg.recs) + Len(wal.queue)
    BY <2>1, ConcatType
  <2> HIDE DEF front, last, recs
  <2>5. recs \in Seq(Payloads) /\ Len(recs) = Len(front) + Len(last)
    BY <2>2, <2>3, <2>4, ConcatType
  <2>6. Len(seg.recs) \in Nat /\ Len(wal.queue) \in Nat
    BY <2>1
  <2> QED
    <3> DEFINE a == Len(seg.recs)
               b == Len(wal.queue)
               c == Len(recs)
    <3>1. a \in Nat /\ b \in Nat /\ c = a + b + 1
      BY <2>3, <2>4, <2>5, <2>6
    <3> HIDE DEF a, b, c
    <3>2. c >= a
      BY <3>1
    <3> QED
      BY <2>5, <3>2 DEF a, c
<1> HIDE DEF recs
<1>7. [seg EXCEPT !.recs = recs] \in Segment
  BY <1>5, <1>6 DEF Segment
<1>8. wal'.segs = [wal.segs EXCEPT ![LastSeg] = [seg EXCEPT !.recs = recs]]
  BY <1>2, <1>4
<1>9. wal' \in Log /\ wal'.segs # <<>> /\ wal'.spare = wal.spare
  <2>1. wal'.segs \in Seq(Segment) \ {<<>>}
    <3> HIDE DEF seg
    <3> QED
      BY <1>4, <1>7, <1>8, SegmentGrown DEF LastSeg
  <2>2. <<>> \in Seq(Payloads)
    OBVIOUS
  <2>3. wal' = [wal EXCEPT !.segs = wal'.segs, !.queue = <<>>]
    BY <1>2, <1>4
  <2> QED
    BY <1>4, <2>1, <2>2, <2>3 DEF Log
<1>10. LogOK'
  BY <1>4, <1>9 DEF LogOK
<1>11. ClockOK'
  BY <1>1 DEF DataInv, ClockOK, ghostVars
<1> QED
  BY <1>1, <1>10, <1>11, Frames DEF DataInv, gateVars, Gate!Claimed

\* A failed append: under GroupCommit its frame stays in the queue.
LEMMA AppendErrStep ==
  ASSUME DataInv, GateOK, NEW t \in Threads, AppendErr(t)
  PROVE  DataInv'
<1>1. /\ up
      /\ (faults < MaxFaults /\ faults' = faults + 1) \/ faults' = faults
      /\ UNCHANGED <<up, nextSeq, op, memVars, dir, version, obsolete, flush, rd, ghostVars>>
      /\ wal' = IF Durability = "GroupCommit"
                THEN [wal EXCEPT !.queue = Append(@, EncodeRecord(op[t]))] ELSE wal
  BY DEF AppendErr, Fault
<1>2. mutex' = mutex /\ pc[t] = "append" /\ pc' = [pc EXCEPT ![t] = "abort"]
  BY DEF AppendErr, Gate!AppendErr, Gate!Goto
<1>3. Gate!Claimed' \subseteq Gate!Claimed
  BY <1>2 DEF GateOK, Gate!TypeOK, Gate!Claimed
<1>4. EncodeRecord(op[t]) \in Payloads
  BY <1>2, ClaimedRecord DEF DataInv, Gate!Claimed
<1>5. LogOK'
  <2>1. LogOK
    BY DEF DataInv
  <2>2. Append(wal.queue, EncodeRecord(op[t])) \in Seq(Payloads)
    BY <1>4, <2>1 DEF LogOK, Log
  <2>3. CASE wal' = wal
    BY <2>1, <2>3 DEF LogOK
  <2>4. CASE wal' = [wal EXCEPT !.queue = Append(@, EncodeRecord(op[t]))]
    BY <2>1, <2>2, <2>4 DEF LogOK, Log
  <2> QED
    BY <1>1, <2>3, <2>4
<1>6. ClockOK'
  BY <1>1, DbAssumption DEF DataInv, ClockOK, ghostVars
<1> QED
  BY <1>1, <1>2, <1>3, <1>5, <1>6, Frames DEF DataInv

\* The write returns, with Err or with Ok.
LEMMA ReturnStep ==
  ASSUME DataInv, GateOK, NEW t \in Threads, Abort(t) \/ Finish(t)
  PROVE  DataInv'
<1>1. /\ up /\ op' = [op EXCEPT ![t] = NoOp] /\ lapped' \subseteq lapped
      /\ UNCHANGED <<up, nextSeq, memVars, diskVars, version, obsolete, flush, rd, faults>>
  BY DEF Abort, Finish, Acknowledge
<1>2. mutex' = mutex /\ pc' = [pc EXCEPT ![t] = "idle"]
  BY DEF Abort, Finish, Gate!Abort, Gate!Finish, Gate!Goto
<1>3. nextSeq \in Nat \ {0}
  BY DbAssumption DEF DataInv, ClockOK, Clocks
<1>4. OpsOK'
  BY <1>1, <1>2, <1>3, RecordDropped DEF DataInv
<1>5. ClockOK'
  BY <1>1 DEF DataInv, ClockOK
<1> QED
  BY <1>1, <1>2, <1>4, <1>5, Frames DEF DataInv, diskVars

\* Phase 3: insert_if_newer, beside other writers but never beside a flush body.
LEMMA ApplyStep ==
  ASSUME DataInv, GateOK, NEW t \in Threads, Apply(t)
  PROVE  DataInv'
<1> DEFINE k == op[t].key
           e == EntryOf(op[t])
<1>1. /\ up /\ active' = InsertIfNewer(active, k, e) /\ bytes' = BytesAfter(bytes, active, k, e)
      /\ UNCHANGED <<up, nextSeq, op, frozen, diskVars, version, obsolete, flush, faults, acked>>
      /\ lapped' \subseteq lapped \cup Threads
      /\ rd' = rd \/ rd' = Witness(k, Value(e))
  BY DEF Apply, Rivals
<1>2. mutex' = mutex /\ pc[t] = "apply" /\ pc' = [pc EXCEPT ![t] = "finish"]
  BY DEF Apply, Gate!Apply, Gate!Goto
<1>3. t \in Gate!Claimed /\ Gate!Claimed' \subseteq Gate!Claimed
  BY <1>2 DEF GateOK, Gate!TypeOK, Gate!Claimed
<1>4. op[t] \in Rec /\ op[t].seq < nextSeq
  BY <1>3, ClaimedRecord DEF DataInv
<1>5. k \in Keys /\ e \in Entry /\ e.seq < nextSeq
  BY <1>4 DEF Rec, EntryOf, Entry
<1>6. flush.stage = "none"
  BY <1>3, NoBody DEF DataInv
<1>7. nextSeq \in Nat \ {0}
  BY DbAssumption DEF DataInv, ClockOK, Clocks
<1> HIDE DEF k, e
<1>8. BufferOK'
  <2>1. BufferOK
    BY DEF DataInv
  <2>2. /\ active' \in TablesBelow(nextSeq) /\ IsFiniteSet(Support(active'))
        /\ bytes' = Weight(active')
    BY <1>1, <1>5, <1>7, <2>1, InsertWeight DEF BufferOK
  <2> QED
    BY <1>1, <1>6, <2>1, <2>2 DEF BufferOK, BufferDrained, Installing, Collecting
<1>9. ReadersOK'
  <2>1. CASE rd' = rd
    BY <1>1, <2>1, Frames DEF DataInv, diskVars
  <2>2. CASE rd' = Witness(k, Value(e))
    <3>1. ReadersOK
      BY DEF DataInv
    <3>2. DOMAIN rd' = Readers
      BY <2>2 DEF Witness
    <3>3. ASSUME NEW r \in Readers
          PROVE  \E s : rd'[r] = [at |-> rd[r].at, call |-> rd[r].call, key |-> rd[r].key,
                                  mem |-> rd[r].mem, pin |-> rd[r].pin, seen |-> s,
                                  got |-> rd[r].got]
      <4>1. rd[r] = [at |-> rd[r].at, call |-> rd[r].call, key |-> rd[r].key,
                     mem |-> rd[r].mem, pin |-> rd[r].pin, seen |-> rd[r].seen,
                     got |-> rd[r].got]
        BY <3>1 DEF ReadersOK
      <4>2. rd'[r] = rd[r] \/ rd'[r] = [rd[r] EXCEPT !.seen = @ \cup {Value(e)}]
        BY <2>2 DEF Witness
      <4> QED
        BY <4>1, <4>2
    <3>4. ASSUME NEW r \in Readers
          PROVE  /\ rd'[r].at = rd[r].at /\ rd'[r].pin = rd[r].pin
                 /\ rd'[r] = [at |-> rd'[r].at, call |-> rd'[r].call, key |-> rd'[r].key,
                              mem |-> rd'[r].mem, pin |-> rd'[r].pin, seen |-> rd'[r].seen,
                              got |-> rd'[r].got]
      <4>1. PICK s : rd'[r] = [at |-> rd[r].at, call |-> rd[r].call, key |-> rd[r].key,
                               mem |-> rd[r].mem, pin |-> rd[r].pin, seen |-> s,
                               got |-> rd[r].got]
        BY <3>3
      <4> QED
        BY <4>1
    <3> QED
      BY <1>1, <3>1, <3>2, <3>4 DEF ReadersOK, diskVars
  <2> QED
    BY <1>1, <2>1, <2>2
<1>10. ClockOK'
  BY <1>1 DEF DataInv, ClockOK
<1> QED
  BY <1>1, <1>2, <1>3, <1>8, <1>9, <1>10, Frames DEF DataInv, diskVars

\* flush_locked is entered: it sleeps, or its body starts at "freeze".
LEMMA EnterStep ==
  ASSUME DataInv, GateOK, NEW t \in Threads, FinishFull(t) \/ StartFlush(t) \/ EnterBody(t)
  PROVE  DataInv'
<1>1. /\ up /\ BeginBodyIfEntered(t)
      /\ UNCHANGED <<up, nextSeq, op, memVars, diskVars, version, obsolete, rd, faults,
                     ghostVars>>
  BY DEF FinishFull, StartFlush, EnterBody
<1>2. /\ mutex = NoThread
      /\ \/ pc' = [pc EXCEPT ![t] = "quiesce"] /\ mutex' = mutex
         \/ pc' = [pc EXCEPT ![t] = "body"] /\ mutex' = t
  BY DEF FinishFull, StartFlush, EnterBody, Gate!FinishFull, Gate!StartFlush,
         Gate!EnterBody, Gate!EnterFlush, Gate!Goto, Gate!Locks
<1>3. pc \in [Threads -> Gate!PCs] /\ t # NoThread
  BY DbAssumption DEF GateOK, Gate!TypeOK
<1>4. Gate!Claimed' \subseteq Gate!Claimed
  BY <1>2, <1>3 DEF Gate!Claimed
<1>5. flush.stage = "none"
  BY <1>2, NoBody DEF DataInv
<1>6. ClockOK'
  BY <1>1 DEF DataInv, ClockOK, ghostVars
<1>7. OpsOK' /\ LogOK' /\ ReadersOK'
  BY <1>1, <1>4, Frames DEF DataInv, diskVars
<1>8. CASE pc' = [pc EXCEPT ![t] = "quiesce"] /\ mutex' = mutex
  <2>1. flush' = flush
    BY <1>1, <1>3, <1>8 DEF BeginBodyIfEntered
  <2> QED
    BY <1>1, <1>6, <1>7, <1>8, <2>1, Frames DEF DataInv, diskVars
<1>9. CASE pc' = [pc EXCEPT ![t] = "body"] /\ mutex' = t
  <2>1. flush' = [stage |-> "freeze", base |-> EmptyVersion, next |-> EmptyVersion,
                  after |-> "none"]
    BY <1>1, <1>3, <1>9, NoFlushFacts DEF BeginBodyIfEntered
  <2>2. StageOK'
    BY <1>3, <1>9, <2>1 DEF StageOK, Stages, Installing, Collecting
  <2>3. BufferOK'
    BY <1>1, <2>1 DEF DataInv, BufferOK, BufferDrained, memVars, Installing, Collecting
  <2>4. FilesOK'
    BY <1>1, <2>1, NoFlushFacts DEF DataInv, FilesOK, diskVars, Installing
  <2> QED
    BY <1>6, <1>7, <2>2, <2>3, <2>4 DEF DataInv
<1> QED
  BY <1>2, <1>8, <1>9

\* flush_locked returns: the mutex is free and no body runs.
LEMMA FlushDoneStep ==
  ASSUME DataInv, GateOK, NEW t \in Threads, FlushDone(t)
  PROVE  DataInv'
<1>1. /\ up /\ flush' = NoFlush
      /\ UNCHANGED <<up, nextSeq, memVars, diskVars, version, obsolete, rd, faults, erased, lapped>>
      /\ op' = op \/ op' = [op EXCEPT ![t] = NoOp]
  BY DEF FlushDone, Acknowledge
<1>2. mutex' = NoThread /\ pc' = [pc EXCEPT ![t] = "idle"]
  BY DEF FlushDone, Gate!FlushDone, Gate!Goto
<1>3. nextSeq \in Nat \ {0}
  BY DbAssumption DEF DataInv, ClockOK, Clocks
<1>4. Gate!Claimed' \subseteq Gate!Claimed
  BY <1>2 DEF GateOK, Gate!TypeOK, Gate!Claimed
<1>5. OpsOK'
  BY <1>1, <1>2, <1>3, <1>4, RecordDropped, Frames DEF DataInv
<1>6. ClockOK'
  BY <1>1 DEF DataInv, ClockOK
<1>7. StageOK'
  BY <1>1, <1>2, NoFlushFacts DEF StageOK, Stages, Installing, Collecting
<1>8. BufferOK'
  BY <1>1, NoFlushFacts DEF DataInv, BufferOK, BufferDrained, memVars, Installing, Collecting
<1>9. FilesOK'
  BY <1>1, NoFlushFacts DEF DataInv, FilesOK, diskVars, Installing
<1> QED
  BY <1>1, <1>5, <1>6, <1>7, <1>8, <1>9, Frames DEF DataInv, diskVars

\* Every step of a call of put, delete or flush.
LEMMA WriterData ==
  ASSUME DataInv, GateOK, NEW t \in Threads, WriterStep(t)
  PROVE  DataInv'
  BY PlainSteps, ClaimStep, LogStep, AppendErrStep, ReturnStep, ApplyStep, EnterStep,
     FlushDoneStep DEF WriterStep

-----------------------------------------------------------------------------
\* sync_dir: what is durable is what is live.
LEMMA DirSynced ==
  ASSUME FilesOK, UNCHANGED <<version, nextSeq, up>>,
         dir' = [dir EXCEPT !.durable = dir.live],
         flush'.next = flush.next,
         flush'.stage \in Installing => flush.stage \in Installing,
         flush'.stage \in {"sync", "swap"} => flush.stage \in {"sync", "swap"},
         flush'.stage # "gc" \/ flush.stage = "gc"
  PROVE  FilesOK' /\ dir'.live = dir.live
<1>1. dir'.live = dir.live /\ dir'.durable = dir.live /\ dir' \in [live : View, durable : View]
  BY DEF FilesOK
<1> QED
  BY <1>1 DEF FilesOK

\* The readers look at the live files only.
LEMMA ReadersKept ==
  ASSUME ReadersOK, UNCHANGED <<rd, up, obsolete, version>>,
         DOMAIN dir.live.files \subseteq DOMAIN dir'.live.files
  PROVE  ReadersOK'
  BY DEF ReadersOK

\* The barrier of a commit, and the roll of a full segment.
LEMMA SyncLogStep ==
  ASSUME DataInv, GateOK, SyncLog
  PROVE  DataInv'
<1> DEFINE seg == wal.segs[LastSeg]
           done == [seg EXCEPT !.synced = Len(seg.recs)]
           segs == [wal.segs EXCEPT ![LastSeg] = done]
<1>1. /\ up
      /\ UNCHANGED <<gateVars, up, nextSeq, op, memVars, version, obsolete, flush, rd,
                     faults, ghostVars>>
  BY DEF SyncLog
<1>2. /\ wal \in [segs : Seq(Segment), spare : Seq(Segment), old : Seq(Segment),
                  gone : Seq(Segment), queue : Seq(Payloads)]
      /\ wal.segs # <<>> /\ ("reset" \notin Faults => wal.spare = <<>>)
  BY DEF DataInv, LogOK, Log, SyncLog
<1>3. seg \in Segment
  BY <1>2 DEF LastSeg
<1>4. done \in Segment
  <2> HIDE DEF seg
  <2>1. seg.recs \in Seq(Payloads) /\ Len(seg.recs) \in Nat
    BY <1>3 DEF Segment
  <2> QED
    BY <1>3, <2>1 DEF Segment
<1>5. [wal.segs EXCEPT ![LastSeg].synced = Len(seg.recs)] = segs
  OBVIOUS
<1>6. \/ wal' = [wal EXCEPT !.segs = segs] /\ dir' = dir
      \/ /\ wal' = [wal EXCEPT !.segs = Append(segs, NewSegment), !.gone = <<>>]
         /\ dir' = [dir EXCEPT !.durable = dir.live]
  BY <1>5 DEF SyncLog
<1>7. segs \in Seq(Segment) \ {<<>>}
  <2> HIDE DEF seg, done
  <2> QED
    BY <1>2, <1>4, SegmentGrown DEF LastSeg
<1>8. NewSegment \in Segment
  BY DEF NewSegment, Segment
<1> HIDE DEF segs
<1>9. Append(segs, NewSegment) \in Seq(Segment) \ {<<>>} /\ <<>> \in Seq(Segment)
  BY <1>7, <1>8
<1>10. LogOK'
  BY <1>2, <1>6, <1>7, <1>9 DEF LogOK, Log
<1>11. FilesOK' /\ ReadersOK'
  <2>1. CASE dir' = dir
    BY <1>1, <2>1, Frames DEF DataInv
  <2>2. CASE dir' = [dir EXCEPT !.durable = dir.live]
    BY <1>1, <2>2, DirSynced, ReadersKept DEF DataInv
  <2> QED
    BY <1>6, <2>1, <2>2
<1>12. ClockOK'
  BY <1>1 DEF DataInv, ClockOK, ghostVars
<1> QED
  BY <1>1, <1>10, <1>11, <1>12, Frames DEF DataInv, gateVars, Gate!Claimed

-----------------------------------------------------------------------------
\* create() of a table adds one file and leaves the others as they are.
LEMMA FileAdded ==
  ASSUME NEW files \in Files, NEW id \in Nat, id \notin DOMAIN files, NEW content \in Table
  PROVE  /\ WithTable(files, id, content) \in Files
         /\ id \in DOMAIN WithTable(files, id, content)
         /\ DOMAIN files \subseteq DOMAIN WithTable(files, id, content)
         /\ WithTable(files, id, content)[id] = content
         /\ \A i \in DOMAIN files : WithTable(files, id, content)[i] = files[i]
<1> DEFINE new == WithTable(files, id, content)
<1>1. new = [i \in DOMAIN files \cup {id} |-> IF i = id THEN content ELSE files[i]]
  BY DEF WithTable
<1>2. PICK ids \in SUBSET Nat : files \in [ids -> Table]
  BY DEF Files
<1> HIDE DEF new
<1>3. id \in DOMAIN new /\ DOMAIN files \subseteq DOMAIN new /\ new[id] = content
  BY <1>1
<1>4. \A i \in DOMAIN files : new[i] = files[i]
  BY <1>1
<1>5. new \in [ids \cup {id} -> Table]
  BY <1>1, <1>2
<1>6. new \in Files
  BY <1>5 DEF Files
<1> QED
  BY <1>3, <1>4, <1>6 DEF new

\* More files, the old ones unchanged, keep what a version needs.
LEMMA HoldsMore ==
  ASSUME NEW v, NEW files, NEW more, DOMAIN files \subseteq DOMAIN more,
         \A i \in DOMAIN files : more[i] = files[i], Holds(v, files)
  PROVE  Holds(v, more)
  BY DEF Holds

\* A step of the body: the clock, the calls and the monitor stay as they are.
LEMMA BodyFrame ==
  ASSUME DataInv, up,
         UNCHANGED <<gateVars, up, nextSeq, op, ghostVars>>, faults' \in 0 .. MaxFaults
  PROVE  ClockOK' /\ OpsOK' /\ mutex' = mutex
<1>1. ClockOK'
  BY DEF DataInv, ClockOK, ghostVars
<1>2. OpsOK' /\ mutex' = mutex
  BY Frames DEF DataInv, gateVars, Gate!Claimed
<1> QED
  BY <1>1, <1>2

\* The body moves on to another of its stages.
LEMMA StageMoved ==
  ASSUME StageOK, mutex' = mutex, flush.stage # "none",
         NEW s \in Stages \ {"none"}, flush' = [flush EXCEPT !.stage = s],
         s \in Installing \cup Collecting => flush.after \in {"discard", "compact"}
  PROVE  /\ StageOK' /\ flush'.stage = s
         /\ flush'.next = flush.next /\ flush'.after = flush.after /\ flush'.base = flush.base
<1>1. flush' = [stage |-> s, base |-> flush.base, next |-> flush.next, after |-> flush.after]
  BY DEF StageOK
<1> QED
  BY <1>1 DEF StageOK

\* The body starts over at a stage without locals, or ends.
LEMMA StageReset ==
  ASSUME StageOK, mutex' = mutex, flush.stage # "none",
         NEW s \in {"table", "done", "failed"}, flush' = [NoFlush EXCEPT !.stage = s]
  PROVE  StageOK' /\ flush'.stage = s /\ flush'.next = EmptyVersion
<1>1. flush' = [stage |-> s, base |-> EmptyVersion, next |-> EmptyVersion, after |-> "none"]
  BY NoFlushFacts
<1>2. s \in Stages /\ s # "none" /\ s \notin Installing \cup Collecting
  BY DEF Stages, Installing, Collecting
<1>3. mutex # NoThread
  BY DEF StageOK
<1>4. /\ flush'.stage = s /\ flush'.base = EmptyVersion /\ flush'.next = EmptyVersion
      /\ flush'.after = "none"
  BY <1>1
<1> QED
  BY <1>1, <1>2, <1>3, <1>4 DEF StageOK

\* Whatever else the body does, these stages ask nothing of the files.
LEMMA FilesKept ==
  ASSUME FilesOK, UNCHANGED <<dir, version, nextSeq, up>>, flush'.next \in Version,
         flush'.stage \notin Installing \cup {"gc"}
  PROVE  FilesOK'
  BY DEF FilesOK, Installing

\* freeze_active: active_bytes() is zero only for an empty table.
LEMMA FreezeStep ==
  ASSUME DataInv, GateOK, Freeze
  PROVE  DataInv'
<1>1. /\ up /\ flush.stage = "freeze" /\ flush' = [flush EXCEPT !.stage = "table"]
      /\ UNCHANGED <<gateVars, up, nextSeq, op, diskVars, version, obsolete, rd, faults,
                     ghostVars>>
  BY DEF Freeze, InBody
<1>2. ClockOK' /\ OpsOK' /\ mutex' = mutex
  BY <1>1, BodyFrame DEF DataInv, ClockOK
<1>3. StageOK' /\ flush'.stage = "table" /\ flush'.next = flush.next
  <2>1. "table" \in Stages \ {"none"} /\ "table" \notin Installing \cup Collecting
    BY DEF Stages, Installing, Collecting
  <2> QED
    BY <1>1, <1>2, <2>1, StageMoved DEF DataInv
<1>4. FilesOK'
  BY <1>1, <1>3, FilesKept DEF DataInv, FilesOK, diskVars, Installing
<1>5. BufferOK'
  <2>1. nextSeq \in Nat \ {0} /\ BufferOK
    BY DbAssumption DEF DataInv, ClockOK, Clocks
  <2>2. bytes = 0 <=> IsEmpty(active)
    BY <2>1, WeightCounts DEF BufferOK
  <2>3. CASE bytes = 0
    <3>1. UNCHANGED memVars
      BY <2>3 DEF Freeze
    <3> QED
      BY <1>1, <1>3, <2>1, <2>2, <2>3, <3>1
         DEF BufferOK, BufferDrained, memVars, Installing, Collecting
  <2>4. CASE bytes # 0
    <3>1. frozen' = Append(frozen, active) /\ active' = EmptyTable /\ bytes' = 0
      BY <2>4 DEF Freeze
    <3>2. /\ active' \in TablesBelow(nextSeq) /\ IsFiniteSet(Support(active'))
          /\ bytes' = Weight(active') /\ IsEmpty(active')
      BY <2>1, <3>1, EmptyWeight
    <3>3. frozen \in Seq(TablesBelow(nextSeq)) /\ active \in TablesBelow(nextSeq)
      BY <2>1 DEF BufferOK
    <3>4. frozen' \in Seq(TablesBelow(nextSeq))
      BY <3>1, <3>3
    <3>5. \A i \in DOMAIN frozen' : ~IsEmpty(frozen'[i])
      <4>1. \A i \in DOMAIN frozen' : (i \in DOMAIN frozen /\ frozen'[i] = frozen[i])
                                      \/ frozen'[i] = active
        BY <3>1, <3>3
      <4> QED
        BY <2>1, <2>2, <2>4, <4>1 DEF BufferOK
    <3> QED
      BY <1>1, <1>3, <3>2, <3>4, <3>5 DEF BufferOK, BufferDrained, Installing, Collecting
  <2> QED
    BY <2>3, <2>4
<1> QED
  BY <1>1, <1>2, <1>3, <1>4, <1>5, Frames DEF DataInv, diskVars

\* write_table: the file appears under a free id, or the flush fails.
LEMMA TableWritten ==
  ASSUME DataInv, GateOK, up, NEW content \in TablesBelow(nextSeq), NEW next \in Version,
         NEW after \in {"discard", "compact"},
         UNCHANGED <<gateVars, up, nextSeq, op, memVars, wal, version, obsolete, rd, faults,
                     ghostVars>>,
         WriteTable(content, next, after),
         flush.stage \in {"table", "compact"},
         after = "compact" <=> frozen = <<>>,
         next.nextSeq \in 1 .. nextSeq, version.nextSeq <= next.nextSeq,
         content \in TablesBelow(next.nextSeq),
         ReferencedIds(next) \subseteq ReferencedIds(version) \cup {version.nextTableId}
  PROVE  DataInv'
<1> DEFINE id == version.nextTableId
<1>1. ClockOK' /\ OpsOK' /\ mutex' = mutex
  BY BodyFrame DEF DataInv, ClockOK
<1>2. LogOK'
  BY Frames DEF DataInv
<1>3. nextSeq \in Nat \ {0} /\ next.nextSeq \in Nat /\ version.nextSeq \in Nat /\ id \in Nat
  BY DbAssumption DEF DataInv, ClockOK, Clocks, FilesOK, Version
<1>4. IsEmpty(active)
  BY DEF DataInv, BufferOK, BufferDrained
<1>5. CASE id \in DOMAIN dir.live.files
  <2>1. flush' = [flush EXCEPT !.stage = "failed"] /\ dir' = dir
    BY <1>5 DEF WriteTable
  <2>2. "failed" \in Stages \ {"none"} /\ "failed" \notin Installing \cup Collecting \cup {"gc"}
    BY DEF Stages, Installing, Collecting
  <2>3. StageOK' /\ flush'.stage = "failed" /\ flush'.next = flush.next
    BY <1>1, <2>1, <2>2, StageMoved DEF DataInv
  <2>4. FilesOK'
    BY <2>1, <2>2, <2>3, FilesKept DEF DataInv, FilesOK
  <2>5. BufferOK'
    BY <1>4, <2>2, <2>3 DEF DataInv, BufferOK, BufferDrained, memVars
  <2> QED
    BY <1>1, <1>2, <2>1, <2>3, <2>4, <2>5, Frames DEF DataInv
<1>6. CASE id \notin DOMAIN dir.live.files
  <2> DEFINE files == dir.live.files
             more == WithTable(files, id, content)
  <2>1. /\ flush' = [stage |-> "rename", base |-> version, next |-> next, after |-> after]
        /\ dir' = [dir EXCEPT !.live.files = more]
    BY <1>6 DEF WriteTable
  <2>2. flush'.stage = "rename" /\ flush'.next = next /\ flush'.after = after
    BY <2>1
  <2>3. StageOK'
    BY <1>1, <2>1 DEF DataInv, StageOK, Stages, Installing, Collecting
  <2>4. BufferOK'
    BY <1>4, <2>2 DEF DataInv, BufferOK, BufferDrained, memVars
  <2>5. /\ content \in Table /\ files \in Files /\ id \notin DOMAIN files
        /\ dir \in [live : View, durable : View]
    BY <1>3, <1>6, BelowTable DEF DataInv, FilesOK, View
  <2>6. /\ more \in Files /\ id \in DOMAIN more /\ DOMAIN files \subseteq DOMAIN more
        /\ more[id] = content /\ \A i \in DOMAIN files : more[i] = files[i]
    <3> HIDE DEF files, id
    <3> QED
      BY <1>3, <2>5, FileAdded
  <2> HIDE DEF more
  <2>7. /\ dir'.live.files = more /\ dir'.live.manifest = dir.live.manifest
        /\ dir'.durable = dir.durable
        /\ dir'.live = [manifest |-> dir.live.manifest, files |-> more]
        /\ dir' \in [live : View, durable : View]
    BY <2>1, <2>5, <2>6 DEF View
  <2>8. Holds(version, more) /\ Holds(dir.live.manifest, more)
    BY <2>6, HoldsMore DEF DataInv, FilesOK
  <2>9. Holds(next, more)
    <3>1. TablesBelow(version.nextSeq) \subseteq TablesBelow(next.nextSeq)
      BY <1>3, BelowMonotone
    <3> QED
      BY <2>6, <2>8, <3>1 DEF Holds
  <2>10. FilesOK'
    <3>1. FilesOK
      BY DEF DataInv
    <3>2. \A view \in {dir'.live, dir'.durable} :
            view.manifest.nextSeq \in Clocks /\ Holds(view.manifest, view.files)
      BY <2>7, <2>8, <3>1 DEF FilesOK
    <3> QED
      BY <2>2, <2>7, <2>8, <2>9, <3>1, <3>2 DEF FilesOK
  <2>11. ReadersOK'
    BY <2>6, <2>7, ReadersKept DEF DataInv
  <2> QED
    BY <1>1, <1>2, <2>3, <2>4, <2>10, <2>11 DEF DataInv
<1> QED
  BY <1>5, <1>6

\* The oldest frozen memtable is written as a tier-0 table.
LEMMA FlushTableStep ==
  ASSUME DataInv, GateOK, FlushTable
  PROVE  DataInv'
<1> DEFINE id == version.nextTableId
           next == Flushed(version, id, nextSeq)
<1>1. /\ up /\ flush.stage = "table" /\ frozen # <<>>
      /\ WriteTable(Head(frozen), next, "discard")
      /\ UNCHANGED <<gateVars, up, nextSeq, op, memVars, wal, version, obsolete, rd, faults,
                     ghostVars>>
  BY DEF FlushTable, InBody
<1>2. version \in Version /\ version.nextSeq \in 1 .. nextSeq /\ id \in Nat
  BY <1>1 DEF DataInv, FilesOK, Version
<1>3. nextSeq \in Nat \ {0}
  BY DbAssumption DEF DataInv, ClockOK, Clocks
<1>4. /\ next \in Version /\ next.nextSeq = Max2(nextSeq, version.nextSeq)
      /\ ReferencedIds(next) \subseteq ReferencedIds(version) \cup {id}
  BY <1>2, <1>3, FlushedVersion
<1>5. next.nextSeq = nextSeq /\ version.nextSeq <= next.nextSeq
  BY <1>2, <1>3, <1>4 DEF Max2
<1>6. Head(frozen) \in TablesBelow(nextSeq)
  <2>1. frozen \in Seq(TablesBelow(nextSeq))
    BY DEF DataInv, BufferOK
  <2> QED
    BY <1>1, <2>1
<1>7. next.nextSeq \in 1 .. nextSeq
  BY <1>3, <1>5
<1> HIDE DEF next
<1> QED
  BY <1>1, <1>4, <1>5, <1>6, <1>7, TableWritten

\* compact_tier writes the merge of a tier.
LEMMA CompactStep ==
  ASSUME DataInv, GateOK, Compact
  PROVE  DataInv'
<1> DEFINE t == TierToCompact(version, TierFanout)
           id == version.nextTableId
           output == CompactionOutput(version, t, dir.live.files)
           next == IF IsEmpty(output) THEN Cleared(version, t) ELSE Compacted(version, t, id)
<1>1. /\ up /\ flush.stage = "compact" /\ t # 0 /\ WriteTable(output, next, "compact")
      /\ UNCHANGED <<gateVars, up, nextSeq, op, memVars, wal, version, obsolete, rd, faults,
                     ghostVars>>
  BY DEF Compact, InBody
<1>2. /\ version \in Version /\ version.nextSeq \in 1 .. nextSeq /\ id \in Nat
      /\ Holds(version, dir.live.files)
  BY <1>1 DEF DataInv, FilesOK, Version
<1>3. nextSeq \in Nat \ {0} /\ version.nextSeq \in Nat \ {0}
  BY <1>2, DbAssumption DEF DataInv, ClockOK, Clocks
<1>4. t \in DOMAIN version.tiers
  BY <1>1, <1>2, TierPicked
<1> HIDE DEF t
<1>5. output \in TablesBelow(version.nextSeq)
  BY <1>2, <1>3, <1>4, CompactionBelow
<1> HIDE DEF output
<1>6. output \in TablesBelow(nextSeq)
  BY <1>2, <1>3, <1>5, BelowMonotone
<1>7. /\ Cleared(version, t) \in Version /\ Cleared(version, t).nextSeq = version.nextSeq
      /\ ReferencedIds(Cleared(version, t)) \subseteq ReferencedIds(version)
  BY <1>2, <1>4, ClearedVersion
<1>8. /\ Compacted(version, t, id) \in Version
      /\ Compacted(version, t, id).nextSeq = version.nextSeq
      /\ ReferencedIds(Compacted(version, t, id)) \subseteq ReferencedIds(version) \cup {id}
  BY <1>2, <1>4, CompactedVersion
<1>9. /\ next \in Version /\ next.nextSeq = version.nextSeq
      /\ ReferencedIds(next) \subseteq ReferencedIds(version) \cup {id}
  BY <1>7, <1>8
<1>10. frozen = <<>>
  BY <1>1 DEF DataInv, BufferOK, BufferDrained
<1> HIDE DEF next
<1>11. next.nextSeq \in 1 .. nextSeq /\ version.nextSeq <= next.nextSeq
  BY <1>2, <1>3, <1>9
<1>12. output \in TablesBelow(next.nextSeq)
  BY <1>5, <1>9
<1> QED
  BY <1>1, <1>6, <1>9, <1>10, <1>11, <1>12, TableWritten

\* install renames the new manifest into place.
LEMMA RenameStep ==
  ASSUME DataInv, GateOK, RenameManifest
  PROVE  DataInv'
<1>1. /\ up /\ flush.stage = "rename" /\ flush' = [flush EXCEPT !.stage = "sync"]
      /\ dir' = [dir EXCEPT !.live.manifest = flush.next]
      /\ UNCHANGED <<gateVars, up, nextSeq, op, memVars, wal, version, obsolete, rd, faults,
                     ghostVars>>
  BY DEF RenameManifest, InBody
<1>2. ClockOK' /\ OpsOK' /\ mutex' = mutex
  BY <1>1, BodyFrame DEF DataInv, ClockOK
<1>3. "rename" \in Installing /\ "sync" \in Installing /\ "sync" \in Stages \ {"none"}
  BY DEF Installing, Stages
<1>4. /\ StageOK' /\ flush'.stage = "sync" /\ flush'.next = flush.next
      /\ flush'.after = flush.after
  BY <1>1, <1>2, <1>3, StageMoved DEF DataInv, StageOK
<1>5. BufferOK'
  BY <1>1, <1>3, <1>4 DEF DataInv, BufferOK, BufferDrained, memVars
<1>6. /\ dir \in [live : View, durable : View] /\ flush.next \in Version
      /\ flush.next.nextSeq \in 1 .. nextSeq /\ Holds(flush.next, dir.live.files)
  BY <1>1, <1>3 DEF DataInv, FilesOK
<1>7. /\ dir'.live = [manifest |-> flush.next, files |-> dir.live.files]
      /\ dir'.durable = dir.durable /\ dir' \in [live : View, durable : View]
  BY <1>1, <1>6 DEF View
<1>8. flush.next.nextSeq \in Clocks
  BY <1>6, DbAssumption DEF DataInv, ClockOK, Clocks
<1>9. FilesOK'
  BY <1>1, <1>4, <1>6, <1>7, <1>8 DEF DataInv, FilesOK
<1>10. ReadersOK'
  BY <1>1, <1>7, ReadersKept DEF DataInv
<1> QED
  BY <1>1, <1>2, <1>4, <1>5, <1>9, <1>10, Frames DEF DataInv

\* install swaps the version: a reader's pin is now among the retired ones.
LEMMA SwapStep ==
  ASSUME DataInv, GateOK, SwapVersion
  PROVE  DataInv'
<1>1. /\ up /\ flush.stage = "swap" /\ flush' = [flush EXCEPT !.stage = "gc"]
      /\ version' = flush.next /\ obsolete' = obsolete \cup {version}
      /\ UNCHANGED <<gateVars, up, nextSeq, op, memVars, diskVars, rd, faults, ghostVars>>
  BY DEF SwapVersion, InBody
<1>2. ClockOK' /\ OpsOK' /\ mutex' = mutex
  BY <1>1, BodyFrame DEF DataInv, ClockOK
<1>3. /\ "swap" \in Installing /\ "gc" \in Collecting /\ "gc" \in Stages \ {"none"}
      /\ "gc" \notin Installing
  BY DEF Installing, Collecting, Stages
<1>4. /\ StageOK' /\ flush'.stage = "gc" /\ flush'.next = flush.next
      /\ flush'.after = flush.after
  BY <1>1, <1>2, <1>3, StageMoved DEF DataInv, StageOK
<1>5. BufferOK'
  BY <1>1, <1>3, <1>4 DEF DataInv, BufferOK, BufferDrained, memVars
<1>6. FilesOK'
  BY <1>1, <1>3, <1>4 DEF DataInv, FilesOK, diskVars
<1>7. ReadersOK'
  BY <1>1 DEF DataInv, ReadersOK, diskVars
<1> QED
  BY <1>1, <1>2, <1>4, <1>5, <1>6, <1>7, Frames DEF DataInv, diskVars

\* gc(): what it deletes is named by no version that can still be read.
LEMMA GcStep ==
  ASSUME DataInv, GateOK, GcTables
  PROVE  DataInv'
<1> DEFINE retired == {v \in obsolete : Pinned(v)}
           files == dir.live.files
           keep == LiveIds(retired) \cap DOMAIN files
           kept == [id \in keep |-> files[id]]
           stage == IF keep = DOMAIN files THEN flush.after ELSE "gcsync"
<1>1. /\ up /\ flush.stage = "gc" /\ obsolete' = retired
      /\ dir' = [dir EXCEPT !.live.files = kept]
      /\ flush' = [flush EXCEPT !.stage = stage]
      /\ UNCHANGED <<gateVars, up, nextSeq, op, memVars, wal, version, rd, faults, ghostVars>>
  BY DEF GcTables, InBody
<1>2. ClockOK' /\ OpsOK' /\ mutex' = mutex
  BY <1>1, BodyFrame DEF DataInv, ClockOK
<1>3. "gc" \in Collecting /\ "gcsync" \in Collecting /\ flush.after \in {"discard", "compact"}
  BY <1>1 DEF DataInv, StageOK, Collecting
<1>4. /\ stage \in {"discard", "compact", "gcsync"} /\ (stage # "gcsync" => stage = flush.after)
      /\ stage \in Stages \ {"none"} /\ stage \notin Installing \cup {"gc"}
      /\ (stage \in Collecting => stage = "gcsync")
  BY <1>3 DEF Stages, Installing, Collecting
<1> HIDE DEF stage
<1>5. /\ StageOK' /\ flush'.stage = stage /\ flush'.next = flush.next
      /\ flush'.after = flush.after
  BY <1>1, <1>2, <1>3, <1>4, StageMoved DEF DataInv
<1>6. BufferOK'
  <2>1. BufferOK /\ (flush.after = "compact" <=> frozen = <<>>) /\ IsEmpty(active)
    BY <1>1, <1>3 DEF DataInv, BufferOK, BufferDrained
  <2>2. stage = "discard" => frozen # <<>>
    BY <1>4, <2>1
  <2>3. stage = "compact" => frozen = <<>>
    BY <1>4, <2>1
  <2> QED
    BY <1>1, <1>4, <1>5, <2>1, <2>2, <2>3 DEF BufferOK, BufferDrained, memVars
<1>7. FilesOK /\ ReadersOK
  BY DEF DataInv
<1>8. /\ dir \in [live : View, durable : View] /\ files \in Files
      /\ Holds(version, files) /\ dir.live.manifest = version
  BY <1>1, <1>7 DEF FilesOK, View
<1>9. kept \in Files
  <2>1. PICK ids \in SUBSET Nat : files \in [ids -> Table]
    BY <1>8 DEF Files
  <2>2. keep \in SUBSET Nat /\ kept \in [keep -> Table]
    BY <2>1
  <2> QED
    BY <2>2 DEF Files
<1>10. /\ DOMAIN kept = keep /\ keep \subseteq DOMAIN files
       /\ \A i \in keep : kept[i] = files[i]
  OBVIOUS
<1>11. ReferencedIds(version) \subseteq keep
  BY <1>8 DEF LiveIds, Holds
<1>12. Holds(version, kept)
  <2> HIDE DEF kept, keep
  <2> QED
    BY <1>8, <1>10, <1>11 DEF Holds
<1>13. /\ dir'.live.files = kept /\ dir'.live.manifest = version /\ dir'.durable = dir.durable
       /\ dir'.live \in View /\ dir' \in [live : View, durable : View]
  <2> HIDE DEF kept
  <2> QED
    BY <1>1, <1>8, <1>9 DEF View
<1>14. \A r \in Readers : rd[r].at = "tables" =>
         rd[r].pin \in retired \cup {version} /\ ReferencedIds(rd[r].pin) \subseteq keep
  <2> SUFFICES ASSUME NEW r \in Readers, rd[r].at = "tables"
               PROVE  rd[r].pin \in retired \cup {version} /\ ReferencedIds(rd[r].pin) \subseteq keep
    OBVIOUS
  <2>1. rd[r].pin \in obsolete \cup {version} /\ ReferencedIds(rd[r].pin) \subseteq DOMAIN files
    BY <1>7 DEF ReadersOK
  <2>2. rd[r].pin \in retired \cup {version}
    BY <2>1 DEF Pinned
  <2> QED
    BY <2>1, <2>2 DEF LiveIds
<1> HIDE DEF kept, keep, retired
<1>15. FilesOK'
  BY <1>1, <1>4, <1>5, <1>7, <1>12, <1>13 DEF FilesOK
<1>16. ReadersOK'
  BY <1>1, <1>7, <1>10, <1>13, <1>14 DEF ReadersOK
<1> QED
  BY <1>1, <1>2, <1>5, <1>6, <1>15, <1>16, Frames DEF DataInv

\* A sync_dir of the body, after which it moves on.
LEMMA SyncStep ==
  ASSUME DataInv, GateOK, SyncManifest \/ GcSync \/ ResetSync
  PROVE  DataInv'
<1> DEFINE stage == IF flush.stage = "sync" THEN "swap"
                    ELSE IF flush.stage = "gcsync" THEN flush.after ELSE "compact"
<1>1. /\ up /\ flush.stage \in {"sync", "gcsync", "retire"}
      /\ flush' = [flush EXCEPT !.stage = stage]
      /\ dir' = [dir EXCEPT !.durable = dir.live] /\ wal' = [wal EXCEPT !.gone = <<>>]
      /\ UNCHANGED <<gateVars, up, nextSeq, op, memVars, version, obsolete, rd, faults,
                     ghostVars>>
  BY DEF SyncManifest, GcSync, ResetSync, SyncDir, InBody
<1>2. ClockOK' /\ OpsOK' /\ mutex' = mutex
  BY <1>1, BodyFrame DEF DataInv, ClockOK
<1>3. flush.stage \in Installing \cup Collecting =>
        /\ flush.after \in {"discard", "compact"}
        /\ flush.after = "compact" <=> frozen = <<>>
  BY DEF DataInv, StageOK, BufferOK
<1>4. /\ stage \in {"swap", "discard", "compact"} /\ stage \in Stages \ {"none"}
      /\ (stage = "swap" => flush.stage = "sync" /\ flush.stage \in Installing)
      /\ (stage \in Installing \cup Collecting => stage = "swap")
      /\ (stage = "discard" => flush.stage = "gcsync" /\ flush.after = "discard")
      /\ (stage = "compact" => flush.stage = "retire"
                               \/ (flush.stage = "gcsync" /\ flush.after = "compact"))
      /\ "gcsync" \in Collecting
  <2>1. CASE flush.stage = "sync"
    BY <2>1 DEF Stages, Installing, Collecting
  <2>2. CASE flush.stage = "gcsync"
    <3>1. flush.after \in {"discard", "compact"}
      BY <1>3, <2>2 DEF Collecting
    <3> QED
      BY <2>2, <3>1 DEF Stages, Installing, Collecting
  <2>3. CASE flush.stage = "retire"
    BY <2>3 DEF Stages, Installing, Collecting
  <2> QED
    BY <1>1, <2>1, <2>2, <2>3
<1> HIDE DEF stage
<1>5. /\ StageOK' /\ flush'.stage = stage /\ flush'.next = flush.next
      /\ flush'.after = flush.after
  BY <1>1, <1>2, <1>3, <1>4, StageMoved DEF DataInv
<1>6. BufferOK'
  <2>1. BufferOK /\ IsEmpty(active) /\ (flush.stage = "retire" => frozen = <<>>)
    BY <1>1 DEF DataInv, BufferOK, BufferDrained
  <2>2. stage = "discard" => frozen # <<>>
    BY <1>3, <1>4
  <2>3. stage = "compact" => frozen = <<>>
    BY <1>3, <1>4, <2>1
  <2>4. stage \in Installing \cup Collecting => (flush.after = "compact" <=> frozen = <<>>)
    BY <1>3, <1>4
  <2>5. stage \notin {"retire", "done"}
    BY <1>4
  <2> QED
    BY <1>1, <1>5, <2>1, <2>2, <2>3, <2>4, <2>5 DEF BufferOK, BufferDrained, memVars
<1>7. FilesOK' /\ dir'.live = dir.live
  <2>1. stage # "gc" /\ stage # "sync"
    BY <1>4
  <2> QED
    BY <1>1, <1>4, <1>5, <2>1, DirSynced DEF DataInv
<1>8. ReadersOK'
  BY <1>1, <1>7, ReadersKept DEF DataInv
<1>9. LogOK'
  <2>1. <<>> \in Seq(Segment)
    OBVIOUS
  <2> QED
    BY <1>1, <2>1 DEF DataInv, LogOK, Log
<1> QED
  BY <1>2, <1>5, <1>6, <1>7, <1>8, <1>9 DEF DataInv

\* The flushed memtable leaves the read set.
LEMMA DiscardStep ==
  ASSUME DataInv, GateOK, Discard
  PROVE  DataInv'
<1>1. /\ up /\ flush.stage = "discard" /\ frozen' = Tail(frozen)
      /\ flush' = [NoFlush EXCEPT !.stage = "table"]
      /\ UNCHANGED <<gateVars, up, nextSeq, op, active, bytes, diskVars, version, obsolete,
                     rd, faults, ghostVars>>
  BY DEF Discard, InBody
<1>2. ClockOK' /\ OpsOK' /\ mutex' = mutex
  BY <1>1, BodyFrame DEF DataInv, ClockOK
<1>3. StageOK' /\ flush'.stage = "table" /\ flush'.next = EmptyVersion
  BY <1>1, <1>2, StageReset DEF DataInv
<1>4. FilesOK'
  BY <1>1, <1>3, FilesKept, NoFlushFacts DEF DataInv, diskVars, Installing
<1>5. BufferOK'
  <2>1. BufferOK /\ IsEmpty(active) /\ frozen # <<>>
    BY <1>1 DEF DataInv, BufferOK, BufferDrained
  <2>2. frozen \in Seq(TablesBelow(nextSeq)) /\ \A i \in DOMAIN frozen : ~IsEmpty(frozen[i])
    BY <2>1 DEF BufferOK
  <2>3. /\ frozen' \in Seq(TablesBelow(nextSeq))
        /\ \A i \in DOMAIN frozen' : i + 1 \in DOMAIN frozen /\ frozen'[i] = frozen[i + 1]
    BY <1>1, <2>1, <2>2
  <2>4. \A i \in DOMAIN frozen' : ~IsEmpty(frozen'[i])
    BY <2>2, <2>3
  <2> QED
    BY <1>1, <1>3, <2>1, <2>3, <2>4 DEF BufferOK, BufferDrained, Installing, Collecting
<1> QED
  BY <1>1, <1>2, <1>3, <1>4, <1>5, Frames DEF DataInv, diskVars

\* Wal::reset starts: the old segments wait for their deletion.
LEMMA ResetStep ==
  ASSUME DataInv, GateOK, ResetCreate
  PROVE  DataInv'
<1>1. /\ up /\ flush.stage = "table" /\ frozen = <<>>
      /\ wal' = [wal EXCEPT !.segs = <<NewSegment>>, !.old = wal.segs, !.gone = <<>>]
      /\ dir' = [dir EXCEPT !.durable = dir.live]
      /\ flush' = [flush EXCEPT !.stage = "retire"]
      /\ UNCHANGED <<gateVars, up, nextSeq, op, memVars, version, obsolete, rd, faults,
                     ghostVars>>
  BY DEF ResetCreate, InBody
<1>2. ClockOK' /\ OpsOK' /\ mutex' = mutex
  BY <1>1, BodyFrame DEF DataInv, ClockOK
<1>3. "retire" \in Stages \ {"none"} /\ "retire" \notin Installing \cup Collecting
  BY DEF Stages, Installing, Collecting
<1>4. StageOK' /\ flush'.stage = "retire" /\ flush'.next = flush.next
  BY <1>1, <1>2, <1>3, StageMoved DEF DataInv
<1>5. BufferOK'
  BY <1>1, <1>3, <1>4 DEF DataInv, BufferOK, BufferDrained, memVars
<1>6. FilesOK' /\ dir'.live = dir.live
  BY <1>1, <1>3, <1>4, DirSynced DEF DataInv
<1>7. ReadersOK'
  BY <1>1, <1>6, ReadersKept DEF DataInv
<1>8. LogOK'
  <2>1. <<NewSegment>> \in Seq(Segment) /\ <<NewSegment>> # <<>> /\ <<>> \in Seq(Segment)
    BY DEF NewSegment, Segment
  <2> QED
    BY <1>1, <2>1 DEF DataInv, LogOK, Log
<1> QED
  BY <1>2, <1>4, <1>5, <1>6, <1>7, <1>8 DEF DataInv

\* One old segment is deleted, or one that an earlier reset left behind.
LEMMA RetireStep ==
  ASSUME DataInv, GateOK, RetireSegment \/ RetireSpare
  PROVE  DataInv'
<1>1. /\ up
      /\ \/ /\ wal.old # <<>>
            /\ wal' = [wal EXCEPT !.old = Tail(@), !.gone = Append(@, Head(wal.old))]
         \/ /\ wal.spare # <<>>
            /\ wal' = [wal EXCEPT !.spare = Tail(@), !.gone = Append(@, Head(wal.spare))]
      /\ UNCHANGED <<gateVars, up, nextSeq, op, memVars, dir, version, obsolete, flush, rd,
                     faults, ghostVars>>
  BY DEF RetireSegment, RetireSpare, InBody
<1>2. ClockOK' /\ OpsOK' /\ mutex' = mutex
  BY <1>1, BodyFrame DEF DataInv, ClockOK
<1>3. LogOK'
  <2>1. /\ wal \in [segs : Seq(Segment), spare : Seq(Segment), old : Seq(Segment),
                    gone : Seq(Segment), queue : Seq(Payloads)]
        /\ "reset" \notin Faults => wal.segs # <<>> /\ wal.spare = <<>>
    BY DEF DataInv, LogOK, Log
  <2>2. ASSUME NEW segs \in Seq(Segment), segs # <<>>
        PROVE  /\ Tail(segs) \in Seq(Segment) /\ Append(wal.gone, Head(segs)) \in Seq(Segment)
    BY <2>1, <2>2
  <2>3. CASE wal' = [wal EXCEPT !.old = Tail(@), !.gone = Append(@, Head(wal.old))]
             /\ wal.old # <<>>
    BY <2>1, <2>2, <2>3 DEF LogOK, Log
  <2>4. CASE wal' = [wal EXCEPT !.spare = Tail(@), !.gone = Append(@, Head(wal.spare))]
             /\ wal.spare # <<>>
    BY <2>1, <2>2, <2>4 DEF LogOK, Log
  <2> QED
    BY <1>1, <2>3, <2>4
<1> QED
  BY <1>1, <1>2, <1>3, Frames DEF DataInv

\* An error inside reset: the log keeps its type, whichever segment the writer is on.
LEMMA ResetErrLog ==
  ASSUME DataInv, ResetErr
  PROVE  LogOK'
<1>1. wal \in [segs : Seq(Segment), spare : Seq(Segment), old : Seq(Segment),
               gone : Seq(Segment), queue : Seq(Payloads)]
  BY DEF DataInv, LogOK, Log
<1>2. "reset" \in Faults
  BY DEF ResetErr, Fault
<1>3. CASE wal' = [wal EXCEPT !.spare = Append(@, NewSegment)]
  <2>1. Append(wal.spare, NewSegment) \in Seq(Segment)
    BY <1>1 DEF NewSegment, Segment
  <2> QED
    BY <1>1, <1>2, <1>3, <2>1 DEF LogOK, Log
<1>4. CASE wal' = [wal EXCEPT !.segs = wal.old, !.old = <<>>, !.spare = @ \o wal.segs]
  <2>1. wal.spare \o wal.segs \in Seq(Segment) /\ <<>> \in Seq(Segment)
    BY <1>1, ConcatType
  <2> QED
    BY <1>1, <1>2, <1>4, <2>1 DEF LogOK, Log
<1> QED
  BY <1>3, <1>4 DEF ResetErr

\* The body ends, with nothing left to compact or with an error.
LEMMA EndStep ==
  ASSUME DataInv, GateOK, CompactNothing \/ FlushErr \/ ResetErr
  PROVE  DataInv'
<1> DEFINE stage == IF CompactNothing THEN "done" ELSE "failed"
<1>1. /\ up /\ flush.stage \notin {"none", "freeze"}
      /\ flush' = [NoFlush EXCEPT !.stage = stage]
      /\ (stage = "done" => flush.stage = "compact")
      /\ UNCHANGED <<gateVars, up, nextSeq, op, memVars, dir, version, obsolete, rd, ghostVars>>
  BY DEF CompactNothing, FlushErr, ResetErr, InBody, diskVars
<1>2. faults' \in 0 .. MaxFaults
  BY DbAssumption DEF CompactNothing, FlushErr, ResetErr, Fault, DataInv, ClockOK
<1>3. stage \in {"done", "failed"}
  OBVIOUS
<1> HIDE DEF stage
<1>4. ClockOK' /\ OpsOK' /\ mutex' = mutex
  BY <1>1, <1>2, BodyFrame
<1>5. StageOK' /\ flush'.stage = stage /\ flush'.next = EmptyVersion
  BY <1>1, <1>3, <1>4, StageReset DEF DataInv
<1>6. FilesOK'
  BY <1>1, <1>3, <1>5, FilesKept, NoFlushFacts DEF DataInv, Installing
<1>7. BufferOK'
  <2>1. BufferOK /\ IsEmpty(active) /\ (stage = "done" => frozen = <<>>)
    BY <1>1 DEF DataInv, BufferOK, BufferDrained
  <2> QED
    BY <1>1, <1>3, <1>5, <2>1 DEF BufferOK, BufferDrained, memVars, Installing, Collecting
<1>8. LogOK'
  <2>1. CASE CompactNothing \/ FlushErr
    <3>1. wal' = wal
      BY <2>1 DEF CompactNothing, FlushErr, diskVars
    <3> QED
      BY <3>1, Frames DEF DataInv
  <2> QED
    BY <2>1, ResetErrLog
<1> QED
  BY <1>1, <1>4, <1>5, <1>6, <1>7, <1>8, Frames DEF DataInv

\* Every step of a flush body.
LEMMA FlushData ==
  ASSUME DataInv, GateOK, FlushStep
  PROVE  DataInv'
  BY FreezeStep, FlushTableStep, CompactStep, RenameStep, SwapStep, GcStep, SyncStep,
     DiscardStep, ResetStep, RetireStep, EndStep DEF FlushStep

-----------------------------------------------------------------------------
\* A reader moves; if it pins a version, it is the current one.
LEMMA ReaderMoved ==
  ASSUME DataInv, up, NEW r \in Readers, NEW new,
         DOMAIN rd' = Readers, rd'[r] = new, \A s \in Readers \ {r} : rd'[s] = rd[s],
         new = [at |-> new.at, call |-> new.call, key |-> new.key, mem |-> new.mem,
                pin |-> new.pin, seen |-> new.seen, got |-> new.got],
         new.at = "tables" => new.pin = version,
         UNCHANGED <<gateVars, up, nextSeq, op, memVars, diskVars, version, obsolete, flush,
                     faults, ghostVars>>
  PROVE  DataInv'
<1>1. ReadersOK /\ FilesOK
  BY DEF DataInv
<1>2. ReferencedIds(version) \subseteq DOMAIN dir.live.files
  BY <1>1 DEF FilesOK, Holds
<1>3. DOMAIN rd' = Readers /\ \A s \in Readers : rd'[s] = IF s = r THEN new ELSE rd[s]
  OBVIOUS
<1>4. dir' = dir /\ version' = version /\ obsolete' = obsolete /\ up'
  BY DEF diskVars
<1>5. \A s \in Readers :
        rd'[s] = [at |-> rd'[s].at, call |-> rd'[s].call, key |-> rd'[s].key,
                  mem |-> rd'[s].mem, pin |-> rd'[s].pin, seen |-> rd'[s].seen,
                  got |-> rd'[s].got]
  <2> SUFFICES ASSUME NEW s \in Readers
               PROVE  rd'[s] = [at |-> rd'[s].at, call |-> rd'[s].call, key |-> rd'[s].key,
                                mem |-> rd'[s].mem, pin |-> rd'[s].pin, seen |-> rd'[s].seen,
                                got |-> rd'[s].got]
    OBVIOUS
  <2>1. CASE s = r
    <3>1. rd'[s] = new
      BY <1>3, <2>1
    <3> QED
      BY <3>1
  <2>2. CASE s # r
    <3>1. rd'[s] = rd[s]
      BY <1>3, <2>2
    <3> QED
      BY <1>1, <3>1 DEF ReadersOK
  <2> QED
    BY <2>1, <2>2
<1>6. \A s \in Readers : rd'[s].at = "tables" =>
        /\ rd'[s].pin \in obsolete \cup {version}
        /\ ReferencedIds(rd'[s].pin) \subseteq DOMAIN dir.live.files
  BY <1>1, <1>2, <1>3 DEF ReadersOK
<1>7. ReadersOK'
  BY <1>3, <1>4, <1>5, <1>6 DEF ReadersOK
<1>8. ClockOK'
  BY DEF DataInv, ClockOK, ghostVars
<1> QED
  BY <1>7, <1>8, Frames DEF DataInv, diskVars, gateVars, Gate!Claimed

\* Every step of a get or a scan.
LEMMA ReaderData ==
  ASSUME DataInv, NEW r \in Readers, ReaderStep(r)
  PROVE  DataInv'
<1>1. DOMAIN rd = Readers /\ rd[r] = [at |-> rd[r].at, call |-> rd[r].call, key |-> rd[r].key,
                mem |-> rd[r].mem, pin |-> rd[r].pin, seen |-> rd[r].seen, got |-> rd[r].got]
  BY DEF DataInv, ReadersOK
<1>2. /\ up
      /\ UNCHANGED <<gateVars, up, nextSeq, op, memVars, diskVars, version, obsolete, flush,
                     faults, ghostVars>>
  BY DEF ReaderStep, ReadStart, ReadMem, ReadPin, ReadTables, ReadReturn
<1>3. DOMAIN rd' = Readers /\ \A s \in Readers \ {r} : rd'[s] = rd[s]
  <2> DEFINE Others == DOMAIN rd' = Readers /\ \A s \in Readers \ {r} : rd'[s] = rd[s]
  <2>1. ASSUME NEW k \in Keys, NEW call \in {"get", "scan"}, ReadStart(r, k, call)
        PROVE  Others
    BY <1>1, <2>1 DEF ReadStart
  <2>2. CASE ReadMem(r)
    BY <1>1, <2>2 DEF ReadMem
  <2>3. CASE ReadPin(r) \/ ReadReturn(r)
    BY <1>1, <2>3 DEF ReadPin, ReadReturn
  <2>4. CASE ReadTables(r)
    BY <1>1, <2>4 DEF ReadTables
  <2> QED
    BY <2>1, <2>2, <2>3, <2>4 DEF ReaderStep
<1>4. ASSUME NEW k \in Keys, NEW call \in {"get", "scan"}, ReadStart(r, k, call)
      PROVE  DataInv'
  <2> DEFINE seen == {Value(Visible(k))}
             new == [at |-> "mem", call |-> call, key |-> k, mem |-> Absent,
                     pin |-> EmptyVersion, seen |-> seen, got |-> 0]
  <2>1. rd' = [rd EXCEPT ![r] = [NoRead EXCEPT !.at = "mem", !.call = call, !.key = k,
                                               !.seen = seen]]
    BY <1>4 DEF ReadStart
  <2> HIDE DEF seen
  <2>2. rd'[r] = new
    <3>1. rd'[r] = [NoRead EXCEPT !.at = "mem", !.call = call, !.key = k, !.seen = seen]
      BY <1>1, <2>1
    <3> QED
      BY <3>1 DEF NoRead
  <2> QED
    BY <1>2, <1>3, <2>2, ReaderMoved
<1>5. ASSUME ReadMem(r) PROVE DataInv'
  <2> DEFINE hit == IF rd[r].call = "get" THEN FirstHit(MemSources, rd[r].key)
                    ELSE Newest(<<active>> \o frozen, rd[r].key)
             at == IF rd[r].call = "get" /\ hit # Absent THEN "done" ELSE "pin"
             got == Value(hit)
             new == [at |-> at, call |-> rd[r].call, key |-> rd[r].key, mem |-> hit,
                     pin |-> rd[r].pin, seen |-> rd[r].seen, got |-> got]
  <2>1. rd' = [rd EXCEPT ![r].mem = hit, ![r].at = at, ![r].got = got]
    BY <1>5 DEF ReadMem
  <2>2. at # "tables"
    OBVIOUS
  <2> HIDE DEF hit, at, got
  <2>3. rd'[r] = new
    <3>1. rd'[r] = [rd[r] EXCEPT !.mem = hit, !.at = at, !.got = got]
      BY <1>1, <2>1
    <3> QED
      BY <1>1, <3>1
  <2> QED
    BY <1>2, <1>3, <2>2, <2>3, ReaderMoved
<1>6. ASSUME ReadPin(r) PROVE DataInv'
  <2> DEFINE new == [at |-> "tables", call |-> rd[r].call, key |-> rd[r].key, mem |-> rd[r].mem,
                     pin |-> version, seen |-> rd[r].seen, got |-> rd[r].got]
  <2>1. rd' = [rd EXCEPT ![r].pin = version, ![r].at = "tables"]
    BY <1>6 DEF ReadPin
  <2>2. rd'[r] = new
    <3>1. rd'[r] = [rd[r] EXCEPT !.pin = version, !.at = "tables"]
      BY <1>1, <2>1
    <3> QED
      BY <1>1, <3>1
  <2> QED
    BY <1>2, <1>3, <2>2, ReaderMoved
<1>7. ASSUME ReadTables(r) PROVE DataInv'
  <2> DEFINE tables == TableSources(rd[r].pin, dir.live.files)
             found == IF rd[r].call = "get" THEN FirstHit(tables, rd[r].key)
                      ELSE Newest(<<[EmptyTable EXCEPT ![rd[r].key] = rd[r].mem]>> \o tables,
                                  rd[r].key)
             got == Value(found)
             new == [at |-> "done", call |-> rd[r].call, key |-> rd[r].key, mem |-> rd[r].mem,
                     pin |-> EmptyVersion, seen |-> rd[r].seen, got |-> got]
  <2>1. rd' = [rd EXCEPT ![r].at = "done", ![r].got = got, ![r].pin = EmptyVersion]
    BY <1>7 DEF ReadTables
  <2> HIDE DEF got
  <2>2. rd'[r] = new
    <3>1. rd'[r] = [rd[r] EXCEPT !.at = "done", !.got = got, !.pin = EmptyVersion]
      BY <1>1, <2>1
    <3> QED
      BY <1>1, <3>1
  <2> QED
    BY <1>2, <1>3, <2>2, ReaderMoved
<1>8. ASSUME ReadReturn(r) PROVE DataInv'
  <2>1. rd'[r] = NoRead
    BY <1>1, <1>8 DEF ReadReturn
  <2>2. /\ NoRead = [at |-> NoRead.at, call |-> NoRead.call, key |-> NoRead.key,
                     mem |-> NoRead.mem, pin |-> NoRead.pin, seen |-> NoRead.seen,
                     got |-> NoRead.got]
        /\ NoRead.at = "idle"
    BY DEF NoRead
  <2> QED
    BY <1>2, <1>3, <2>1, <2>2, ReaderMoved
<1> QED
  BY <1>4, <1>5, <1>6, <1>7, <1>8 DEF ReaderStep

-----------------------------------------------------------------------------
\* A torn segment is a segment.
LEMMA TornSegment ==
  ASSUME NEW seg \in Segment
  PROVE  Torn(seg) \subseteq Segment
<1> SUFFICES ASSUME NEW n \in seg.synced .. Len(seg.recs)
             PROVE  [recs |-> SubSeq(seg.recs, 1, n), synced |-> n] \in Segment
  BY DEF Torn
<1>1. seg.recs \in Seq(Payloads) /\ seg.synced \in Nat /\ Len(seg.recs) \in Nat
  BY DEF Segment
<1>2. n \in Nat /\ n <= Len(seg.recs)
  BY <1>1
<1>3. SubSeq(seg.recs, 1, n) \in Seq(Payloads) /\ Len(SubSeq(seg.recs, 1, n)) = n
  BY <1>1, <1>2
<1> QED
  BY <1>2, <1>3 DEF Segment

\* The process dies: an empty memory over whatever disk it leaves.
LEMMA DieData ==
  ASSUME DataInv, NEW segs \in Seq(Segment), NEW gone \in Seq(Segment),
         "reset" \notin Faults => segs # <<>>,
         NEW view \in {dir, [live |-> dir.durable, durable |-> dir.durable]},
         Die(segs, gone, view), faults' \in 0 .. MaxFaults
  PROVE  DataInv'
<1>1. /\ up' = FALSE /\ nextSeq' = 1 /\ op' = [t \in Threads |-> NoOp]
      /\ active' = EmptyTable /\ bytes' = 0 /\ frozen' = <<>>
      /\ wal' = [segs |-> segs, spare |-> <<>>, old |-> <<>>, gone |-> gone,
                 queue |-> <<>>]
      /\ dir' = view /\ version' = EmptyVersion /\ obsolete' = {} /\ flush' = NoFlush
      /\ rd' = [r \in Readers |-> NoRead] /\ lapped' = {}
  BY DEF Die
<1>2. pc' = [t \in Threads |-> "idle"] /\ mutex' = NoThread
  BY DEF Die, Gate!Restart
<1>3. ClockOK'
  <2>1. 1 \in Clocks
    BY DbAssumption DEF Clocks
  <2>2. flush'.stage = "none" /\ \A t \in Threads : pc'[t] = "idle"
    BY <1>1, <1>2, NoFlushFacts
  <2> QED
    BY <1>1, <2>1, <2>2 DEF ClockOK
<1>4. StageOK'
  BY <1>1, <1>2, NoFlushFacts DEF StageOK, Stages, Installing, Collecting
<1>5. OpsOK'
  BY <1>1, <1>2 DEF OpsOK, NoOp, Gate!Claimed
<1>6. LogOK'
  <2>1. <<>> \in Seq(Segment) /\ <<>> \in Seq(Payloads)
    OBVIOUS
  <2> QED
    BY <1>1, <2>1 DEF LogOK, Log
<1>7. BufferOK'
  <2>1. /\ EmptyTable \in TablesBelow(1) /\ IsFiniteSet(Support(EmptyTable))
        /\ Weight(EmptyTable) = 0 /\ IsEmpty(EmptyTable)
    <3>1. 1 \in Nat \ {0}
      OBVIOUS
    <3> QED
      BY <3>1, EmptyWeight
  <2>2. <<>> \in Seq(TablesBelow(1)) /\ DOMAIN <<>> = {}
    OBVIOUS
  <2> QED
    BY <1>1, <2>1, <2>2, NoFlushFacts DEF BufferOK, BufferDrained, Installing, Collecting
<1>8. FilesOK'
  <2>1. FilesOK
    BY DEF DataInv
  <2>2. /\ view \in [live : View, durable : View]
        /\ \A v \in {view.live, view.durable} :
             v.manifest.nextSeq \in Clocks /\ Holds(v.manifest, v.files)
    BY <2>1 DEF FilesOK
  <2> QED
    BY <1>1, <2>2, NoFlushFacts DEF FilesOK, Installing
<1>9. ReadersOK'
  BY <1>1 DEF ReadersOK, NoRead
<1> QED
  BY <1>3, <1>4, <1>5, <1>6, <1>7, <1>8, <1>9 DEF DataInv

\* What a power loss leaves of the log is a log.
LEMMA ImageSegments ==
  ASSUME DataInv, NEW image \in PowerImages
  PROVE  /\ image.segs \in Seq(Segment)
         /\ wal.segs # <<>> => image.segs # <<>>
<1> DEFINE front == wal.gone \o wal.old
           segs == wal.gone \o wal.old \o wal.segs
<1>1. /\ wal.segs \in Seq(Segment) /\ wal.old \in Seq(Segment) /\ wal.gone \in Seq(Segment)
  BY DEF DataInv, LogOK, Log
<1>2. segs \in Seq(Segment) /\ (wal.segs # <<>> => Len(segs) # 0)
  <2>1. front \in Seq(Segment) /\ segs = front \o wal.segs
    BY <1>1
  <2> HIDE DEF front, segs
  <2>2. segs \in Seq(Segment) /\ Len(segs) = Len(front) + Len(wal.segs)
    BY <1>1, <2>1, ConcatType
  <2> QED
    BY <1>1, <2>1, <2>2
<1>3. /\ image.segs \in [DOMAIN segs -> UNION {Torn(segs[i]) : i \in DOMAIN segs}]
      /\ \A i \in DOMAIN segs : image.segs[i] \in Torn(segs[i])
  <2>1. PICK s \in {f \in [DOMAIN segs -> UNION {Torn(segs[i]) : i \in DOMAIN segs}] :
                      \A i \in DOMAIN segs : f[i] \in Torn(segs[i])} :
          image = [segs |-> s, manifest |-> dir.durable.manifest, files |-> dir.durable.files]
    BY DEF PowerImages
  <2>2. image.segs = s
    BY <2>1
  <2> HIDE DEF segs
  <2> QED
    BY <2>1, <2>2
<1> HIDE DEF segs
<1>4. Len(segs) \in Nat /\ DOMAIN segs = 1 .. Len(segs) /\ \A i \in DOMAIN segs : segs[i] \in Segment
  BY <1>2
<1>5. \A i \in DOMAIN segs : image.segs[i] \in Segment
  <2>1. ASSUME NEW i \in DOMAIN segs
        PROVE  image.segs[i] \in Segment
    BY <1>3, <1>4, TornSegment
  <2> QED
    BY <2>1
<1>6. image.segs \in [1 .. Len(segs) -> Segment]
  <2>1. image.segs \in [DOMAIN segs -> Segment]
    BY <1>3, <1>5, Zenon
  <2> QED
    BY <1>4, <2>1
<1> QED
  BY <1>2, <1>4, <1>6

\* A crash leaves typed data: the process is gone, the disk as it was or older.
LEMMA CrashData ==
  ASSUME DataInv, PowerLoss \/ Kill
  PROVE  DataInv'
<1>1. faults' \in 0 .. MaxFaults
  BY DbAssumption DEF PowerLoss, Kill, Fault, DataInv, ClockOK
<1>2. /\ wal.segs \in Seq(Segment) /\ wal.old \in Seq(Segment) /\ wal.gone \in Seq(Segment)
      /\ wal.spare \in Seq(Segment)
      /\ "reset" \notin Faults => wal.segs # <<>> /\ wal.spare = <<>>
  BY DEF DataInv, LogOK, Log
<1>3. CASE Kill
  <2> DEFINE segs == (wal.old \o wal.segs) \o wal.spare
  <2>1. Die(segs, wal.gone, dir)
    BY <1>3 DEF Kill, KillImage
  <2>2. wal.old \o wal.segs \in Seq(Segment)
        /\ Len(wal.old \o wal.segs) = Len(wal.old) + Len(wal.segs)
    BY <1>2, ConcatType
  <2>3. segs \in Seq(Segment)
        /\ Len(segs) = Len(wal.old \o wal.segs) + Len(wal.spare)
    BY <1>2, <2>2, ConcatType
  <2>4. wal.segs # <<>> => segs # <<>>
    BY <1>2, <2>2, <2>3
  <2> HIDE DEF segs
  <2> QED
    BY <1>1, <1>2, <2>1, <2>3, <2>4, DieData
<1>4. CASE PowerLoss
  <2> DEFINE view == [live |-> dir.durable, durable |-> dir.durable]
  <2>1. PICK image \in PowerImages, spare \in {<<>>, wal.spare} :
          Die(image.segs \o spare, <<>>, view)
    BY <1>4 DEF PowerLoss
  <2>2. /\ image.segs \in Seq(Segment) /\ <<>> \in Seq(Segment)
        /\ wal.segs # <<>> => image.segs # <<>>
    BY <2>1, ImageSegments
  <2>3. spare \in Seq(Segment)
    BY <1>2, <2>1, <2>2
  <2> DEFINE left == image.segs \o spare
  <2>4. left \in Seq(Segment) /\ Len(left) = Len(image.segs) + Len(spare)
    BY <2>2, <2>3, ConcatType
  <2>5. wal.segs # <<>> => left # <<>>
    BY <2>2, <2>3, <2>4
  <2>6. Die(left, <<>>, view)
    BY <2>1
  <2> HIDE DEF left
  <2> QED
    BY <1>1, <1>2, <2>2, <2>4, <2>5, <2>6, DieData
<1> QED
  BY <1>3, <1>4

\* open_on: the log replayed over the manifest's version.
LEMMA OpenData ==
  ASSUME DataInv, GateOK, Open
  PROVE  DataInv'
<1> DEFINE recs == Records(wal.segs)
           clock == RecoveredSeq(dir.live.manifest, recs)
<1>1. /\ ~up /\ up' = TRUE /\ version' = dir.live.manifest /\ active' = Replay(recs)
      /\ bytes' = ReplayBytes(recs) /\ nextSeq' = clock
      /\ wal' = [wal EXCEPT !.segs = IF @ = <<>> THEN <<NewSegment>> ELSE @]
      /\ UNCHANGED <<gateVars, op, frozen, dir, obsolete, flush, rd, faults, acked, lapped>>
  BY DEF Open
<1>2. /\ wal \in [segs : Seq(Segment), spare : Seq(Segment), old : Seq(Segment),
                  gone : Seq(Segment), queue : Seq(Payloads)]
      /\ "reset" \notin Faults => wal.segs # <<>> /\ wal.spare = <<>>
  BY DEF DataInv, LogOK, Log
<1>3. recs \in Seq({r \in Rec : r.seq <= MaxWrites})
  BY <1>2, RecordsType
<1>4. /\ dir.live.manifest \in Version /\ dir.live.manifest.nextSeq \in Clocks
      /\ Holds(dir.live.manifest, dir.live.files)
  BY DEF DataInv, FilesOK, View
<1> HIDE DEF recs
<1>5. /\ clock \in Clocks /\ dir.live.manifest.nextSeq <= clock
      /\ \A i \in DOMAIN recs : recs[i].seq < clock
  BY <1>3, <1>4, RecoveredClock
<1> HIDE DEF clock
<1>6. clock \in Nat \ {0} /\ nextSeq = 1 /\ nextSeq <= clock /\ flush.stage = "none"
  BY <1>1, <1>5, DbAssumption DEF Clocks, DataInv, ClockOK
<1>7. recs \in Seq(Rec)
  BY <1>3
<1>8. ClockOK'
  BY <1>1, <1>5 DEF DataInv, ClockOK
<1>9. StageOK'
  BY <1>1, Frames DEF DataInv, gateVars
<1>10. OpsOK'
  <2>1. op \in [Threads -> Rec \cup {NoOp}] /\ \A t \in Threads : op[t].seq < nextSeq
    BY DEF DataInv, OpsOK
  <2>2. \A t \in Threads : op[t].seq \in Nat
    BY <2>1 DEF Rec, NoOp
  <2>3. \A t \in Threads : op[t].seq < clock
    BY <1>6, <2>1, <2>2
  <2> QED
    BY <1>1, <2>1, <2>3 DEF DataInv, OpsOK, gateVars, Gate!Claimed
<1>11. LogOK'
  <2>1. <<NewSegment>> \in Seq(Segment) /\ <<NewSegment>> # <<>>
    BY DEF NewSegment, Segment
  <2> QED
    BY <1>1, <1>2, <2>1 DEF LogOK, Log
<1>12. BufferOK'
  <2>1. /\ Replay(recs) \in TablesBelow(clock) /\ IsFiniteSet(Support(Replay(recs)))
        /\ ReplayBytes(recs) = Weight(Replay(recs))
    BY <1>5, <1>6, <1>7, ReplayWeight
  <2>2. frozen \in Seq(TablesBelow(clock))
    <3>1. TablesBelow(nextSeq) \subseteq TablesBelow(clock)
      BY <1>6, BelowMonotone
    <3>2. frozen \in Seq(TablesBelow(nextSeq))
      BY DEF DataInv, BufferOK
    <3> QED
      BY <3>1, <3>2
  <2>3. \A i \in DOMAIN frozen : ~IsEmpty(frozen[i])
    BY DEF DataInv, BufferOK
  <2> QED
    BY <1>1, <1>6, <2>1, <2>2, <2>3 DEF BufferOK, BufferDrained, Installing, Collecting
<1>13. FilesOK'
  <2>1. dir.live.manifest.nextSeq \in 1 .. clock
    BY <1>4, <1>5, <1>6 DEF Clocks
  <2> QED
    BY <1>1, <1>4, <1>6, <2>1 DEF DataInv, FilesOK, Installing
<1>14. ReadersOK'
  BY <1>1 DEF DataInv, ReadersOK
<1> QED
  BY <1>8, <1>9, <1>10, <1>11, <1>12, <1>13, <1>14 DEF DataInv

-----------------------------------------------------------------------------
\* A freshly created database.
LEMMA InitData == Init => DataInv
<1> SUFFICES ASSUME Init PROVE DataInv
  OBVIOUS
<1>1. pc = [t \in Threads |-> "idle"] /\ mutex = NoThread
  BY DEF Init, Gate!Init
<1>2. ClockOK
  <2>1. 1 \in Clocks /\ 0 \in 0 .. MaxFaults
    BY DbAssumption DEF Clocks
  <2> QED
    BY <2>1 DEF Init, ClockOK
<1>3. StageOK
  BY <1>1, NoFlushFacts DEF Init, StageOK, Stages, Installing, Collecting
<1>4. OpsOK
  BY <1>1 DEF Init, OpsOK, NoOp, Gate!Claimed
<1>5. LogOK
  <2>1. <<NewSegment>> \in Seq(Segment) /\ <<NewSegment>> # <<>>
    BY DEF NewSegment, Segment
  <2>2. <<>> \in Seq(Segment) /\ <<>> \in Seq(Payloads)
    OBVIOUS
  <2> QED
    BY <2>1, <2>2 DEF Init, LogOK, Log, NoLog
<1>6. BufferOK
  <2>1. 1 \in Nat \ {0}
    OBVIOUS
  <2>2. /\ EmptyTable \in TablesBelow(1) /\ IsFiniteSet(Support(EmptyTable))
        /\ Weight(EmptyTable) = 0 /\ IsEmpty(EmptyTable)
    BY <2>1, EmptyWeight
  <2>3. <<>> \in Seq(TablesBelow(1)) /\ DOMAIN <<>> = {}
    OBVIOUS
  <2> QED
    BY <2>2, <2>3, NoFlushFacts DEF Init, BufferOK, BufferDrained, Installing, Collecting
<1>7. FilesOK
  <2>1. <<>> \in [{} -> Table]
    OBVIOUS
  <2>2. <<>> \in Files /\ NoFiles \in View
    BY <2>1, NoFlushFacts DEF Files, View, NoFiles
  <2>3. 1 \in Clocks
    BY DbAssumption DEF Clocks
  <2>4. Holds(EmptyVersion, <<>>)
    BY NoFlushFacts DEF Holds
  <2>5. NoFiles.manifest = EmptyVersion /\ NoFiles.files = <<>>
    BY DEF NoFiles
  <2>6. /\ dir.live = NoFiles /\ dir.durable = NoFiles /\ version = EmptyVersion
        /\ nextSeq = 1 /\ flush = NoFlush /\ dir \in [live : View, durable : View]
    BY <2>2 DEF Init
  <2> QED
    BY <2>3, <2>4, <2>5, <2>6, NoFlushFacts DEF FilesOK, Installing
<1>8. ReadersOK
  BY DEF Init, ReadersOK, NoRead
<1> QED
  BY <1>2, <1>3, <1>4, <1>5, <1>6, <1>7, <1>8 DEF DataInv

(***************************************************************************)
(* The invariant of the engine's data holds in every behaviour of Db: any  *)
(* interleaving of writes, flush bodies, compactions and readers, any      *)
(* failing storage operation, and any sequence of crashes and recoveries.  *)
(***************************************************************************)
THEOREM DbDataInductive == Spec => []DataInv
<1>1. DataInv /\ GateOK /\ [Next]_vars => DataInv'
  <2> SUFFICES ASSUME DataInv, GateOK, [Next]_vars PROVE DataInv'
    OBVIOUS
  <2>1. CASE UNCHANGED vars
    <3>1. ClockOK'
      BY <2>1 DEF DataInv, ClockOK, vars, gateVars, ghostVars
    <3> QED
      BY <2>1, <3>1, Frames DEF DataInv, vars, gateVars, diskVars, Gate!Claimed
  <2> QED
    BY <2>1, WriterData, SyncLogStep, FlushData, ReaderData, CrashData, OpenData DEF Next
<1> QED
  BY <1>1, InitData, DbGateOK, PTL DEF Spec

\* As long as no reset fails, the log is its live segments alone.
LEMMA Unspared ==
  ASSUME DataInv, "reset" \notin Faults
  PROVE  /\ wal.segs # <<>> /\ wal.spare = <<>>
         /\ ~RetireSpare /\ ~ResetErr
         /\ \A t \in Threads : AppendErr(t) => Fault("io")
         /\ PowerLoss => \E image \in PowerImages :
              Die(image.segs, <<>>, [live |-> dir.durable, durable |-> dir.durable])
<1>1. wal.segs # <<>> /\ wal.spare = <<>>
  BY DEF DataInv, LogOK
<1>2. ~RetireSpare /\ ~ResetErr
  BY <1>1 DEF RetireSpare, ResetErr, Fault
<1>3. \A t \in Threads : AppendErr(t) => Fault("io")
  BY <1>1 DEF AppendErr, RollFails
<1>4. ASSUME PowerLoss
      PROVE  \E image \in PowerImages :
               Die(image.segs, <<>>, [live |-> dir.durable, durable |-> dir.durable])
  <2>1. PICK image \in PowerImages, spare \in {<<>>, wal.spare} :
          Die(image.segs \o spare, <<>>, [live |-> dir.durable, durable |-> dir.durable])
    BY <1>4 DEF PowerLoss
  <2>2. image.segs \in Seq(Segment) /\ spare = <<>>
    BY <1>1, <2>1, ImageSegments
  <2>3. image.segs \o spare = image.segs
    BY <2>2
  <2> QED
    BY <2>1, <2>3
<1> QED
  BY <1>1, <1>2, <1>3, <1>4

-----------------------------------------------------------------------------
(***************************************************************************)
(* Type correctness of the engine: sequence numbers within their bound, a  *)
(* memtable of entries, no empty frozen table (FlushTable never writes an  *)
(* empty SSTable), a log whose every frame decodes, and a flush body that  *)
(* runs exactly while the write mutex is held across steps.                *)
(***************************************************************************)
THEOREM DbTypeOK == Spec => []TypeOK
<1>1. DataInv /\ GateOK => TypeOK
  <2> SUFFICES ASSUME DataInv, GateOK PROVE TypeOK
    OBVIOUS
  <2>1. nextSeq \in Nat \ {0} /\ nextSeq \in 1 .. MaxWrites + 1
    BY DbAssumption DEF DataInv, ClockOK, Clocks
  <2>2. active \in Table /\ bytes \in Nat
    BY <2>1, WeightCounts, BelowTable DEF DataInv, BufferOK
  <2>3. \A i \in DOMAIN frozen : frozen[i] \in Table /\ ~IsEmpty(frozen[i])
    <3>1. frozen \in Seq(TablesBelow(nextSeq)) /\ \A i \in DOMAIN frozen : ~IsEmpty(frozen[i])
      BY DEF DataInv, BufferOK
    <3>2. \A i \in DOMAIN frozen : frozen[i] \in TablesBelow(nextSeq)
      BY <3>1
    <3> QED
      BY <2>1, <3>1, <3>2, BelowTable
  <2>4. wal.segs \in Seq(Segment)
    BY DEF DataInv, LogOK, Log
  <2>5. \A i \in DOMAIN wal.segs : wal.segs[i].synced \in 0 .. Len(wal.segs[i].recs)
    <3> SUFFICES ASSUME NEW i \in DOMAIN wal.segs
                 PROVE  wal.segs[i].synced \in 0 .. Len(wal.segs[i].recs)
      OBVIOUS
    <3> DEFINE seg == wal.segs[i]
    <3>1. seg \in Segment
      BY <2>4
    <3> HIDE DEF seg
    <3>2. seg.synced \in Nat /\ Len(seg.recs) \in Nat /\ seg.synced <= Len(seg.recs)
      BY <3>1 DEF Segment
    <3> QED
      BY <3>2 DEF seg
  <2>6. Decodable(wal.segs)
    BY <2>4, RecordsType
  <2>7. \A t \in Threads : op[t] \in Rec \cup {NoOp}
    BY DEF DataInv, OpsOK
  <2> QED
    BY <2>1, <2>2, <2>3, <2>4, <2>5, <2>6, <2>7
       DEF DataInv, GateOK, ClockOK, StageOK, TypeOK
<1> QED
  BY <1>1, DbDataInductive, DbGateOK, PTL

(***************************************************************************)
(* From the freeze to the end of a flush body the active memtable stays    *)
(* empty, and when Wal::reset starts deleting segments no frozen table is  *)
(* left: the log is dropped only when nothing is in memory alone           *)
(* (flush_quiesced, db.rs).                                                *)
(***************************************************************************)
THEOREM DbBufferDrained == Spec => []BufferDrained
<1>1. DataInv => BufferDrained
  BY DEF DataInv, BufferOK
<1> QED
  BY <1>1, DbDataInductive, PTL

(***************************************************************************)
(* Every table a lookup may open exists: of the current version, of every  *)
(* version a reader pinned before later flushes and compactions retired    *)
(* it, and of the manifest a crash leaves (install, gc, current).          *)
(***************************************************************************)
THEOREM DbPinnedFilesExist == Spec => []PinnedFilesExist
<1>1. DataInv => PinnedFilesExist
  <2> SUFFICES ASSUME DataInv PROVE PinnedFilesExist
    OBVIOUS
  <2>1. ReferencedIds(dir.live.manifest) \subseteq DOMAIN dir.live.files
    BY DEF DataInv, FilesOK, Holds
  <2>2. up => ReferencedIds(version) \subseteq DOMAIN dir.live.files
    BY DEF DataInv, FilesOK, Holds
  <2> QED
    BY <2>1, <2>2 DEF DataInv, ReadersOK, PinnedFilesExist
<1> QED
  BY <1>1, DbDataInductive, PTL

\* A version's lookup order lists its own tables.
LEMMA NewestFirstIds ==
  ASSUME NEW v \in Version
  PROVE  TablesNewestFirst(v) \in Seq(ReferencedIds(v))
<1> DEFINE ids == ReferencedIds(v)
           rev == [t \in DOMAIN v.tiers |-> Reverse(v.tiers[t])]
<1>1. v.tiers \in Seq(Seq(Nat))
  BY DEF Version
<1>2. \A t \in DOMAIN v.tiers : v.tiers[t] \in Seq(ids)
  <2> SUFFICES ASSUME NEW t \in DOMAIN v.tiers PROVE v.tiers[t] \in Seq(ids)
    OBVIOUS
  <2> DEFINE tier == v.tiers[t]
  <2>1. tier \in Seq(Nat) /\ \A i \in DOMAIN tier : tier[i] \in ids
    BY TierIds
  <2> HIDE DEF tier, ids
  <2>2. tier \in Seq(ids)
    BY <2>1
  <2> QED
    BY <2>2 DEF tier
<1> HIDE DEF ids
<1>3. \A t \in DOMAIN v.tiers : Reverse(v.tiers[t]) \in Seq(ids)
  BY <1>2, ReverseType
<1>4. rev \in Seq(Seq(ids))
  <2> DEFINE n == Len(v.tiers)
             out == Seq(ids)
  <2>1. n \in Nat /\ DOMAIN v.tiers = 1 .. n
    BY <1>1
  <2>2. \A t \in 1 .. n : rev[t] \in out
    BY <1>3, <2>1
  <2>3. DOMAIN rev = 1 .. n /\ rev = [t \in 1 .. n |-> rev[t]]
    BY <2>1
  <2> HIDE DEF n, out, rev
  <2>4. rev \in Seq(out)
    BY <2>1, <2>2, <2>3
  <2> QED
    BY <2>4 DEF out
<1> HIDE DEF rev
<1>5. FlattenSeq(rev) \in Seq(ids)
  BY <1>4, FlattenType
<1> QED
  BY <1>5 DEF TablesNewestFirst, rev, ids

\* The tables of a version, as a lookup sees them.
LEMMA TableSourcesBelow ==
  ASSUME NEW v \in Version, NEW files, Holds(v, files), NEW n \in Nat, v.nextSeq <= n
  PROVE  TableSources(v, files) \in Seq(TablesBelow(n))
<1> DEFINE ids == TablesNewestFirst(v)
<1>1. ids \in Seq(ReferencedIds(v))
  BY NewestFirstIds
<1>2. v.nextSeq \in Nat
  BY DEF Version
<1>3. TablesBelow(v.nextSeq) \subseteq TablesBelow(n)
  BY <1>2, BelowMonotone
<1> HIDE DEF ids
<1>4. \A i \in DOMAIN ids : files[ids[i]] \in TablesBelow(n)
  BY <1>1, <1>3 DEF Holds
<1>5. [i \in DOMAIN ids |-> files[ids[i]]] \in Seq(TablesBelow(n))
  BY <1>1, <1>4
<1> QED
  BY <1>5 DEF TableSources, ids

\* The sources of a lookup in a running process are older than its clock.
LEMMA LiveSourcesBelow ==
  ASSUME DataInv, up
  PROVE  LiveSources \in Seq(TablesBelow(nextSeq))
<1> DEFINE tables == TablesBelow(nextSeq)
           mem == <<active>>
           rev == Reverse(frozen)
           ssts == TableSources(version, dir.live.files)
<1>1. mem \in Seq(tables)
  BY DEF DataInv, BufferOK
<1>2. rev \in Seq(tables)
  BY ReverseType DEF DataInv, BufferOK
<1>3. ssts \in Seq(tables)
  <2>1. /\ version \in Version /\ version.nextSeq \in 1 .. nextSeq
        /\ Holds(version, dir.live.files)
    BY DEF DataInv, FilesOK
  <2>2. nextSeq \in Nat /\ version.nextSeq <= nextSeq
    BY <2>1, DbAssumption DEF DataInv, ClockOK, Clocks
  <2> QED
    BY <2>1, <2>2, TableSourcesBelow
<1>4. LiveSources = (mem \o rev) \o ssts
  BY DEF LiveSources, MemSources
<1> HIDE DEF tables, mem, rev, ssts
<1>5. mem \o rev \in Seq(tables)
  BY <1>1, <1>2, ConcatType
<1> DEFINE front == mem \o rev
<1>6. LiveSources = front \o ssts /\ front \in Seq(tables)
  BY <1>4, <1>5
<1> HIDE DEF front
<1>7. LiveSources \in Seq(tables)
  BY <1>3, <1>6, ConcatType
<1> QED
  BY <1>7 DEF tables

(***************************************************************************)
(* No memtable or table of a running engine holds a sequence number that   *)
(* the write clock is still to hand out, whatever was flushed, lost and    *)
(* replayed before (next_seq in write, Flushed and open_on).               *)
(***************************************************************************)
THEOREM DbFreshSeqs == Spec => []FreshSeqs
<1>1. DataInv => FreshSeqs
  <2> SUFFICES ASSUME DataInv, up,
                      NEW i \in DOMAIN Sources, NEW k \in Keys
               PROVE  Sources[i][k].seq < nextSeq
    BY DEF FreshSeqs
  <2>1. Sources \in Seq(TablesBelow(nextSeq))
    BY LiveSourcesBelow DEF Sources
  <2>2. Sources[i] \in TablesBelow(nextSeq)
    BY <2>1
  <2>3. Sources[i][k] \in Below(nextSeq)
    BY <2>2 DEF TablesBelow
  <2>4. nextSeq \in Nat \ {0}
    BY DbAssumption DEF DataInv, ClockOK, Clocks
  <2> QED
    BY <2>3, <2>4, BelowFacts
<1> QED
  BY <1>1, DbDataInductive, PTL
==============================================================================
