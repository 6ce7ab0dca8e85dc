---------------------------- MODULE DbStoreProofs ----------------------------
(***************************************************************************)
(* What readers see, for any keys, threads, readers and bounds: a get or a *)
(* scan that runs beside writes, flushes and compactions returns a value   *)
(* its key had during the call, under the faults of KeepsOrder; and the    *)
(* engine implements KvStore when the only faults are power losses.        *)
(***************************************************************************)
EXTENDS DbOrderProofs

\* The record r is in a segment of the log, or anywhere at all.
InLog(r) == \E seg \in LogSegs : \E i \in 1 .. Len(seg.recs) : DecodeRecord(seg.recs[i]) = r
Written(r) ==
  \/ \E t \in Gate!Claimed : op[t] = r
  \/ InLog(r)
  \/ \E table \in {active} \cup Stored : table[r.key] = EntryOf(r)

\* A sequence number stands for one write, wherever it is found, and the log has
\* none that the clock is still to hand out.
WriteOnce == \A r, q \in Rec : Written(r) /\ Written(q) /\ r.seq = q.seq => r = q
LoggedPast == up => \A r \in Rec : InLog(r) => r.seq < nextSeq

OnceInv == WriteOnce /\ LoggedPast

\* The tables of a view, and what a lookup of k that already has the entry m finds
\* in them; the newest of what it finds.
Tables(w) == {w.files[id] : id \in ReferencedIds(w.v)}
Probe(m, k, w) == {m} \cup {table[k] : table \in Tables(w)}
IsTop(e, S) == e \in S /\ \A x \in S : x.seq <= e.seq

\* The view a running process reads.
Current == [v |-> version, files |-> dir.live.files]

-----------------------------------------------------------------------------
\* Steps that log nothing, and those that put nothing new into a table.
RecsKept == \A r \in Rec : InLog(r)' => InLog(r)
EntriesKept ==
  \A table \in ({active} \cup Stored)' : \A k \in Keys :
    table[k] = Absent \/ \E old \in {active} \cup Stored : table[k] = old[k]

\* An entry that comes from a record is there.
LEMMA EntryPresent ==
  ASSUME NEW r \in Rec
  PROVE  /\ EntryOf(r) # Absent /\ EntryOf(r).seq = r.seq /\ r.key \in Keys
         /\ r.seq \in Nat \ {0} /\ EntryOf(r) \in Entry
BY DEF EntryOf, Absent, Rec, Kinds, Entry

\* Such steps, when they claim nothing, write nothing.
LEMMA OnceKept ==
  ASSUME OnceInv, RecsKept, EntriesKept, ClaimsSame,
         up' => up /\ nextSeq' = nextSeq, nextSeq \in Nat
  PROVE  OnceInv'
<1>1. ASSUME NEW r \in Rec, Written(r)' PROVE Written(r)
  <2>1. CASE \E t \in Gate!Claimed' : op'[t] = r
    BY <2>1 DEF ClaimsSame, Written
  <2>2. CASE InLog(r)'
    BY <2>2 DEF RecsKept, Written
  <2>3. CASE \E table \in ({active} \cup Stored)' : table[r.key] = EntryOf(r)
    BY <2>3, EntryPresent DEF EntriesKept, Written
  <2> QED
    BY <1>1, <2>1, <2>2, <2>3 DEF Written
<1>2. WriteOnce'
  <2> SUFFICES ASSUME NEW r \in Rec, NEW q \in Rec, Written(r)', Written(q)', r.seq = q.seq
               PROVE  r = q
    BY DEF WriteOnce
  <2> QED
    BY <1>1 DEF OnceInv, WriteOnce
<1>3. LoggedPast'
  BY DEF OnceInv, LoggedPast, RecsKept
<1> QED
  BY <1>2, <1>3 DEF OnceInv

\* Views that stay bring no new entries.
LEMMA EntriesSame ==
  ASSUME FilesOrder, ViewsKept, UNCHANGED <<active, frozen>>
  PROVE  EntriesKept /\ Stored' \subseteq Stored
<1>1. Named' \subseteq Named
  BY ViewsKeptOrder
<1>2. Stored' \subseteq Stored
  BY <1>1 DEF Stored
<1> QED
  BY <1>2 DEF EntriesKept

\* Segments that hold the beginnings of old ones hold no new record.
LEMMA RecsWithin ==
  ASSUME \A seg \in LogSegs' : \A i \in 1 .. Len(seg.recs) :
           \E old \in LogSegs : \E j \in 1 .. Len(old.recs) : seg.recs[i] = old.recs[j]
  PROVE  RecsKept
BY DEF RecsKept, InLog

\* Old segments and an empty one hold no new record.
LEMMA RecsSame ==
  ASSUME LogSegs' \subseteq LogSegs \cup {NewSegment}
  PROVE  RecsKept
<1>1. 1 .. Len(NewSegment.recs) = {}
  BY DEF NewSegment
<1> QED
  BY <1>1, RecsWithin

\* decode_record undoes encode_record, the kind of the write included.
LEMMA DecodesBack ==
  ASSUME NEW r \in Rec
  PROVE  DecodeRecord(EncodeRecord(r)) = r
<1>1. CASE r.kind = "Value"
  <2>1. EncodeRecord(r) = <<r.seq, 1, r.key, r.seq>>
    BY <1>1 DEF EncodeRecord, REC_TAG_PUT
  <2> DEFINE buf == <<r.seq, 1, r.key, r.seq>>
  <2>2. buf[1] = r.seq /\ buf[2] = 1 /\ buf[3] = r.key
    OBVIOUS
  <2> HIDE DEF buf
  <2> QED
    BY <1>1, <2>1, <2>2 DEF buf, DecodeRecord, REC_TAG_PUT, Rec
<1>2. CASE r.kind # "Value"
  <2>1. EncodeRecord(r) = <<r.seq, 0, r.key>> /\ r.kind = "Tombstone"
    BY <1>2 DEF EncodeRecord, REC_TAG_DELETE, Rec, Kinds
  <2> DEFINE buf == <<r.seq, 0, r.key>>
  <2>2. buf[1] = r.seq /\ buf[2] = 0 /\ buf[3] = r.key
    OBVIOUS
  <2> HIDE DEF buf
  <2> QED
    BY <2>1, <2>2 DEF buf, DecodeRecord, REC_TAG_PUT, Rec
<1> QED
  BY <1>1, <1>2

-----------------------------------------------------------------------------
\* The log's own steps: a barrier, and what a flush body does to the segments.
LEMMA SyncLogRecs ==
  ASSUME DataInv, OrderInv, SyncLog
  PROVE  RecsKept
<1> DEFINE seg == wal.segs[LastSeg]
           done == [seg EXCEPT !.synced = Len(seg.recs)]
           segs == [wal.segs EXCEPT ![LastSeg] = done]
<1>1. /\ wal \in [segs : Seq(Segment), spare : Seq(Segment), old : Seq(Segment),
                  gone : Seq(Segment), queue : Seq(Payloads)]
      /\ wal.segs \in Seq(Segment) \ {<<>>}
  BY DEF DataInv, LogOK, Log, SyncLog
<1>2. [wal.segs EXCEPT ![LastSeg].synced = Len(seg.recs)] = segs
  OBVIOUS
<1>3. /\ wal'.segs = segs \/ wal'.segs = Append(segs, NewSegment)
      /\ wal'.old = wal.old /\ (wal'.gone = wal.gone \/ wal'.gone = <<>>)
  BY <1>1, <1>2 DEF SyncLog
<1>4. seg \in Segment
  BY <1>1 DEF LastSeg
<1>5. done.recs = seg.recs /\ done \in Segment
  <2>1. seg.recs \in Seq(Payloads) /\ Len(seg.recs) \in Nat
    BY <1>4 DEF Segment
  <2> HIDE DEF seg
  <2> QED
    BY <1>4, <2>1 DEF Segment
<1>6. seg \in ToSet(wal.segs) /\ \A x \in ToSet(segs) : x \in ToSet(wal.segs) \/ x = done
  <2> HIDE DEF done
  <2>1. SwapsSegment(ToSet(wal.segs), ToSet(segs), seg, done)
    BY <1>1, LastReplaced DEF LastSeg
  <2> QED
    BY <2>1 DEF SwapsSegment
<1>7. segs \in Seq(Segment)
  <2> HIDE DEF done, seg
  <2> QED
    BY <1>1, <1>5, SegmentGrown DEF LastSeg
<1> HIDE DEF done, seg, segs
<1>8. ToSet(wal'.segs) \subseteq ToSet(segs) \cup {NewSegment}
  <2>1. ToSet(Append(segs, NewSegment)) \subseteq ToSet(segs) \cup {NewSegment}
    BY <1>7, AppendSet
  <2> QED
    BY <1>3, <2>1
<1>9. ToSet(wal'.gone) \subseteq ToSet(wal.gone)
  BY <1>3 DEF ToSet
<1>10. \A x \in LogSegs' : x \in LogSegs \/ x = done \/ x = NewSegment
  BY <1>3, <1>6, <1>8, <1>9 DEF LogSegs
<1>11. seg \in LogSegs /\ 1 .. Len(NewSegment.recs) = {}
  BY <1>6 DEF LogSegs, NewSegment
<1> QED
  BY <1>5, <1>10, <1>11, RecsWithin

\* Deleting segments, and making it durable, logs nothing.
LEMMA BodyRecs ==
  ASSUME DataInv, OrderInv, SyncManifest \/ GcSync \/ ResetCreate \/ RetireSegment \/ ResetSync
  PROVE  RecsKept
<1>1. /\ wal \in [segs : Seq(Segment), spare : Seq(Segment), old : Seq(Segment),
                  gone : Seq(Segment), queue : Seq(Payloads)]
      /\ ToSet(<<>>) = {} /\ ToSet(<<NewSegment>>) = {NewSegment}
  BY DEF DataInv, LogOK, Log, ToSet
<1>2. CASE SyncManifest \/ GcSync \/ ResetSync
  <2>1. wal' = [wal EXCEPT !.gone = <<>>]
    BY <1>2 DEF SyncManifest, GcSync, ResetSync, SyncDir
  <2>2. wal'.segs = wal.segs /\ wal'.old = wal.old /\ wal'.gone = <<>>
    BY <1>1, <2>1
  <2> QED
    BY <1>1, <2>2, RecsSame DEF LogSegs
<1>3. CASE ResetCreate
  <2>1. wal' = [wal EXCEPT !.segs = <<NewSegment>>, !.old = wal.segs, !.gone = <<>>]
    BY <1>3 DEF ResetCreate
  <2>2. wal'.segs = <<NewSegment>> /\ wal'.old = wal.segs /\ wal'.gone = <<>>
    BY <1>1, <2>1
  <2> QED
    BY <1>1, <2>2, RecsSame DEF LogSegs
<1>4. CASE RetireSegment
  <2> DEFINE old == wal.old
             gone == wal.gone
  <2>1. /\ wal' = [wal EXCEPT !.old = Tail(@), !.gone = Append(@, Head(wal.old))]
        /\ old # <<>>
    BY <1>4 DEF RetireSegment
  <2>2. /\ wal'.segs = wal.segs /\ wal'.old = Tail(old) /\ wal'.gone = Append(gone, Head(old))
        /\ old \in Seq(Segment) /\ gone \in Seq(Segment)
    BY <1>1, <2>1
  <2>3. LogSegs = ToSet(gone) \cup ToSet(old) \cup ToSet(wal.segs)
    BY DEF LogSegs
  <2>4. LogSegs' = ToSet(Append(gone, Head(old))) \cup ToSet(Tail(old)) \cup ToSet(wal.segs)
    BY <2>2 DEF LogSegs
  <2> HIDE DEF old, gone
  <2>5. ToSet(old) = {Head(old)} \cup ToSet(Tail(old))
    BY <2>1, <2>2, TailSet
  <2>6. ToSet(Append(gone, Head(old))) = ToSet(gone) \cup {Head(old)}
    BY <2>2, AppendSet
  <2> QED
    BY <2>3, <2>4, <2>5, <2>6, RecsSame
<1> QED
  BY <1>2, <1>3, <1>4

\* A record that reaches the log was claimed.
LEMMA LogRecordRecs ==
  ASSUME DataInv, GateOK, OrderInv, NEW t \in Threads, LogRecord(t)
  PROVE  \A r \in Rec : InLog(r)' => InLog(r) \/ r = op[t]
<1> DEFINE rec == EncodeRecord(op[t])
           seg == wal.segs[LastSeg]
           recs == seg.recs \o wal.queue \o <<rec>>
           new == [seg EXCEPT !.recs = recs]
<1>1. /\ wal' = [wal EXCEPT !.segs[LastSeg].recs = @ \o wal.queue \o <<rec>>, !.queue = <<>>]
      /\ t \in Gate!Claimed
  BY DEF LogRecord, Gate!Claimed
<1>2. /\ wal \in [segs : Seq(Segment), spare : Seq(Segment), old : Seq(Segment),
                  gone : Seq(Segment), queue : Seq(Payloads)]
      /\ wal.segs \in Seq(Segment) \ {<<>>} /\ wal.queue = <<>>
  BY DEF DataInv, LogOK, Log, OrderInv, LogShape
<1>3. seg \in Segment /\ seg.recs \in Seq(Payloads)
  BY <1>2 DEF LastSeg, Segment
<1>4. op[t] \in Rec /\ rec \in Payloads
  BY <1>1, ClaimedRecord DEF DataInv
<1>5. /\ wal'.segs = [wal.segs EXCEPT ![LastSeg] = new]
      /\ wal'.old = wal.old /\ wal'.gone = wal.gone
  <2>1. wal' = [wal EXCEPT !.segs[LastSeg].recs = recs, !.queue = <<>>]
    BY <1>1
  <2> HIDE DEF recs
  <2> QED
    BY <1>2, <2>1
<1>6. new.recs = recs
  <2> HIDE DEF recs
  <2> QED
    BY <1>3 DEF Segment
<1>7. /\ seg \in ToSet(wal.segs)
      /\ \A x \in ToSet(wal'.segs) : x \in ToSet(wal.segs) \/ x = new
  <2> HIDE DEF new
  <2>1. SwapsSegment(ToSet(wal.segs), ToSet(wal'.segs), seg, new)
    BY <1>2, <1>5, LastReplaced DEF LastSeg
  <2> QED
    BY <2>1 DEF SwapsSegment
<1>8. \A i \in 1 .. Len(recs) :
        recs[i] = rec \/ \E j \in 1 .. Len(seg.recs) : recs[i] = seg.recs[j]
  <2> DEFINE old == seg.recs
             n == Len(old)
  <2>1. old \in Seq(Payloads) /\ old \o <<>> = old
    BY <1>3
  <2>2. recs = old \o <<rec>>
    BY <1>2, <2>1
  <2> HIDE DEF old, rec, recs
  <2>3. /\ n \in Nat /\ Len(recs) = n + 1 /\ recs[n + 1] = rec
        /\ \A i \in 1 .. n : recs[i] = old[i]
    BY <1>4, <2>1, <2>2
  <2>4. \A i \in 1 .. Len(recs) : i \in 1 .. n \/ i = n + 1
    BY <2>3
  <2> QED
    BY <2>3, <2>4 DEF old
<1> HIDE DEF new, recs, seg, rec
<1>9. \A x \in LogSegs' : x \in LogSegs \/ x = new
  BY <1>5, <1>7 DEF LogSegs
<1>10. seg \in LogSegs
  BY <1>7 DEF LogSegs
<1>11. DecodeRecord(rec) = op[t]
  BY <1>4, DecodesBack DEF rec
<1> SUFFICES ASSUME NEW r \in Rec, InLog(r)', ~InLog(r) PROVE r = op[t]
  OBVIOUS
<1>12. PICK x \in LogSegs' : \E i \in 1 .. Len(x.recs) : DecodeRecord(x.recs[i]) = r
  BY DEF InLog
<1>13. x = new
  BY <1>9, <1>12 DEF InLog
<1>14. PICK i \in 1 .. Len(recs) : DecodeRecord(recs[i]) = r
  BY <1>6, <1>12, <1>13
<1>15. recs[i] = rec
  BY <1>8, <1>10, <1>14 DEF InLog
<1> QED
  BY <1>11, <1>14, <1>15

\* A power loss tears off the ends of segments.
LEMMA PowerLossRecs ==
  ASSUME DataInv, OrderInv, PowerLoss
  PROVE  RecsKept
<1> DEFINE front == wal.gone \o wal.old
           all == front \o wal.segs
           view == [live |-> dir.durable, durable |-> dir.durable]
<1>1. PICK image \in PowerImages : Die(image.segs, <<>>, view)
  BY Unspared DEF OrderInv, LogShape
<1>2. (\A i \in DOMAIN all : image.segs[i] \in Torn(all[i])) /\ DOMAIN image.segs = DOMAIN all
  <2>1. PICK s \in {f \in [DOMAIN all -> UNION {Torn(all[i]) : i \in DOMAIN all}] :
                      \A i \in DOMAIN all : f[i] \in Torn(all[i])} :
          image = [segs |-> s, manifest |-> dir.durable.manifest, files |-> dir.durable.files]
    BY DEF PowerImages
  <2>2. image.segs = s
    BY <2>1
  <2> HIDE DEF all
  <2> QED
    BY <2>1, <2>2
<1>3. ToSet(all) = LogSegs
  <2>1. wal.segs \in Seq(Segment) /\ wal.old \in Seq(Segment) /\ wal.gone \in Seq(Segment)
    BY DEF DataInv, LogOK, Log
  <2>2. front \in Seq(Segment) /\ ToSet(front) = ToSet(wal.gone) \cup ToSet(wal.old)
    BY <2>1, ConcatType, ConcatSet
  <2> HIDE DEF front
  <2>3. ToSet(all) = ToSet(front) \cup ToSet(wal.segs)
    BY <2>1, <2>2, ConcatSet
  <2> QED
    BY <2>2, <2>3 DEF LogSegs
<1> HIDE DEF all
<1>4. LogSegs' = ToSet(image.segs)
  <2>1. wal' = [segs |-> image.segs, spare |-> <<>>, old |-> <<>>, gone |-> <<>>,
                 queue |-> <<>>]
    BY <1>1 DEF Die
  <2>2. wal'.segs = image.segs /\ wal'.old = <<>> /\ wal'.gone = <<>> /\ ToSet(<<>>) = {}
    BY <2>1 DEF ToSet
  <2> QED
    BY <2>2 DEF LogSegs
<1>5. \A cut \in LogSegs' : \E seg \in LogSegs : cut \in Torn(seg)
  BY <1>2, <1>3, <1>4 DEF ToSet
<1>6. ASSUME NEW cut \in LogSegs', NEW i \in 1 .. Len(cut.recs)
      PROVE  \E old \in LogSegs : \E j \in 1 .. Len(old.recs) : cut.recs[i] = old.recs[j]
  <2>1. PICK seg \in LogSegs : cut \in Torn(seg)
    BY <1>5
  <2>2. seg \in Segment
    BY LogTyped
  <2>3. i \in 1 .. Len(seg.recs) /\ cut.recs[i] = seg.recs[i]
    BY <2>1, <2>2, TornKeeps
  <2> QED
    BY <2>3
<1> QED
  BY <1>6, RecsWithin

-----------------------------------------------------------------------------
\* The files of the versions that readers have pinned stay as they are.
PinsKept ==
  \A r \in Readers : rd[r].at = "tables" =>
    \A id \in ReferencedIds(rd[r].pin) : dir'.live.files[id] = dir.live.files[id]

\* A step of the running process that changes nothing of what is read.
Quiet ==
  /\ up /\ up' /\ UNCHANGED <<active, frozen, nextSeq, rd>>
  /\ ViewsKept /\ RecsKept /\ ClaimsSame /\ PinsKept

QuietCall(t) ==
  \/ StartWrite(t) \/ WaitOrWake(t) \/ AppendOk(t) \/ AppendErr(t) \/ Abort(t)
  \/ Finish(t) \/ FinishFull(t) \/ StartFlush(t) \/ EnterBody(t) \/ FlushDone(t)

QuietBody ==
  \/ SyncLog \/ RenameManifest \/ SyncManifest \/ SwapVersion \/ GcTables \/ GcSync
  \/ ResetCreate \/ RetireSegment \/ ResetSync \/ CompactNothing \/ FlushErr

\* The steps of a flush body whose reset does not fail.
LEMMA BodySteps ==
  ASSUME DataInv, OrderInv, FlushStep
  PROVE  QuietBody \/ Freeze \/ Discard \/ FlushTable \/ Compact
<1>1. ~RetireSpare /\ ~ResetErr
  BY Unspared DEF OrderInv, LogShape
<1> QED
  BY <1>1 DEF FlushStep, QuietBody

\* Calls that wait, return, or move on in write() and flush() ...
LEMMA CallsQuiet ==
  ASSUME DataInv, GateOK, KeepsOrder, NEW t \in Threads, QuietCall(t)
  PROVE  Quiet
<1>1. /\ up /\ UNCHANGED <<up, nextSeq, active, frozen, rd, dir, version>>
      /\ \A u \in Threads : u # t => op'[u] = op[u]
  BY DEF QuietCall, StartWrite, WaitOrWake, AppendOk, AppendErr, Abort, Finish, FinishFull,
         StartFlush, EnterBody, FlushDone, Acknowledge, memVars, diskVars, DataInv, OpsOK
<1>2. wal' = wal
  <2>1. AppendErr(t) => "io" \in Faults
    BY Unspared DEF Fault, KeepsOrder
  <2> QED
    BY <2>1, DbAssumption DEF QuietCall, StartWrite, WaitOrWake, AppendOk, AppendErr, Abort,
         Finish, FinishFull, StartFlush, EnterBody, FlushDone, diskVars, KeepsOrder
<1>3. flush'.stage \in Installing => flush.stage \in Installing /\ flush'.next = flush.next
  <2>1. flush' \in {flush, NoFlush, [NoFlush EXCEPT !.stage = "freeze"]}
    BY DEF QuietCall, StartWrite, WaitOrWake, AppendOk, AppendErr, Abort, Finish, FinishFull,
           StartFlush, EnterBody, FlushDone, BeginBodyIfEntered
  <2> QED
    BY <2>1, NoFlushFacts DEF Installing
<1>4. \/ pc' = pc /\ op' = op
      \/ \E to : /\ pc' = [pc EXCEPT ![t] = to]
                 /\ to \in {"append", "abort", "apply", "finish"} =>
                      t \in Gate!Claimed /\ op' = op
  <2>1. CASE StartWrite(t)
    <3>1. pc' = [pc EXCEPT ![t] = "claim"]
      BY <2>1 DEF StartWrite, Gate!StartWrite, Gate!Goto
    <3>2. "claim" \notin {"append", "abort", "apply", "finish"}
      OBVIOUS
    <3> QED
      BY <3>1, <3>2, Zenon
  <2>2. CASE WaitOrWake(t)
    BY <2>2 DEF WaitOrWake, Gate!WaitForGate, Gate!WaitAgain, Gate!SpuriousWake
  <2>3. CASE AppendOk(t) \/ AppendErr(t)
    BY <2>3 DEF AppendOk, AppendErr, Gate!AppendOk, Gate!AppendErr, Gate!Goto, Gate!Claimed
  <2>4. CASE Abort(t) \/ Finish(t) \/ FlushDone(t)
    BY <2>4 DEF Abort, Finish, FlushDone, Gate!Abort, Gate!Finish, Gate!FlushDone, Gate!Goto
  <2>5. CASE FinishFull(t) \/ StartFlush(t) \/ EnterBody(t)
    <3>1. \E to \in {"quiesce", "body"} : pc' = [pc EXCEPT ![t] = to]
      BY <2>5 DEF FinishFull, StartFlush, EnterBody, Gate!FinishFull, Gate!StartFlush,
                  Gate!EnterBody, Gate!EnterFlush, Gate!Goto
    <3> QED
      BY <3>1
  <2> QED
    BY <2>1, <2>2, <2>3, <2>4, <2>5 DEF QuietCall
<1>5. ClaimsSame
  BY <1>1, <1>4 DEF ClaimsSame, Gate!Claimed, GateOK, Gate!TypeOK
<1>6. ViewsKept
  BY <1>1, <1>3, ViewsSame
<1>7. RecsKept
  BY <1>2 DEF RecsKept, InLog, LogSegs
<1>8. PinsKept
  BY <1>1 DEF PinsKept
<1> QED
  BY <1>1, <1>5, <1>6, <1>7, <1>8 DEF Quiet

\* ... and the steps of the log and of a flush body that install, collect and reset.
LEMMA BodyQuiet ==
  ASSUME DataInv, GateOK, OrderInv, QuietBody
  PROVE  Quiet
<1>1. /\ up /\ UNCHANGED <<gateVars, up, nextSeq, op, active, frozen, rd>>
  BY DEF QuietBody, SyncLog, RenameManifest, SyncManifest, SwapVersion, GcTables, GcSync,
         ResetCreate, RetireSegment, ResetSync, CompactNothing, FlushErr, InBody, memVars
<1>2. ViewsKept
  BY SyncLogOrder, RenameOrder, SyncOrder, SwapOrder, GcOrder, ResetOrder, RetireOrder,
     ResetSyncOrder, EndOrder DEF QuietBody
<1>3. RecsKept
  <2>1. CASE SyncLog
    BY <2>1, SyncLogRecs
  <2>2. CASE SyncManifest \/ GcSync \/ ResetCreate \/ RetireSegment \/ ResetSync
    BY <2>2, BodyRecs
  <2>3. CASE RenameManifest \/ SwapVersion \/ GcTables \/ CompactNothing \/ FlushErr
    <3>1. wal' = wal
      BY <2>3 DEF RenameManifest, SwapVersion, GcTables, CompactNothing, FlushErr, diskVars
    <3> QED
      BY <3>1 DEF RecsKept, InLog, LogSegs
  <2> QED
    BY <2>1, <2>2, <2>3 DEF QuietBody
<1>4. ClaimsSame
  BY <1>1 DEF ClaimsSame, Gate!Claimed, gateVars
<1>5. PinsKept
  <2>1. CASE GcTables
    <3> SUFFICES ASSUME NEW r \in Readers, rd[r].at = "tables",
                        NEW id \in ReferencedIds(rd[r].pin)
                 PROVE  dir'.live.files[id] = dir.live.files[id]
      BY DEF PinsKept
    <3>1. ReadersOK'
      BY <2>1, GcStep DEF DataInv
    <3>2. id \in DOMAIN dir'.live.files
      BY <1>1, <3>1 DEF ReadersOK
    <3> DEFINE keep == LiveIds({v \in obsolete : Pinned(v)}) \cap DOMAIN dir.live.files
    <3>3. dir' = [dir EXCEPT !.live.files = [i \in keep |-> dir.live.files[i]]]
      BY <2>1 DEF GcTables
    <3>4. dir \in [live : View, durable : View]
      BY DEF DataInv, FilesOK
    <3> HIDE DEF keep
    <3>5. dir'.live.files = [i \in keep |-> dir.live.files[i]]
      BY <3>3, <3>4 DEF View
    <3> QED
      BY <3>2, <3>5
  <2>2. CASE ~GcTables
    <3>1. \/ dir' = dir \/ dir' = [dir EXCEPT !.durable = dir.live]
          \/ dir' = [dir EXCEPT !.live.manifest = flush.next]
      BY <2>2 DEF QuietBody, SyncLog, RenameManifest, SyncManifest, SwapVersion, GcSync,
         ResetCreate, RetireSegment, ResetSync, CompactNothing, FlushErr, SyncDir, diskVars
    <3>2. dir \in [live : View, durable : View]
      BY DEF DataInv, FilesOK
    <3>3. dir'.live.files = dir.live.files
      BY <3>1, <3>2 DEF View
    <3> QED
      BY <3>3 DEF PinsKept
  <2> QED
    BY <2>1, <2>2
<1> QED
  BY <1>1, <1>2, <1>3, <1>4, <1>5 DEF Quiet

\* Neither writes a record.
LEMMA QuietOnce ==
  ASSUME DataInv, OrderInv, OnceInv, Quiet
  PROVE  OnceInv'
<1>1. EntriesKept
  BY EntriesSame DEF OrderInv, Quiet
<1>2. nextSeq \in Nat
  BY DbAssumption DEF DataInv, ClockOK, Clocks
<1> QED
  BY <1>1, <1>2, OnceKept DEF Quiet

\* No record has a seq that is still to be handed out.
LEMMA WrittenPast ==
  ASSUME DataInv, OrderInv, LoggedPast, up, NEW r \in Rec, Written(r)
  PROVE  r.seq < nextSeq
<1>1. nextSeq \in Nat \ {0}
  BY DbAssumption DEF DataInv, ClockOK, Clocks
<1>2. CASE \E t \in Gate!Claimed : op[t] = r
  BY <1>2 DEF DataInv, OpsOK, Gate!Claimed
<1>3. CASE InLog(r)
  BY <1>3 DEF LoggedPast
<1>4. CASE \E table \in {active} \cup Stored : table[r.key] = EntryOf(r)
  <2>1. PICK table \in {active} \cup Stored : table[r.key] = EntryOf(r)
    BY <1>4
  <2>2. table \in TablesBelow(nextSeq)
    BY <2>1, StoredBelow DEF DataInv, BufferOK
  <2>3. EntryOf(r) \in Below(nextSeq)
    BY <2>1, <2>2, EntryPresent DEF TablesBelow
  <2> QED
    BY <1>1, <2>3, EntryPresent, BelowFacts
<1> QED
  BY <1>2, <1>3, <1>4 DEF Written

\* Phase 1 hands out a seq that nothing has.
LEMMA ClaimOnce ==
  ASSUME DataInv, GateOK, OrderInv, OnceInv, NEW t \in Threads, NEW k \in Keys,
         NEW kind \in WriteKinds, Claim(t, k, kind)
  PROVE  OnceInv'
<1>1. /\ up /\ up' /\ UNCHANGED <<memVars, diskVars, version, flush>>
      /\ op' = [op EXCEPT ![t] = [key |-> k, seq |-> nextSeq, kind |-> kind]]
      /\ nextSeq' = nextSeq + 1 /\ pc' = [pc EXCEPT ![t] = "append"]
  BY DEF Claim, Gate!Claim, Gate!Goto
<1> DEFINE new == [key |-> k, seq |-> nextSeq, kind |-> kind]
<1>2. nextSeq \in Nat
  BY DbAssumption DEF DataInv, ClockOK, Clocks
<1>3. \A u \in Gate!Claimed' : op'[u] = new \/ (u \in Gate!Claimed /\ op'[u] = op[u])
  BY <1>1 DEF Gate!Claimed, GateOK, Gate!TypeOK, DataInv, OpsOK
<1>4. ({active} \cup Stored)' = {active} \cup Stored /\ LogSegs' = LogSegs
  BY <1>1 DEF Stored, Named, Views, LogSegs, memVars, diskVars
<1>5. \A r \in Rec : InLog(r)' => InLog(r)
  BY <1>4 DEF InLog
<1>6. ASSUME NEW r \in Rec, Written(r)' PROVE Written(r) \/ r = new
  <2>1. CASE \E u \in Gate!Claimed' : op'[u] = r
    BY <1>3, <2>1 DEF Written
  <2>2. CASE InLog(r)'
    BY <1>5, <2>2 DEF Written
  <2>3. CASE \E table \in ({active} \cup Stored)' : table[r.key] = EntryOf(r)
    BY <1>4, <2>3 DEF Written
  <2> QED
    BY <1>6, <2>1, <2>2, <2>3 DEF Written
<1>7. \A r \in Rec : Written(r) => r.seq \in Nat /\ r.seq < nextSeq
  BY <1>1, WrittenPast DEF OnceInv, Rec
<1>8. new.seq = nextSeq
  OBVIOUS
<1> HIDE DEF new
<1>9. WriteOnce'
  <2> SUFFICES ASSUME NEW r \in Rec, NEW q \in Rec, Written(r)', Written(q)', r.seq = q.seq
               PROVE  r = q
    BY DEF WriteOnce
  <2>1. CASE Written(r) /\ Written(q)
    BY <2>1 DEF OnceInv, WriteOnce
  <2>2. CASE r = new \/ q = new
    <3>1. ~(Written(r) /\ q = new) /\ ~(Written(q) /\ r = new)
      BY <1>2, <1>7, <1>8
    <3> QED
      BY <1>6, <2>2, <3>1
  <2> QED
    BY <1>6, <2>1, <2>2
<1>10. LoggedPast'
  <2> SUFFICES ASSUME NEW r \in Rec, InLog(r) PROVE r.seq < nextSeq + 1
    BY <1>1, <1>5 DEF LoggedPast
  <2>1. r.seq \in Nat /\ r.seq < nextSeq
    BY <1>1 DEF OnceInv, LoggedPast, Rec
  <2> QED
    BY <1>2, <2>1
<1> QED
  BY <1>9, <1>10 DEF OnceInv

\* Phase 2 and phase 3 move the claimed record to the log and to the memtable.
LEMMA LogRecordOnce ==
  ASSUME DataInv, GateOK, OrderInv, OnceInv, NEW t \in Threads, LogRecord(t)
  PROVE  OnceInv'
<1>1. /\ up /\ up' /\ UNCHANGED <<gateVars, nextSeq, op, memVars, dir, version, flush>>
      /\ t \in Gate!Claimed
  BY DEF LogRecord, Gate!Claimed
<1>2. \A r \in Rec : InLog(r)' => InLog(r) \/ r = op[t]
  BY LogRecordRecs
<1>3. ({active} \cup Stored)' = {active} \cup Stored /\ Gate!Claimed' = Gate!Claimed
  BY <1>1 DEF Stored, Named, Views, memVars, gateVars, Gate!Claimed
<1>4. ASSUME NEW r \in Rec, Written(r)' PROVE Written(r)
  <2>1. CASE \E u \in Gate!Claimed' : op'[u] = r
    BY <1>1, <1>3, <2>1 DEF Written
  <2>2. CASE InLog(r)'
    BY <1>1, <1>2, <2>2 DEF Written
  <2>3. CASE \E table \in ({active} \cup Stored)' : table[r.key] = EntryOf(r)
    BY <1>3, <2>3 DEF Written
  <2> QED
    BY <1>4, <2>1, <2>2, <2>3 DEF Written
<1>5. WriteOnce'
  <2> SUFFICES ASSUME NEW r \in Rec, NEW q \in Rec, Written(r)', Written(q)', r.seq = q.seq
               PROVE  r = q
    BY DEF WriteOnce
  <2> QED
    BY <1>4 DEF OnceInv, WriteOnce
<1>6. op[t].seq < nextSeq
  BY DEF DataInv, OpsOK
<1>7. LoggedPast'
  BY <1>1, <1>2, <1>6 DEF OnceInv, LoggedPast
<1> QED
  BY <1>5, <1>7 DEF OnceInv

\* A memtable insert writes the record of a claimed write once more, and nothing else.
LEMMA ApplyOnce ==
  ASSUME DataInv, GateOK, OrderInv, OnceInv, NEW t \in Threads, Apply(t)
  PROVE  OnceInv'
<1> DEFINE k == op[t].key
           e == EntryOf(op[t])
<1>1. /\ up /\ up' /\ UNCHANGED <<nextSeq, op, frozen, diskVars, version, flush>>
      /\ active' = InsertIfNewer(active, k, e) /\ pc[t] = "apply"
      /\ pc' = [pc EXCEPT ![t] = "finish"]
  BY DEF Apply, Gate!Apply, Gate!Goto
<1>2. t \in Gate!Claimed /\ op[t] \in Rec /\ k \in Keys /\ e \in Entry
  BY <1>1, EntryPresent DEF Gate!Claimed, DataInv, OpsOK, Rec
<1>3. Gate!Claimed' \subseteq Gate!Claimed
  BY <1>1 DEF Gate!Claimed, GateOK, Gate!TypeOK
<1>4. Stored' = Stored /\ LogSegs' = LogSegs
  BY <1>1 DEF Stored, Named, Views, LogSegs, diskVars
<1>5. /\ active' = [active EXCEPT ![k] = active'[k]] /\ active'[k] \in {active[k], e}
      /\ DOMAIN active = Keys
  <2>1. nextSeq \in Nat /\ active \in TablesBelow(nextSeq)
    BY DbAssumption DEF DataInv, ClockOK, Clocks, BufferOK
  <2> HIDE DEF k, e
  <2> QED
    BY <1>1, <1>2, <2>1, Inserted DEF TablesBelow
<1> HIDE DEF k, e
<1>6. \A x \in Keys : x # k => active'[x] = active[x]
  BY <1>5
<1>7. ASSUME NEW r \in Rec, Written(r)' PROVE Written(r)
  <2>1. CASE \E u \in Gate!Claimed' : op'[u] = r
    BY <1>1, <1>3, <2>1 DEF Written
  <2>2. CASE InLog(r)'
    BY <1>4, <2>2 DEF InLog, Written
  <2>3. CASE \E table \in Stored' : table[r.key] = EntryOf(r)
    BY <1>4, <2>3 DEF Written
  <2>4. CASE active'[r.key] = EntryOf(r)
    <3>1. CASE active'[r.key] = active[r.key]
      BY <2>4, <3>1 DEF Written
    <3>2. CASE r.key = k /\ active'[k] = e
      <4>1. r = op[t]
        BY <1>2, <2>4, <3>2 DEF Rec, EntryOf, e, k
      <4> QED
        BY <1>2, <4>1 DEF Written
    <3> QED
      BY <1>5, <1>6, <3>1, <3>2, EntryPresent
  <2> QED
    BY <1>7, <2>1, <2>2, <2>3, <2>4 DEF Written
<1>8. WriteOnce'
  <2> SUFFICES ASSUME NEW r \in Rec, NEW q \in Rec, Written(r)', Written(q)', r.seq = q.seq
               PROVE  r = q
    BY DEF WriteOnce
  <2> QED
    BY <1>7 DEF OnceInv, WriteOnce
<1>9. LoggedPast'
  BY <1>1, <1>4 DEF OnceInv, LoggedPast, InLog
<1> QED
  BY <1>8, <1>9 DEF OnceInv

-----------------------------------------------------------------------------
\* Every nonempty set of entries below some clock has a newest one.
LEMMA TopExists ==
  ASSUME NEW n \in Nat \ {0}, NEW S, S \subseteq Below(n), S # {}
  PROVE  \E e : IsTop(e, S)
<1> DEFINE seqs == {x.seq : x \in S}
<1>1. \A x \in S : x.seq \in Nat /\ x.seq <= n
  BY BelowFacts
<1>2. seqs \in SUBSET Nat /\ seqs # {} /\ \A q \in seqs : q <= n
  BY <1>1
<1>3. Max(seqs) \in seqs /\ \A q \in seqs : q <= Max(seqs)
  <2> HIDE DEF seqs
  <2> QED
    BY <1>2, MaxOfNats
<1>4. PICK e \in S : e.seq = Max(seqs)
  BY <1>3
<1> QED
  BY <1>3, <1>4 DEF IsTop

(***************************************************************************)
(* A compaction changes nothing a lookup can tell: the newest of what is   *)
(* found in the new version is the newest of what is found in the old one, *)
(* or both are "no value", or it is the entry the lookup came with.        *)
(***************************************************************************)
LEMMA CompactTops ==
  ASSUME NEW v \in Version, v.nextSeq # 0, NEW files, Holds(v, files), TiersOrdered(v, files),
         NEW t \in DOMAIN v.tiers, NEW id \in Nat, NEW next,
         next = IF IsEmpty(CompactionOutput(v, t, files)) THEN Cleared(v, t)
                ELSE Compacted(v, t, id),
         NEW more, more[id] = CompactionOutput(v, t, files),
         \A i \in ReferencedIds(v) : more[i] = files[i],
         NEW k \in Keys, NEW m \in Entry \cup {Absent}, NEW e,
         IsTop(e, Probe(m, k, [v |-> next, files |-> more]))
  PROVE  \/ \E f : IsTop(f, Probe(m, k, [v |-> v, files |-> files])) /\ Value(f) = Value(e)
         \/ e = m /\ m # Absent
<1> DEFINE output == CompactionOutput(v, t, files)
           out == output[k]
           old == Probe(m, k, [v |-> v, files |-> files])
           new == Probe(m, k, [v |-> next, files |-> more])
           In(i) == files[v.tiers[t][i]][k]
<1>1. v.nextSeq \in Nat \ {0} /\ t \in Nat /\ DOMAIN v.tiers \subseteq Nat
  BY DEF Version
<1>2. output \in TablesBelow(v.nextSeq)
  BY <1>1, CompactionBelow
<1>3. out = Absent \/ \E i \in DOMAIN v.tiers[t] : out = In(i)
  BY <1>1, CompactionEntries
<1>4. \A i \in DOMAIN v.tiers[t] :
        \/ out.seq >= In(i).seq
        \/ /\ OutputIsBottom(v, t) /\ out = Absent
           /\ \E j \in DOMAIN v.tiers[t] : In(j).kind = "Tombstone" /\ In(j).seq >= In(i).seq
  BY <1>1, CompactionKeeps
<1>5. next \in Version /\ Replaces(v, next, t, t + 1, id)
  BY ClearedVersion, CompactedVersion, ClearedSlots, CompactedSlots
<1>6. /\ ~IsEmpty(output) => id \in ReferencedIds(next)
      /\ \A u \in DOMAIN v.tiers : \A i \in DOMAIN v.tiers[u] :
           u # t => v.tiers[u][i] \in ReferencedIds(next)
  BY ClearedKeeps, CompactedKeeps
<1>7. more[id] = output
  OBVIOUS
<1> HIDE DEF output
<1>8. out \in Below(v.nextSeq) /\ out.seq \in Nat /\ (out.seq = 0 <=> out = Absent)
  BY <1>1, <1>2, BelowFacts DEF TablesBelow
<1>9. m.seq \in Nat /\ (m.seq = 0 <=> m = Absent)
  BY DEF Entry, Absent
<1>10. \A x \in ReferencedIds(v) : /\ files[x][k] \in Below(v.nextSeq) /\ files[x][k].seq \in Nat
                                   /\ files[x][k].seq = 0 <=> files[x][k] = Absent
  BY <1>1, BelowFacts DEF Holds, TablesBelow
<1>11. \A u \in DOMAIN v.tiers : \A i \in DOMAIN v.tiers[u] : v.tiers[u][i] \in ReferencedIds(v)
  BY TierIds
<1>12. \A i \in DOMAIN v.tiers[t] : In(i).seq \in Nat /\ In(i) \in old
  BY <1>10, <1>11 DEF Probe, Tables
<1>13. /\ \A y \in old : \/ y = m
                         \/ \E i \in DOMAIN v.tiers[t] : y = In(i)
                         \/ y \in new /\ y.seq \in Nat
  <2> SUFFICES ASSUME NEW x \in ReferencedIds(v),
                      ~\E i \in DOMAIN v.tiers[t] : files[x][k] = In(i)
               PROVE  files[x][k] \in new /\ files[x][k].seq \in Nat
    BY DEF Probe, Tables
  <2>1. PICK u \in DOMAIN v.tiers : \E i \in DOMAIN v.tiers[u] : x = v.tiers[u][i]
    BY TierIds
  <2>2. u # t /\ x \in ReferencedIds(next)
    BY <1>6, <2>1
  <2> QED
    BY <1>10, <2>2 DEF Probe, Tables
<1>14. \A y \in new : \/ y = m \/ y = out
                      \/ \E u \in DOMAIN v.tiers : \E i \in DOMAIN v.tiers[u] :
                           u # t /\ y = files[v.tiers[u][i]][k]
  <2> SUFFICES ASSUME NEW x \in ReferencedIds(next), more[x][k] # out
               PROVE  \E u \in DOMAIN v.tiers : \E i \in DOMAIN v.tiers[u] :
                        u # t /\ more[x][k] = files[v.tiers[u][i]][k]
    BY DEF Probe, Tables
  <2>1. PICK u \in DOMAIN next.tiers : \E i \in DOMAIN next.tiers[u] : x = next.tiers[u][i]
    BY <1>5, TierIds
  <2>2. PICK i \in DOMAIN next.tiers[u] : x = next.tiers[u][i]
    BY <2>1
  <2>3. ~NewSlot(v, next, t + 1, id, u, i)
    BY <1>7, <2>2 DEF NewSlot
  <2>4. u \in DOMAIN v.tiers /\ u # t /\ i \in DOMAIN v.tiers[u] /\ x = v.tiers[u][i]
    BY <1>5, <2>2, <2>3 DEF Replaces, OldSlot
  <2>5. more[x] = files[x]
    BY <1>11, <2>4
  <2> QED
    BY <2>4, <2>5
<1>15. e \in new /\ \A y \in new : y.seq <= e.seq
  BY DEF IsTop
<1>16. m \in old /\ m \in new
  BY DEF Probe
<1>17. \A u \in DOMAIN v.tiers : \A i \in DOMAIN v.tiers[u] : files[v.tiers[u][i]][k] \in old
  BY <1>11 DEF Probe, Tables
<1>18. ASSUME e # m \/ m = Absent PROVE \E f : IsTop(f, old) /\ Value(f) = Value(e)
  <2>1. e \in old
    <3>1. CASE e = m
      BY <1>16, <3>1
    <3>2. CASE e = out
      <4>1. CASE out = Absent
        <5>1. m.seq <= out.seq
          BY <1>15, <1>16, <3>2
        <5>2. m = Absent
          BY <1>8, <1>9, <4>1, <5>1
        <5> QED
          BY <1>16, <3>2, <4>1, <5>2
      <4>2. CASE \E i \in DOMAIN v.tiers[t] : out = In(i)
        BY <1>12, <3>2, <4>2
      <4> QED
        BY <1>3, <4>1, <4>2
    <3>3. CASE \E u \in DOMAIN v.tiers : \E i \in DOMAIN v.tiers[u] :
                 u # t /\ e = files[v.tiers[u][i]][k]
      BY <1>17, <3>3
    <3> QED
      BY <1>14, <1>15, <3>1, <3>2, <3>3
  <2>2. e.seq \in Nat
    BY <1>9, <1>10, <2>1 DEF Probe, Tables
  <2>3. CASE \A i \in DOMAIN v.tiers[t] : In(i).seq <= e.seq
    <3>1. IsTop(e, old)
      BY <1>13, <1>15, <1>16, <2>1, <2>3 DEF IsTop
    <3> QED
      BY <3>1
  <2>4. CASE \E i \in DOMAIN v.tiers[t] : ~(In(i).seq <= e.seq)
    <3>1. PICK i \in DOMAIN v.tiers[t] : ~(In(i).seq <= e.seq)
      BY <2>4
    <3>2. ~(out.seq >= In(i).seq)
      <4>1. CASE IsEmpty(output)
        <5>1. out = Absent /\ In(i).seq \in Nat
          BY <1>12, <4>1 DEF IsEmpty
        <5> QED
          BY <1>8, <2>2, <3>1, <5>1
      <4>2. CASE ~IsEmpty(output)
        <5>1. out \in new
          BY <1>6, <1>7, <4>2 DEF Probe, Tables
        <5>2. out.seq <= e.seq /\ In(i).seq \in Nat
          BY <1>12, <1>15, <5>1
        <5> QED
          BY <1>8, <2>2, <3>1, <5>2
      <4> QED
        BY <4>1, <4>2
    <3>3. OutputIsBottom(v, t) /\ out = Absent
      BY <1>4, <3>2
    <3>4. e = Absent
      <4> SUFFICES ASSUME e # Absent PROVE FALSE
        OBVIOUS
      <4>1. PICK u \in DOMAIN v.tiers : \E j \in DOMAIN v.tiers[u] :
                 u # t /\ e = files[v.tiers[u][j]][k]
        BY <1>14, <1>15, <1>18, <3>3
      <4>2. PICK j \in DOMAIN v.tiers[u] : u # t /\ e = files[v.tiers[u][j]][k]
        BY <4>1
      <4>3. v.tiers[u] # <<>>
        BY <4>2
      <4>4. u < t
        BY <1>1, <3>3, <4>2, <4>3 DEF OutputIsBottom
      <4>5. TableOver(files[v.tiers[u][j]], files[v.tiers[t][i]])
        BY <4>4 DEF TiersOrdered
      <4>6. e.seq >= In(i).seq
        BY <4>2, <4>5 DEF TableOver, Over
      <4> QED
        BY <1>12, <2>2, <3>1, <4>6
    <3>5. PICK f : IsTop(f, old)
      <4>1. old \subseteq Entry \cup {Absent}
        BY <1>10 DEF Probe, Tables, Below
      <4> DEFINE n == Max2(v.nextSeq, m.seq + 1)
      <4>2. n \in Nat \ {0} /\ v.nextSeq <= n /\ m.seq < n
        BY <1>1, <1>9 DEF Max2
      <4> HIDE DEF n
      <4>3. m \in Below(n)
        BY <4>2 DEF Below
      <4>4. old \subseteq Below(n)
        <5>1. Below(v.nextSeq) \subseteq Below(n)
          BY <1>1, <4>2, BelowMonotone
        <5> QED
          BY <1>10, <4>3, <5>1 DEF Probe, Tables
      <4> HIDE DEF old
      <4> QED
        BY <1>16, <4>2, <4>4, TopExists
    <3>6. f \in old /\ f.seq >= In(i).seq /\ \A y \in old : y.seq <= f.seq
      BY <1>12, <3>5 DEF IsTop
    <3>7. f.seq \in Nat /\ f.seq > 0
      <4>1. f.seq \in Nat
        BY <1>9, <1>10, <3>6 DEF Probe, Tables
      <4>2. In(i).seq \in Nat
        BY <1>12
      <4> QED
        BY <2>2, <3>1, <3>6, <4>1, <4>2
    <3>8. e.seq = 0
      BY <3>4 DEF Absent
    <3>9. PICK g \in DOMAIN v.tiers[t] : f = In(g)
      <4>1. ~(f \in new)
        BY <1>15, <3>7, <3>8
      <4> QED
        BY <1>13, <1>16, <3>6, <4>1
    <3>10. ~(out.seq >= In(g).seq)
      BY <3>3, <3>7, <3>9 DEF Absent
    <3>11. PICK j \in DOMAIN v.tiers[t] : In(j).kind = "Tombstone" /\ In(j).seq >= In(g).seq
      BY <1>4, <3>10
    <3>12. IsTop(In(j), old)
      <4>1. In(j) \in old /\ In(j).seq \in Nat /\ In(j).seq >= f.seq
        BY <1>12, <3>9, <3>11
      <4>2. ASSUME NEW y \in old PROVE y.seq <= In(j).seq
        <5>1. y.seq <= f.seq /\ y.seq \in Nat
          BY <1>9, <1>10, <3>6 DEF Probe, Tables
        <5> QED
          BY <3>7, <4>1, <5>1
      <4> QED
        BY <4>1, <4>2 DEF IsTop
    <3>13. Value(In(j)) = 0 /\ Value(e) = 0
      BY <3>4, <3>11 DEF Value, Absent
    <3> QED
      BY <3>12, <3>13
  <2> QED
    BY <2>3, <2>4
<1> QED
  BY <1>18

-----------------------------------------------------------------------------
\* The memtables, and what a running process, or the one that will open the
\* directory, has in memory; what a lookup of k in a view finds.
MemTables == {active} \cup ToSet(frozen)
Memory == IF up THEN MemTables ELSE {Replay(Records(wal.segs))}
Found(w, k) == {table[k] : table \in Memory \cup Tables(w)}

\* Freezing the buffer adds an empty memtable at most.
LEMMA FreezeFacts ==
  ASSUME DataInv, Freeze
  PROVE  /\ up /\ up' /\ UNCHANGED <<pc, nextSeq, op, wal, dir, version, rd>> /\ Views' = Views
         /\ MemTables \subseteq MemTables' /\ MemTables' \subseteq MemTables \cup {EmptyTable}
<1>1. /\ up /\ flush.stage = "freeze" /\ flush' = [flush EXCEPT !.stage = "table"]
      /\ UNCHANGED <<pc, up, nextSeq, op, wal, dir, version, rd>>
      /\ \/ UNCHANGED <<active, frozen>>
         \/ frozen' = Append(frozen, active) /\ active' = EmptyTable
  BY DEF Freeze, InBody, gateVars, memVars, diskVars
<1>2. flush'.stage = "table" /\ Views' = Views
  BY <1>1 DEF DataInv, StageOK, Views, Installing
<1>3. frozen \in Seq(TablesBelow(nextSeq))
  BY DEF DataInv, BufferOK
<1>4. ToSet(Append(frozen, active)) = ToSet(frozen) \cup {active}
  BY <1>3, AppendSet
<1> QED
  BY <1>1, <1>2, <1>4 DEF MemTables

\* Discarding a flushed memtable removes one whose table is in every view.
LEMMA DiscardFacts ==
  ASSUME DataInv, AckedInv, Discard
  PROVE  /\ up /\ up' /\ UNCHANGED <<pc, nextSeq, op, wal, dir, version, rd>> /\ Views' = Views
         /\ MemTables = MemTables' \cup {Head(frozen)}
         /\ \A w \in Views : Head(frozen) \in Tables(w)
<1>1. /\ up /\ flush.stage = "discard" /\ flush' = [NoFlush EXCEPT !.stage = "table"]
      /\ UNCHANGED <<pc, up, nextSeq, op, active, wal, dir, version, rd>>
      /\ frozen' = Tail(frozen)
  BY DEF Discard, InBody, gateVars, diskVars
<1>2. Views' = Views
  BY <1>1, NoFlushFacts DEF Views, Installing
<1>3. frozen \in Seq(TablesBelow(nextSeq)) /\ frozen # <<>>
  BY <1>1 DEF DataInv, BufferOK
<1>4. ToSet(frozen) = {Head(frozen)} \cup ToSet(Tail(frozen))
  BY <1>3, TailSet
<1>5. \A w \in Views : HasHead(w.v, w.files)
  BY <1>1 DEF AckedInv, HeadFlushed
<1> QED
  BY <1>1, <1>2, <1>4, <1>5 DEF MemTables, HasHead, Tables

\* A freeze moves the active memtable and starts an empty one.
LEMMA FreezeOnce ==
  ASSUME DataInv, OnceInv, Freeze
  PROVE  OnceInv'
<1>1. /\ up /\ up' /\ UNCHANGED <<pc, nextSeq, op, wal, dir>> /\ Views' = Views
      /\ MemTables' \subseteq MemTables \cup {EmptyTable}
  BY FreezeFacts
<1>2. RecsKept /\ ClaimsSame
  BY <1>1 DEF RecsKept, InLog, LogSegs, ClaimsSame, Gate!Claimed
<1>3. EntriesKept
  BY <1>1 DEF EntriesKept, MemTables, Stored, Named, EmptyTable
<1>4. nextSeq \in Nat
  BY DbAssumption DEF DataInv, ClockOK, Clocks
<1> QED
  BY <1>1, <1>2, <1>3, <1>4, OnceKept

\* A discard takes a memtable away.
LEMMA DiscardOnce ==
  ASSUME DataInv, AckedInv, OnceInv, Discard
  PROVE  OnceInv'
<1>1. /\ up /\ up' /\ UNCHANGED <<pc, nextSeq, op, wal, dir>> /\ Views' = Views
      /\ MemTables = MemTables' \cup {Head(frozen)}
  BY DiscardFacts
<1>2. RecsKept /\ ClaimsSame
  BY <1>1 DEF RecsKept, InLog, LogSegs, ClaimsSame, Gate!Claimed
<1>3. EntriesKept
  BY <1>1 DEF EntriesKept, MemTables, Stored, Named
<1>4. nextSeq \in Nat
  BY DbAssumption DEF DataInv, ClockOK, Clocks
<1> QED
  BY <1>1, <1>2, <1>3, <1>4, OnceKept

\* The tables of a view are those of its version's ids.
LEMMA SameTables ==
  ASSUME NEW u, NEW w, w.v = u.v, \A id \in ReferencedIds(u.v) : w.files[id] = u.files[id]
  PROVE  Tables(w) = Tables(u)
BY DEF Tables

\* A table file is written: besides the old views there is one of the version that
\* will be installed, and nothing changes in the files that readers have pinned.
LEMMA WriteFacts ==
  ASSUME DataInv, up, NEW content \in TablesBelow(nextSeq), NEW next, NEW after,
         WriteTable(content, next, after), flush.stage \in {"table", "compact"},
         UNCHANGED <<gateVars, up, nextSeq, op, memVars, wal, version, rd>>,
         ReferencedIds(next) \subseteq ReferencedIds(version) \cup {version.nextTableId}
  PROVE  /\ up' /\ UNCHANGED <<active, frozen, nextSeq, rd>>
         /\ RecsKept /\ ClaimsSame /\ PinsKept
         /\ \A w \in Views' :
              \/ \E u \in Views : Tables(w) = Tables(u)
              \/ /\ w = [v |-> next, files |-> dir'.live.files]
                 /\ w.files[version.nextTableId] = content
                 /\ \A i \in ReferencedIds(version) : w.files[i] = dir.live.files[i]
         /\ \A table \in Named' : table \in Named \/ table = content
<1> DEFINE id == version.nextTableId
<1>1. up' /\ UNCHANGED <<active, frozen, nextSeq, rd, pc, op, wal>>
  BY DEF gateVars, memVars
<1>2. RecsKept /\ ClaimsSame
  BY <1>1 DEF RecsKept, InLog, LogSegs, ClaimsSame, Gate!Claimed
<1>3. CASE id \in DOMAIN dir.live.files
  <2>1. flush' = [flush EXCEPT !.stage = "failed"] /\ dir' = dir
    BY <1>3 DEF WriteTable
  <2>2. flush'.stage = "failed"
    BY <2>1 DEF DataInv, StageOK
  <2>3. Views' \subseteq Views /\ PinsKept
    BY <2>1, <2>2 DEF Views, Installing, PinsKept
  <2> QED
    BY <1>1, <1>2, <2>3 DEF Named
<1>4. CASE id \notin DOMAIN dir.live.files
  <2>1. /\ dir'.live.files[id] = content
        /\ \A i \in DOMAIN dir.live.files : dir'.live.files[i] = dir.live.files[i]
        /\ ReferencedIds(version) \subseteq DOMAIN dir.live.files
        /\ \A w \in Views' :
             \/ w = [v |-> next, files |-> dir'.live.files]
             \/ \E u \in Views :
                  w.v = u.v /\ \A i \in ReferencedIds(u.v) : w.files[i] = u.files[i]
        /\ \A table \in Named' : table \in Named \/ table = content
    BY <1>4, TableViews
  <2>2. PinsKept
    BY <2>1 DEF PinsKept, DataInv, ReadersOK
  <2>3. ASSUME NEW w \in Views', w # [v |-> next, files |-> dir'.live.files]
        PROVE  \E u \in Views : Tables(w) = Tables(u)
    BY <2>1, <2>3, SameTables
  <2>4. ASSUME NEW w \in Views', w = [v |-> next, files |-> dir'.live.files]
        PROVE  /\ w.files[id] = content
               /\ \A i \in ReferencedIds(version) : w.files[i] = dir.live.files[i]
    <3>1. w.files = dir'.live.files
      BY <2>4
    <3> QED
      BY <2>1, <3>1
  <2> QED
    BY <1>1, <1>2, <2>1, <2>2, <2>3, <2>4
<1> QED
  BY <1>3, <1>4

\* A flush adds the oldest frozen memtable to the tables that are read.
LEMMA FlushTableFacts ==
  ASSUME DataInv, GateOK, OrderInv, FlushTable
  PROVE  /\ up /\ up' /\ UNCHANGED <<active, frozen, nextSeq, rd>>
         /\ RecsKept /\ ClaimsSame /\ PinsKept /\ Head(frozen) \in MemTables
         /\ \A table \in Named' : table \in Named \/ table = Head(frozen)
         /\ Current \in Views
         /\ \A w \in Views' : \/ \E u \in Views : Tables(w) = Tables(u)
                              \/ Tables(w) = Tables(Current) \cup {Head(frozen)}
<1> DEFINE id == version.nextTableId
           next == Flushed(version, id, nextSeq)
           content == Head(frozen)
<1>1. /\ up /\ flush.stage = "table" /\ frozen # <<>> /\ WriteTable(content, next, "discard")
      /\ UNCHANGED <<gateVars, up, nextSeq, op, memVars, wal, version, rd>>
  BY DEF FlushTable, InBody
<1>2. /\ version \in Version /\ id \in Nat
  BY <1>1, CurrentView
<1>3. nextSeq \in Nat \ {0}
  BY DbAssumption DEF DataInv, ClockOK, Clocks
<1>4. ReferencedIds(next) = ReferencedIds(version) \cup {id}
  BY <1>2, <1>3, FlushedVersion, FlushedKeeps
<1>5. content \in TablesBelow(nextSeq) /\ content \in ToSet(frozen)
  <2>1. frozen \in Seq(TablesBelow(nextSeq)) /\ ToSet(frozen) = {Head(frozen)} \cup ToSet(Tail(frozen))
    BY <1>1, TailSet DEF DataInv, BufferOK
  <2> DEFINE tables == TablesBelow(nextSeq)
  <2>2. frozen \in Seq(tables)
    BY <2>1
  <2> HIDE DEF tables
  <2>3. Head(frozen) \in tables
    BY <1>1, <2>2
  <2> QED
    BY <2>1, <2>3 DEF tables
<1>6. Current \in Views /\ Current.v = version /\ Current.files = dir.live.files
  BY <1>1 DEF Views, Current
<1> HIDE DEF next, content
<1>7. /\ up' /\ UNCHANGED <<active, frozen, nextSeq, rd>>
      /\ RecsKept /\ ClaimsSame /\ PinsKept
      /\ \A w \in Views' :
           \/ \E u \in Views : Tables(w) = Tables(u)
           \/ /\ w = [v |-> next, files |-> dir'.live.files]
              /\ w.files[id] = content
              /\ \A i \in ReferencedIds(version) : w.files[i] = dir.live.files[i]
      /\ \A table \in Named' : table \in Named \/ table = content
  BY <1>1, <1>4, <1>5, WriteFacts
<1>8. ASSUME NEW w \in Views', w = [v |-> next, files |-> dir'.live.files],
             w.files[id] = content,
             \A i \in ReferencedIds(version) : w.files[i] = dir.live.files[i]
      PROVE  Tables(w) = Tables(Current) \cup {content}
  <2>1. w.v = next
    BY <1>8
  <2>2. Tables(w) = {w.files[i] : i \in ReferencedIds(version) \cup {id}}
    BY <1>4, <2>1 DEF Tables
  <2>3. Tables(Current) = {dir.live.files[i] : i \in ReferencedIds(version)}
    BY <1>6 DEF Tables
  <2> QED
    BY <1>8, <2>2, <2>3
<1>9. \A w \in Views' : \/ \E u \in Views : Tables(w) = Tables(u)
                        \/ Tables(w) = Tables(Current) \cup {content}
  BY <1>7, <1>8
<1> QED
  BY <1>1, <1>5, <1>6, <1>7, <1>9 DEF content, MemTables

\* A compaction replaces tables by one with the same newest entries.
LEMMA CompactFacts ==
  ASSUME DataInv, GateOK, OrderInv, Compact
  PROVE  /\ up /\ up' /\ UNCHANGED <<active, frozen, nextSeq, rd>> /\ MemTables = {EmptyTable}
         /\ RecsKept /\ ClaimsSame /\ PinsKept /\ EntriesKept
         /\ Current \in Views
         /\ \A w \in Views' :
              \/ \E u \in Views : Tables(w) = Tables(u)
              \/ \A k \in Keys : \A m \in Entry \cup {Absent} : \A e :
                   IsTop(e, Probe(m, k, w)) =>
                     \/ \E f : IsTop(f, Probe(m, k, Current)) /\ Value(f) = Value(e)
                     \/ e = m /\ m # Absent
<1> DEFINE tier == TierToCompact(version, TierFanout)
           id == version.nextTableId
           live == dir.live.files
           output == CompactionOutput(version, tier, live)
           next == IF IsEmpty(output) THEN Cleared(version, tier)
                   ELSE Compacted(version, tier, id)
<1>1. /\ up /\ flush.stage = "compact" /\ tier # 0 /\ WriteTable(output, next, "compact")
      /\ UNCHANGED <<gateVars, up, nextSeq, op, memVars, wal, version, rd>>
  BY DEF Compact, InBody
<1>2. /\ version \in Version /\ version.nextSeq \in 1 .. nextSeq /\ id \in Nat
      /\ Holds(version, live) /\ TiersOrdered(version, live)
      /\ \A i \in ReferencedIds(version) : live[i] \in Named
  BY <1>1, CurrentView
<1>3. nextSeq \in Nat \ {0} /\ version.nextSeq \in Nat \ {0}
  BY <1>2, DbAssumption DEF DataInv, ClockOK, Clocks
<1>4. tier \in DOMAIN version.tiers
  BY <1>1, <1>2, TierPicked
<1>5. tier \in Nat /\ DOMAIN version.tiers \subseteq Nat
  BY <1>2, <1>4 DEF Version
<1>6. output \in TablesBelow(nextSeq)
  BY <1>2, <1>3, <1>4, <1>5, CompactionBelow, BelowMonotone
<1>7. \A k \in Keys : \/ output[k] = Absent
                      \/ \E i \in DOMAIN version.tiers[tier] :
                           output[k] = live[version.tiers[tier][i]][k]
  BY <1>2, <1>3, <1>4, <1>5, CompactionEntries
<1>8. ReferencedIds(next) \subseteq ReferencedIds(version) \cup {id}
  <2>1. ReferencedIds(Cleared(version, tier)) \subseteq ReferencedIds(version)
    BY <1>2, <1>4, ClearedVersion
  <2>2. ReferencedIds(Compacted(version, tier, id)) \subseteq ReferencedIds(version) \cup {id}
    BY <1>2, <1>4, CompactedVersion
  <2> QED
    BY <2>1, <2>2
<1>9. MemTables = {EmptyTable}
  <2>1. IsEmpty(active) /\ frozen = <<>> /\ active \in TablesBelow(nextSeq)
    BY <1>1 DEF DataInv, BufferOK, BufferDrained
  <2>2. active = EmptyTable
    BY <2>1 DEF IsEmpty, TablesBelow, EmptyTable
  <2> QED
    BY <2>1, <2>2 DEF MemTables, ToSet
<1>10. Current \in Views /\ Current = [v |-> version, files |-> live]
  BY <1>1 DEF Views, Current
<1>11. ASSUME NEW files, files[id] = output,
              \A i \in ReferencedIds(version) : files[i] = live[i],
              NEW k \in Keys, NEW m \in Entry \cup {Absent}, NEW e,
              IsTop(e, Probe(m, k, [v |-> next, files |-> files]))
       PROVE  \/ \E f : IsTop(f, Probe(m, k, Current)) /\ Value(f) = Value(e)
              \/ e = m /\ m # Absent
  <2>1. version.nextSeq # 0
    BY <1>3
  <2>2. next = IF IsEmpty(CompactionOutput(version, tier, live)) THEN Cleared(version, tier)
               ELSE Compacted(version, tier, id)
    OBVIOUS
  <2>3. files[id] = CompactionOutput(version, tier, live)
    BY <1>11
  <2> HIDE DEF tier, next, id, live, output
  <2>4. /\ Holds(version, live) /\ TiersOrdered(version, live) /\ tier \in DOMAIN version.tiers
        /\ version \in Version /\ id \in Nat
    BY <1>2, <1>4
  <2> QED
    BY <1>10, <1>11, <2>1, <2>2, <2>3, <2>4, CompactTops
<1>12. \A i \in DOMAIN version.tiers[tier] : version.tiers[tier][i] \in ReferencedIds(version)
  BY <1>2, <1>4, TierIds
<1>13. \A k \in Keys : output[k] = Absent \/ \E table \in Named : output[k] = table[k]
  BY <1>2, <1>7, <1>12
<1> HIDE DEF next, output, tier
<1>14. /\ up' /\ UNCHANGED <<active, frozen, nextSeq, rd>>
       /\ RecsKept /\ ClaimsSame /\ PinsKept
       /\ \A w \in Views' :
            \/ \E u \in Views : Tables(w) = Tables(u)
            \/ /\ w = [v |-> next, files |-> dir'.live.files]
               /\ w.files[id] = output
               /\ \A i \in ReferencedIds(version) : w.files[i] = live[i]
       /\ \A table \in Named' : table \in Named \/ table = output
  BY <1>1, <1>6, <1>8, WriteFacts
<1>15. EntriesKept
  BY <1>13, <1>14 DEF EntriesKept, Stored
<1>16. ASSUME NEW w \in Views', w = [v |-> next, files |-> dir'.live.files],
              w.files[id] = output,
              \A i \in ReferencedIds(version) : w.files[i] = live[i],
              NEW k \in Keys, NEW m \in Entry \cup {Absent}, NEW e, IsTop(e, Probe(m, k, w))
       PROVE  \/ \E f : IsTop(f, Probe(m, k, Current)) /\ Value(f) = Value(e)
              \/ e = m /\ m # Absent
  <2> DEFINE files == dir'.live.files
  <2>1. w.files = files
    BY <1>16
  <2>2. files[id] = output /\ \A i \in ReferencedIds(version) : files[i] = live[i]
    BY <1>16, <2>1
  <2>3. IsTop(e, Probe(m, k, [v |-> next, files |-> files]))
    BY <1>16
  <2> HIDE DEF files
  <2> QED
    BY <1>11, <1>16, <2>2, <2>3
<1> QED
  BY <1>1, <1>9, <1>10, <1>14, <1>15, <1>16

\* The tables of a flush and of a compaction hold entries that were there before.
LEMMA TablesOnce ==
  ASSUME DataInv, GateOK, OrderInv, OnceInv, FlushTable \/ Compact
  PROVE  OnceInv'
<1>1. /\ up /\ up' /\ UNCHANGED <<active, frozen, nextSeq>> /\ RecsKept /\ ClaimsSame
  BY FlushTableFacts, CompactFacts
<1>2. EntriesKept
  <2>1. CASE FlushTable
    <3>1. /\ Head(frozen) \in MemTables
          /\ \A table \in Named' : table \in Named \/ table = Head(frozen)
      BY <2>1, FlushTableFacts
    <3> QED
      BY <1>1, <3>1 DEF EntriesKept, MemTables, Stored
  <2>2. CASE Compact
    BY <2>2, CompactFacts
  <2> QED
    BY <2>1, <2>2
<1>3. nextSeq \in Nat
  BY DbAssumption DEF DataInv, ClockOK, Clocks
<1> QED
  BY <1>1, <1>2, <1>3, OnceKept

\* Replay reads the records of the log, and no others.
LEMMA LogRecords ==
  ASSUME NEW segs \in Seq(Segment)
  PROVE  /\ Records(segs) \in Seq(Rec)
         /\ \A i \in DOMAIN Records(segs) : \E seg \in ToSet(segs) : \E j \in 1 .. Len(seg.recs) :
              DecodeRecord(seg.recs[j]) = Records(segs)[i]
         /\ \A seg \in ToSet(segs) : \A j \in 1 .. Len(seg.recs) :
              \E i \in DOMAIN Records(segs) : DecodeRecord(seg.recs[j]) = Records(segs)[i]
<1> DEFINE lists == [i \in DOMAIN segs |-> segs[i].recs]
           all == FlattenSeq(lists)
           recs == Records(segs)
<1>1. /\ recs \in Seq({r \in Rec : r.seq <= MaxWrites})
      /\ recs = [i \in DOMAIN all |-> DecodeRecord(all[i])]
  BY RecordsType DEF Records
<1>2. Len(segs) \in Nat /\ DOMAIN segs = 1 .. Len(segs)
  OBVIOUS
<1>3. \A i \in 1 .. Len(segs) : segs[i].recs \in Seq(Payloads)
  BY DEF Segment
<1>4. lists \in Seq(Seq(Payloads)) /\ Len(lists) = Len(segs)
  BY <1>2, <1>3
<1>5. \A i \in 1 .. Len(segs) : lists[i] = segs[i].recs
  BY <1>2
<1> HIDE DEF lists
<1>6. all \in Seq(Payloads)
  BY <1>4, FlattenType
<1>7. OnlyThose(all, lists, Len(segs)) /\ AllOfThem(all, lists, Len(segs))
  BY <1>4, FlattenElements
<1> HIDE DEF all, recs
<1>8. /\ DOMAIN recs = 1 .. Len(all)
      /\ \A i \in 1 .. Len(all) : recs[i] = DecodeRecord(all[i])
  BY <1>1, <1>6
<1>9. recs \in Seq(Rec)
  BY <1>1
<1>10. ASSUME NEW i \in DOMAIN recs
       PROVE  \E seg \in ToSet(segs) : \E j \in 1 .. Len(seg.recs) :
                DecodeRecord(seg.recs[j]) = recs[i]
  <2>1. PICK t \in 1 .. Len(segs) : \E j \in 1 .. Len(lists[t]) : all[i] = lists[t][j]
    BY <1>7, <1>8 DEF OnlyThose
  <2>2. lists[t] = segs[t].recs /\ segs[t] \in ToSet(segs)
    BY <1>2, <1>5 DEF ToSet
  <2> QED
    BY <1>8, <2>1, <2>2
<1>11. ASSUME NEW seg \in ToSet(segs), NEW j \in 1 .. Len(seg.recs)
       PROVE  \E i \in DOMAIN recs : DecodeRecord(seg.recs[j]) = recs[i]
  <2>1. PICK t \in 1 .. Len(segs) : segs[t] = seg
    BY <1>2 DEF ToSet
  <2>2. PICK i \in 1 .. Len(all) : all[i] = lists[t][j]
    BY <1>5, <1>7, <2>1 DEF AllOfThem
  <2> QED
    BY <1>5, <1>8, <2>1, <2>2
<1> QED
  BY <1>9, <1>10, <1>11 DEF recs

\* What recovery will find in memory comes from records of the log.
LEMMA ReplayLogged ==
  ASSUME DataInv, OrderInv, ~up, NEW k \in Keys
  PROVE  /\ Replay(Records(wal.segs)) \in Table
         /\ \/ Replay(Records(wal.segs))[k] = Absent
            \/ \E r \in Rec : r.key = k /\ InLog(r) /\ Replay(Records(wal.segs))[k] = EntryOf(r)
<1> DEFINE recs == Records(wal.segs)
<1>1. LogSegs = ToSet(wal.segs) /\ wal.segs \in Seq(Segment)
  BY ImageTables
<1>2. /\ recs \in Seq(Rec)
      /\ \A i \in DOMAIN recs : \E seg \in LogSegs : \E j \in 1 .. Len(seg.recs) :
           DecodeRecord(seg.recs[j]) = recs[i]
  BY <1>1, LogRecords
<1> HIDE DEF recs
<1>3. /\ Replay(recs) \in Table
      /\ \/ Replay(recs)[k] = Absent
         \/ \E i \in DOMAIN recs : recs[i].key = k /\ Replay(recs)[k] = EntryOf(recs[i])
  BY <1>2, ReplayNewest
<1>4. \A i \in DOMAIN recs : recs[i] \in Rec /\ InLog(recs[i])
  BY <1>2 DEF InLog
<1> QED
  BY <1>3, <1>4 DEF recs

\* A crash and a recovery write nothing either.
LEMMA PowerLossOnce ==
  ASSUME DataInv, OrderInv, OnceInv, PowerLoss
  PROVE  OnceInv'
<1>1. /\ ~up' /\ active' = EmptyTable /\ frozen' = <<>> /\ pc' = [t \in Threads |-> "idle"]
  BY DEF PowerLoss, Die, Gate!Restart
<1>2. RecsKept
  BY PowerLossRecs
<1>3. ClaimsSame
  BY <1>1 DEF ClaimsSame, Gate!Claimed
<1>4. EntriesKept
  <2>1. Named' \subseteq Named
    BY PowerLossOrder, ViewsKeptOrder DEF OrderInv
  <2> QED
    BY <1>1, <2>1 DEF EntriesKept, Stored, ToSet, EmptyTable
<1>5. nextSeq \in Nat
  BY DbAssumption DEF DataInv, ClockOK, Clocks
<1> QED
  BY <1>1, <1>2, <1>3, <1>4, <1>5, OnceKept

\* Recovery fills the memtable from the log and sets the clock past it.
LEMMA OpenOnce ==
  ASSUME DataInv, OrderInv, OnceInv, Open
  PROVE  OnceInv'
<1> DEFINE recs == Records(wal.segs)
           clock == RecoveredSeq(dir.live.manifest, recs)
<1>1. /\ ~up /\ active' = Replay(recs) /\ nextSeq' = clock
      /\ UNCHANGED <<pc, op, frozen, dir>>
  BY DEF Open, gateVars
<1>2. ViewsKept /\ LogSegs' = LogSegs /\ LogSegs = ToSet(wal.segs) /\ wal.segs \in Seq(Segment)
  BY OpenOrder, ImageTables, <1>1
<1>3. Gate!Claimed' = {}
  BY <1>1 DEF Gate!Claimed, DataInv, ClockOK
<1>4. Stored' \subseteq Stored
  BY <1>1, <1>2, ViewsKeptOrder DEF OrderInv, Stored
<1>5. \A r \in Rec : InLog(r)' <=> InLog(r)
  BY <1>2 DEF InLog
<1>6. ASSUME NEW r \in Rec, Written(r)' PROVE Written(r)
  <2>1. CASE InLog(r)'
    BY <1>5, <2>1 DEF Written
  <2>2. CASE \E table \in Stored' : table[r.key] = EntryOf(r)
    BY <1>4, <2>2 DEF Written
  <2>3. CASE active'[r.key] = EntryOf(r)
    <3>1. r.key \in Keys /\ EntryOf(r) # Absent
      BY EntryPresent
    <3>2. PICK q \in Rec : q.key = r.key /\ InLog(q) /\ active'[r.key] = EntryOf(q)
      BY <1>1, <2>3, <3>1, ReplayLogged
    <3>3. q = r
      BY <2>3, <3>2 DEF Rec, EntryOf
    <3> QED
      BY <3>2, <3>3 DEF Written
  <2> QED
    BY <1>3, <1>6, <2>1, <2>2, <2>3 DEF Written
<1>7. WriteOnce'
  <2> SUFFICES ASSUME NEW r \in Rec, NEW q \in Rec, Written(r)', Written(q)', r.seq = q.seq
               PROVE  r = q
    BY DEF WriteOnce
  <2> QED
    BY <1>6 DEF OnceInv, WriteOnce
<1>8. LoggedPast'
  <2> SUFFICES ASSUME NEW r \in Rec, InLog(r) PROVE r.seq < clock
    BY <1>1, <1>5 DEF LoggedPast
  <2>1. recs \in Seq({q \in Rec : q.seq <= MaxWrites})
    BY <1>2, RecordsType
  <2>2. dir.live.manifest \in Version /\ dir.live.manifest.nextSeq \in Clocks
    BY DEF DataInv, FilesOK, View
  <2>3. PICK i \in DOMAIN recs : recs[i] = r
    BY <1>2, LogRecords DEF InLog
  <2> HIDE DEF recs
  <2> QED
    BY <2>1, <2>2, <2>3, RecoveredClock
<1> QED
  BY <1>7, <1>8 DEF OnceInv

\* Readers write nothing.
LEMMA ReaderOnce ==
  ASSUME DataInv, OnceInv, NEW r \in Readers, ReaderStep(r)
  PROVE  OnceInv'
<1>1. up /\ up' /\ UNCHANGED <<pc, nextSeq, op, active, frozen, wal, dir, version, flush, up>>
  <2>1. up /\ UNCHANGED <<gateVars, up, nextSeq, op, memVars, diskVars, version, flush>>
    BY DEF ReaderStep, ReadStart, ReadMem, ReadPin, ReadTables, ReadReturn
  <2> QED
    BY <2>1 DEF gateVars, memVars, diskVars
<1>2. Views' = Views /\ LogSegs' = LogSegs
  BY <1>1 DEF Views, LogSegs
<1>3. RecsKept /\ ClaimsSame /\ EntriesKept
  BY <1>1, <1>2 DEF RecsKept, InLog, ClaimsSame, Gate!Claimed, EntriesKept, Stored, Named
<1>4. nextSeq \in Nat
  BY DbAssumption DEF DataInv, ClockOK, Clocks
<1> QED
  BY <1>1, <1>3, <1>4, OnceKept

\* An empty database holds no record.
LEMMA InitOnce == Init => OnceInv
<1> SUFFICES ASSUME Init PROVE OnceInv
  OBVIOUS
<1>1. LogSegs = {NewSegment} /\ Len(NewSegment.recs) = 0 /\ Gate!Claimed = {}
  BY DEF Init, Gate!Init, Gate!Claimed, LogSegs, NoLog, NewSegment, ToSet
<1>2. \A r \in Rec : ~InLog(r)
  BY <1>1 DEF InLog
<1>3. Stored = {}
  BY DEF Init, NoFlush, Stored, Named, Views, Installing, NoFiles, EmptyVersion, ReferencedIds, ToSet
<1>4. \A r \in Rec : ~Written(r)
  BY <1>1, <1>2, <1>3, EntryPresent DEF Written, Init, EmptyTable
<1> QED
  BY <1>2, <1>4 DEF OnceInv, WriteOnce, LoggedPast

(***************************************************************************)
(* A sequence number stands for one write, through the log, the memtables, *)
(* the tables and every crash (write and open_on, db.rs): recovery never   *)
(* hands out again a number that anything on the disk still carries.       *)
(***************************************************************************)
THEOREM DbOnceInductive == KeepsOrder => (Spec => []OnceInv)
<1> SUFFICES ASSUME KeepsOrder PROVE Spec => []OnceInv
  OBVIOUS
<1>1. DataInv /\ GateOK /\ OrderInv /\ AckedInv /\ OnceInv /\ [Next]_vars => OnceInv'
  <2> SUFFICES ASSUME DataInv, GateOK, OrderInv, AckedInv, OnceInv, [Next]_vars PROVE OnceInv'
    OBVIOUS
  <2>1. CASE UNCHANGED vars
    <3>1. UNCHANGED <<pc, nextSeq, op, active, frozen, wal, dir, version, flush, up>>
      BY <2>1 DEF vars, gateVars, memVars, diskVars
    <3>2. Views' = Views /\ LogSegs' = LogSegs
      BY <3>1 DEF Views, LogSegs
    <3>3. RecsKept /\ ClaimsSame /\ EntriesKept /\ nextSeq \in Nat
      BY <3>1, <3>2, DbAssumption DEF RecsKept, InLog, ClaimsSame, Gate!Claimed, EntriesKept,
         Stored, Named, DataInv, ClockOK, Clocks
    <3> QED
      BY <3>1, <3>3, OnceKept
  <2>2. ~Kill
    BY DEF KeepsOrder, Kill, Fault
  <2>3. ASSUME NEW t \in Threads, WriterStep(t) PROVE OnceInv'
    <3>1. CASE QuietCall(t)
      BY <3>1, CallsQuiet, QuietOnce
    <3> QED
      BY <2>3, <3>1, ClaimOnce, LogRecordOnce, ApplyOnce DEF WriterStep, QuietCall
  <2>4. CASE SyncLog \/ FlushStep
    <3>1. CASE QuietBody
      BY <3>1, BodyQuiet, QuietOnce
    <3> QED
      BY <2>4, <3>1, BodySteps, FreezeOnce, DiscardOnce, TablesOnce DEF QuietBody
  <2> QED
    BY <2>1, <2>2, <2>3, <2>4, PowerLossOnce, OpenOnce, ReaderOnce DEF Next
<1>2. (Spec => []OrderInv) /\ (Spec => []AckedInv)
  BY DbOrderInductive, DbAckedInductive
<1> QED
  BY <1>1, <1>2, InitOnce, DbDataInductive, DbGateOK, PTL DEF Spec

-----------------------------------------------------------------------------
\* Every view shows, for each key, the value that get(k) returns.
Shown ==
  \A k \in Keys : \A w \in Views : \A e : IsTop(e, Found(w, k)) => Value(e) = Value(Visible(k))

\* A step after which every view shows what get(k) returned before it.
TopsKept ==
  \A k \in Keys : \A w \in Views' : \A e :
    IsTop(e, Found(w, k))' => Value(e) = Value(Visible(k))

\* What a lookup finds is typed, and was written.
LEMMA FoundTyped ==
  ASSUME DataInv, OrderInv, NEW w \in Views, NEW k \in Keys, NEW x \in Found(w, k)
  PROVE  x \in Entry \cup {Absent} /\ x.seq \in Nat /\ (x.seq = 0 <=> x = Absent)
<1>1. PICK table \in Memory \cup Tables(w) : x = table[k]
  BY DEF Found
<1>2. nextSeq \in Nat \ {0}
  BY DbAssumption DEF DataInv, ClockOK, Clocks
<1>3. table[k] \in Entry \cup {Absent}
  <2>1. CASE table \in MemTables
    <3>1. active \in TablesBelow(nextSeq) /\ \A y \in ToSet(frozen) : y \in TablesBelow(nextSeq)
      BY DEF DataInv, BufferOK, ToSet
    <3> QED
      BY <2>1, <3>1 DEF MemTables, TablesBelow, Below
  <2>2. CASE table \in Tables(w)
    <3>1. Holds(w.v, w.files)
      BY DEF Views, DataInv, FilesOK, View
    <3> QED
      BY <2>2, <3>1 DEF Tables, Holds, TablesBelow, Below
  <2>3. CASE ~up /\ table = Replay(Records(wal.segs))
    BY <2>3, ReplayLogged DEF Table
  <2> QED
    BY <1>1, <2>1, <2>2, <2>3 DEF Memory
<1> QED
  BY <1>1, <1>3 DEF Entry, Absent

\* What a lookup finds comes from a write.
LEMMA FoundWritten ==
  ASSUME DataInv, OrderInv, NEW w \in Views, NEW k \in Keys, NEW x \in Found(w, k), x # Absent
  PROVE  \E r \in Rec : Written(r) /\ r.key = k /\ EntryOf(r) = x
<1>1. PICK table \in Memory \cup Tables(w) : x = table[k]
  BY DEF Found
<1>2. CASE table \in MemTables \cup Tables(w)
  <2> DEFINE r == [key |-> k, seq |-> x.seq, kind |-> x.kind]
  <2>1. x \in Entry
    BY FoundTyped
  <2>2. r \in Rec /\ EntryOf(r) = x
    BY <2>1 DEF Rec, Entry, EntryOf
  <2>3. table \in {active} \cup Stored
    BY <1>2 DEF MemTables, Tables, Stored, Named
  <2> QED
    BY <1>1, <2>2, <2>3 DEF Written
<1>3. CASE ~up /\ table = Replay(Records(wal.segs))
  BY <1>1, <1>3, ReplayLogged DEF Written
<1> QED
  BY <1>1, <1>2, <1>3 DEF Memory

\* get(k) returns the newest entry that is found in the view it reads.
LEMMA VisibleTop ==
  DataInv /\ OrderInv => \A k \in Keys : \E w \in Views : IsTop(Visible(k), Found(w, k))
<1> SUFFICES ASSUME DataInv, OrderInv, NEW k \in Keys
             PROVE  \E w \in Views : IsTop(Visible(k), Found(w, k))
  OBVIOUS
<1>1. PICK w \in Views : ToSet(Sources) = Memory \cup Tables(w)
  <2>1. CASE up
    <3>1. Current \in Views /\ Tables(Current) = {dir.live.files[id] : id \in ReferencedIds(version)}
      BY <2>1 DEF Views, Current, Tables
    <3> QED
      BY <2>1, <3>1, LiveTables DEF Memory, MemTables
  <2>2. CASE ~up
    <3> DEFINE w == [v |-> dir.live.manifest, files |-> dir.live.files]
    <3>1. w \in Views /\ Tables(w) = {dir.live.files[id] : id \in ReferencedIds(dir.live.manifest)}
      BY DEF Views, Tables
    <3> HIDE DEF w
    <3> QED
      BY <2>2, <3>1, ImageTables DEF Memory
  <2> QED
    BY <2>1, <2>2
<1>2. Found(w, k) = {table[k] : table \in ToSet(Sources)}
  BY <1>1 DEF Found
<1>3. /\ Visible(k).seq \in Nat
      /\ Visible(k) = Absent \/ \E table \in ToSet(Sources) : Visible(k) = table[k]
      /\ \A table \in ToSet(Sources) : table[k].seq \in Nat /\ Visible(k).seq >= table[k].seq
  BY VisibleNewest
<1> DEFINE e == Visible(k)
<1>4. \A x \in Found(w, k) : x.seq <= e.seq /\ (e = Absent => x = Absent)
  <2>1. ASSUME NEW x \in Found(w, k) PROVE x.seq \in Nat /\ (x.seq = 0 <=> x = Absent)
    BY FoundTyped
  <2> HIDE DEF e
  <2>2. \A x \in Found(w, k) : e.seq >= x.seq
    BY <1>2, <1>3 DEF e
  <2> QED
    BY <1>3, <2>1, <2>2 DEF e, Absent
<1>5. \E table \in Memory : table \in ToSet(Sources)
  BY <1>1 DEF Memory, MemTables
<1>6. e \in Found(w, k)
  BY <1>2, <1>3, <1>4, <1>5
<1> QED
  BY <1>4, <1>6 DEF IsTop

\* Then get(k) returns it still.
LEMMA ShownKept ==
  ASSUME DataInv', OrderInv', TopsKept
  PROVE  Shown' /\ \A k \in Keys : Value(Visible(k))' = Value(Visible(k))
<1>0. DataInv' /\ OrderInv' =>
        (\A k \in Keys : \E w \in Views : IsTop(Visible(k), Found(w, k)))'
  BY VisibleTop, PTL
<1>1. \A k \in Keys : \E w \in Views' : IsTop(Visible(k), Found(w, k))'
  BY <1>0
<1>2. ASSUME NEW k \in Keys PROVE Value(Visible(k))' = Value(Visible(k))
  <2>1. PICK w \in Views' : IsTop(Visible(k), Found(w, k))'
    BY <1>1
  <2> QED
    BY <2>1 DEF TopsKept
<1>3. Shown'
  BY <1>2 DEF Shown, TopsKept
<1> QED
  BY <1>2, <1>3

\* A view with the same tables, read with the same memtables, shows the same.
LEMMA QuietTops ==
  ASSUME Shown, up, up', UNCHANGED <<active, frozen>>, ViewsKept
  PROVE  TopsKept
<1> SUFFICES ASSUME NEW k \in Keys, NEW w \in Views', NEW e, IsTop(e, Found(w, k))'
             PROVE  Value(e) = Value(Visible(k))
  BY DEF TopsKept
<1>1. PICK u \in Views : w.v = u.v /\ \A id \in ReferencedIds(u.v) : w.files[id] = u.files[id]
  BY DEF ViewsKept
<1>2. Tables(w) = Tables(u)
  BY <1>1, SameTables
<1>3. Memory' = Memory
  BY DEF Memory, MemTables
<1>4. IsTop(e, Found(u, k))
  BY <1>2, <1>3 DEF IsTop, Found, Tables
<1> QED
  BY <1>4 DEF Shown

\* The frozen memtable is probed as the active one was.
LEMMA FreezeTops ==
  ASSUME DataInv, OrderInv, Shown, Freeze
  PROVE  TopsKept
<1> SUFFICES ASSUME NEW k \in Keys, NEW w \in Views', NEW e, IsTop(e, Found(w, k))'
             PROVE  Value(e) = Value(Visible(k))
  BY DEF TopsKept
<1>1. /\ up /\ up' /\ w \in Views
      /\ MemTables \subseteq MemTables' /\ MemTables' \subseteq MemTables \cup {EmptyTable}
  BY FreezeFacts
<1>2. /\ Found(w, k)' = {table[k] : table \in MemTables' \cup Tables(w)}
      /\ Found(w, k) = {table[k] : table \in MemTables \cup Tables(w)}
  BY <1>1 DEF Found, Memory, Tables
<1>3. EmptyTable[k] = Absent
  BY DEF EmptyTable
<1>4. Found(w, k) \subseteq Found(w, k)' /\ \A x \in Found(w, k)' : x \in Found(w, k) \/ x = Absent
  BY <1>1, <1>2, <1>3
<1>5. active[k] \in Found(w, k)
  BY <1>2 DEF MemTables
<1>6. \A x \in Found(w, k) : x.seq \in Nat /\ (x.seq = 0 <=> x = Absent)
  BY <1>1, FoundTyped
<1>7. e \in Found(w, k)' /\ \A x \in Found(w, k)' : x.seq <= e.seq
  BY DEF IsTop
<1>8. e \in Found(w, k)
  <2> SUFFICES ASSUME e = Absent PROVE active[k] = Absent
    BY <1>4, <1>5, <1>7
  <2>1. e.seq = 0 /\ active[k].seq <= e.seq
    BY <1>4, <1>5, <1>7 DEF Absent
  <2> QED
    BY <1>5, <1>6, <2>1
<1>9. IsTop(e, Found(w, k))
  BY <1>4, <1>7, <1>8 DEF IsTop
<1> QED
  BY <1>1, <1>9 DEF Shown

\* The discarded memtable is one of the tables of every view.
LEMMA DiscardTops ==
  ASSUME DataInv, AckedInv, Shown, Discard
  PROVE  TopsKept
<1> SUFFICES ASSUME NEW k \in Keys, NEW w \in Views', NEW e, IsTop(e, Found(w, k))'
             PROVE  Value(e) = Value(Visible(k))
  BY DEF TopsKept
<1>1. /\ up /\ up' /\ w \in Views
      /\ MemTables = MemTables' \cup {Head(frozen)} /\ Head(frozen) \in Tables(w)
  BY DiscardFacts
<1>2. /\ Found(w, k)' = {table[k] : table \in MemTables' \cup Tables(w)}
      /\ Found(w, k) = {table[k] : table \in MemTables \cup Tables(w)}
  BY <1>1 DEF Found, Memory, Tables
<1>3. Found(w, k)' = Found(w, k)
  BY <1>1, <1>2
<1>4. IsTop(e, Found(w, k))
  BY <1>3 DEF IsTop
<1> QED
  BY <1>1, <1>4 DEF Shown

\* The flushed table is a memtable that is still probed.
LEMMA FlushTableTops ==
  ASSUME DataInv, GateOK, OrderInv, Shown, FlushTable
  PROVE  TopsKept
<1> SUFFICES ASSUME NEW k \in Keys, NEW w \in Views', NEW e, IsTop(e, Found(w, k))'
             PROVE  Value(e) = Value(Visible(k))
  BY DEF TopsKept
<1>1. /\ up /\ up' /\ UNCHANGED <<active, frozen>> /\ Head(frozen) \in MemTables
      /\ Current \in Views
      /\ \/ \E u \in Views : Tables(w) = Tables(u)
         \/ Tables(w) = Tables(Current) \cup {Head(frozen)}
  BY FlushTableFacts
<1>2. /\ Found(w, k)' = {table[k] : table \in MemTables \cup Tables(w)}
      /\ \A u \in Views : Found(u, k) = {table[k] : table \in MemTables \cup Tables(u)}
  BY <1>1 DEF Found, Memory, MemTables, Tables
<1>3. PICK u \in Views : Found(w, k)' = Found(u, k)
  <2>1. CASE \E u \in Views : Tables(w) = Tables(u)
    BY <1>2, <2>1
  <2>2. CASE Tables(w) = Tables(Current) \cup {Head(frozen)}
    BY <1>1, <1>2, <2>2
  <2> QED
    BY <1>1, <2>1, <2>2
<1>4. IsTop(e, Found(u, k))
  BY <1>3 DEF IsTop
<1> QED
  BY <1>4 DEF Shown

\* The output of a compaction shows what its inputs show, and memory is empty.
LEMMA CompactTopsKept ==
  ASSUME DataInv, GateOK, OrderInv, Shown, Compact
  PROVE  TopsKept
<1> SUFFICES ASSUME NEW k \in Keys, NEW w \in Views', NEW e, IsTop(e, Found(w, k))'
             PROVE  Value(e) = Value(Visible(k))
  BY DEF TopsKept
<1>1. /\ up /\ up' /\ UNCHANGED <<active, frozen>> /\ MemTables = {EmptyTable}
      /\ Current \in Views
      /\ \/ \E u \in Views : Tables(w) = Tables(u)
         \/ \A m \in Entry \cup {Absent} : \A x :
              IsTop(x, Probe(m, k, w)) =>
                \/ \E f : IsTop(f, Probe(m, k, Current)) /\ Value(f) = Value(x)
                \/ x = m /\ m # Absent
  BY CompactFacts
<1>2. /\ Found(w, k)' = Probe(Absent, k, w)
      /\ \A u \in Views : Found(u, k) = Probe(Absent, k, u)
  <2>1. /\ Found(w, k)' = {table[k] : table \in MemTables \cup Tables(w)}
        /\ \A u \in Views : Found(u, k) = {table[k] : table \in MemTables \cup Tables(u)}
    BY <1>1 DEF Found, Memory, MemTables, Tables
  <2>2. EmptyTable[k] = Absent
    BY DEF EmptyTable
  <2> QED
    BY <1>1, <2>1, <2>2 DEF Probe
<1>3. PICK u \in Views : \E f : IsTop(f, Found(u, k)) /\ Value(f) = Value(e)
  <2>1. CASE \E u \in Views : Tables(w) = Tables(u)
    <3>1. PICK u \in Views : Tables(w) = Tables(u)
      BY <2>1
    <3>2. IsTop(e, Found(u, k))
      BY <1>2, <3>1 DEF IsTop, Probe
    <3> QED
      BY <3>2
  <2>2. CASE \A x : IsTop(x, Probe(Absent, k, w)) =>
               \E f : IsTop(f, Probe(Absent, k, Current)) /\ Value(f) = Value(x)
    <3>1. IsTop(e, Probe(Absent, k, w))
      BY <1>2 DEF IsTop
    <3> QED
      BY <1>1, <1>2, <2>2, <3>1
  <2> QED
    BY <1>1, <2>1, <2>2
<1> QED
  BY <1>3 DEF Shown

\* A recovery reads what the lookup before it would have read.
LEMMA OpenTops ==
  ASSUME DataInv, OrderInv, Shown, Open
  PROVE  TopsKept
<1> SUFFICES ASSUME NEW k \in Keys, NEW w \in Views', NEW e, IsTop(e, Found(w, k))'
             PROVE  Value(e) = Value(Visible(k))
  BY DEF TopsKept
<1>1. /\ ~up /\ up' /\ active' = Replay(Records(wal.segs)) /\ frozen' = frozen /\ ViewsKept
  BY OpenOrder DEF Open
<1>2. Memory' = Memory
  BY <1>1 DEF OrderInv, LogShape, Memory, MemTables, ToSet
<1>3. PICK u \in Views : w.v = u.v /\ \A id \in ReferencedIds(u.v) : w.files[id] = u.files[id]
  BY <1>1 DEF ViewsKept
<1>4. Tables(w) = Tables(u)
  BY <1>3, SameTables
<1>5. IsTop(e, Found(u, k))
  BY <1>2, <1>4 DEF IsTop, Found, Tables
<1> QED
  BY <1>5 DEF Shown

\* After a power loss there is one view, and what it shows was written once.
LEMMA OnceShown == DataInv /\ OrderInv /\ OnceInv /\ ~up => Shown
<1> SUFFICES ASSUME DataInv, OrderInv, OnceInv, ~up, NEW k \in Keys, NEW w \in Views, NEW e,
                    IsTop(e, Found(w, k))
             PROVE  e = Visible(k)
  BY DEF Shown
<1>1. \A u \in Views : u = w
  BY DEF Views, OrderInv, LogShape, DataInv, ClockOK, Installing
<1>2. IsTop(Visible(k), Found(w, k))
  BY <1>1, VisibleTop
<1> DEFINE f == Visible(k)
<1> HIDE DEF f
<1>3. /\ e \in Found(w, k) /\ f \in Found(w, k) /\ e.seq <= f.seq /\ f.seq <= e.seq
  BY <1>2 DEF IsTop, f
<1>4. /\ e.seq \in Nat /\ f.seq \in Nat
      /\ (e.seq = 0 <=> e = Absent) /\ (f.seq = 0 <=> f = Absent)
  BY <1>3, FoundTyped
<1>5. e.seq = f.seq
  BY <1>3, <1>4
<1>6. CASE e # Absent
  <2>1. PICK r \in Rec : Written(r) /\ r.key = k /\ EntryOf(r) = e
    BY <1>3, <1>6, FoundWritten
  <2>2. PICK q \in Rec : Written(q) /\ q.key = k /\ EntryOf(q) = f
    BY <1>3, <1>4, <1>5, <1>6, FoundWritten
  <2>3. r.seq = e.seq /\ q.seq = f.seq
    BY <2>1, <2>2, EntryPresent
  <2> QED
    BY <1>5, <2>1, <2>2, <2>3 DEF OnceInv, WriteOnce, f
<1> QED
  BY <1>4, <1>5, <1>6 DEF f

\* What insert_if_newer makes of the active memtable.
LEMMA ApplyFacts ==
  ASSUME DataInv, GateOK, NEW t \in Threads, Apply(t)
  PROVE  /\ up /\ up' /\ UNCHANGED <<op, frozen, wal, dir, version, flush, up>>
         /\ pc[t] = "apply" /\ pc' = [pc EXCEPT ![t] = "finish"]
         /\ t \in Gate!Claimed /\ op[t] \in Rec /\ op[t].key \in Keys
         /\ EntryOf(op[t]).seq = op[t].seq /\ op[t].seq \in Nat \ {0}
         /\ \A k \in Keys :
              /\ active[k].seq \in Nat
              /\ active'[k] = IF k = op[t].key /\ active[k].seq < op[t].seq
                              THEN EntryOf(op[t]) ELSE active[k]
<1> DEFINE r == op[t]
           e == EntryOf(r)
           Wins(k) == k = r.key /\ active[k].seq < r.seq
<1>1. /\ up /\ up' /\ UNCHANGED <<op, frozen, wal, dir, version, flush, up>>
      /\ pc[t] = "apply" /\ pc' = [pc EXCEPT ![t] = "finish"]
      /\ active' = InsertIfNewer(active, r.key, e)
  <2>1. up /\ UNCHANGED <<up, op, frozen, diskVars, version, flush>>
    BY DEF Apply
  <2>2. /\ active' = InsertIfNewer(active, r.key, e)
        /\ pc[t] = "apply" /\ pc' = [pc EXCEPT ![t] = "finish"]
    BY DEF Apply, Gate!Apply, Gate!Goto
  <2> HIDE DEF e, r
  <2> QED
    BY <2>1, <2>2 DEF diskVars
<1>2. t \in Gate!Claimed /\ r \in Rec /\ r.key \in Keys /\ e.seq = r.seq /\ r.seq \in Nat \ {0}
  BY <1>1, EntryPresent DEF Gate!Claimed, DataInv, OpsOK
<1>3. \A k \in Keys : /\ active[k].seq \in Nat
                      /\ active'[k] = IF Wins(k) THEN e ELSE active[k]
  <2>1. nextSeq \in Nat \ {0} /\ active \in TablesBelow(nextSeq)
    BY DbAssumption DEF DataInv, ClockOK, Clocks, BufferOK
  <2>2. \A k \in Keys : active[k].seq \in Nat
    BY <2>1, BelowFacts DEF TablesBelow
  <2>3. DOMAIN active = Keys
    BY <2>1 DEF TablesBelow
  <2> HIDE DEF e, r
  <2>4. active[r.key].seq >= e.seq \/ active[r.key].seq < e.seq
    BY <1>2, <2>2
  <2>5. CASE active[r.key].seq >= e.seq
    <3>1. active' = active
      BY <1>1, <2>5 DEF InsertIfNewer
    <3>2. ~(active[r.key].seq < r.seq)
      BY <1>2, <2>2, <2>5
    <3> QED
      BY <2>2, <3>1, <3>2
  <2>6. CASE active[r.key].seq < e.seq
    <3>1. ~(active[r.key].seq >= e.seq)
      BY <1>2, <2>2, <2>6
    <3>2. active' = [active EXCEPT ![r.key] = e]
      BY <1>1, <3>1 DEF InsertIfNewer
    <3> QED
      BY <1>2, <2>2, <2>3, <2>6, <3>2
  <2> QED
    BY <2>4, <2>5, <2>6
<1> QED
  BY <1>1, <1>2, <1>3

\* A write enters the memtable: either it is the newest everywhere, or it is dropped
\* and nothing changes.
LEMMA ApplyShown ==
  ASSUME DataInv, GateOK, OrderInv, Shown, NEW t \in Threads, Apply(t), DataInv', OrderInv'
  PROVE  /\ Shown'
         /\ \A k \in Keys :
              Value(Visible(k))' = IF k = op[t].key /\ active[k].seq < op[t].seq
                                   THEN Value(EntryOf(op[t])) ELSE Value(Visible(k))
<1> DEFINE r == op[t]
           e == EntryOf(r)
           Wins(k) == k = r.key /\ active[k].seq < r.seq
<1>1. /\ up /\ up' /\ UNCHANGED <<frozen, dir, version, flush, up>> /\ pc[t] = "apply"
  BY ApplyFacts
<1>2. t \in Gate!Claimed /\ r \in Rec /\ r.key \in Keys /\ e.seq = r.seq /\ r.seq \in Nat \ {0}
  BY ApplyFacts
<1>3. \A k \in Keys : /\ active[k].seq \in Nat
                      /\ active'[k] = IF Wins(k) THEN e ELSE active[k]
  BY ApplyFacts
<1>4. Views' = Views
  BY <1>1 DEF Views
<1> DEFINE Rest(w) == ToSet(frozen) \cup Tables(w)
<1>5. ASSUME NEW w, NEW k \in Keys
      PROVE  /\ Found(w, k) = {active[k]} \cup {table[k] : table \in Rest(w)}
             /\ Found(w, k)' = {active'[k]} \cup {table[k] : table \in Rest(w)}
  <2>1. Memory = {active} \cup ToSet(frozen) /\ Memory' = {active'} \cup ToSet(frozen)
    BY <1>1 DEF Memory, MemTables
  <2> QED
    BY <2>1 DEF Found, Tables
<1>6. \A w \in Views : \A table \in Rest(w) : \A k \in Keys : ~(r.seq <= table[k].seq)
  <2> SUFFICES ASSUME NEW w \in Views, NEW table \in Rest(w), NEW k \in Keys
               PROVE  ~(r.seq <= table[k].seq)
    OBVIOUS
  <2>1. table \in Stored
    BY DEF Stored, Named, Tables
  <2>2. table \in TablesBelow(r.seq)
    BY <1>2, <2>1 DEF OrderInv, ClaimsFresh
  <2> HIDE DEF r
  <2>3. table[k].seq \in Nat /\ table[k].seq < r.seq
    BY <1>2, <2>2, BelowFacts DEF TablesBelow
  <2> QED
    BY <1>2, <2>3
<1> HIDE DEF Rest, e, r
<1> DEFINE Now(k) == IF Wins(k) THEN Value(e) ELSE Value(Visible(k))
<1>7. ASSUME NEW k \in Keys, NEW w \in Views', NEW x, IsTop(x, Found(w, k))'
      PROVE  Value(x) = Now(k)
  <2>1. x \in Found(w, k)' /\ \A y \in Found(w, k)' : y.seq <= x.seq
    BY <1>7 DEF IsTop
  <2>2. CASE Wins(k)
    <3>1. e \in Found(w, k)' /\ \A y \in Found(w, k)' : y = e \/ \E table \in Rest(w) : y = table[k]
      BY <1>3, <1>5, <2>2
    <3>2. r.seq <= x.seq
      BY <1>2, <2>1, <3>1
    <3>3. x = e
      BY <1>4, <1>6, <1>7, <2>1, <3>1, <3>2
    <3> QED
      BY <2>2, <3>3
  <2>3. CASE ~Wins(k)
    <3>0. active'[k] = active[k]
      BY <1>3, <2>3
    <3>1. Found(w, k)' = Found(w, k)
      BY <1>5, <3>0
    <3>2. IsTop(x, Found(w, k))
      BY <2>1, <3>1 DEF IsTop
    <3> QED
      BY <1>4, <1>7, <2>3, <3>2 DEF Shown
  <2> QED
    BY <2>2, <2>3
<1>8. DataInv' /\ OrderInv' =>
        (\A k \in Keys : \E w \in Views : IsTop(Visible(k), Found(w, k)))'
  BY VisibleTop, PTL
<1>9. \A k \in Keys : \E w \in Views' : IsTop(Visible(k), Found(w, k))'
  BY <1>8
<1> HIDE DEF Now
<1>10. ASSUME NEW k \in Keys PROVE Value(Visible(k))' = Now(k)
  <2>1. PICK w \in Views' : IsTop(Visible(k), Found(w, k))'
    BY <1>9
  <2> QED
    BY <1>7, <2>1
<1>11. Shown'
  BY <1>7, <1>10 DEF Shown
<1> QED
  BY <1>10, <1>11 DEF Now, e, r

\* An empty database shows nothing.
LEMMA InitShown == KeepsOrder /\ Init => Shown
<1> SUFFICES ASSUME KeepsOrder, Init, NEW k \in Keys, NEW w \in Views, NEW e, IsTop(e, Found(w, k))
             PROVE  e = Visible(k)
  BY DEF Shown
<1>1. DataInv /\ OrderInv
  BY InitData, InitOrder
<1>2. Memory = {EmptyTable} /\ \A u \in Views : Tables(u) = {}
  BY DEF Init, Memory, MemTables, ToSet, Views, NoFlush, NoFiles, Installing, EmptyVersion,
         ReferencedIds, Tables
<1>3. \A u \in Views : Found(u, k) = {Absent}
  <2>1. EmptyTable[k] = Absent
    BY DEF EmptyTable
  <2> QED
    BY <1>2, <2>1 DEF Found
<1>4. PICK u \in Views : IsTop(Visible(k), Found(u, k))
  BY <1>1, VisibleTop
<1> QED
  BY <1>3, <1>4 DEF IsTop

\* The steps that change nothing of what get(k) returns.
LEMMA StepTops ==
  ASSUME DataInv, GateOK, OrderInv, AckedInv, Shown, KeepsOrder, [Next]_vars,
         ~PowerLoss, \A t \in Threads : ~Apply(t)
  PROVE  TopsKept
<1>1. CASE UNCHANGED vars
  <2>1. UNCHANGED <<active, frozen, wal, dir, version, flush, up>>
    BY <1>1 DEF vars, memVars, diskVars
  <2>2. Views' = Views /\ Memory' = Memory
    BY <2>1 DEF Views, Memory, MemTables
  <2> QED
    BY <2>2 DEF Shown, TopsKept, IsTop, Found, Tables
<1>2. ~Kill
  BY DEF KeepsOrder, Kill, Fault
<1>3. ASSUME NEW t \in Threads, WriterStep(t) PROVE TopsKept
  <2>1. CASE QuietCall(t)
    BY <2>1, CallsQuiet, QuietTops DEF Quiet
  <2>2. CASE LogRecord(t) \/ \E k \in Keys, kind \in WriteKinds : Claim(t, k, kind)
    <3>1. up /\ up' /\ UNCHANGED <<active, frozen, dir, version, flush, up>>
      BY <2>2 DEF LogRecord, Claim, memVars, diskVars
    <3>2. ViewsKept
      BY <3>1 DEF Views, ViewsKept
    <3> QED
      BY <3>1, <3>2, QuietTops
  <2> QED
    BY <1>3, <2>1, <2>2 DEF WriterStep, QuietCall
<1>4. CASE SyncLog \/ FlushStep
  <2>1. CASE QuietBody
    BY <2>1, BodyQuiet, QuietTops DEF Quiet
  <2> QED
    BY <1>4, <2>1, BodySteps, FreezeTops, DiscardTops, FlushTableTops, CompactTopsKept
       DEF QuietBody
<1>5. ASSUME NEW r \in Readers, ReaderStep(r) PROVE TopsKept
  <2>1. up /\ UNCHANGED <<up, memVars, diskVars, version, flush>>
    BY <1>5 DEF ReaderStep, ReadStart, ReadMem, ReadPin, ReadTables, ReadReturn
  <2>2. up' /\ UNCHANGED <<active, frozen, dir, version, flush, up>>
    BY <2>1 DEF memVars, diskVars
  <2>3. ViewsKept
    BY <2>2 DEF Views, ViewsKept
  <2> QED
    BY <2>1, <2>2, <2>3, QuietTops
<1> QED
  BY <1>1, <1>2, <1>3, <1>4, <1>5, OpenTops DEF Next

\* What get(k) returns after a step: the write that took effect in it, or the same.
LEMMA StepShown ==
  ASSUME DataInv, GateOK, OrderInv, AckedInv, OnceInv, Shown, KeepsOrder, [Next]_vars,
         DataInv', OrderInv', OnceInv'
  PROVE  Shown'
<1>1. CASE PowerLoss
  <2>1. ~up'
    BY <1>1 DEF PowerLoss, Die
  <2>2. DataInv' /\ OrderInv' /\ OnceInv' /\ ~up' => Shown'
    BY OnceShown, PTL
  <2> QED
    BY <2>1, <2>2
<1>2. CASE \E t \in Threads : Apply(t)
  BY <1>2, ApplyShown
<1>3. CASE ~PowerLoss /\ \A t \in Threads : ~Apply(t)
  BY <1>3, StepTops, ShownKept
<1> QED
  BY <1>1, <1>2, <1>3

(***************************************************************************)
(* Every version that may be read, now or after a crash, shows the same    *)
(* value of each key together with the memtables (get, db.rs): so it makes *)
(* no difference to a reader at which moment it takes manifest.current().  *)
(***************************************************************************)
THEOREM DbViewsAgree == KeepsOrder => (Spec => []Shown)
<1> SUFFICES ASSUME KeepsOrder PROVE Spec => []Shown
  OBVIOUS
<1>1. /\ DataInv /\ GateOK /\ OrderInv /\ AckedInv /\ OnceInv /\ Shown /\ [Next]_vars
      /\ DataInv' /\ OrderInv' /\ OnceInv'
      => Shown'
  BY StepShown
<1>2. (Spec => []OrderInv) /\ (Spec => []AckedInv) /\ (Spec => []OnceInv)
  BY DbOrderInductive, DbAckedInductive, DbOnceInductive
<1> QED
  BY <1>1, <1>2, InitShown, DbDataInductive, DbGateOK, PTL DEF Spec

-----------------------------------------------------------------------------
\* The newest entries for k in a view, beside the entry m, have values in S.
Covers(S, m, k, w) == \A e : IsTop(e, Probe(m, k, w)) => Value(e) \in S

\* The view of the version a reader has pinned.
PinView(r) == [v |-> rd[r].pin, files |-> dir.live.files]

\* Between the calls of a reader: what it may still find has been the key's value.
Reading(r) ==
  rd[r].at # "idle" =>
    /\ up /\ rd[r].at \in {"mem", "pin", "tables", "done"}
    /\ rd[r].key \in Keys /\ Value(Visible(rd[r].key)) \in rd[r].seen
HitKept(r) ==
  rd[r].at \in {"pin", "tables"} =>
    /\ rd[r].mem \in Entry \cup {Absent}
    /\ rd[r].call = "get" => rd[r].mem = Absent
    /\ rd[r].mem # Absent => Value(rd[r].mem) \in rd[r].seen
BeforePin(r) ==
  rd[r].at = "pin" =>
    /\ \A w \in Views : Covers(rd[r].seen, rd[r].mem, rd[r].key, w)
    /\ \A table \in MemTables : \/ table[rd[r].key] = Absent
                                \/ ~(rd[r].mem.seq <= table[rd[r].key].seq)
                                \/ Value(table[rd[r].key]) \in rd[r].seen
AfterPin(r) ==
  rd[r].at = "tables" =>
    /\ Covers(rd[r].seen, rd[r].mem, rd[r].key, PinView(r))
    /\ rd[r].pin \in Version /\ rd[r].pin.nextSeq <= MaxWrites + 1
    /\ Holds(rd[r].pin, dir.live.files) /\ TiersOrdered(rd[r].pin, dir.live.files)
ReadDone(r) == rd[r].at = "done" => rd[r].got \in rd[r].seen

ReaderFine(r) == Reading(r) /\ HitKept(r) /\ BeforePin(r) /\ AfterPin(r) /\ ReadDone(r)

\* A step in which what a reader may find in a view it could have found before, or
\* in the memtables.
ProbesKept ==
  \A k \in Keys : \A m \in Entry \cup {Absent} : \A w \in Views' : \A e :
    IsTop(e, Probe(m, k, w)) =>
      \/ \E u \in Views : \E f : IsTop(f, Probe(m, k, u)) /\ Value(f) = Value(e)
      \/ e = m /\ m # Absent
      \/ \E table \in MemTables : e = table[k] /\ e # Absent /\ m.seq <= e.seq
MemKept ==
  \A table \in MemTables' : \A k \in Keys :
    table[k] = Absent \/ \E old \in MemTables : table[k] = old[k]

\* Such a step leaves a reader in the middle of its call as it is.
LEMMA ReaderKept ==
  ASSUME DataInv, DataInv', NEW r \in Readers, ReaderFine(r), up', rd'[r] = rd[r], ProbesKept, MemKept,
         PinsKept, \A k \in Keys : Value(Visible(k))' = Value(Visible(k))
  PROVE  ReaderFine(r)'
<1>1. Reading(r)' /\ HitKept(r)' /\ ReadDone(r)'
  BY DEF ReaderFine, Reading, HitKept, ReadDone
<1>2. BeforePin(r)'
  <2> SUFFICES ASSUME rd[r].at = "pin"
               PROVE  /\ \A w \in Views' : Covers(rd[r].seen, rd[r].mem, rd[r].key, w)
                      /\ \A table \in MemTables' : \/ table[rd[r].key] = Absent
                                                   \/ ~(rd[r].mem.seq <= table[rd[r].key].seq)
                                                   \/ Value(table[rd[r].key]) \in rd[r].seen
    BY DEF BeforePin, Covers, IsTop, Probe, Tables
  <2> DEFINE k == rd[r].key
             m == rd[r].mem
             S == rd[r].seen
  <2>1. /\ k \in Keys /\ m \in Entry \cup {Absent}
        /\ m # Absent => Value(m) \in S
        /\ \A w \in Views : Covers(S, m, k, w)
        /\ \A table \in MemTables : \/ table[k] = Absent \/ ~(m.seq <= table[k].seq)
                                    \/ Value(table[k]) \in S
    BY DEF ReaderFine, Reading, HitKept, BeforePin
  <2> HIDE DEF k, m, S
  <2>2. \A w \in Views' : Covers(S, m, k, w)
    BY <2>1 DEF Covers, ProbesKept
  <2>3. \A table \in MemTables' : \/ table[k] = Absent \/ ~(m.seq <= table[k].seq)
                                  \/ Value(table[k]) \in S
    BY <2>1 DEF MemKept
  <2> QED
    BY <2>2, <2>3 DEF k, m, S
<1>3. AfterPin(r)'
  <2> SUFFICES ASSUME rd[r].at = "tables"
               PROVE  /\ Covers(rd[r].seen, rd[r].mem, rd[r].key, PinView(r)')
                      /\ rd[r].pin \in Version /\ rd[r].pin.nextSeq <= MaxWrites + 1
                      /\ Holds(rd[r].pin, dir'.live.files)
                      /\ TiersOrdered(rd[r].pin, dir'.live.files)
    BY DEF AfterPin, Covers, IsTop, Probe, Tables, PinView
  <2> DEFINE v == rd[r].pin
             old == dir.live.files
             new == dir'.live.files
  <2>1. /\ v \in Version /\ v.nextSeq <= MaxWrites + 1 /\ Holds(v, old) /\ TiersOrdered(v, old)
        /\ Covers(rd[r].seen, rd[r].mem, rd[r].key, [v |-> v, files |-> old])
    BY DEF ReaderFine, AfterPin, PinView
  <2>2. \A id \in ReferencedIds(v) : new[id] = old[id]
    BY DEF PinsKept
  <2>3. ReferencedIds(v) \subseteq DOMAIN new
    BY DEF DataInv, ReadersOK
  <2>4. PinView(r)' = [v |-> v, files |-> new]
    BY DEF PinView
  <2> HIDE DEF v, old, new
  <2>5. Holds(v, new)
    BY <2>1, <2>2, <2>3 DEF Holds
  <2>6. TiersOrdered(v, new)
    BY <2>1, <2>2, TiersSame
  <2>7. Tables([v |-> v, files |-> new]) = Tables([v |-> v, files |-> old])
    BY <2>2 DEF Tables
  <2>8. Covers(rd[r].seen, rd[r].mem, rd[r].key, [v |-> v, files |-> new])
    BY <2>1, <2>7 DEF Covers, Probe
  <2> QED
    BY <2>1, <2>4, <2>5, <2>6, <2>8 DEF v, new
<1> QED
  BY <1>1, <1>2, <1>3 DEF ReaderFine

\* What a step leaves of the tables that readers look into.
LEMMA SameProbes ==
  ASSUME \A w \in Views' : \E u \in Views : Tables(w) = Tables(u)
  PROVE  ProbesKept
<1> SUFFICES ASSUME NEW k \in Keys, NEW m \in Entry \cup {Absent}, NEW w \in Views', NEW e,
                    IsTop(e, Probe(m, k, w))
             PROVE  \E u \in Views : \E f : IsTop(f, Probe(m, k, u)) /\ Value(f) = Value(e)
  BY DEF ProbesKept
<1>1. PICK u \in Views : Tables(w) = Tables(u)
  OBVIOUS
<1>2. Probe(m, k, w) = Probe(m, k, u)
  BY <1>1 DEF Probe
<1> QED
  BY <1>2

\* A step that brings no memtable but an empty one.
LEMMA SameMemory ==
  ASSUME MemTables' \subseteq MemTables \cup {EmptyTable}
  PROVE  MemKept
BY DEF MemKept, EmptyTable

\* The table a flush writes was in memory: what a reader finds in it, it could have found
\* there, if it looked at the memtables before.
LEMMA FlushTableProbes ==
  ASSUME DataInv, GateOK, OrderInv, FlushTable
  PROVE  ProbesKept
<1> SUFFICES ASSUME NEW k \in Keys, NEW m \in Entry \cup {Absent}, NEW w \in Views', NEW e,
                    IsTop(e, Probe(m, k, w))
             PROVE  \/ \E u \in Views : \E f : IsTop(f, Probe(m, k, u)) /\ Value(f) = Value(e)
                    \/ \E table \in MemTables : e = table[k] /\ e # Absent /\ m.seq <= e.seq
  BY DEF ProbesKept
<1>1. /\ Current \in Views /\ Head(frozen) \in MemTables
      /\ \/ \E u \in Views : Tables(w) = Tables(u)
         \/ Tables(w) = Tables(Current) \cup {Head(frozen)}
  BY FlushTableFacts
<1>2. CASE \E u \in Views : Tables(w) = Tables(u)
  <2>1. PICK u \in Views : Tables(w) = Tables(u)
    BY <1>2
  <2>2. Probe(m, k, w) = Probe(m, k, u)
    BY <2>1 DEF Probe
  <2> QED
    BY <2>2
<1>3. CASE Tables(w) = Tables(Current) \cup {Head(frozen)}
  <2> DEFINE h == Head(frozen)[k]
  <2>1. Probe(m, k, w) = Probe(m, k, Current) \cup {h}
    BY <1>3 DEF Probe
  <2>2. m \in Probe(m, k, Current) /\ m \in Probe(m, k, w)
    BY <2>1 DEF Probe
  <2>3. CASE e \in Probe(m, k, Current)
    <3>1. IsTop(e, Probe(m, k, Current))
      BY <2>1, <2>3 DEF IsTop
    <3> QED
      BY <1>1, <3>1
  <2>4. CASE e \notin Probe(m, k, Current)
    <3>1. e = h /\ m.seq <= e.seq
      BY <2>1, <2>2, <2>4 DEF IsTop
    <3>2. e # Absent
      <4>1. m # Absent => m.seq \in Nat /\ m.seq > 0
        BY DEF Entry
      <4>2. Absent.seq = 0
        BY DEF Absent
      <4> QED
        BY <2>2, <2>4, <3>1, <4>1, <4>2
    <3> QED
      BY <1>1, <3>1, <3>2
  <2> QED
    BY <2>3, <2>4
<1> QED
  BY <1>1, <1>2, <1>3

\* Writers that do not reach the memtable, and the flush body, beside readers.
LEMMA BesideReaders ==
  ASSUME DataInv, GateOK, OrderInv, AckedInv, KeepsOrder,
         (\E t \in Threads : WriterStep(t) /\ ~Apply(t)) \/ SyncLog \/ FlushStep
  PROVE  /\ up /\ up' /\ rd' = rd
         /\ PinsKept /\ ProbesKept /\ MemKept
<1>1. ASSUME Quiet
      PROVE  up /\ up' /\ rd' = rd /\ PinsKept /\ ProbesKept /\ MemKept
  <2>1. up /\ up' /\ UNCHANGED <<active, frozen, rd>> /\ ViewsKept /\ PinsKept
    BY <1>1 DEF Quiet
  <2>2. \A w \in Views' : \E u \in Views : Tables(w) = Tables(u)
    BY <2>1, SameTables DEF ViewsKept
  <2>3. MemTables' = MemTables
    BY <2>1 DEF MemTables
  <2> QED
    BY <2>1, <2>2, <2>3, SameProbes, SameMemory
<1>2. ASSUME up, up', UNCHANGED <<active, frozen, rd, dir, version, flush, up>>
      PROVE  up /\ up' /\ rd' = rd /\ PinsKept /\ ProbesKept /\ MemKept
  <2>1. Views' = Views /\ MemTables' = MemTables
    BY <1>2 DEF Views, MemTables
  <2>2. PinsKept
    BY <1>2 DEF PinsKept
  <2> QED
    BY <1>2, <2>1, <2>2, SameProbes, SameMemory
<1>3. ASSUME NEW t \in Threads, WriterStep(t), ~Apply(t)
      PROVE  up /\ up' /\ rd' = rd /\ PinsKept /\ ProbesKept /\ MemKept
  <2>1. CASE QuietCall(t)
    BY <1>1, <2>1, CallsQuiet
  <2>2. CASE LogRecord(t) \/ \E k \in Keys, kind \in WriteKinds : Claim(t, k, kind)
    <3>1. up /\ up' /\ UNCHANGED <<active, frozen, rd, dir, version, flush, up>>
      BY <2>2 DEF LogRecord, Claim, memVars, diskVars
    <3> QED
      BY <1>2, <3>1
  <2> QED
    BY <1>3, <2>1, <2>2 DEF WriterStep, QuietCall
<1>4. CASE Freeze
  <2>1. /\ up /\ up' /\ UNCHANGED <<dir, rd>> /\ Views' = Views
        /\ MemTables' \subseteq MemTables \cup {EmptyTable}
    BY <1>4, FreezeFacts
  <2> QED
    BY <2>1, SameProbes, SameMemory DEF PinsKept
<1>5. CASE Discard
  <2>1. up /\ up' /\ UNCHANGED <<dir, rd>> /\ Views' = Views /\ MemTables' \subseteq MemTables
    BY <1>5, DiscardFacts
  <2> QED
    BY <2>1, SameProbes, SameMemory DEF PinsKept
<1>6. CASE FlushTable
  <2>1. up /\ up' /\ UNCHANGED <<active, frozen, rd>> /\ PinsKept
    BY <1>6, FlushTableFacts
  <2>2. MemTables' = MemTables
    BY <2>1 DEF MemTables
  <2> QED
    BY <1>6, <2>1, <2>2, FlushTableProbes, SameMemory
<1>7. CASE Compact
  <2>1. /\ up /\ up' /\ UNCHANGED <<active, frozen, rd>> /\ PinsKept /\ Current \in Views
        /\ \A w \in Views' :
             \/ \E u \in Views : Tables(w) = Tables(u)
             \/ \A k \in Keys : \A m \in Entry \cup {Absent} : \A e :
                  IsTop(e, Probe(m, k, w)) =>
                    \/ \E f : IsTop(f, Probe(m, k, Current)) /\ Value(f) = Value(e)
                    \/ e = m /\ m # Absent
    BY <1>7, CompactFacts
  <2>2. MemTables' = MemTables
    BY <2>1 DEF MemTables
  <2>3. ProbesKept
    <3> SUFFICES ASSUME NEW k \in Keys, NEW m \in Entry \cup {Absent}, NEW w \in Views', NEW e,
                        IsTop(e, Probe(m, k, w))
                 PROVE  \/ \E u \in Views : \E f :
                             IsTop(f, Probe(m, k, u)) /\ Value(f) = Value(e)
                        \/ e = m /\ m # Absent
      BY DEF ProbesKept
    <3>1. ASSUME NEW u \in Views, Tables(w) = Tables(u)
          PROVE  \E f : IsTop(f, Probe(m, k, u)) /\ Value(f) = Value(e)
      BY <3>1 DEF Probe
    <3> QED
      BY <2>1, <3>1
  <2> QED
    BY <2>1, <2>2, <2>3, SameMemory
<1>8. CASE QuietBody
  BY <1>1, <1>8, BodyQuiet
<1> QED
  BY <1>1, <1>3, <1>4, <1>5, <1>6, <1>7, <1>8, BodySteps DEF QuietBody

\* A write that takes effect shows its value to the readers of its key.
LEMMA ApplyReader ==
  ASSUME DataInv, GateOK, OrderInv, Shown, NEW t \in Threads, Apply(t), DataInv', OrderInv',
         NEW r \in Readers, ReaderFine(r)
  PROVE  ReaderFine(r)'
<1> DEFINE k0 == op[t].key
           x == EntryOf(op[t])
           won == active[k0].seq < op[t].seq
<1>1. /\ up /\ up' /\ UNCHANGED <<frozen, dir, version, flush, up>>
      /\ active' = InsertIfNewer(active, k0, x)
      /\ rd' = IF won THEN Witness(k0, Value(x)) ELSE rd
  BY DEF Apply, diskVars
<1>2. Views' = Views
  BY <1>1 DEF Views
<1>3. /\ rd'[r].at = rd[r].at /\ rd'[r].call = rd[r].call /\ rd'[r].key = rd[r].key
      /\ rd'[r].mem = rd[r].mem /\ rd'[r].pin = rd[r].pin /\ rd'[r].got = rd[r].got
      /\ rd[r].seen \subseteq rd'[r].seen
      /\ won /\ rd[r].at # "idle" /\ rd[r].key = k0 => Value(x) \in rd'[r].seen
  <2>1. rd[r] = [at |-> rd[r].at, call |-> rd[r].call, key |-> rd[r].key, mem |-> rd[r].mem,
                 pin |-> rd[r].pin, seen |-> rd[r].seen, got |-> rd[r].got]
    BY DEF DataInv, ReadersOK
  <2>2. rd'[r] = rd[r] \/ rd'[r] = [rd[r] EXCEPT !.seen = @ \cup {Value(x)}]
    BY <1>1 DEF Witness
  <2>3. won /\ rd[r].at # "idle" /\ rd[r].key = k0
          => rd'[r] = [rd[r] EXCEPT !.seen = @ \cup {Value(x)}]
    BY <1>1 DEF Witness
  <2> HIDE DEF won, x, k0
  <2>4. ASSUME rd'[r] = [rd[r] EXCEPT !.seen = @ \cup {Value(x)}]
        PROVE  /\ rd'[r].at = rd[r].at /\ rd'[r].call = rd[r].call /\ rd'[r].key = rd[r].key
               /\ rd'[r].mem = rd[r].mem /\ rd'[r].pin = rd[r].pin /\ rd'[r].got = rd[r].got
               /\ rd'[r].seen = rd[r].seen \cup {Value(x)}
    BY <2>1, <2>4
  <2> QED
    BY <2>2, <2>3, <2>4
<1>4. \A k \in Keys : Value(Visible(k))' = IF k = k0 /\ won THEN Value(x) ELSE Value(Visible(k))
  BY ApplyShown
<1>5. \A k \in Keys : active'[k] = active[k] \/ (k = k0 /\ won /\ active'[k] = x)
  BY ApplyFacts
<1>6. \A table \in MemTables' : table \in MemTables \/ table = active'
  BY <1>1 DEF MemTables
<1> HIDE DEF k0, x, won
<1>7. Reading(r)'
  <2> SUFFICES ASSUME rd[r].at # "idle"
               PROVE  (Value(Visible(rd[r].key)) \in rd[r].seen)'
    BY <1>1, <1>3 DEF ReaderFine, Reading
  <2>1. rd[r].key \in Keys /\ Value(Visible(rd[r].key)) \in rd[r].seen
    BY DEF ReaderFine, Reading
  <2>2. rd'[r].key \in Keys /\ rd'[r].key = rd[r].key
    BY <1>3, <2>1
  <2>3. \A k \in Keys : k = rd[r].key => Value(Visible(k))' \in rd'[r].seen
    BY <1>3, <1>4, <2>1
  <2> QED
    BY <2>2, <2>3
<1>8. HitKept(r)' /\ ReadDone(r)'
  BY <1>3 DEF ReaderFine, HitKept, ReadDone
<1>9. BeforePin(r)'
  <2> SUFFICES ASSUME rd[r].at = "pin"
               PROVE  /\ \A w \in Views' : Covers(rd'[r].seen, rd'[r].mem, rd'[r].key, w)
                      /\ \A table \in MemTables' : \/ table[rd'[r].key] = Absent
                                                   \/ ~(rd'[r].mem.seq <= table[rd'[r].key].seq)
                                                   \/ Value(table[rd'[r].key]) \in rd'[r].seen
    BY <1>3 DEF BeforePin, Covers, IsTop, Probe, Tables
  <2> DEFINE k == rd[r].key
             m == rd[r].mem
             S == rd[r].seen
             T == rd'[r].seen
  <2>1. /\ k \in Keys /\ S \subseteq T
        /\ won /\ k = k0 => Value(x) \in T
        /\ \A w \in Views : Covers(S, m, k, w)
        /\ \A table \in MemTables : \/ table[k] = Absent \/ ~(m.seq <= table[k].seq)
                                    \/ Value(table[k]) \in S
    BY <1>3 DEF ReaderFine, Reading, BeforePin
  <2>2. rd'[r].key = k /\ rd'[r].mem = m
    BY <1>3
  <2>3. active \in MemTables
    BY DEF MemTables
  <2> HIDE DEF k, m, S, T
  <2>4. \A w \in Views' : Covers(T, m, k, w)
    BY <1>2, <2>1 DEF Covers
  <2>5. \A table \in MemTables' : \/ table[k] = Absent \/ ~(m.seq <= table[k].seq)
                                  \/ Value(table[k]) \in T
    BY <1>5, <1>6, <2>1, <2>3
  <2> QED
    BY <2>2, <2>4, <2>5 DEF T
<1>10. AfterPin(r)'
  <2> SUFFICES ASSUME rd[r].at = "tables" PROVE AfterPin(r)'
    BY <1>3 DEF AfterPin
  <2>1. PinView(r)' = PinView(r) /\ dir' = dir
    BY <1>1, <1>3 DEF PinView
  <2>2. Covers(rd'[r].seen, rd'[r].mem, rd'[r].key, PinView(r))
    BY <1>3 DEF ReaderFine, AfterPin, Covers
  <2>3. Covers(rd[r].seen, rd[r].mem, rd[r].key, PinView(r))'
    BY <2>1, <2>2 DEF Covers, IsTop, Probe, Tables
  <2>4. /\ rd'[r].pin \in Version /\ rd'[r].pin.nextSeq <= MaxWrites + 1
        /\ Holds(rd'[r].pin, dir'.live.files) /\ TiersOrdered(rd'[r].pin, dir'.live.files)
    BY <1>3, <2>1 DEF ReaderFine, AfterPin
  <2> QED
    BY <2>3, <2>4 DEF AfterPin, Holds, TiersOrdered
<1> QED
  BY <1>7, <1>8, <1>9, <1>10 DEF ReaderFine

\* A crash ends every call, and no reader runs before open_on has returned.
LEMMA CrashReaders ==
  ASSUME NEW r \in Readers, ReaderFine(r), PowerLoss \/ Open
  PROVE  ReaderFine(r)'
<1>1. rd'[r].at = "idle"
  <2>1. CASE PowerLoss
    <3>1. rd' = [s \in Readers |-> NoRead]
      BY <2>1 DEF PowerLoss, Die
    <3> QED
      BY <3>1 DEF NoRead
  <2>2. CASE Open
    BY <2>2 DEF Open, ReaderFine, Reading
  <2> QED
    BY <2>1, <2>2
<1> QED
  BY <1>1 DEF ReaderFine, Reading, HitKept, BeforePin, AfterPin, ReadDone

\* A merge finds a newest entry of its sources, and so does a lookup that stops at its
\* first hit when the sources are in order.
LEMMA SourcesTop ==
  ASSUME NEW n \in Nat \ {0}, NEW sources \in Seq(TablesBelow(n)), sources # <<>>, NEW k \in Keys
  PROVE  /\ IsTop(Newest(sources, k), {table[k] : table \in ToSet(sources)})
         /\ Ordered(sources) => IsTop(FirstHit(sources, k), {table[k] : table \in ToSet(sources)})
<1>1. /\ DOMAIN sources \subseteq Nat /\ DOMAIN sources # {}
      /\ \A i \in DOMAIN sources : sources[i] \in TablesBelow(n)
  <2> DEFINE B == TablesBelow(n)
  <2>1. sources \in Seq(B)
    OBVIOUS
  <2> HIDE DEF B
  <2>2. /\ DOMAIN sources = 1 .. Len(sources) /\ Len(sources) \in Nat \ {0}
        /\ \A i \in DOMAIN sources : sources[i] \in B
    BY <2>1
  <2>3. 1 \in DOMAIN sources /\ DOMAIN sources \subseteq Nat
    BY <2>2
  <2> QED
    BY <2>2, <2>3 DEF B
<1>2. \A i \in DOMAIN sources : Newest(sources, k).seq >= sources[i][k].seq
  BY <1>1, NewestOver
<1>3. \E j \in DOMAIN sources : Newest(sources, k) = sources[j][k]
  BY <1>1, NewestOver
<1>4. \A i \in DOMAIN sources : sources[i][k] \in Below(n)
  BY <1>1 DEF TablesBelow
<1>5. \A e \in Below(n) : e.seq \in Nat
  BY BelowFacts
<1>6. IsTop(Newest(sources, k), {table[k] : table \in ToSet(sources)})
  <2>1. Newest(sources, k).seq \in Nat
    BY <1>3, <1>4, <1>5
  <2>2. \A i \in DOMAIN sources : sources[i][k].seq <= Newest(sources, k).seq
    BY <1>2, <1>4, <1>5, <2>1
  <2> QED
    BY <1>3, <2>2 DEF IsTop, ToSet
<1>7. ASSUME Ordered(sources) PROVE FirstHit(sources, k) = Newest(sources, k)
  <2>1. \A i, j \in DOMAIN sources :
          i < j /\ sources[i][k] # Absent => sources[i][k].seq >= sources[j][k].seq
    BY <1>7 DEF Ordered, TableOver, Over
  <2> QED
    BY <2>1, FirstHitNewest
<1> QED
  BY <1>6, <1>7

\* What a reader finds in the memtables is the newest they hold: a get and a scan agree.
LEMMA MemHit ==
  ASSUME DataInv, OrderInv, up, NEW k \in Keys
  PROVE  /\ IsTop(FirstHit(MemSources, k), {table[k] : table \in MemTables})
         /\ IsTop(Newest(<<active>> \o frozen, k), {table[k] : table \in MemTables})
<1> DEFINE S == TablesBelow(nextSeq)
           mem == <<active>>
           rev == Reverse(frozen)
           ssts == TableSources(version, dir.live.files)
<1>1. nextSeq \in Nat \ {0}
  BY DbAssumption DEF DataInv, ClockOK, Clocks
<1>2. mem \in Seq(S) /\ frozen \in Seq(S) /\ rev \in Seq(S) /\ ToSet(rev) = ToSet(frozen)
  BY ReverseType, ReverseSet DEF DataInv, BufferOK
<1>3. ssts \in Seq(S)
  BY <1>1, CurrentView, TableSourcesBelow
<1>4. ToSet(mem) = {active} /\ MemTables = {active} \cup ToSet(frozen) /\ Len(mem) = 1
  BY DEF ToSet, MemTables
<1>5. MemSources = mem \o rev /\ Sources = (mem \o rev) \o ssts /\ Ordered(Sources)
  BY SourcesOrdered DEF Sources, LiveSources, MemSources
<1> HIDE DEF S, mem, rev, ssts
<1>6. /\ mem \o rev \in Seq(S) /\ ToSet(mem \o rev) = MemTables
      /\ mem \o frozen \in Seq(S) /\ ToSet(mem \o frozen) = MemTables
  BY <1>2, <1>4, ConcatSet, ConcatType
<1> DEFINE front == mem \o rev
<1>7. Ordered(front)
  <2>1. \A i \in 1 .. Len(front) : (front \o ssts)[i] = front[i]
    BY <1>3, <1>6, ConcatIndex
  <2>2. /\ front \o ssts \in Seq(S) /\ front \in Seq(S)
        /\ Len(front \o ssts) = Len(front) + Len(ssts) /\ Len(ssts) \in Nat
    BY <1>3, <1>6, ConcatType
  <2>3. Ordered(front \o ssts)
    BY <1>5
  <2> HIDE DEF front
  <2>4. DOMAIN front \subseteq DOMAIN (front \o ssts) /\ DOMAIN front = 1 .. Len(front)
    BY <2>2
  <2> QED
    BY <2>1, <2>3, <2>4 DEF Ordered
<1>8. mem \o rev # <<>> /\ mem \o frozen # <<>>
  BY <1>4, <1>6 DEF ToSet, MemTables
<1>9. /\ IsTop(FirstHit(mem \o rev, k), {table[k] : table \in MemTables})
      /\ IsTop(Newest(mem \o frozen, k), {table[k] : table \in MemTables})
  BY <1>1, <1>6, <1>7, <1>8, SourcesTop DEF S
<1> QED
  BY <1>5, <1>9 DEF mem

\* An entry in the memtables is newer than all the tables of the current version hold:
\* the newest there is what get(k) returns.
LEMMA MemShown ==
  ASSUME DataInv, OrderInv, Shown, up, NEW k \in Keys, NEW e, e # Absent,
         IsTop(e, {table[k] : table \in MemTables})
  PROVE  Value(e) = Value(Visible(k))
<1>1. Current \in Views
  BY DEF Current, Views
<1>2. Memory = MemTables
  BY DEF Memory
<1>3. e \in Found(Current, k)
  BY <1>2 DEF Found, IsTop
<1>4. \A x \in Found(Current, k) : x.seq \in Nat
  BY <1>1, FoundTyped
<1>5. PICK mine \in MemTables : e = mine[k]
  BY DEF IsTop
<1>6. \A table \in Tables(Current) : table[k].seq <= e.seq
  <2>1. \A table \in Tables(Current) : table \in Named /\ table \in Stored
    BY <1>1 DEF Tables, Named, Stored
  <2>2. \A table \in Tables(Current) : TableOver(mine, table)
    BY <1>5, <2>1 DEF OrderInv, MemOrder, MemTables, ToSet
  <2>3. \A table \in Tables(Current) : e.seq >= table[k].seq
    BY <1>5, <2>2 DEF TableOver, Over
  <2>4. \A table \in Tables(Current) : table[k] \in Found(Current, k)
    BY DEF Found
  <2> QED
    BY <1>3, <1>4, <2>3, <2>4
<1>7. IsTop(e, Found(Current, k))
  BY <1>2, <1>3, <1>6 DEF IsTop, Found
<1> QED
  BY <1>1, <1>7 DEF Shown

\* What a reader finds in the tables it has pinned, beside what it had from memory.
LEMMA PinHit ==
  ASSUME NEW v \in Version, NEW files, Holds(v, files), TiersOrdered(v, files),
         v.nextSeq <= MaxWrites + 1, NEW k \in Keys, NEW m \in Entry \cup {Absent}
  PROVE  /\ IsTop(Newest(<<[EmptyTable EXCEPT ![k] = m]>> \o TableSources(v, files), k),
                  Probe(m, k, [v |-> v, files |-> files]))
         /\ m = Absent => IsTop(FirstHit(TableSources(v, files), k),
                                Probe(m, k, [v |-> v, files |-> files]))
<1> DEFINE ssts == TableSources(v, files)
           mine == [EmptyTable EXCEPT ![k] = m]
           n == Max2(MaxWrites + 1, m.seq + 1)
           w == [v |-> v, files |-> files]
<1>1. /\ m.seq \in Nat /\ MaxWrites \in Nat /\ v.nextSeq \in Nat
      /\ n \in Nat \ {0} /\ v.nextSeq <= n /\ m.seq < n
  BY DbAssumption DEF Max2, Entry, Absent, Version
<1> HIDE DEF n
<1>2. ssts \in Seq(TablesBelow(n)) /\ Ordered(ssts)
  BY <1>1, TableSourcesBelow, TablesOrdered
<1>3. ToSet(ssts) = Tables(w)
  BY TableSet DEF Tables
<1>4. mine \in TablesBelow(n) /\ mine[k] = m
  BY <1>1, BelowFacts DEF EmptyTable, TablesBelow, Below
<1> HIDE DEF mine, ssts
<1>5. <<mine>> \in Seq(TablesBelow(n)) /\ ToSet(<<mine>>) = {mine} /\ Len(<<mine>>) = 1
  <2> DEFINE B == TablesBelow(n)
  <2>1. mine \in B
    BY <1>4
  <2> HIDE DEF B
  <2>2. <<mine>> \in Seq(B) /\ ToSet(<<mine>>) = {mine} /\ Len(<<mine>>) = 1
    BY <2>1 DEF ToSet
  <2> QED
    BY <2>2 DEF B
<1>6. <<mine>> \o ssts \in Seq(TablesBelow(n)) /\ ToSet(<<mine>> \o ssts) = {mine} \cup Tables(w)
  <2> DEFINE B == TablesBelow(n)
             one == <<mine>>
  <2>1. one \in Seq(B) /\ ssts \in Seq(B) /\ ToSet(one) = {mine} /\ ToSet(ssts) = Tables(w)
    BY <1>2, <1>3, <1>5
  <2> HIDE DEF B, one, w
  <2>2. one \o ssts \in Seq(B)
    BY <2>1, ConcatType
  <2>3. ToSet(one \o ssts) = ToSet(one) \cup ToSet(ssts)
    BY <2>1, ConcatSet
  <2> QED
    BY <2>1, <2>2, <2>3 DEF B, one, w
<1>7. <<mine>> \o ssts # <<>>
  BY <1>6 DEF ToSet
<1>8. {table[k] : table \in {mine} \cup Tables(w)} = Probe(m, k, w)
  BY <1>4 DEF Probe
<1> HIDE DEF w
<1>9. IsTop(Newest(<<mine>> \o ssts, k), Probe(m, k, w))
  BY <1>1, <1>6, <1>7, <1>8, SourcesTop
<1>10. ASSUME m = Absent PROVE IsTop(FirstHit(ssts, k), Probe(m, k, w))
  <2>1. CASE ssts = <<>>
    <3>1. Tables(w) = {} /\ FirstHit(ssts, k) = Absent
      BY <1>3, <2>1 DEF ToSet, FirstHit
    <3>2. Probe(m, k, w) = {Absent}
      BY <1>10, <3>1 DEF Probe
    <3> QED
      BY <3>1, <3>2 DEF IsTop, Absent
  <2>2. CASE ssts # <<>>
    <3>1. IsTop(FirstHit(ssts, k), {table[k] : table \in Tables(w)})
      BY <1>1, <1>2, <1>3, <2>2, SourcesTop
    <3>2. \A table \in Tables(w) : table[k].seq \in Nat
      <4>1. \A table \in Tables(w) : table \in TablesBelow(n)
        BY <1>2, <1>3 DEF ToSet
      <4>2. \A table \in Tables(w) : table[k] \in Below(n)
        BY <4>1 DEF TablesBelow
      <4> QED
        BY <1>1, <4>2, BelowFacts
    <3>3. Absent.seq = 0
      BY DEF Absent
    <3>4. FirstHit(ssts, k).seq \in Nat
      BY <3>1, <3>2 DEF IsTop
    <3> QED
      BY <1>10, <3>1, <3>3, <3>4 DEF IsTop, Probe
  <2> QED
    BY <2>1, <2>2
<1> QED
  BY <1>9, <1>10 DEF mine, ssts, w

\* The reader's own steps: the call, ...
LEMMA ReadStartFine ==
  ASSUME NEW r \in Readers, DataInv, \E k \in Keys, call \in {"get", "scan"} : ReadStart(r, k, call),
         \A k \in Keys : Value(Visible(k))' = Value(Visible(k))
  PROVE  ReaderFine(r)'
<1>1. PICK k \in Keys, call \in {"get", "scan"} : ReadStart(r, k, call)
  OBVIOUS
<1>2. /\ rd'[r].at = "mem" /\ rd'[r].key = k /\ rd'[r].seen = {Value(Visible(k))} /\ up'
  BY <1>1 DEF ReadStart, DataInv, ReadersOK, NoRead
<1>3. Reading(r)'
  <2> SUFFICES (Value(Visible(rd[r].key)) \in rd[r].seen)'
    BY <1>2 DEF Reading
  <2>1. \A j \in Keys : j = rd'[r].key => Value(Visible(j))' \in rd'[r].seen
    BY <1>2
  <2> QED
    BY <1>2, <2>1
<1> QED
  BY <1>2, <1>3 DEF ReaderFine, HitKept, BeforePin, AfterPin, ReadDone

\* ... the look into the memtables, ...
LEMMA ReadMemFine ==
  ASSUME DataInv, OrderInv, Shown, NEW r \in Readers, ReaderFine(r), ReadMem(r),
         \A k \in Keys : Value(Visible(k))' = Value(Visible(k))
  PROVE  ReaderFine(r)'
<1> DEFINE k == rd[r].key
           S == rd[r].seen
           hit == IF rd[r].call = "get" THEN FirstHit(MemSources, k)
                  ELSE Newest(<<active>> \o frozen, k)
<1>1. /\ up /\ up' /\ rd[r].at = "mem" /\ UNCHANGED <<active, frozen, dir, version, flush, up>>
      /\ rd' = [rd EXCEPT ![r].mem = hit,
                          ![r].at = IF rd[r].call = "get" /\ hit # Absent THEN "done" ELSE "pin",
                          ![r].got = Value(hit)]
  BY DEF ReadMem, memVars, diskVars
<1>2. k \in Keys /\ Value(Visible(k)) \in S
  BY <1>1 DEF ReaderFine, Reading
<1>3. IsTop(hit, {table[k] : table \in MemTables})
  BY <1>1, <1>2, MemHit
<1> HIDE DEF hit
<1>4. /\ rd'[r].call = rd[r].call /\ rd'[r].key = k /\ rd'[r].seen = S
      /\ rd'[r].mem = hit /\ rd'[r].got = Value(hit)
      /\ rd'[r].at = IF rd[r].call = "get" /\ hit # Absent THEN "done" ELSE "pin"
  <2>1. /\ r \in DOMAIN rd
        /\ rd[r] = [at |-> rd[r].at, call |-> rd[r].call, key |-> rd[r].key, mem |-> rd[r].mem,
                    pin |-> rd[r].pin, seen |-> rd[r].seen, got |-> rd[r].got]
    BY DEF DataInv, ReadersOK
  <2> QED
    BY <1>1, <2>1
<1>5. Views' = Views /\ MemTables' = MemTables
  BY <1>1 DEF Views, MemTables
<1>6. Memory = MemTables /\ Current \in Views
  BY <1>1 DEF Memory, Views, Current
<1> HIDE DEF k, S
<1>7. \A w \in Views : \A x \in Found(w, k) : x \in Entry \cup {Absent} /\ x.seq \in Nat
  BY <1>2, FoundTyped
<1>8. hit \in Entry \cup {Absent} /\ hit.seq \in Nat
  BY <1>3, <1>6, <1>7 DEF IsTop, Found
<1>9. \A x : x # Absent /\ IsTop(x, {table[k] : table \in MemTables}) => Value(x) \in S
  BY <1>1, <1>2, MemShown
<1>10. ASSUME NEW w \in Views PROVE Covers(S, hit, k, w)
  <2> SUFFICES ASSUME NEW e, IsTop(e, Probe(hit, k, w)) PROVE Value(e) \in S
    BY DEF Covers
  <2>1. Found(w, k) = {table[k] : table \in MemTables} \cup {table[k] : table \in Tables(w)}
    BY <1>6 DEF Found
  <2>2. e \in Found(w, k) /\ e.seq \in Nat /\ hit.seq <= e.seq
    BY <1>3, <1>7, <2>1 DEF IsTop, Probe
  <2>3. \A x \in {table[k] : table \in MemTables} : x.seq <= e.seq
    BY <1>3, <1>7, <1>8, <2>1, <2>2 DEF IsTop
  <2>4. IsTop(e, Found(w, k))
    BY <2>1, <2>2, <2>3 DEF IsTop, Probe
  <2> QED
    BY <1>2, <2>4 DEF Shown
<1>11. ASSUME NEW table \in MemTables, table[k] # Absent, hit.seq <= table[k].seq
       PROVE  Value(table[k]) \in S
  <2>1. \A x \in {mine[k] : mine \in MemTables} : x.seq \in Nat
    BY <1>6, <1>7 DEF Found
  <2>2. IsTop(table[k], {mine[k] : mine \in MemTables})
    BY <1>3, <1>8, <1>11, <2>1 DEF IsTop
  <2> QED
    BY <1>9, <1>11, <2>2
<1>12. Reading(r)'
  <2> SUFFICES (Value(Visible(rd[r].key)) \in rd[r].seen)'
    BY <1>1, <1>2, <1>4 DEF Reading
  <2>1. \A j \in Keys : j = rd'[r].key => Value(Visible(j))' \in rd'[r].seen
    BY <1>2, <1>4
  <2> QED
    BY <1>2, <1>4, <2>1
<1>13. HitKept(r)' /\ ReadDone(r)'
  BY <1>3, <1>4, <1>8, <1>9 DEF HitKept, ReadDone
<1>14. BeforePin(r)'
  <2>1. \A w \in Views' : Covers(rd'[r].seen, rd'[r].mem, rd'[r].key, w)
    BY <1>4, <1>5, <1>10
  <2>2. \A table \in MemTables' : \/ table[rd'[r].key] = Absent
                                  \/ ~(rd'[r].mem.seq <= table[rd'[r].key].seq)
                                  \/ Value(table[rd'[r].key]) \in rd'[r].seen
    BY <1>4, <1>5, <1>11
  <2> QED
    BY <2>1, <2>2 DEF BeforePin, Covers, IsTop, Probe, Tables
<1>15. AfterPin(r)'
  BY <1>4 DEF AfterPin
<1> QED
  BY <1>12, <1>13, <1>14, <1>15 DEF ReaderFine

\* ... the version it takes from the manifest, ...
LEMMA ReadPinFine ==
  ASSUME DataInv, OrderInv, NEW r \in Readers, ReaderFine(r), ReadPin(r),
         \A k \in Keys : Value(Visible(k))' = Value(Visible(k))
  PROVE  ReaderFine(r)'
<1>1. /\ up /\ up' /\ rd[r].at = "pin" /\ UNCHANGED <<dir, version>>
      /\ rd' = [rd EXCEPT ![r].pin = version, ![r].at = "tables"]
  BY DEF ReadPin, diskVars
<1>2. /\ rd'[r].at = "tables" /\ rd'[r].call = rd[r].call /\ rd'[r].key = rd[r].key
      /\ rd'[r].seen = rd[r].seen /\ rd'[r].mem = rd[r].mem /\ rd'[r].pin = version
  <2>1. /\ r \in DOMAIN rd
        /\ rd[r] = [at |-> rd[r].at, call |-> rd[r].call, key |-> rd[r].key, mem |-> rd[r].mem,
                    pin |-> rd[r].pin, seen |-> rd[r].seen, got |-> rd[r].got]
    BY DEF DataInv, ReadersOK
  <2> QED
    BY <1>1, <2>1
<1>3. rd[r].key \in Keys /\ Value(Visible(rd[r].key)) \in rd[r].seen
  BY <1>1 DEF ReaderFine, Reading
<1>4. Reading(r)'
  <2> SUFFICES (Value(Visible(rd[r].key)) \in rd[r].seen)'
    BY <1>1, <1>2, <1>3 DEF Reading
  <2>1. \A j \in Keys : j = rd'[r].key => Value(Visible(j))' \in rd'[r].seen
    BY <1>2, <1>3
  <2> QED
    BY <1>2, <1>3, <2>1
<1>5. HitKept(r)' /\ ReadDone(r)' /\ BeforePin(r)'
  BY <1>1, <1>2 DEF ReaderFine, HitKept, ReadDone, BeforePin
<1>6. AfterPin(r)'
  <2>1. PinView(r)' = Current
    BY <1>1, <1>2 DEF PinView, Current
  <2>2. Current \in Views
    BY <1>1 DEF Views, Current
  <2>3. Covers(rd'[r].seen, rd'[r].mem, rd'[r].key, Current)
    BY <1>1, <1>2, <2>2 DEF ReaderFine, BeforePin
  <2>4. Covers(rd[r].seen, rd[r].mem, rd[r].key, PinView(r))'
    BY <2>1, <2>3 DEF Covers, IsTop, Probe, Tables
  <2>5. /\ version \in Version /\ version.nextSeq \in 1 .. nextSeq
        /\ Holds(version, dir.live.files) /\ TiersOrdered(version, dir.live.files)
    BY <1>1, CurrentView
  <2>6. version.nextSeq <= MaxWrites + 1
    BY <2>5, DbAssumption DEF DataInv, ClockOK, Clocks
  <2>7. /\ rd'[r].pin \in Version /\ rd'[r].pin.nextSeq <= MaxWrites + 1
        /\ Holds(rd'[r].pin, dir'.live.files) /\ TiersOrdered(rd'[r].pin, dir'.live.files)
    BY <1>1, <1>2, <2>5, <2>6
  <2> QED
    BY <2>4, <2>7 DEF AfterPin, Holds, TiersOrdered
<1> QED
  BY <1>4, <1>5, <1>6 DEF ReaderFine

\* ... the pinned tables, and the return.
LEMMA ReadTablesFine ==
  ASSUME DataInv, NEW r \in Readers, ReaderFine(r), ReadTables(r),
         \A k \in Keys : Value(Visible(k))' = Value(Visible(k))
  PROVE  ReaderFine(r)'
<1> DEFINE k == rd[r].key
           m == rd[r].mem
           tables == TableSources(rd[r].pin, dir.live.files)
           found == IF rd[r].call = "get" THEN FirstHit(tables, k)
                    ELSE Newest(<<[EmptyTable EXCEPT ![k] = m]>> \o tables, k)
<1>1. /\ up /\ up' /\ rd[r].at = "tables"
      /\ rd' = [rd EXCEPT ![r].at = "done", ![r].got = Value(found), ![r].pin = EmptyVersion]
  BY DEF ReadTables
<1>2. /\ k \in Keys /\ Value(Visible(k)) \in rd[r].seen
      /\ m \in Entry \cup {Absent} /\ (rd[r].call = "get" => m = Absent)
      /\ Covers(rd[r].seen, m, k, PinView(r))
      /\ rd[r].pin \in Version /\ rd[r].pin.nextSeq <= MaxWrites + 1
      /\ Holds(rd[r].pin, dir.live.files) /\ TiersOrdered(rd[r].pin, dir.live.files)
  BY <1>1 DEF ReaderFine, Reading, HitKept, AfterPin
<1>3. IsTop(found, Probe(m, k, PinView(r)))
  BY <1>2, PinHit DEF PinView
<1>4. Value(found) \in rd[r].seen
  BY <1>2, <1>3 DEF Covers
<1> HIDE DEF found
<1>5. /\ rd'[r].at = "done" /\ rd'[r].key = k /\ rd'[r].seen = rd[r].seen
      /\ rd'[r].got = Value(found)
  <2>1. /\ r \in DOMAIN rd
        /\ rd[r] = [at |-> rd[r].at, call |-> rd[r].call, key |-> rd[r].key, mem |-> rd[r].mem,
                    pin |-> rd[r].pin, seen |-> rd[r].seen, got |-> rd[r].got]
    BY DEF DataInv, ReadersOK
  <2> QED
    BY <1>1, <2>1
<1> HIDE DEF k, m
<1>6. Reading(r)'
  <2> SUFFICES (Value(Visible(rd[r].key)) \in rd[r].seen)'
    BY <1>1, <1>2, <1>5 DEF Reading
  <2>1. \A j \in Keys : j = rd'[r].key => Value(Visible(j))' \in rd'[r].seen
    BY <1>2, <1>5
  <2> QED
    BY <1>2, <1>5, <2>1
<1> QED
  BY <1>4, <1>5, <1>6 DEF ReaderFine, HitKept, BeforePin, AfterPin, ReadDone

\* A call that returns is over.
LEMMA ReadReturnFine ==
  ASSUME DataInv, NEW r \in Readers, ReadReturn(r)
  PROVE  ReaderFine(r)'
<1>1. rd'[r].at = "idle"
  BY DEF ReadReturn, DataInv, ReadersOK, NoRead
<1> QED
  BY <1>1 DEF ReaderFine, Reading, HitKept, BeforePin, AfterPin, ReadDone

\* Every step keeps what the calls in progress rely on.
LEMMA StepReaders ==
  ASSUME DataInv, GateOK, OrderInv, AckedInv, Shown, KeepsOrder, [Next]_vars, DataInv', OrderInv',
         NEW r \in Readers, ReaderFine(r)
  PROVE  ReaderFine(r)'
<1>1. CASE \E t \in Threads : Apply(t)
  BY <1>1, ApplyReader
<1>2. CASE PowerLoss \/ Open
  BY <1>2, CrashReaders
<1>3. ~Kill
  BY DEF KeepsOrder, Kill, Fault
<1>4. ASSUME ~PowerLoss, \A t \in Threads : ~Apply(t)
      PROVE  \A k \in Keys : Value(Visible(k))' = Value(Visible(k))
  BY <1>4, StepTops, ShownKept
<1>5. CASE (\E t \in Threads : WriterStep(t) /\ ~Apply(t)) \/ SyncLog \/ FlushStep
  <2>1. up /\ up' /\ rd' = rd /\ PinsKept /\ ProbesKept /\ MemKept
    BY <1>5, BesideReaders
  <2> QED
    BY <1>1, <1>2, <1>4, <2>1, ReaderKept
<1>6. CASE \E s \in Readers : ReaderStep(s)
  <2>1. PICK s \in Readers : ReaderStep(s)
    BY <1>6
  <2>2. up /\ up' /\ UNCHANGED <<pc, active, frozen, dir, version, flush, up>>
    <3>1. up /\ UNCHANGED <<gateVars, memVars, diskVars, version, flush, up>>
      BY <2>1 DEF ReaderStep, ReadStart, ReadMem, ReadPin, ReadTables, ReadReturn
    <3> QED
      BY <3>1 DEF gateVars, memVars, diskVars
  <2>3. CASE s # r
    <3>1. rd'[r] = rd[r]
      BY <2>1, <2>3 DEF ReaderStep, ReadStart, ReadMem, ReadPin, ReadTables, ReadReturn,
                        DataInv, ReadersOK
    <3>2. Views' = Views /\ MemTables' = MemTables
      BY <2>2 DEF Views, MemTables
    <3>3. PinsKept
      BY <2>2 DEF PinsKept
    <3> QED
      BY <1>1, <1>2, <1>4, <2>2, <3>1, <3>2, <3>3, SameProbes, SameMemory, ReaderKept
  <2>4. CASE s = r
    BY <1>1, <1>2, <1>4, <2>1, <2>4, ReadStartFine, ReadMemFine, ReadPinFine, ReadTablesFine,
       ReadReturnFine DEF ReaderStep
  <2> QED
    BY <2>3, <2>4
<1>7. CASE UNCHANGED vars
  <2>1. UNCHANGED <<up, active, frozen, dir, version, flush, rd>>
    BY <1>7 DEF vars, memVars, diskVars
  <2>2. CASE up
    <3>1. Views' = Views /\ MemTables' = MemTables
      BY <2>1 DEF Views, MemTables
    <3>2. PinsKept
      BY <2>1 DEF PinsKept
    <3> QED
      BY <1>1, <1>2, <1>4, <2>1, <2>2, <3>1, <3>2, SameProbes, SameMemory, ReaderKept
  <2>3. CASE ~up
    <3>1. rd'[r].at = "idle"
      BY <2>1, <2>3 DEF ReaderFine, Reading
    <3> QED
      BY <3>1 DEF ReaderFine, Reading, HitKept, BeforePin, AfterPin, ReadDone
  <2> QED
    BY <2>2, <2>3
<1> QED
  BY <1>1, <1>2, <1>3, <1>5, <1>6, <1>7 DEF Next

\* No call is in progress at the start.
LEMMA InitReaders == Init => \A r \in Readers : ReaderFine(r)
BY DEF Init, NoRead, ReaderFine, Reading, HitKept, BeforePin, AfterPin, ReadDone

(***************************************************************************)
(* A get or a scan returns a value that its key had at some moment of the  *)
(* call, whatever writes, flushes, WAL resets and compactions run beside   *)
(* it: it looks at the memtables first and at one version's tables after   *)
(* that (get and scan, db.rs), each atomically, but not both at once.      *)
(***************************************************************************)
THEOREM DbReadsRegular == KeepsOrder => (Spec => []ReadsRegular)
<1> SUFFICES ASSUME KeepsOrder PROVE Spec => []ReadsRegular
  OBVIOUS
<1> DEFINE Fine == \A r \in Readers : ReaderFine(r)
<1>1. Init => Fine
  BY InitReaders
<1>2. /\ DataInv /\ GateOK /\ OrderInv /\ AckedInv /\ Shown /\ Fine /\ [Next]_vars
      /\ DataInv' /\ OrderInv'
      => Fine'
  BY StepReaders
<1>3. Fine => ReadsRegular
  BY DEF ReaderFine, ReadDone, ReadsRegular
<1>4. (Spec => []OrderInv) /\ (Spec => []AckedInv) /\ (Spec => []Shown)
  BY DbOrderInductive, DbAckedInductive, DbViewsAgree
<1> HIDE DEF Fine
<1> QED
  BY <1>1, <1>2, <1>3, <1>4, DbDataInductive, DbGateOK, PTL DEF Spec

-----------------------------------------------------------------------------
\* A write between its claim and the memtable; a record that every view has reached.
InProgress(t) == pc[t] \in {"append", "apply"}
Reached(r) == \A w \in Views : \E x \in Found(w, r.key) : r.seq <= x.seq

(***************************************************************************)
(* Without I/O errors no write is given up; one that will find a newer     *)
(* entry in the memtable has been lapped; and what a crash may replay is   *)
(* either a write still in progress or already behind what is shown.       *)
(***************************************************************************)
NoAborts == \A t \in Threads : pc[t] # "abort"
LateLapped ==
  \A t \in Threads : InProgress(t) /\ active[op[t].key].seq >= op[t].seq => t \in lapped
LogSettled ==
  up => \A r \in Rec : InLog(r) => (\E t \in Threads : InProgress(t) /\ op[t] = r) \/ Reached(r)

StoreInv == NoAborts /\ LateLapped /\ LogSettled

\* The only faults are power losses.
PowerOnly == Faults \subseteq {"power"}

\* What a lookup finds it still finds.
FoundGrows ==
  \A w \in Views' : \E u \in Views : \A k \in Keys : Found(u, k) \subseteq Found(w, k)'

\* The seqs of the records of a key are those the log has for it.
LEMMA LoggedSeq ==
  ASSUME DataInv, NEW r \in Rec, InLog(r)
  PROVE  r.seq \in LoggedSeqs(LogSegs, r.key)
<1>1. PICK seg \in LogSegs : \E i \in 1 .. Len(seg.recs) : DecodeRecord(seg.recs[i]) = r
  BY DEF InLog
<1>2. PICK i \in 1 .. Len(seg.recs) : DecodeRecord(seg.recs[i]) = r
  BY <1>1
<1>3. seg \in Segment
  BY LogTyped
<1>4. seg.recs \in Seq(Payloads)
  BY <1>3 DEF Segment
<1>5. seg.recs[i] \in Payloads
  BY <1>4
<1>6. r.seq <= MaxWrites
  BY <1>2, <1>5, Decoded
<1>7. r.seq \in 1 .. MaxWrites
  BY <1>6, DbAssumption DEF Rec
<1> QED
  BY <1>1, <1>2, <1>7 DEF LoggedSeqs

\* What a recovery would replay.
Replays ==
  \A k \in Keys :
    /\ \A s \in LoggedSeqs(LogSegs, k) : Replay(Records(wal.segs))[k].seq >= s
    /\ \/ Replay(Records(wal.segs))[k] = Absent
       \/ \E r \in Rec : r.key = k /\ InLog(r) /\ Replay(Records(wal.segs))[k] = EntryOf(r)

\* The newest record of each key: stated so that it can be used after a step, too.
LEMMA RecoveryReplays == DataInv /\ OrderInv /\ ~up => Replays
<1> SUFFICES ASSUME DataInv, OrderInv, ~up, NEW k \in Keys
             PROVE  /\ \A s \in LoggedSeqs(LogSegs, k) : Replay(Records(wal.segs))[k].seq >= s
                    /\ \/ Replay(Records(wal.segs))[k] = Absent
                       \/ \E r \in Rec : r.key = k /\ InLog(r)
                                         /\ Replay(Records(wal.segs))[k] = EntryOf(r)
  BY DEF Replays
<1>1. wal.segs \in Seq(Segment) /\ flush.stage = "none"
  BY DEF DataInv, LogOK, Log, ClockOK
<1>2. LogSegs = ToSet(wal.segs)
  BY <1>1, LiveLog DEF OrderInv
<1>3. \A s \in LoggedSeqs(LogSegs, k) : Replay(Records(wal.segs))[k].seq >= s
  BY <1>1, <1>2, RecoveredTable
<1> QED
  BY <1>3, ReplayLogged

\* A value that get(k) returns is a write's number, or 0.
LEMMA VisibleTyped == DataInv /\ OrderInv => \A k \in Keys : Value(Visible(k)) \in 0 .. MaxWrites
<1> SUFFICES ASSUME DataInv, OrderInv, NEW k \in Keys
             PROVE  Value(Visible(k)) \in 0 .. MaxWrites
  OBVIOUS
<1> DEFINE n == MaxWrites + 1
           src == Sources
<1>1. n \in Nat \ {0} /\ src \in Seq(TablesBelow(n)) /\ Ordered(src)
  BY SourcesOrdered, DbAssumption
<1>2. Visible(k) = FirstHit(src, k)
  BY DEF Visible
<1> HIDE DEF n, src
<1>3. \A i, j \in DOMAIN src : i < j /\ src[i][k] # Absent => src[i][k].seq >= src[j][k].seq
  BY <1>1 DEF Ordered, TableOver, Over
<1>4. FirstHit(src, k) = Newest(src, k)
  BY <1>1, <1>3, FirstHitNewest
<1>5. DOMAIN src \subseteq Nat /\ \A i \in DOMAIN src : src[i] \in TablesBelow(n)
  BY <1>1
<1>6. Newest(src, k) \in Below(n)
  BY <1>1, <1>5, NewestBelow
<1>7. Visible(k).seq \in Nat /\ Visible(k).seq < n
  BY <1>1, <1>2, <1>4, <1>6, BelowFacts
<1> QED
  BY <1>7, DbAssumption DEF n, Value

\* Whatever is in the log, a lookup after the crash has reached it, or a caller waits.
LEMMA LogReached ==
  ASSUME DataInv, OrderInv, LogSettled, NEW r \in Rec, InLog(r)
  PROVE  (\E t \in Threads : InProgress(t) /\ op[t] = r) \/ Reached(r)
<1>1. CASE up
  BY <1>1 DEF LogSettled
<1>2. CASE ~up
  <2> DEFINE k == r.key
             e == Replay(Records(wal.segs))[k]
  <2>1. k \in Keys
    BY DEF Rec
  <2>2. e.seq >= r.seq
    BY <1>2, <2>1, LoggedSeq, RecoveryReplays DEF Replays
  <2>3. \A w \in Views : e \in Found(w, k)
    BY <1>2 DEF Found, Memory
  <2>4. r.seq \in Nat /\ \A w \in Views : \A x \in Found(w, k) : x.seq \in Nat
    BY <2>1, FoundTyped DEF Rec
  <2> HIDE DEF e
  <2>5. \A w \in Views : \E x \in Found(w, k) : r.seq <= x.seq
    BY <2>2, <2>3, <2>4
  <2> QED
    BY <2>5 DEF Reached
<1> QED
  BY <1>1, <1>2

\* Steps other than a claim and an effect leave the writes in progress as they are.
CallsStill ==
  /\ lapped' = lapped
  /\ \A t \in Threads : /\ InProgress(t)' <=> InProgress(t)
                        /\ InProgress(t) => op'[t] = op[t]

\* The steps of a writer between its claim and its insert, and after that.
LEMMA WriterCalls ==
  ASSUME DataInv, GateOK, NoAborts, PowerOnly, NEW t \in Threads, WriterStep(t), ~Apply(t),
         \A k \in Keys, kind \in WriteKinds : ~Claim(t, k, kind)
  PROVE  NoAborts' /\ CallsStill
<1>1. ~AppendErr(t)
  BY Unspared DEF Fault, PowerOnly
<1>2. ~Abort(t)
  BY DEF Abort, Gate!Abort, Gate!Goto, NoAborts
<1>3. pc \in [Threads -> Gate!PCs] /\ DOMAIN op = Threads
  BY DEF GateOK, Gate!TypeOK, DataInv, OpsOK
<1>4. CASE LogRecord(t) \/ WaitOrWake(t)
  <2>1. pc' = pc /\ op' = op /\ lapped' = lapped
    BY <1>4 DEF LogRecord, WaitOrWake, Gate!WaitForGate, Gate!WaitAgain, Gate!SpuriousWake,
                gateVars, ghostVars
  <2> QED
    BY <2>1 DEF NoAborts, CallsStill, InProgress
<1>5. CASE StartWrite(t) \/ AppendOk(t)
  <2>1. /\ op' = op /\ lapped' = lapped
        /\ \E from, to \in Gate!PCs : /\ pc[t] = from /\ pc' = [pc EXCEPT ![t] = to]
                                      /\ to # "abort"
                                      /\ from \in {"append", "apply"} <=> to \in {"append", "apply"}
    BY <1>5 DEF StartWrite, AppendOk, Gate!StartWrite, Gate!AppendOk, Gate!Goto, Gate!PCs, ghostVars
  <2> QED
    BY <1>3, <2>1 DEF NoAborts, CallsStill, InProgress
<1>6. CASE Finish(t) \/ FinishFull(t) \/ StartFlush(t) \/ EnterBody(t) \/ FlushDone(t)
  <2>1. lapped' = lapped /\ \A u \in Threads : u # t => op'[u] = op[u]
    BY <1>6, <1>3 DEF Finish, FinishFull, StartFlush, EnterBody, FlushDone, Acknowledge, ghostVars
  <2>2. \E from, to \in Gate!PCs : /\ pc[t] = from /\ pc' = [pc EXCEPT ![t] = to]
                                   /\ to # "abort"
                                   /\ from \notin {"append", "apply"}
                                   /\ to \notin {"append", "apply"}
    BY <1>6 DEF Finish, FinishFull, StartFlush, EnterBody, FlushDone, Gate!Finish,
                Gate!FinishFull, Gate!StartFlush, Gate!EnterBody, Gate!FlushDone,
                Gate!EnterFlush, Gate!Goto, Gate!PCs
  <2> QED
    BY <1>3, <2>1, <2>2 DEF NoAborts, CallsStill, InProgress
<1> QED
  BY <1>1, <1>2, <1>4, <1>5, <1>6 DEF WriterStep

\* The steps of the log, of flush bodies, readers and recovery are nobody's call.
LEMMA OtherCalls ==
  ASSUME NoAborts,
         SyncLog \/ FlushStep \/ (\E r \in Readers : ReaderStep(r)) \/ Open \/ UNCHANGED vars
  PROVE  NoAborts' /\ CallsStill
<1>1. pc' = pc /\ op' = op /\ lapped' = lapped
  <2>1. CASE SyncLog \/ Open \/ UNCHANGED vars
    BY <2>1 DEF SyncLog, Open, vars, gateVars, ghostVars
  <2>2. CASE FlushStep
    BY <2>2 DEF FlushStep, Freeze, FlushTable, RenameManifest, SyncManifest, SwapVersion,
                GcTables, GcSync, Discard, ResetCreate, RetireSegment, RetireSpare, ResetSync,
                ResetErr, Compact, CompactNothing, FlushErr, gateVars, ghostVars
  <2>3. CASE \E r \in Readers : ReaderStep(r)
    BY <2>3 DEF ReaderStep, ReadStart, ReadMem, ReadPin, ReadTables, ReadReturn, gateVars, ghostVars
  <2> QED
    BY <2>1, <2>2, <2>3
<1> QED
  BY <1>1 DEF NoAborts, CallsStill, InProgress

\* Such a step keeps the rest as well when it takes nothing from what lookups find,
\* logs nothing and leaves no memtable entry behind.
LEMMA SettledStill ==
  ASSUME DataInv, LateLapped, LogSettled, CallsStill, up, FoundGrows, RecsKept,
         active' = active \/ active' = EmptyTable
  PROVE  LateLapped' /\ LogSettled'
<1>1. LateLapped'
  <2> SUFFICES ASSUME NEW t \in Threads, InProgress(t)', active'[op'[t].key].seq >= op'[t].seq
               PROVE  t \in lapped'
    BY DEF LateLapped
  <2>1. InProgress(t) /\ op'[t] = op[t]
    BY DEF CallsStill
  <2>2. op[t] \in Rec
    BY <2>1 DEF DataInv, OpsOK, Gate!Claimed, InProgress
  <2>3. op[t].key \in Keys /\ op[t].seq \in Nat \ {0}
    BY <2>2 DEF Rec
  <2>4. CASE active' = EmptyTable
    <3>1. active'[op[t].key].seq = 0
      BY <2>3, <2>4 DEF EmptyTable, Absent
    <3> QED
      BY <2>1, <2>3, <3>1
  <2>5. CASE active' = active
    BY <2>1, <2>5 DEF LateLapped, CallsStill
  <2> QED
    BY <2>4, <2>5
<1>2. LogSettled'
  <2> SUFFICES ASSUME NEW r \in Rec, InLog(r)', ~\E t \in Threads : InProgress(t)' /\ op'[t] = r
               PROVE  \A w \in Views' : \E x \in Found(w, r.key)' : r.seq <= x.seq
    BY DEF LogSettled, Reached
  <2>1. InLog(r) /\ ~\E t \in Threads : InProgress(t) /\ op[t] = r
    BY DEF RecsKept, CallsStill
  <2>2. Reached(r) /\ r.key \in Keys
    BY <2>1 DEF LogSettled, Rec
  <2> QED
    BY <2>2 DEF FoundGrows, Reached
<1> QED
  BY <1>1, <1>2

\* What the steps leave for lookups to find.
LEMMA SameFound ==
  ASSUME up, up', UNCHANGED <<active, frozen>>, ViewsKept
  PROVE  FoundGrows
<1> SUFFICES ASSUME NEW w \in Views'
             PROVE  \E u \in Views : \A k \in Keys : Found(u, k) \subseteq Found(w, k)'
  BY DEF FoundGrows
<1>1. PICK u \in Views : w.v = u.v /\ \A id \in ReferencedIds(u.v) : w.files[id] = u.files[id]
  BY DEF ViewsKept
<1>2. Tables(w) = Tables(u)
  BY <1>1, SameTables
<1>3. Memory' = Memory
  BY DEF Memory, MemTables
<1>4. \A k \in Keys : Found(w, k)' = Found(u, k)
  BY <1>2, <1>3 DEF Found, Tables
<1> QED
  BY <1>4

\* What the steps of a flush body that change memory or files leave to be found.
LEMMA BodyFound ==
  ASSUME DataInv, GateOK, OrderInv, AckedInv, Freeze \/ Discard \/ FlushTable
  PROVE  /\ up /\ FoundGrows /\ RecsKept
         /\ active' = active \/ active' = EmptyTable
<1>1. CASE Freeze
  <2>1. /\ up /\ up' /\ Views' = Views /\ wal' = wal /\ MemTables \subseteq MemTables'
    BY <1>1, FreezeFacts
  <2>2. LogSegs' = LogSegs
    BY <2>1 DEF LogSegs
  <2>3. FoundGrows
    <3>1. Memory = MemTables /\ Memory' = MemTables'
      BY <2>1 DEF Memory
    <3> QED
      BY <2>1, <3>1 DEF FoundGrows, Found, Tables
  <2>4. active' = active \/ active' = EmptyTable
    BY <1>1 DEF Freeze, memVars
  <2> QED
    BY <2>1, <2>2, <2>3, <2>4, RecsSame
<1>2. CASE Discard
  <2>1. /\ up /\ up' /\ Views' = Views /\ wal' = wal
        /\ MemTables = MemTables' \cup {Head(frozen)}
        /\ \A w \in Views : Head(frozen) \in Tables(w)
    BY <1>2, DiscardFacts
  <2>2. LogSegs' = LogSegs
    BY <2>1 DEF LogSegs
  <2>3. FoundGrows
    <3> SUFFICES ASSUME NEW w \in Views, NEW k \in Keys PROVE Found(w, k) \subseteq Found(w, k)'
      BY <2>1 DEF FoundGrows
    <3>1. Memory = MemTables /\ Memory' = MemTables'
      BY <2>1 DEF Memory
    <3>2. /\ Found(w, k)' = {table[k] : table \in MemTables' \cup Tables(w)}
          /\ Found(w, k) = {table[k] : table \in MemTables \cup Tables(w)}
      BY <3>1 DEF Found, Tables
    <3>3. MemTables \cup Tables(w) \subseteq MemTables' \cup Tables(w)
      BY <2>1
    <3> QED
      BY <3>2, <3>3
  <2>4. active' = active
    BY <1>2 DEF Discard
  <2> QED
    BY <2>1, <2>2, <2>3, <2>4, RecsSame
<1>3. CASE FlushTable
  <2>1. /\ up /\ up' /\ UNCHANGED <<active, frozen>> /\ RecsKept /\ Current \in Views
        /\ \A w \in Views' : \/ \E u \in Views : Tables(w) = Tables(u)
                             \/ Tables(w) = Tables(Current) \cup {Head(frozen)}
    BY <1>3, FlushTableFacts
  <2>2. Memory' = Memory
    BY <2>1 DEF Memory, MemTables
  <2>3. \A w \in Views' : \E u \in Views : Tables(u) \subseteq Tables(w)
    BY <2>1
  <2>4. FoundGrows
    <3> SUFFICES ASSUME NEW w \in Views'
                 PROVE  \E u \in Views : \A k \in Keys : Found(u, k) \subseteq Found(w, k)'
      BY DEF FoundGrows
    <3>1. PICK u \in Views : Tables(u) \subseteq Tables(w)
      BY <2>3
    <3>2. ASSUME NEW k \in Keys PROVE Found(u, k) \subseteq Found(w, k)'
      <4>1. /\ Found(u, k) = {table[k] : table \in Memory \cup Tables(u)}
            /\ Found(w, k)' = {table[k] : table \in Memory \cup Tables(w)}
        BY <2>2 DEF Found, Tables
      <4>2. Memory \cup Tables(u) \subseteq Memory \cup Tables(w)
        BY <3>1
      <4> QED
        BY <4>1, <4>2
    <3> QED
      BY <3>2
  <2> QED
    BY <2>1, <2>4
<1> QED
  BY <1>1, <1>2, <1>3

\* Nothing is in the log while tables are compacted: there is nothing to replay.
LEMMA CompactSettled ==
  ASSUME DataInv, GateOK, OrderInv, AckedInv, LateLapped, CallsStill, Compact
  PROVE  LateLapped' /\ LogSettled'
<1>1. RecsKept /\ active' = active /\ flush.stage = "compact"
  BY CompactFacts DEF Compact, InBody
<1>2. LateLapped'
  BY <1>1 DEF LateLapped, CallsStill
<1>3. \A r \in Rec : ~InLog(r)
  <2> SUFFICES ASSUME NEW r \in Rec, InLog(r) PROVE FALSE
    OBVIOUS
  <2>1. r.key \in Keys /\ r.seq \in LoggedSeqs(LogSegs, r.key)
    BY LoggedSeq DEF Rec
  <2> QED
    BY <1>1, <2>1 DEF AckedInv, LogDrained
<1>4. \A r \in Rec : ~InLog(r)'
  BY <1>1, <1>3 DEF RecsKept
<1> QED
  BY <1>2, <1>4 DEF LogSettled

\* A claim takes a number beyond everything the memtable holds.
LEMMA ClaimStore ==
  ASSUME DataInv, GateOK, StoreInv, NEW t \in Threads, NEW k \in Keys, NEW kind \in WriteKinds,
         Claim(t, k, kind)
  PROVE  /\ StoreInv' /\ lapped' = lapped
         /\ ~InProgress(t) /\ InProgress(t)'
         /\ op'[t] = [key |-> k, seq |-> nextSeq, kind |-> kind]
         /\ \A u \in Threads \ {t} : (InProgress(u)' <=> InProgress(u)) /\ op'[u] = op[u]
<1>1. /\ up /\ up' = up /\ pc[t] = "claim" /\ pc' = [pc EXCEPT ![t] = "append"]
      /\ op' = [op EXCEPT ![t] = [key |-> k, seq |-> nextSeq, kind |-> kind]]
      /\ UNCHANGED <<active, frozen, wal, dir, version, flush, lapped>>
  BY DEF Claim, Gate!Claim, Gate!Goto, memVars, diskVars, ghostVars
<1>2. pc \in [Threads -> Gate!PCs] /\ DOMAIN op = Threads
  BY DEF GateOK, Gate!TypeOK, DataInv, OpsOK
<1>3. /\ ~InProgress(t) /\ InProgress(t)' /\ pc'[t] = "append"
      /\ op'[t] = [key |-> k, seq |-> nextSeq, kind |-> kind]
      /\ \A u \in Threads \ {t} : pc'[u] = pc[u] /\ op'[u] = op[u]
  BY <1>1, <1>2 DEF InProgress
<1>4. \A u \in Threads \ {t} : (InProgress(u)' <=> InProgress(u)) /\ op'[u] = op[u]
  BY <1>3 DEF InProgress
<1>5. NoAborts'
  BY <1>3 DEF StoreInv, NoAborts
<1>6. LateLapped'
  <2>1. ~(active[k].seq >= nextSeq)
    <3>1. nextSeq \in Nat \ {0} /\ active[k] \in Below(nextSeq)
      BY DbAssumption DEF DataInv, ClockOK, Clocks, BufferOK, TablesBelow
    <3> QED
      BY <3>1, BelowFacts
  <2> SUFFICES ASSUME NEW u \in Threads, InProgress(u)', active'[op'[u].key].seq >= op'[u].seq
               PROVE  u \in lapped'
    BY DEF LateLapped
  <2>2. u # t
    BY <1>1, <1>3, <2>1
  <2> QED
    BY <1>1, <1>4, <2>2 DEF StoreInv, LateLapped
<1>7. LogSettled'
  <2> SUFFICES ASSUME NEW r \in Rec, InLog(r)', ~\E u \in Threads : InProgress(u)' /\ op'[u] = r
               PROVE  \A w \in Views' : \E x \in Found(w, r.key)' : r.seq <= x.seq
    BY DEF LogSettled, Reached
  <2>1. InLog(r)
    BY <1>1 DEF InLog, LogSegs
  <2>2. ~\E u \in Threads : InProgress(u) /\ op[u] = r
    BY <1>3, <1>4
  <2>3. Reached(r)
    BY <1>1, <2>1, <2>2 DEF StoreInv, LogSettled
  <2>4. Views' = Views /\ Memory' = Memory
    BY <1>1 DEF Views, Memory, MemTables
  <2> QED
    BY <2>3, <2>4 DEF Reached, Found, Tables
<1> QED
  BY <1>1, <1>3, <1>4, <1>5, <1>6, <1>7 DEF StoreInv

\* The log holds the record of a write in progress.
LEMMA LogRecordStore ==
  ASSUME DataInv, GateOK, OrderInv, StoreInv, CallsStill, NEW t \in Threads, LogRecord(t)
  PROVE  LateLapped' /\ LogSettled'
<1>1. /\ up /\ up' /\ pc[t] = "append" /\ UNCHANGED <<up, active, frozen, dir, version, flush>>
  BY DEF LogRecord, memVars
<1>2. \A r \in Rec : InLog(r)' => InLog(r) \/ r = op[t]
  BY LogRecordRecs
<1>3. LateLapped'
  BY <1>1 DEF StoreInv, LateLapped, CallsStill
<1>4. LogSettled'
  <2> SUFFICES ASSUME NEW r \in Rec, InLog(r)', ~\E u \in Threads : InProgress(u)' /\ op'[u] = r
               PROVE  \A w \in Views' : \E x \in Found(w, r.key)' : r.seq <= x.seq
    BY DEF LogSettled, Reached
  <2>1. ~\E u \in Threads : InProgress(u) /\ op[u] = r
    BY DEF CallsStill
  <2>2. InLog(r)
    BY <1>1, <1>2, <2>1 DEF InProgress
  <2>3. Reached(r)
    BY <1>1, <2>1, <2>2 DEF StoreInv, LogSettled
  <2>4. Views' = Views /\ Memory' = Memory
    BY <1>1 DEF Views, Memory, MemTables
  <2> QED
    BY <2>3, <2>4 DEF Reached, Found, Tables
<1> QED
  BY <1>3, <1>4

\* A write enters the memtable: those of its key still in progress are lapped.
LEMMA ApplyStore ==
  ASSUME DataInv, GateOK, StoreInv, NEW t \in Threads, Apply(t)
  PROVE  /\ StoreInv'
         /\ InProgress(t) /\ ~InProgress(t)'
         /\ \A u \in Threads \ {t} : InProgress(u)' <=> InProgress(u)
<1> DEFINE k0 == op[t].key
           x == EntryOf(op[t])
           won == active[k0].seq < op[t].seq
<1>1. /\ up /\ up' /\ UNCHANGED <<op, frozen, wal, dir, version, flush, up>>
      /\ pc[t] = "apply" /\ pc' = [pc EXCEPT ![t] = "finish"]
      /\ k0 \in Keys /\ x.seq = op[t].seq /\ op[t].seq \in Nat \ {0}
      /\ \A k \in Keys : /\ active[k].seq \in Nat
                         /\ active'[k] = IF k = k0 /\ won THEN x ELSE active[k]
  BY ApplyFacts
<1>2. lapped' = (lapped \cup (IF won THEN Rivals(t, k0) ELSE {})) \ {t}
  BY DEF Apply
<1> HIDE DEF k0, x, won
<1>3. pc \in [Threads -> Gate!PCs]
  BY DEF GateOK, Gate!TypeOK
<1>4. /\ InProgress(t) /\ ~InProgress(t)' /\ pc'[t] = "finish"
      /\ \A u \in Threads \ {t} : pc'[u] = pc[u] /\ (InProgress(u)' <=> InProgress(u))
  BY <1>1, <1>3 DEF InProgress
<1>5. NoAborts'
  BY <1>4 DEF StoreInv, NoAborts
<1>6. LateLapped'
  <2> SUFFICES ASSUME NEW u \in Threads, InProgress(u)', active'[op[u].key].seq >= op[u].seq
               PROVE  u \in lapped'
    BY <1>1 DEF LateLapped
  <2>1. u # t /\ InProgress(u)
    BY <1>4
  <2>2. op[u] \in Rec
    BY <2>1 DEF DataInv, OpsOK, Gate!Claimed, InProgress
  <2>3. op[u].key \in Keys
    BY <2>2 DEF Rec
  <2>4. CASE op[u].key = k0 /\ won
    BY <1>2, <2>1, <2>4 DEF Rivals, InProgress
  <2>5. CASE ~(op[u].key = k0 /\ won)
    <3>1. active[op[u].key].seq >= op[u].seq
      BY <1>1, <2>3, <2>5
    <3> QED
      BY <1>2, <2>1, <3>1 DEF StoreInv, LateLapped
  <2> QED
    BY <2>4, <2>5
<1>7. LogSettled'
  <2> SUFFICES ASSUME NEW r \in Rec, InLog(r)', ~\E u \in Threads : InProgress(u)' /\ op[u] = r
               PROVE  \A w \in Views' : \E y \in Found(w, r.key)' : r.seq <= y.seq
    BY <1>1 DEF LogSettled, Reached
  <2> DEFINE k == r.key
  <2>1. InLog(r)
    BY <1>1 DEF InLog, LogSegs
  <2>2. k \in Keys /\ r.seq \in Nat
    BY DEF Rec
  <2>3. /\ Views' = Views
        /\ Memory = {active} \cup ToSet(frozen) /\ Memory' = {active'} \cup ToSet(frozen)
    BY <1>1 DEF Views, Memory, MemTables
  <2>4. \A w \in Views : /\ active'[k] \in Found(w, k)'
                         /\ \A y \in Found(w, k) : y = active[k] \/ y \in Found(w, k)'
    BY <2>3 DEF Found, Tables
  <2>5. active[k].seq <= active'[k].seq /\ active'[k].seq \in Nat
    BY <1>1, <2>2 DEF won
  <2>6. CASE r = op[t]
    <3>1. r.seq <= active'[k].seq
      BY <1>1, <2>2, <2>5, <2>6 DEF k0, won
    <3> QED
      BY <2>3, <2>4, <3>1
  <2>7. CASE r # op[t]
    <3>1. Reached(r)
      BY <1>1, <1>4, <2>1, <2>7 DEF StoreInv, LogSettled
    <3> SUFFICES ASSUME NEW w \in Views PROVE \E y \in Found(w, k)' : r.seq <= y.seq
      BY <2>3
    <3>2. PICK y \in Found(w, k) : r.seq <= y.seq
      BY <3>1 DEF Reached
    <3>3. CASE y = active[k]
      <4>1. r.seq <= active'[k].seq
        BY <1>1, <2>2, <2>5, <3>2, <3>3
      <4> QED
        BY <2>4, <4>1
    <3> QED
      BY <2>4, <3>2, <3>3
  <2> QED
    BY <2>6, <2>7
<1> QED
  BY <1>4, <1>5, <1>6, <1>7 DEF StoreInv

\* A recovery has reached all it replayed, and nothing is in progress.
LEMMA OpenStore ==
  ASSUME DataInv, OrderInv, StoreInv, Open
  PROVE  LateLapped' /\ LogSettled'
<1>1. /\ ~up /\ up' /\ pc' = pc /\ op' = op /\ frozen' = frozen
      /\ active' = Replay(Records(wal.segs)) /\ LogSegs' = LogSegs /\ ViewsKept
  BY OpenOrder DEF Open, gateVars
<1>2. \A t \in Threads : pc'[t] = "idle"
  BY <1>1 DEF DataInv, ClockOK
<1>3. LateLapped'
  BY <1>2 DEF LateLapped, InProgress
<1>4. LogSettled'
  <2> SUFFICES ASSUME NEW r \in Rec, InLog(r)', NEW w \in Views'
               PROVE  \E y \in Found(w, r.key)' : r.seq <= y.seq
    BY DEF LogSettled, Reached
  <2>1. InLog(r) /\ r.key \in Keys
    BY <1>1 DEF InLog, Rec
  <2>2. active'[r.key].seq >= r.seq
    BY <1>1, <2>1, LoggedSeq, RecoveryReplays DEF Replays
  <2>3. active'[r.key].seq \in Nat /\ r.seq \in Nat
    <3>1. active' \in Table
      BY <1>1, <2>1, ReplayLogged
    <3>2. active'[r.key] \in Entry \cup {Absent}
      BY <2>1, <3>1 DEF Table
    <3> QED
      BY <3>2 DEF Entry, Absent, Rec
  <2>4. active'[r.key] \in Found(w, r.key)'
    BY <1>1 DEF Found, Memory, MemTables
  <2>5. r.seq <= active'[r.key].seq
    BY <2>2, <2>3
  <2> QED
    BY <2>4, <2>5
<1> QED
  BY <1>3, <1>4

\* At the start nothing is logged and nobody writes.
LEMMA InitStore == Init => StoreInv
<1> SUFFICES ASSUME Init PROVE StoreInv
  OBVIOUS
<1>1. /\ \A t \in Threads : pc[t] = "idle"
      /\ wal.segs = <<NewSegment>> /\ wal.old = <<>> /\ wal.gone = <<>>
  BY DEF Init, Gate!Init, NoLog
<1>2. \A r \in Rec : ~InLog(r)
  <2>1. LogSegs = {NewSegment}
    BY <1>1 DEF LogSegs, ToSet
  <2>2. Len(NewSegment.recs) = 0
    BY DEF NewSegment
  <2> QED
    BY <2>1, <2>2 DEF InLog
<1> QED
  BY <1>1, <1>2 DEF StoreInv, NoAborts, LateLapped, LogSettled, InProgress

\* Every step keeps it.
LEMMA StepStore ==
  ASSUME DataInv, GateOK, OrderInv, AckedInv, StoreInv, PowerOnly, [Next]_vars
  PROVE  /\ StoreInv'
         /\ ~PowerLoss /\ (\A t \in Threads : ~Apply(t))
            /\ (\A t \in Threads, k \in Keys, kind \in WriteKinds : ~Claim(t, k, kind))
            => CallsStill
<1>1. KeepsOrder
  BY DEF KeepsOrder, PowerOnly
<1>2. CASE PowerLoss
  <2>1. ~up' /\ \A t \in Threads : pc'[t] = "idle"
    BY <1>2 DEF PowerLoss, Die, Gate!Restart
  <2> QED
    BY <1>2, <2>1 DEF StoreInv, NoAborts, LateLapped, LogSettled, InProgress
<1>3. ~Kill
  BY DEF Kill, Fault, PowerOnly
<1>4. CASE \E t \in Threads : Apply(t)
  BY <1>4, ApplyStore
<1>5. CASE \E t \in Threads, k \in Keys, kind \in WriteKinds : Claim(t, k, kind)
  BY <1>5, ClaimStore
<1>6. CASE Open
  BY <1>6, OtherCalls, OpenStore DEF StoreInv
<1>7. ASSUME Quiet PROVE up /\ FoundGrows /\ RecsKept /\ active' = active
  <2>1. up /\ up' /\ UNCHANGED <<active, frozen>> /\ ViewsKept /\ RecsKept
    BY <1>7 DEF Quiet
  <2> QED
    BY <2>1, SameFound
<1>8. ASSUME NEW t \in Threads, WriterStep(t), ~Apply(t),
             \A k \in Keys, kind \in WriteKinds : ~Claim(t, k, kind)
      PROVE  StoreInv' /\ CallsStill
  <2>1. NoAborts' /\ CallsStill
    BY <1>8, WriterCalls DEF StoreInv
  <2>2. CASE LogRecord(t)
    BY <2>1, <2>2, LogRecordStore DEF StoreInv
  <2>3. CASE QuietCall(t)
    BY <1>1, <1>7, <2>1, <2>3, CallsQuiet, SettledStill DEF StoreInv
  <2> QED
    BY <1>8, <2>2, <2>3 DEF WriterStep, QuietCall
<1>9. CASE SyncLog \/ FlushStep
  <2>1. NoAborts' /\ CallsStill
    BY <1>9, OtherCalls DEF StoreInv
  <2>2. CASE Compact
    BY <2>1, <2>2, CompactSettled DEF StoreInv
  <2>3. CASE Freeze \/ Discard \/ FlushTable
    BY <2>1, <2>3, BodyFound, SettledStill DEF StoreInv
  <2>4. CASE QuietBody
    BY <1>7, <2>1, <2>4, BodyQuiet, SettledStill DEF StoreInv
  <2> QED
    BY <1>9, <2>2, <2>3, <2>4, BodySteps DEF QuietBody
<1>10. CASE (\E r \in Readers : ReaderStep(r)) \/ UNCHANGED vars
  <2>1. NoAborts' /\ CallsStill
    BY <1>10, OtherCalls DEF StoreInv
  <2>2. UNCHANGED <<up, wal, active, frozen, dir, version, flush>>
    <3>1. UNCHANGED <<memVars, diskVars, version, flush, up>>
      BY <1>10 DEF ReaderStep, ReadStart, ReadMem, ReadPin, ReadTables, ReadReturn, vars
    <3> QED
      BY <3>1 DEF memVars, diskVars
  <2>3. /\ Views' = Views /\ Memory' = Memory /\ LogSegs' = LogSegs
    BY <2>2 DEF Views, Memory, MemTables, LogSegs
  <2>4. CASE up
    <3>1. FoundGrows /\ RecsKept
      BY <2>3, RecsSame DEF FoundGrows, Found, Tables
    <3> QED
      BY <2>1, <2>2, <2>4, <3>1, SettledStill DEF StoreInv
  <2>5. CASE ~up
    <3>1. LateLapped'
      BY <2>1, <2>2 DEF StoreInv, LateLapped, CallsStill
    <3>2. LogSettled'
      BY <2>2, <2>5 DEF LogSettled
    <3> QED
      BY <2>1, <3>1, <3>2 DEF StoreInv
  <2> QED
    BY <2>4, <2>5
<1> QED
  BY <1>2, <1>3, <1>4, <1>5, <1>6, <1>8, <1>9, <1>10, OtherCalls DEF Next, StoreInv

\* What is in memory, or will be after a recovery, is in the synced part of the log.
LEMMA MemoryLogged ==
  ASSUME DataInv, OrderInv, AckedInv, NEW table \in Memory, NEW k \in Keys, table[k] # Absent
  PROVE  table[k].seq \in SyncedSeqs(LogSegs, k)
<1>1. CASE table \in MemTables /\ table = active
  BY <1>1 DEF OrderInv, ActiveLogged
<1>2. CASE table \in MemTables /\ table # active
  <2>1. PICK i \in DOMAIN frozen : table = frozen[i]
    BY <1>2 DEF MemTables, ToSet
  <2> QED
    BY <2>1 DEF AckedInv, FrozenLogged
<1>3. CASE ~up /\ table = Replay(Records(wal.segs))
  <2>1. PICK q \in Rec : q.key = k /\ InLog(q) /\ table[k] = EntryOf(q)
    BY <1>3, ReplayLogged
  <2>2. q.seq \in LoggedSeqs(LogSegs, k) /\ table[k].seq = q.seq
    BY <2>1, LoggedSeq, EntryPresent
  <2>3. LogSegs \in SUBSET Segment
    BY LogTyped
  <2>4. \A seg \in LogSegs : seg.synced = Len(seg.recs)
    BY <1>3 DEF OrderInv, LogShape
  <2> QED
    BY <2>2, <2>3, <2>4, SyncedLogged
<1> QED
  BY <1>1, <1>2, <1>3 DEF Memory

\* The log's segments are typed, before and after a step.
LEMMA LogSegsTyped == DataInv => LogSegs \subseteq Segment
BY LogTyped

\* What a view still has in the log after a power loss, recovery replays: nothing
\* that was found in the view is newer than what is found there now.
LEMMA LossBehind ==
  ASSUME DataInv, OrderInv, AckedInv, PowerLoss, DataInv', OrderInv',
         NEW u \in Views, NEW w \in Views', Tables(w) = Tables(u),
         NEW k \in Keys, NEW y \in Found(u, k), y # Absent
  PROVE  \E z \in Found(w, k)' : z.seq \in Nat /\ y.seq <= z.seq
<1>0. ~up'
  BY DEF PowerLoss, Die
<1> DEFINE replayed == Replay(Records(wal.segs))'
<1>1. Found(w, k)' = {table[k] : table \in {replayed} \cup Tables(u)}
  BY <1>0 DEF Found, Memory, Tables
<1>2. PICK table \in Memory \cup Tables(u) : y = table[k]
  BY DEF Found
<1>3. y.seq \in Nat
  BY FoundTyped
<1>4. CASE table \in Tables(u)
  BY <1>1, <1>2, <1>3, <1>4
<1>5. CASE table \in Memory
  <2>1. y.seq \in SyncedSeqs(LogSegs, k)
    BY <1>2, <1>5, MemoryLogged
  <2>2. y.seq \in SyncedSeqs(LogSegs', k)
    BY <2>1, PowerLossOrder DEF LogKept
  <2>3. LogSegs' \in SUBSET Segment
    <3>1. DataInv' => (LogSegs \subseteq Segment)'
      BY LogSegsTyped, PTL
    <3> QED
      BY <3>1
  <2>4. y.seq \in LoggedSeqs(LogSegs', k)
    BY <2>2, <2>3, SyncedLogged
  <2>5. DataInv' /\ OrderInv' /\ ~up' => Replays'
    BY RecoveryReplays, PTL
  <2>6. \A s \in LoggedSeqs(LogSegs', k) : replayed[k].seq >= s
    BY <1>0, <2>5 DEF Replays
  <2>7. replayed[k] = Absent \/ \E r \in Rec : replayed[k] = EntryOf(r)
    BY <1>0, <2>5 DEF Replays
  <2> HIDE DEF replayed
  <2>8. replayed[k].seq \in Nat
    <3>1. CASE replayed[k] = Absent
      BY <3>1 DEF Absent
    <3>2. ASSUME NEW r \in Rec, replayed[k] = EntryOf(r) PROVE replayed[k].seq \in Nat
      BY <3>2, EntryPresent
    <3> QED
      BY <2>7, <3>1, <3>2
  <2>9. replayed[k] \in Found(w, k)'
    BY <1>1
  <2> QED
    BY <1>3, <2>4, <2>6, <2>8, <2>9
<1> QED
  BY <1>2, <1>4, <1>5

\* A power loss changes what get(k) returns only to a write that was in progress.
LEMMA LossShown ==
  ASSUME DataInv, OrderInv, AckedInv, OnceInv, Shown, StoreInv, PowerLoss, DataInv', OrderInv'
  PROVE  \A k \in Keys :
           \/ Value(Visible(k))' = Value(Visible(k))
           \/ \E t \in Threads : /\ InProgress(t) /\ op[t].key = k
                                 /\ Value(EntryOf(op[t])) = Value(Visible(k))'
<1>0. DataInv' /\ OrderInv' =>
        (\A k \in Keys : \E w \in Views : IsTop(Visible(k), Found(w, k)))'
  BY VisibleTop, PTL
<1> SUFFICES ASSUME NEW k \in Keys
             PROVE  \/ Value(Visible(k))' = Value(Visible(k))
                    \/ \E t \in Threads : /\ InProgress(t) /\ op[t].key = k
                                          /\ Value(EntryOf(op[t])) = Value(Visible(k))'
  OBVIOUS
<1> DEFINE Completed(x) ==
             \E t \in Threads : InProgress(t) /\ op[t].key = k /\ EntryOf(op[t]) = x
           replayed == Replay(Records(wal.segs))'
<1>1. ~up' /\ RecsKept /\ ViewsKept
  BY PowerLossRecs, PowerLossOrder DEF PowerLoss, Die
<1>2. replayed[k] = Absent \/ \E r \in Rec : r.key = k /\ InLog(r)' /\ replayed[k] = EntryOf(r)
  <2>1. DataInv' /\ OrderInv' /\ ~up' => Replays'
    BY RecoveryReplays, PTL
  <2> QED
    BY <1>1, <2>1 DEF Replays
<1> HIDE DEF Completed
<1>3. ASSUME NEW w \in Views', NEW x, IsTop(x, Found(w, k))'
      PROVE  Value(x) = Value(Visible(k)) \/ Completed(x)
  <2>1. x \in Found(w, k)' /\ \A z \in Found(w, k)' : z.seq <= x.seq
    BY <1>3 DEF IsTop
  <2>2. PICK u \in Views : w.v = u.v /\ \A id \in ReferencedIds(u.v) : w.files[id] = u.files[id]
    BY <1>1 DEF ViewsKept
  <2>3. Tables(w) = Tables(u)
    BY <2>2, SameTables
  <2>4. Found(w, k)' = {table[k] : table \in {replayed} \cup Tables(u)}
    BY <1>1, <2>3 DEF Found, Memory, Tables
  <2>5. \A y \in Found(u, k) : y.seq \in Nat /\ (y.seq = 0 <=> y = Absent)
    BY FoundTyped
  <2>6. \A table \in Tables(u) : table[k] \in Found(u, k)
    BY DEF Found
  <2> HIDE DEF replayed
  <2>7. \/ x = Absent
        \/ x \in Found(u, k)
        \/ \E r \in Rec : r.key = k /\ InLog(r)' /\ x = EntryOf(r)
    BY <1>2, <2>1, <2>4, <2>6
  <2>8. x.seq \in Nat
    BY <2>5, <2>7, EntryPresent DEF Absent
  <2>9. \A y \in Found(u, k) : y.seq <= x.seq
    <3> SUFFICES ASSUME NEW y \in Found(u, k) PROVE y.seq <= x.seq
      OBVIOUS
    <3>1. CASE y = Absent
      BY <2>8, <3>1 DEF Absent
    <3>2. CASE y # Absent
      <4>1. PICK z \in Found(w, k)' : z.seq \in Nat /\ y.seq <= z.seq
        BY <2>3, <3>2, LossBehind
      <4> QED
        BY <2>1, <2>5, <2>8, <4>1
    <3> QED
      BY <3>1, <3>2
  <2>10. CASE x \in Found(u, k)
    <3>1. IsTop(x, Found(u, k))
      BY <2>9, <2>10 DEF IsTop
    <3> QED
      BY <3>1 DEF Shown
  <2>11. CASE x = Absent
    <3>1. PICK table \in Memory : TRUE
      BY DEF Memory, MemTables
    <3>2. table[k] \in Found(u, k)
      BY <3>1 DEF Found
    <3>3. table[k].seq <= 0
      BY <2>9, <2>11, <3>2 DEF Absent
    <3>4. table[k] = Absent
      BY <2>5, <3>2, <3>3
    <3> QED
      BY <2>10, <2>11, <3>2, <3>4
  <2>12. ASSUME NEW r \in Rec, r.key = k, InLog(r)', x = EntryOf(r)
         PROVE  Value(x) = Value(Visible(k)) \/ Completed(x)
    <3>1. InLog(r)
      BY <1>1, <2>12 DEF RecsKept
    <3>2. (\E t \in Threads : InProgress(t) /\ op[t] = r) \/ Reached(r)
      BY <3>1, LogReached DEF StoreInv
    <3>3. CASE \E t \in Threads : InProgress(t) /\ op[t] = r
      BY <2>12, <3>3 DEF Completed
    <3>4. CASE Reached(r)
      <4>1. PICK y \in Found(u, k) : r.seq <= y.seq
        BY <2>12, <3>4 DEF Reached
      <4>2. x.seq = r.seq /\ r.seq \in Nat \ {0}
        BY <2>12, EntryPresent
      <4>3. y.seq = r.seq /\ y # Absent
        BY <2>5, <2>9, <4>1, <4>2
      <4>4. PICK q \in Rec : Written(q) /\ q.key = k /\ EntryOf(q) = y
        BY <4>3, FoundWritten
      <4>5. q.seq = r.seq
        BY <4>3, <4>4, EntryPresent
      <4>6. q = r
        BY <3>1, <4>4, <4>5 DEF OnceInv, WriteOnce, Written
      <4> QED
        BY <2>10, <2>12, <4>4, <4>6
    <3> QED
      BY <3>2, <3>3, <3>4
  <2> QED
    BY <2>7, <2>10, <2>11, <2>12
<1>4. PICK w \in Views' : IsTop(Visible(k), Found(w, k))'
  BY <1>0
<1>5. Value(Visible(k))' = Value(Visible(k)) \/ Completed(Visible(k)')
  BY <1>3, <1>4
<1> QED
  BY <1>5 DEF Completed

-----------------------------------------------------------------------------
\* A caller's write as KvStore sees it: nothing, or the key and the value.
LEMMA CallSeen ==
  ASSUME DataInv, NEW t \in Threads
  PROVE  /\ InProgress(t) => /\ CallOf(t) = [key |-> op[t].key, value |-> Value(EntryOf(op[t]))]
                             /\ CallOf(t) # Store!NoCall
                             /\ op[t].key \in Keys
         /\ ~InProgress(t) => CallOf(t) = Store!NoCall
<1>1. CASE InProgress(t)
  <2>1. op[t] \in Rec
    BY <1>1 DEF DataInv, OpsOK, Gate!Claimed, InProgress
  <2>2. op[t].key \in Keys /\ op[t].seq \in Nat
    BY <2>1 DEF Rec
  <2> DEFINE v == Value(EntryOf(op[t]))
  <2>3. v \in Nat
    BY <2>2 DEF Value, EntryOf
  <2>4. CallOf(t) = [key |-> op[t].key, value |-> v]
    BY <1>1 DEF CallOf, InProgress
  <2> HIDE DEF v
  <2>5. CallOf(t).value = v /\ Store!NoCall.value = -1
    BY <2>4 DEF Store!NoCall
  <2>6. CallOf(t) # Store!NoCall
    BY <2>3, <2>5
  <2> QED
    BY <1>1, <2>2, <2>4, <2>6 DEF v
<1>2. CASE ~InProgress(t)
  BY <1>2 DEF CallOf, InProgress, Store!NoCall
<1> QED
  BY <1>1, <1>2

\* The writes in progress are those KvStore has pending.
LEMMA PendingSeen ==
  ASSUME DataInv
  PROVE  Store!Pending = {t \in Threads : InProgress(t)}
BY CallSeen DEF Store!Pending

\* A claim begins a write.
LEMMA ClaimBegins ==
  ASSUME DataInv, DataInv', GateOK, StoreInv, NEW t \in Threads, NEW k \in Keys,
         NEW kind \in WriteKinds, Claim(t, k, kind),
         \A j \in Keys : Value(Visible(j))' = Value(Visible(j))
  PROVE  \E v \in 0 .. MaxWrites : Store!Begin(t, k, v)
<1> DEFINE v == Value(EntryOf([key |-> k, seq |-> nextSeq, kind |-> kind]))
<1>1. /\ lapped' = lapped /\ ~InProgress(t) /\ InProgress(t)'
      /\ op'[t] = [key |-> k, seq |-> nextSeq, kind |-> kind]
      /\ \A u \in Threads \ {t} : (InProgress(u)' <=> InProgress(u)) /\ op'[u] = op[u]
  BY ClaimStore
<1>2. v \in 0 .. MaxWrites
  <2>1. nextSeq <= MaxWrites /\ nextSeq \in Nat
    BY DbAssumption DEF Claim, DataInv, ClockOK, Clocks
  <2> QED
    BY <2>1, DbAssumption DEF Value, EntryOf
<1>3. CallOf(t)' = [key |-> k, value |-> v]
  BY <1>1 DEF CallOf, InProgress
<1>4. \A u \in Threads \ {t} : CallOf(u)' = CallOf(u)
  BY <1>1 DEF CallOf, InProgress
<1> HIDE DEF v
<1>5. CallOf(t) = Store!NoCall
  BY <1>1, CallSeen
<1>6. [u \in Threads |-> CallOf(u)]'
        = [[u \in Threads |-> CallOf(u)] EXCEPT ![t] = [key |-> k, value |-> v]]
  BY <1>3, <1>4
<1>7. [j \in Keys |-> Value(Visible(j))]' = [j \in Keys |-> Value(Visible(j))]
  OBVIOUS
<1>8. Store!Begin(t, k, v)
  BY <1>1, <1>5, <1>6, <1>7 DEF Store!Begin
<1> QED
  BY <1>2, <1>8

\* A write that enters the memtable takes effect there, or was overtaken.
LEMMA ApplyTakes ==
  ASSUME DataInv, DataInv', GateOK, OrderInv, OrderInv', Shown, StoreInv,
         NEW t \in Threads, Apply(t)
  PROVE  Store!TakeEffect(t) \/ Store!Overtaken(t)
<1> DEFINE k0 == op[t].key
           won == active[k0].seq < op[t].seq
           v == Value(EntryOf(op[t]))
<1>1. /\ UNCHANGED op /\ InProgress(t) /\ ~InProgress(t)'
      /\ \A u \in Threads \ {t} : InProgress(u)' <=> InProgress(u)
      /\ k0 \in Keys /\ active[k0].seq \in Nat /\ op[t].seq \in Nat
  BY ApplyFacts, ApplyStore
<1>2. lapped' = (lapped \cup (IF won THEN Rivals(t, k0) ELSE {})) \ {t}
  BY DEF Apply
<1>3. \A j \in Keys : Value(Visible(j))' = IF j = k0 /\ won THEN v ELSE Value(Visible(j))
  BY ApplyShown
<1> HIDE DEF won, v
<1>4. /\ CallOf(t) = [key |-> k0, value |-> v]
      /\ t \in Store!Pending
  BY <1>1, CallSeen, PendingSeen DEF v
<1>5. [u \in Threads |-> CallOf(u)]' = [[u \in Threads |-> CallOf(u)] EXCEPT ![t] = Store!NoCall]
  <2>1. CallOf(t)' = Store!NoCall
    BY <1>1 DEF CallOf, InProgress, Store!NoCall
  <2>2. \A u \in Threads \ {t} : CallOf(u)' = CallOf(u)
    BY <1>1 DEF CallOf, InProgress
  <2> QED
    BY <2>1, <2>2
<1>6. CASE won
  <2>1. [j \in Keys |-> Value(Visible(j))]'
          = [[j \in Keys |-> Value(Visible(j))] EXCEPT ![k0] = v]
    BY <1>1, <1>3, <1>6
  <2>2. Rivals(t, k0) = {u \in Store!Pending : [w \in Threads |-> CallOf(w)][u].key = k0} \ {t}
    <3>1. ASSUME NEW u \in Threads, InProgress(u) PROVE CallOf(u).key = op[u].key
      BY <3>1, CallSeen
    <3> QED
      BY <3>1, PendingSeen DEF Rivals, InProgress
  <2>3. lapped' = (lapped \cup {u \in Store!Pending : [w \in Threads |-> CallOf(w)][u].key = k0})
                    \ {t}
    BY <1>2, <1>6, <2>2
  <2>4. /\ [w \in Threads |-> CallOf(w)][t].key = k0
        /\ [w \in Threads |-> CallOf(w)][t].value = v
    BY <1>4
  <2>5. t \in Store!Pending
    BY <1>4
  <2> HIDE DEF k0
  <2> QED
    BY <1>5, <2>1, <2>3, <2>4, <2>5 DEF Store!TakeEffect
<1>7. CASE ~won
  <2>1. t \in lapped
    BY <1>1, <1>7 DEF StoreInv, LateLapped, won
  <2>2. lapped' = lapped \ {t}
    BY <1>2, <1>7
  <2>3. [j \in Keys |-> Value(Visible(j))]' = [j \in Keys |-> Value(Visible(j))]
    BY <1>3, <1>7
  <2> QED
    BY <1>4, <1>5, <2>1, <2>2, <2>3 DEF Store!Overtaken
<1> QED
  BY <1>6, <1>7

\* A power loss is KvStore's crash.
LEMMA LossCrashes ==
  ASSUME DataInv, DataInv', OrderInv, OrderInv', AckedInv, OnceInv, Shown, StoreInv, PowerLoss
  PROVE  Store!Crash
<1> DEFINE before == [k \in Keys |-> Value(Visible(k))]
           calls == [t \in Threads |-> CallOf(t)]
<1>1. lapped' = {} /\ \A t \in Threads : pc'[t] = "idle"
  BY DEF PowerLoss, Die, Gate!Restart
<1>2. calls' = [t \in Threads |-> Store!NoCall]
  BY <1>1 DEF CallOf, Store!NoCall
<1>3. \A k \in Keys : Value(Visible(k))' \in 0 .. MaxWrites
  <2>1. DataInv' /\ OrderInv' => (\A k \in Keys : Value(Visible(k)) \in 0 .. MaxWrites)'
    BY VisibleTyped, PTL
  <2> QED
    BY <2>1
<1>4. before' \in [Keys -> 0 .. MaxWrites]
  BY <1>3
<1>5. ASSUME NEW k \in Keys
      PROVE  \/ before'[k] = before[k]
             \/ \E t \in Store!Pending : calls[t] = [key |-> k, value |-> before'[k]]
  <2>1. CASE Value(Visible(k))' = Value(Visible(k))
    BY <2>1
  <2>2. ASSUME NEW t \in Threads, InProgress(t), op[t].key = k,
               Value(EntryOf(op[t])) = Value(Visible(k))'
        PROVE  t \in Store!Pending /\ calls[t] = [key |-> k, value |-> before'[k]]
    BY <2>2, CallSeen, PendingSeen
  <2> QED
    BY <2>1, <2>2, LossShown
<1> QED
  BY <1>1, <1>2, <1>4, <1>5 DEF Store!Crash

\* Every step of the engine is one of KvStore, or changes nothing there.
LEMMA StoreStep ==
  ASSUME DataInv, DataInv', GateOK, OrderInv, OrderInv', AckedInv, OnceInv, Shown, StoreInv,
         PowerOnly, [Next]_vars
  PROVE  [Store!Next]_(Store!storeVars)
<1>1. KeepsOrder
  BY DEF KeepsOrder, PowerOnly
<1>2. CASE PowerLoss
  BY <1>2, LossCrashes DEF Store!Next
<1>3. CASE \E t \in Threads : Apply(t)
  BY <1>3, ApplyTakes DEF Store!Next
<1>4. CASE ~PowerLoss /\ \A t \in Threads : ~Apply(t)
  <2>1. \A k \in Keys : Value(Visible(k))' = Value(Visible(k))
    BY <1>1, <1>4, StepTops, ShownKept
  <2>2. CASE \E t \in Threads, k \in Keys, kind \in WriteKinds : Claim(t, k, kind)
    BY <2>1, <2>2, ClaimBegins DEF Store!Next
  <2>3. CASE \A t \in Threads, k \in Keys, kind \in WriteKinds : ~Claim(t, k, kind)
    <3>1. CallsStill
      BY <1>4, <2>3, StepStore
    <3>2. \A t \in Threads : CallOf(t)' = CallOf(t)
      BY <3>1 DEF CallsStill, CallOf, InProgress
    <3> QED
      BY <2>1, <3>1, <3>2 DEF Store!storeVars, CallsStill
  <2> QED
    BY <2>2, <2>3
<1> QED
  BY <1>2, <1>3, <1>4

\* An empty database is an empty map.
LEMMA StoreInit == KeepsOrder /\ Init => Store!Init
<1> SUFFICES ASSUME KeepsOrder, Init PROVE Store!Init
  OBVIOUS
<1>1. DataInv /\ OrderInv
  BY InitData, InitOrder
<1>2. Memory = {EmptyTable} /\ \A u \in Views : Tables(u) = {}
  BY DEF Init, Memory, MemTables, ToSet, Views, NoFlush, NoFiles, Installing, EmptyVersion,
         ReferencedIds, Tables
<1>3. ASSUME NEW k \in Keys PROVE Value(Visible(k)) = 0
  <2>1. \A u \in Views : Found(u, k) = {Absent}
    <3>1. EmptyTable[k] = Absent
      BY DEF EmptyTable
    <3> QED
      BY <1>2, <3>1 DEF Found
  <2>2. Visible(k) = Absent
    BY <1>1, <2>1, VisibleTop DEF IsTop
  <2> QED
    BY <2>2 DEF Value, Absent
<1>4. lapped = {} /\ \A t \in Threads : CallOf(t) = Store!NoCall
  BY DEF Init, Gate!Init, CallOf, Store!NoCall
<1> QED
  BY <1>3, <1>4 DEF Store!Init

(***************************************************************************)
(* The engine implements KvStore when the only faults are power losses, in *)
(* either durability mode: a put or delete changes what readers see once,  *)
(* in its insert into the memtable (write, db.rs), flushes, WAL resets,    *)
(* compactions and open_on change nothing, and a power loss changes a key  *)
(* only by completing a write that had not returned.                       *)
(***************************************************************************)
THEOREM DbImplementsStore == PowerOnly => (Spec => ImplementsStore)
<1> SUFFICES ASSUME PowerOnly PROVE Spec => ImplementsStore
  OBVIOUS
<1>1. KeepsOrder
  BY DEF KeepsOrder, PowerOnly
<1>2. Spec => []StoreInv
  <2>1. DataInv /\ GateOK /\ OrderInv /\ AckedInv /\ StoreInv /\ [Next]_vars => StoreInv'
    BY StepStore
  <2> QED
    BY <1>1, <2>1, InitStore, DbDataInductive, DbGateOK, DbOrderInductive, DbAckedInductive, PTL
       DEF Spec
<1>3. /\ DataInv /\ GateOK /\ OrderInv /\ AckedInv /\ OnceInv /\ Shown /\ StoreInv /\ [Next]_vars
      /\ DataInv' /\ OrderInv'
      => [Store!Next]_(Store!storeVars)
  BY StoreStep
<1>4. (Spec => []OrderInv) /\ (Spec => []AckedInv) /\ (Spec => []OnceInv) /\ (Spec => []Shown)
  BY <1>1, DbOrderInductive, DbAckedInductive, DbOnceInductive, DbViewsAgree
<1> QED
  BY <1>1, <1>2, <1>3, <1>4, StoreInit, DbDataInductive, DbGateOK, PTL
     DEF Spec, ImplementsStore, Store!Spec
=============================================================================
