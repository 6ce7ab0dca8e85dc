---------------------------------- MODULE Db ----------------------------------
(***************************************************************************)
(* The engine of src/src/db.rs: threads that put, delete and flush through *)
(* the monitor of WriteGate, readers that get and scan beside them, the    *)
(* WAL, the memtables, the manifest's versions and the table files, and    *)
(* crashes followed by Db::open_on.                                        *)
(*                                                                         *)
(* The WAL is taken at the level of records (module Wal has its storage    *)
(* operations): a record is appended to the last segment, becomes durable  *)
(* at a barrier, and append() returns Ok only after that barrier, as in    *)
(* the durability modes Always and GroupCommit.  A power loss keeps some   *)
(* prefix of a segment's unsynced records and undoes every change of the   *)
(* directory since the last sync_dir; killing the process undoes neither.  *)
(***************************************************************************)
EXTENDS Lsm

CONSTANTS
  Threads,       \* the callers of put, delete and flush
  NoThread,      \* the write mutex has no owner
  Readers,       \* the callers of get and scan
  WriteKinds,    \* what they write: values, tombstones or both
  Durability,    \* "Always" or "GroupCommit"
  SegmentSize,   \* records at which the active WAL segment is rolled
  TierFanout,    \* Options::tier_fanout
  MaxWrites,     \* bound: sequence numbers handed out
  Faults,        \* the faults that may happen: subset of FaultKinds
  MaxFaults      \* bound: faults in a behaviour

\* A power loss; the end of the process alone; an error of a storage operation of
\* append or of a flush body, and one of reset() once it has created its segment.
FaultKinds == {"power", "kill", "io", "reset"}

ASSUME DbAssumption ==
  /\ IsFiniteSet(Threads) /\ NoThread \notin Threads
  /\ WriteKinds \subseteq Kinds
  /\ Durability \in {"Always", "GroupCommit"}
  /\ SegmentSize \in Nat \ {0}
  /\ TierFanout \in Nat
  /\ MaxWrites \in Nat
  /\ Faults \subseteq FaultKinds
  /\ MaxFaults \in Nat

VARIABLES
  pc, mutex, parked, inFlight, flushPending,  \* the monitor, see WriteGate
  up,        \* the process is running; FALSE between a crash and open_on
  nextSeq,   \* WriteState.next_seq
  op,        \* the record each thread's write() is carrying
  active,    \* MemState.active: the map ...
  bytes,     \* ... and its approx_bytes
  frozen,    \* MemState.frozen, oldest first
  wal,       \* the log: see NoLog below
  dir,       \* the directory's manifest and table files, live and durable
  version,   \* Manifest's current version
  obsolete,  \* Manifest's retired versions that may still be pinned
  flush,     \* progress and locals of the running flush body
  rd,        \* progress and locals of each reader
  faults,    \* faults so far
  acked,     \* history: per key, the newest seq whose write returned Ok
  erased,    \* history: per key, the newest seq of an applied delete
  lapped     \* history: claimed writes whose key another write has set since

gateVars == <<pc, mutex, parked, inFlight, flushPending>>
memVars == <<active, bytes, frozen>>
diskVars == <<wal, dir>>
ghostVars == <<acked, erased, lapped>>
vars == <<gateVars, up, nextSeq, op, memVars, diskVars, version, obsolete,
          flush, rd, faults, ghostVars>>

Gate == INSTANCE WriteGate

NoOp == [key |-> CHOOSE k \in Keys : TRUE, seq |-> 0, kind |-> "None"]
Rec == [key : Keys, seq : Nat \ {0}, kind : Kinds]
EntryOf(r) == [seq |-> r.seq, kind |-> r.kind]

\* A WAL payload: seq, tag, key and, of a put, the value (its bytes are its seq).
REC_TAG_DELETE == 0
REC_TAG_PUT == 1

EncodeRecord(r) ==
  IF r.kind = "Value" THEN <<r.seq, REC_TAG_PUT, r.key, r.seq>>
                      ELSE <<r.seq, REC_TAG_DELETE, r.key>>

\* decode_record, which fails on a payload cut short or with another tag.
CorruptRecord(buf) ==
  \/ Len(buf) < 3
  \/ buf[2] \notin {REC_TAG_PUT, REC_TAG_DELETE}
  \/ buf[2] = REC_TAG_PUT /\ Len(buf) < 4

DecodeRecord(buf) ==
  [key |-> buf[3], seq |-> buf[1],
   kind |-> IF buf[2] = REC_TAG_PUT THEN "Value" ELSE "Tombstone"]

\* A WAL segment: its payloads and how many of them a sync_file has covered.
NewSegment == [recs |-> <<>>, synced |-> 0]

(***************************************************************************)
(* segs   the live segments in id order up to the one appended to, the     *)
(*        last; none if a failed reset() has deleted that one              *)
(* spare  empty segments behind it, which failed calls of reset() created  *)
(* old    during reset(): segments it has still to delete, in id order     *)
(* gone   segments deleted since the last sync_dir                         *)
(* queue  GroupCommit: frames a failed batch put back for the next leader  *)
(***************************************************************************)
NoLog == [segs |-> <<NewSegment>>, spare |-> <<>>, old |-> <<>>, gone |-> <<>>,
          queue |-> <<>>]

\* One view of the directory: the manifest's version and the *.sst files.
NoFiles == [manifest |-> EmptyVersion, files |-> <<>>]

NoFlush == [stage |-> "none", base |-> EmptyVersion, next |-> EmptyVersion,
            after |-> "none"]
NoRead == [at |-> "idle", call |-> "get", key |-> CHOOSE k \in Keys : TRUE,
           mem |-> Absent, pin |-> EmptyVersion, seen |-> {}, got |-> 0]

Stages == {"none", "freeze", "table", "rename", "sync", "swap", "gc", "gcsync",
           "discard", "retire", "compact", "done", "failed"}

\* Db::open on an empty directory.
Init ==
  /\ Gate!Init
  /\ up = TRUE
  /\ nextSeq = 1
  /\ op = [t \in Threads |-> NoOp]
  /\ active = EmptyTable
  /\ bytes = 0
  /\ frozen = <<>>
  /\ wal = NoLog
  /\ dir = [live |-> NoFiles, durable |-> NoFiles]
  /\ version = EmptyVersion
  /\ obsolete = {}
  /\ flush = NoFlush
  /\ rd = [r \in Readers |-> NoRead]
  /\ faults = 0
  /\ acked = [k \in Keys |-> 0]
  /\ erased = [k \in Keys |-> 0]
  /\ lapped = {}

-----------------------------------------------------------------------------
\* What lookups see.  `tables` is the map of the files a version's ids name.
TableSources(v, tables) ==
  LET ids == TablesNewestFirst(v) IN [i \in DOMAIN ids |-> tables[ids[i]]]

MemSources == <<active>> \o Reverse(frozen)

\* Every record of the log in replay order: segments by id, frames in order.
Records(segs) ==
  LET payloads == FlattenSeq([i \in DOMAIN segs |-> segs[i].recs])
  IN  [i \in DOMAIN payloads |-> DecodeRecord(payloads[i])]

Decodable(segs) == \A i \in DOMAIN segs : ~\E buf \in ToSet(segs[i].recs) : CorruptRecord(buf)

\* open_on's replay of the first n recovered records into a fresh memtable ...
ReplayTo(recs, n) ==
  LET table[i \in 0 .. n] ==
        IF i = 0 THEN EmptyTable ELSE InsertIfNewer(table[i - 1], recs[i].key, EntryOf(recs[i]))
  IN  table[n]

Replay(recs) == ReplayTo(recs, Len(recs))

\* ... and its approx_bytes after all of them.
ReplayBytes(recs) ==
  LET total[i \in 0 .. Len(recs)] ==
        IF i = 0 THEN 0
        ELSE BytesAfter(total[i - 1], ReplayTo(recs, i - 1), recs[i].key, EntryOf(recs[i]))
  IN  total[Len(recs)]

\* open_on's next_seq: past the manifest's clock and every replayed record.
RecoveredSeq(v, recs) ==
  Max({v.nextSeq} \cup {recs[i].seq + 1 : i \in DOMAIN recs})

\* The sources of a lookup, newest first, in the running process ...
LiveSources == MemSources \o TableSources(version, dir.live.files)

\* ... and in the one that would open a given disk image.
ImageSources(image) ==
  <<Replay(Records(image.segs))>> \o TableSources(image.manifest, image.files)

\* The disk as a process killed now leaves it.
KillImage ==
  [segs |-> wal.old \o wal.segs,
   manifest |-> dir.live.manifest, files |-> dir.live.files]

\* Every prefix of a segment that keeps what sync_file covered.
Torn(seg) ==
  {[recs |-> SubSeq(seg.recs, 1, n), synced |-> n] : n \in seg.synced .. Len(seg.recs)}

\* The disks a power loss now may leave.
PowerImages ==
  LET segs == wal.gone \o wal.old \o wal.segs
  IN  {[segs |-> s, manifest |-> dir.durable.manifest, files |-> dir.durable.files] :
        s \in {f \in [DOMAIN segs -> UNION {Torn(segs[i]) : i \in DOMAIN segs}] :
                 \A i \in DOMAIN segs : f[i] \in Torn(segs[i])}}

Sources == IF up THEN LiveSources ELSE ImageSources(KillImage)

\* What get(k) returns now, or after the pending open_on (written so that TLC
\* evaluates Sources once).
Visible(k) == CHOOSE e \in {FirstHit(s, k) : s \in {Sources}} : TRUE

-----------------------------------------------------------------------------
\* write(): the call, the wait for the gate and the wake-ups are the monitor's.
StartWrite(t) ==
  /\ up /\ nextSeq <= MaxWrites
  /\ Gate!StartWrite(t)
  /\ UNCHANGED <<up, nextSeq, op, memVars, diskVars, version, obsolete, flush, rd,
                 faults, ghostVars>>

WaitOrWake(t) ==
  /\ up
  /\ Gate!WaitForGate(t) \/ Gate!WaitAgain(t) \/ Gate!SpuriousWake(t)
  /\ UNCHANGED <<up, nextSeq, op, memVars, diskVars, version, obsolete, flush, rd,
                 faults, ghostVars>>

\* Phase 1: claim the next seq for the record that will be logged.
Claim(t, k, kind) ==
  /\ up /\ nextSeq <= MaxWrites
  /\ Gate!Claim(t)
  /\ op' = [op EXCEPT ![t] = [key |-> k, seq |-> nextSeq, kind |-> kind]]
  /\ nextSeq' = nextSeq + 1
  /\ UNCHANGED <<up, memVars, diskVars, version, obsolete, flush, rd, faults, ghostVars>>

LastSeg == Len(wal.segs)

\* The record is in some live segment; while it is in flight no reset runs.
Logged(r) == \E i \in DOMAIN wal.segs : EncodeRecord(r) \in ToSet(wal.segs[i].recs)

Durable(r) ==
  \E i \in DOMAIN wal.segs : \E n \in 1 .. wal.segs[i].synced :
    wal.segs[i].recs[n] = EncodeRecord(r)

Unsynced(r) == Logged(r) /\ ~Durable(r)

\* Another writer is between its append and its barrier.
Committing(t) == \E u \in Threads \ {t} : pc[u] = "append" /\ Unsynced(op[u])

\* Phase 2, wal.append: the frame reaches the active segment, behind the frames
\* a failed batch returned to the queue.  Under Always a commit owns the segment
\* until its barrier; under GroupCommit one barrier covers a batch.
LogRecord(t) ==
  /\ up /\ pc[t] = "append" /\ ~Logged(op[t]) /\ wal.segs # <<>>
  /\ Durability = "Always" => ~Committing(t)
  /\ wal' = [wal EXCEPT !.segs[LastSeg].recs = @ \o wal.queue \o <<EncodeRecord(op[t])>>,
                        !.queue = <<>>]
  /\ UNCHANGED <<gateVars, up, nextSeq, op, memVars, dir, version, obsolete, flush, rd,
                 faults, ghostVars>>

\* The durability barrier of a commit, and maybe_rotate after it, which creates no
\* segment when the next id is taken.
SyncLog ==
  /\ up /\ wal.segs # <<>>
  /\ wal.segs[LastSeg].synced < Len(wal.segs[LastSeg].recs)
  /\ LET n == Len(wal.segs[LastSeg].recs)
         segs == [wal.segs EXCEPT ![LastSeg].synced = n]
     IN  \/ /\ n < SegmentSize \/ wal.spare # <<>>
            /\ wal' = [wal EXCEPT !.segs = segs]
            /\ UNCHANGED dir
         \/ /\ n >= SegmentSize /\ wal.spare = <<>>
            /\ wal' = [wal EXCEPT !.segs = Append(segs, NewSegment), !.gone = <<>>]
            /\ dir' = [dir EXCEPT !.durable = dir.live]
  /\ UNCHANGED <<gateVars, up, nextSeq, op, memVars, version, obsolete, flush, rd,
                 faults, ghostVars>>

\* The commit of r fills the segment, and maybe_rotate finds the next id taken.
RollFails(r) ==
  /\ wal.segs # <<>> /\ wal.spare # <<>>
  /\ \E n \in SegmentSize .. wal.segs[LastSeg].synced :
       wal.segs[LastSeg].recs[n] = EncodeRecord(r)

\* Mutant of AppendOk: the write is acknowledged before its barrier.
AppendOkUnsynced(t) ==
  /\ up /\ Logged(op[t])
  /\ Gate!AppendOk(t)
  /\ UNCHANGED <<up, nextSeq, op, memVars, diskVars, version, obsolete, flush, rd,
                 faults, ghostVars>>

\* wal.append returns Ok: a barrier has covered the record.
AppendOk(t) ==
  /\ up /\ Durable(op[t]) /\ ~RollFails(op[t])
  /\ Gate!AppendOk(t)
  /\ UNCHANGED <<up, nextSeq, op, memVars, diskVars, version, obsolete, flush, rd,
                 faults, ghostVars>>

Fault(kind) == kind \in Faults /\ faults < MaxFaults /\ faults' = faults + 1

\* wal.append returns Err, wherever it failed once the segment was its own, or as a
\* failed reset() has left it no segment or no id to roll to.  In GroupCommit the
\* failed leader's frame stays in the queue for the next leader.
AppendErr(t) ==
  /\ up
  /\ \/ Fault("io") /\ (Committing(t) => Unsynced(op[t]))
     \/ (wal.segs = <<>> \/ RollFails(op[t])) /\ UNCHANGED faults
  /\ Gate!AppendErr(t)
  /\ wal' = IF Durability = "GroupCommit"
            THEN [wal EXCEPT !.queue = Append(@, EncodeRecord(op[t]))]
            ELSE wal
  /\ UNCHANGED <<up, nextSeq, op, memVars, dir, version, obsolete, flush, rd, ghostVars>>

Abort(t) ==
  /\ up
  /\ Gate!Abort(t)
  /\ op' = [op EXCEPT ![t] = NoOp]
  /\ lapped' = lapped \ {t}
  /\ UNCHANGED <<up, nextSeq, memVars, diskVars, version, obsolete, flush, rd, faults,
                 acked, erased>>

\* A reader that is inside its call may return any value its key takes meanwhile.
Witness(k, v) ==
  [r \in Readers |-> IF rd[r].at # "idle" /\ rd[r].key = k
                     THEN [rd[r] EXCEPT !.seen = @ \cup {v}] ELSE rd[r]]

\* Threads other than t with a claimed write to k that is not applied yet.
Rivals(t, k) == {u \in Threads \ {t} : pc[u] \in {"append", "apply"} /\ op[u].key = k}

\* Phase 3: insert_if_newer into the active memtable, without the mutex.
Apply(t) ==
  LET k == op[t].key
      won == active[k].seq < op[t].seq
  IN
  /\ up
  /\ Gate!Apply(t)
  /\ active' = InsertIfNewer(active, k, EntryOf(op[t]))
  /\ bytes' = BytesAfter(bytes, active, k, EntryOf(op[t]))
  /\ rd' = IF won THEN Witness(k, Value(EntryOf(op[t]))) ELSE rd
  /\ lapped' = (lapped \cup (IF won THEN Rivals(t, k) ELSE {})) \ {t}
  /\ erased' = IF op[t].kind = "Tombstone" THEN [erased EXCEPT ![k] = Max2(@, op[t].seq)]
               ELSE erased
  /\ UNCHANGED <<up, nextSeq, op, frozen, diskVars, version, obsolete, flush, faults, acked>>

\* The write returns Ok to its caller.
Acknowledge(t) ==
  /\ acked' = [acked EXCEPT ![op[t].key] = Max2(@, op[t].seq)]
  /\ op' = [op EXCEPT ![t] = NoOp]

Finish(t) ==
  /\ up
  /\ Gate!Finish(t)
  /\ Acknowledge(t)
  /\ UNCHANGED <<up, nextSeq, memVars, diskVars, version, obsolete, flush, rd, faults,
                 erased, lapped>>

\* The flush body starts at the step in which the monitor reaches it.
BeginBodyIfEntered(t) ==
  flush' = IF pc'[t] = "body" THEN [NoFlush EXCEPT !.stage = "freeze"] ELSE flush

\* The memtable has reached its threshold, whatever its size in bytes is.
FinishFull(t) ==
  /\ up
  /\ Gate!FinishFull(t)
  /\ BeginBodyIfEntered(t)
  /\ UNCHANGED <<up, nextSeq, op, memVars, diskVars, version, obsolete, rd, faults, ghostVars>>

StartFlush(t) ==
  /\ up
  /\ Gate!StartFlush(t)
  /\ BeginBodyIfEntered(t)
  /\ UNCHANGED <<up, nextSeq, op, memVars, diskVars, version, obsolete, rd, faults, ghostVars>>

EnterBody(t) ==
  /\ up
  /\ Gate!EnterBody(t)
  /\ BeginBodyIfEntered(t)
  /\ UNCHANGED <<up, nextSeq, op, memVars, diskVars, version, obsolete, rd, faults, ghostVars>>

-----------------------------------------------------------------------------
\* flush_quiesced(), step by step; the caller owns the monitor's mutex.
InBody(stage) == up /\ flush.stage = stage

\* Mutant of Freeze: an empty memtable is frozen too.
FreezeEmpty ==
  /\ InBody("freeze")
  /\ frozen' = Append(frozen, active) /\ active' = EmptyTable /\ bytes' = 0
  /\ flush' = [flush EXCEPT !.stage = "table"]
  /\ UNCHANGED <<gateVars, up, nextSeq, op, diskVars, version, obsolete, rd, faults, ghostVars>>

Freeze ==
  /\ InBody("freeze")
  /\ IF bytes = 0 THEN UNCHANGED memVars
     ELSE frozen' = Append(frozen, active) /\ active' = EmptyTable /\ bytes' = 0
  /\ flush' = [flush EXCEPT !.stage = "table"]
  /\ UNCHANGED <<gateVars, up, nextSeq, op, diskVars, version, obsolete, rd, faults, ghostVars>>

\* The directory's tables with one more.
WithTable(files, id, content) ==
  [i \in DOMAIN files \cup {id} |-> IF i = id THEN content ELSE files[i]]

\* A table file appears under an id (write_table), or create finds it taken.
WriteTable(content, next, after) ==
  LET id == version.nextTableId IN
  IF id \in DOMAIN dir.live.files
  THEN /\ flush' = [flush EXCEPT !.stage = "failed"]
       /\ UNCHANGED dir
  ELSE /\ dir' = [dir EXCEPT !.live.files = WithTable(@, id, content)]
       /\ flush' = [stage |-> "rename", base |-> version, next |-> next, after |-> after]

\* The oldest frozen memtable becomes a tier-0 table.
FlushTable ==
  /\ InBody("table") /\ frozen # <<>>
  /\ WriteTable(Head(frozen), Flushed(version, version.nextTableId, nextSeq), "discard")
  /\ UNCHANGED <<gateVars, up, nextSeq, op, memVars, wal, version, obsolete, rd, faults,
                 ghostVars>>

\* sync_dir on the one directory that holds the manifest, tables and segments.
SyncDir == dir' = [dir EXCEPT !.durable = dir.live] /\ wal' = [wal EXCEPT !.gone = <<>>]

\* Manifest::install: write_manifest renames the new manifest into place ...
RenameManifest ==
  /\ InBody("rename")
  /\ dir' = [dir EXCEPT !.live.manifest = flush.next]
  /\ flush' = [flush EXCEPT !.stage = "sync"]
  /\ UNCHANGED <<gateVars, up, nextSeq, op, memVars, wal, version, obsolete, rd, faults,
                 ghostVars>>

\* ... and makes the rename durable.
SyncManifest ==
  /\ InBody("sync")
  /\ SyncDir
  /\ flush' = [flush EXCEPT !.stage = "swap"]
  /\ UNCHANGED <<gateVars, up, nextSeq, op, memVars, version, obsolete, rd, faults, ghostVars>>

\* install swaps the version in and retires the previous one.
SwapVersion ==
  /\ InBody("swap")
  /\ version' = flush.next
  /\ obsolete' = obsolete \cup {version}
  /\ flush' = [flush EXCEPT !.stage = "gc"]
  /\ UNCHANGED <<gateVars, up, nextSeq, op, memVars, diskVars, rd, faults, ghostVars>>

\* Someone besides the manifest holds the Arc: a reader, or this flush body.
Pinned(v) == v = flush.base \/ \E r \in Readers : rd[r].at = "tables" /\ rd[r].pin = v

\* Mutant of LiveIds: gc() runs on the versions from before the swap.
LiveIdsBeforeSwap(retired) == UNION {ReferencedIds(v) : v \in retired}

\* The files gc() keeps, given the retired versions it still counts.
LiveIds(retired) == ReferencedIds(version) \cup UNION {ReferencedIds(v) : v \in retired}

\* Mutant of GcTables: the reference counts are ignored.
GcTablesUnpinned ==
  LET keep == LiveIds({}) \cap DOMAIN dir.live.files IN
  /\ InBody("gc")
  /\ obsolete' = {}
  /\ dir' = [dir EXCEPT !.live.files = [id \in keep |-> @[id]]]
  /\ flush' = [flush EXCEPT !.stage = IF keep = DOMAIN dir.live.files THEN flush.after
                                      ELSE "gcsync"]
  /\ UNCHANGED <<gateVars, up, nextSeq, op, memVars, wal, version, rd, faults, ghostVars>>

\* gc(): forget retired versions nobody pins, delete the files none names.
GcTables ==
  LET retired == {v \in obsolete : Pinned(v)}
      keep == LiveIds(retired) \cap DOMAIN dir.live.files
  IN
  /\ InBody("gc")
  /\ obsolete' = retired
  /\ dir' = [dir EXCEPT !.live.files = [id \in keep |-> @[id]]]
  /\ flush' = [flush EXCEPT !.stage = IF keep = DOMAIN dir.live.files THEN flush.after
                                      ELSE "gcsync"]
  /\ UNCHANGED <<gateVars, up, nextSeq, op, memVars, wal, version, rd, faults, ghostVars>>

GcSync ==
  /\ InBody("gcsync")
  /\ SyncDir
  /\ flush' = [flush EXCEPT !.stage = flush.after]
  /\ UNCHANGED <<gateVars, up, nextSeq, op, memVars, version, obsolete, rd, faults, ghostVars>>

\* The table is installed: the frozen memtable leaves the read set.
Discard ==
  /\ InBody("discard")
  /\ frozen' = Tail(frozen)
  /\ flush' = [NoFlush EXCEPT !.stage = "table"]
  /\ UNCHANGED <<gateVars, up, nextSeq, op, active, bytes, diskVars, version, obsolete,
                 rd, faults, ghostVars>>

\* Wal::reset: create the fresh segment and make its entry durable ...
ResetCreate ==
  /\ InBody("table") /\ frozen = <<>>
  /\ wal' = [wal EXCEPT !.segs = <<NewSegment>>, !.old = wal.segs, !.gone = <<>>]
  /\ dir' = [dir EXCEPT !.durable = dir.live]
  /\ flush' = [flush EXCEPT !.stage = "retire"]
  /\ UNCHANGED <<gateVars, up, nextSeq, op, memVars, version, obsolete, rd, faults, ghostVars>>

\* Mutant of RetireSegment: the newest segment is deleted first.
RetireSegmentNewest ==
  /\ InBody("retire") /\ wal.old # <<>>
  /\ wal' = [wal EXCEPT !.old = Front(@), !.gone = <<Last(wal.old)>> \o @]
  /\ UNCHANGED <<gateVars, up, nextSeq, op, memVars, dir, version, obsolete, flush, rd,
                 faults, ghostVars>>

\* ... delete the old segments one by one, in id order ...
RetireSegment ==
  /\ InBody("retire") /\ wal.old # <<>>
  /\ wal' = [wal EXCEPT !.old = Tail(@), !.gone = Append(@, Head(wal.old))]
  /\ UNCHANGED <<gateVars, up, nextSeq, op, memVars, dir, version, obsolete, flush, rd,
                 faults, ghostVars>>

\* ... those of earlier calls that failed too ...
RetireSpare ==
  /\ InBody("retire") /\ wal.old = <<>> /\ wal.spare # <<>>
  /\ wal' = [wal EXCEPT !.spare = Tail(@), !.gone = Append(@, Head(wal.spare))]
  /\ UNCHANGED <<gateVars, up, nextSeq, op, memVars, dir, version, obsolete, flush, rd,
                 faults, ghostVars>>

\* ... and make the deletions durable.
ResetSync ==
  /\ InBody("retire") /\ wal.old = <<>> /\ wal.spare = <<>>
  /\ SyncDir
  /\ flush' = [flush EXCEPT !.stage = "compact"]
  /\ UNCHANGED <<gateVars, up, nextSeq, op, memVars, version, obsolete, rd, faults, ghostVars>>

\* The fresh segment's sync_dir, a delete or the last sync_dir fails: the writer
\* stays where it was, be its segment deleted or not, with the fresh one behind it.
ResetErr ==
  /\ \/ /\ InBody("table") /\ frozen = <<>>
        /\ wal' = [wal EXCEPT !.spare = Append(@, NewSegment)]
     \/ /\ InBody("retire")
        /\ wal' = [wal EXCEPT !.segs = wal.old, !.old = <<>>, !.spare = @ \o wal.segs]
  /\ Fault("reset")
  /\ flush' = [NoFlush EXCEPT !.stage = "failed"]
  /\ UNCHANGED <<gateVars, up, nextSeq, op, memVars, dir, version, obsolete, rd, ghostVars>>

\* maybe_compact found a tier to merge: compact_tier writes its output.
Compact ==
  LET t == TierToCompact(version, TierFanout) IN
  /\ InBody("compact") /\ t # 0
  /\ LET output == CompactionOutput(version, t, dir.live.files)
         next == IF IsEmpty(output) THEN Cleared(version, t)
                 ELSE Compacted(version, t, version.nextTableId)
     IN  WriteTable(output, next, "compact")
  /\ UNCHANGED <<gateVars, up, nextSeq, op, memVars, wal, version, obsolete, rd, faults,
                 ghostVars>>

\* No tier is over the fanout: the body is done.
CompactNothing ==
  /\ InBody("compact") /\ TierToCompact(version, TierFanout) = 0
  /\ flush' = [NoFlush EXCEPT !.stage = "done"]
  /\ UNCHANGED <<gateVars, up, nextSeq, op, memVars, diskVars, version, obsolete, rd,
                 faults, ghostVars>>

\* Any other storage operation of the body fails and `?` leaves it.
FlushErr ==
  /\ up /\ flush.stage \in {"table", "rename", "sync", "gc", "gcsync", "compact"}
  /\ Fault("io")
  /\ flush' = [NoFlush EXCEPT !.stage = "failed"]
  /\ UNCHANGED <<gateVars, up, nextSeq, op, memVars, diskVars, version, obsolete, rd, ghostVars>>

\* flush_locked returns; a write() that ran it returns the same result.
FlushDone(t) ==
  /\ up /\ flush.stage \in {"done", "failed"}
  /\ Gate!FlushDone(t)
  /\ IF op[t] = NoOp THEN UNCHANGED <<op, acked>>
     ELSE IF flush.stage = "done" THEN Acknowledge(t)
     ELSE op' = [op EXCEPT ![t] = NoOp] /\ UNCHANGED acked
  /\ flush' = NoFlush
  /\ UNCHANGED <<up, nextSeq, memVars, diskVars, version, obsolete, rd, faults, erased, lapped>>

-----------------------------------------------------------------------------
\* get(k) or scan(k ..= k) is called.
ReadStart(r, k, call) ==
  /\ up /\ rd[r].at = "idle"
  /\ rd' = [rd EXCEPT ![r] = [NoRead EXCEPT !.at = "mem", !.call = call, !.key = k,
                                            !.seen = {Value(Visible(k))}]]
  /\ UNCHANGED <<gateVars, up, nextSeq, op, memVars, diskVars, version, obsolete, flush,
                 faults, ghostVars>>

\* Mutant of ReadMem: the memtables that await their flush are not consulted.
ReadMemActiveOnly(r) ==
  LET hit == active[rd[r].key] IN
  /\ up /\ rd[r].at = "mem"
  /\ rd' = [rd EXCEPT ![r].mem = hit,
                      ![r].at = IF rd[r].call = "get" /\ hit # Absent THEN "done" ELSE "pin",
                      ![r].got = Value(hit)]
  /\ UNCHANGED <<gateVars, up, nextSeq, op, memVars, diskVars, version, obsolete, flush,
                 faults, ghostVars>>

\* The memtables, under one read lock.  A hit ends a get; a scan goes on.
ReadMem(r) ==
  LET k == rd[r].key
      hit == IF rd[r].call = "get" THEN FirstHit(MemSources, k)
             ELSE Newest(<<active>> \o frozen, k)
  IN
  /\ up /\ rd[r].at = "mem"
  /\ rd' = [rd EXCEPT ![r].mem = hit,
                      ![r].at = IF rd[r].call = "get" /\ hit # Absent THEN "done" ELSE "pin",
                      ![r].got = Value(hit)]
  /\ UNCHANGED <<gateVars, up, nextSeq, op, memVars, diskVars, version, obsolete, flush,
                 faults, ghostVars>>

\* manifest.current(): from here the files of this version must stay.
ReadPin(r) ==
  /\ up /\ rd[r].at = "pin"
  /\ rd' = [rd EXCEPT ![r].pin = version, ![r].at = "tables"]
  /\ UNCHANGED <<gateVars, up, nextSeq, op, memVars, diskVars, version, obsolete, flush,
                 faults, ghostVars>>

\* The pinned tables: newest first for a get, all of them merged for a scan.
ReadTables(r) ==
  LET k == rd[r].key
      tables == TableSources(rd[r].pin, dir.live.files)
      found == IF rd[r].call = "get" THEN FirstHit(tables, k)
               ELSE Newest(<<[EmptyTable EXCEPT ![k] = rd[r].mem]>> \o tables, k)
  IN
  /\ up /\ rd[r].at = "tables"
  /\ rd' = [rd EXCEPT ![r].at = "done", ![r].got = Value(found), ![r].pin = EmptyVersion]
  /\ UNCHANGED <<gateVars, up, nextSeq, op, memVars, diskVars, version, obsolete, flush,
                 faults, ghostVars>>

ReadReturn(r) ==
  /\ up /\ rd[r].at = "done"
  /\ rd' = [rd EXCEPT ![r] = NoRead]
  /\ UNCHANGED <<gateVars, up, nextSeq, op, memVars, diskVars, version, obsolete, flush,
                 faults, ghostVars>>

-----------------------------------------------------------------------------
\* The process is gone: everything in memory is lost, the disk is what it is.
Die(segs, gone, view) ==
  /\ Gate!Restart
  /\ up' = FALSE
  /\ op' = [t \in Threads |-> NoOp]
  /\ nextSeq' = 1
  /\ active' = EmptyTable
  /\ bytes' = 0
  /\ frozen' = <<>>
  /\ wal' = [segs |-> segs, spare |-> <<>>, old |-> <<>>, gone |-> gone, queue |-> <<>>]
  /\ dir' = view
  /\ version' = EmptyVersion
  /\ obsolete' = {}
  /\ flush' = NoFlush
  /\ rd' = [r \in Readers |-> NoRead]
  /\ lapped' = {}
  /\ UNCHANGED <<acked, erased>>

\* Whether the names of spare segments are durable is left open.
PowerLoss ==
  /\ Fault("power")
  /\ \E image \in PowerImages, spare \in {<<>>, wal.spare} :
       Die(image.segs \o spare, <<>>, [live |-> dir.durable, durable |-> dir.durable])

Kill ==
  /\ up /\ Fault("kill")
  /\ Die(KillImage.segs \o wal.spare, wal.gone, dir)

\* A replayed delete takes effect like an applied one.
RecoveredErased(recs) ==
  [k \in Keys |-> Max({erased[k]} \cup {recs[i].seq : i \in {j \in DOMAIN recs :
                          recs[j].key = k /\ recs[j].kind = "Tombstone"}})]

\* Mutant of Open: recovery takes next_seq from the manifest alone.
OpenForgetsSeqs ==
  LET recs == Records(wal.segs) IN
  /\ ~up /\ Decodable(wal.segs)
  /\ up' = TRUE
  /\ version' = dir.live.manifest
  /\ active' = Replay(recs)
  /\ bytes' = ReplayBytes(recs)
  /\ nextSeq' = dir.live.manifest.nextSeq
  /\ wal' = [wal EXCEPT !.segs = IF @ = <<>> THEN <<NewSegment>> ELSE @]
  /\ erased' = RecoveredErased(recs)
  /\ UNCHANGED <<gateVars, op, frozen, dir, obsolete, flush, rd, faults, acked, lapped>>

\* Db::open_on: the manifest's version, then the WAL replayed over it.
Open ==
  LET recs == Records(wal.segs) IN
  /\ ~up /\ Decodable(wal.segs)
  /\ up' = TRUE
  /\ version' = dir.live.manifest
  /\ active' = Replay(recs)
  /\ bytes' = ReplayBytes(recs)
  /\ nextSeq' = RecoveredSeq(dir.live.manifest, recs)
  /\ wal' = [wal EXCEPT !.segs = IF @ = <<>> THEN <<NewSegment>> ELSE @]
  /\ erased' = RecoveredErased(recs)
  /\ UNCHANGED <<gateVars, op, frozen, dir, obsolete, flush, rd, faults, acked, lapped>>

WriterStep(t) ==
  \/ StartWrite(t) \/ WaitOrWake(t)
  \/ \E k \in Keys, kind \in WriteKinds : Claim(t, k, kind)
  \/ LogRecord(t) \/ AppendOk(t) \/ AppendErr(t) \/ Abort(t)
  \/ Apply(t) \/ Finish(t) \/ FinishFull(t)
  \/ StartFlush(t) \/ EnterBody(t) \/ FlushDone(t)

FlushStep ==
  \/ Freeze \/ FlushTable \/ RenameManifest \/ SyncManifest \/ SwapVersion
  \/ GcTables \/ GcSync \/ Discard
  \/ ResetCreate \/ RetireSegment \/ RetireSpare \/ ResetSync \/ ResetErr
  \/ Compact \/ CompactNothing \/ FlushErr

ReaderStep(r) ==
  \/ \E k \in Keys, call \in {"get", "scan"} : ReadStart(r, k, call)
  \/ ReadMem(r) \/ ReadPin(r) \/ ReadTables(r) \/ ReadReturn(r)

Next ==
  \/ \E t \in Threads : WriterStep(t)
  \/ SyncLog
  \/ FlushStep
  \/ \E r \in Readers : ReaderStep(r)
  \/ PowerLoss \/ Kill \/ Open

Spec == Init /\ [][Next]_vars

-----------------------------------------------------------------------------
TypeOK ==
  /\ Gate!TypeOK
  /\ up \in BOOLEAN
  /\ nextSeq \in 1 .. MaxWrites + 1
  /\ \A t \in Threads : op[t] \in Rec \cup {NoOp}
  /\ active \in Table /\ bytes \in Nat
  /\ \A i \in DOMAIN frozen : frozen[i] \in Table /\ ~IsEmpty(frozen[i])
  /\ \A i \in DOMAIN wal.segs : wal.segs[i].synced \in 0 .. Len(wal.segs[i].recs)
  /\ Decodable(wal.segs)
  /\ flush.stage \in Stages
  /\ flush.stage # "none" <=> mutex # NoThread
  /\ faults \in 0 .. MaxFaults
  /\ lapped \subseteq Threads

(***************************************************************************)
(* Zero acked-write loss: what get(k) returns, now or after the pending    *)
(* recovery, is at least as new as every write of k that returned Ok.  The *)
(* entry itself may be gone only once a delete at least as new took effect *)
(* (write, open_on and flush_quiesced, db.rs).                             *)
(***************************************************************************)
AckedVisible ==
  \A k \in Keys :
    LET e == Visible(k)
    IN  e.seq >= acked[k] \/ (e = Absent /\ erased[k] >= acked[k])

(***************************************************************************)
(* The order in which a point lookup probes its sources is the order of    *)
(* their sequence numbers: a source never holds an older entry for a key   *)
(* than a source probed after it.  Flushes, compactions into a lower tier, *)
(* WAL replay over already flushed tables and in-flight writes must all    *)
(* keep it (get and tables_newest_first).                                  *)
(***************************************************************************)
SeqOrder ==
  LET sources == Sources IN
  \A k \in Keys : \A i, j \in DOMAIN sources :
    i < j /\ sources[i][k] # Absent => sources[i][k].seq >= sources[j][k].seq

\* A point lookup and a merging scan of the same state agree on every key.
GetScanAgree ==
  LET sources == Sources IN
  \A k \in Keys : Value(FirstHit(sources, k)) = Value(Newest(sources, k))

\* No entry anywhere has a seq the write clock is still to hand out.
FreshSeqs ==
  up => LET sources == Sources IN
        \A i \in DOMAIN sources, k \in Keys : sources[i][k].seq < nextSeq

(***************************************************************************)
(* Every file a lookup may open is there: those of the current version, of *)
(* every version a reader has pinned, and, on the disk a crash leaves, of  *)
(* the manifest that recovery will read (install, gc and current).         *)
(***************************************************************************)
PinnedFilesExist ==
  /\ ReferencedIds(IF up THEN version ELSE dir.live.manifest)
       \subseteq DOMAIN dir.live.files
  /\ \A r \in Readers : rd[r].at = "tables" =>
       ReferencedIds(rd[r].pin) \subseteq DOMAIN dir.live.files

(***************************************************************************)
(* Once a flush body has frozen the buffer, the active memtable stays      *)
(* empty until the body returns ("Active is empty", flush_quiesced), and   *)
(* when the WAL is reset no frozen table is left either: no logged write   *)
(* is only in the memtable.  It rests on the monitor, which keeps writers  *)
(* out, and on active_bytes() being 0 only for an empty table.             *)
(***************************************************************************)
BufferDrained ==
  /\ flush.stage \notin {"none", "freeze"} => IsEmpty(active)
  /\ flush.stage \in {"retire", "compact", "done"} => frozen = <<>>

(***************************************************************************)
(* A file that no version names is garbage "to be reclaimed by the next    *)
(* GC" (gc, manifest.rs) and never in the way: without I/O errors, creating *)
(* the next table does not find its name taken (write_table).              *)
(***************************************************************************)
OrphanNeverBlocks == flush.stage # "failed"

(***************************************************************************)
(* A get or scan that runs beside writes, flushes and compactions returns, *)
(* for its key, a value the key had at some moment of the call.            *)
(***************************************************************************)
ReadsRegular ==
  \A r \in Readers : rd[r].at = "done" => rd[r].got \in rd[r].seen

-----------------------------------------------------------------------------
\* The write a thread has in progress, as the caller sees it: from its claim
\* until it is in the memtable.
CallOf(t) ==
  IF pc[t] \in {"append", "apply"}
  THEN [key |-> op[t].key, value |-> Value(EntryOf(op[t]))]
  ELSE [key |-> CHOOSE k \in Keys : TRUE, value |-> -1]

Store == INSTANCE KvStore WITH
  Values <- 0 .. MaxWrites,
  store <- [k \in Keys |-> Value(Visible(k))],
  call <- [t \in Threads |-> CallOf(t)],
  lapped <- lapped

(***************************************************************************)
(* The engine implements KvStore: a write changes what readers see exactly *)
(* once, when it enters the memtable; flushes, WAL resets, compactions and *)
(* recoveries change nothing; a crash changes a key only by completing a   *)
(* write that was still in progress.                                       *)
(***************************************************************************)
ImplementsStore == Store!Spec
=============================================================================
