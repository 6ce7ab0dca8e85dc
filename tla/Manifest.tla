------------------------------- MODULE Manifest -------------------------------
(***************************************************************************)
(* The manifest of src/src/manifest.rs at the level of its storage         *)
(* operations: write_manifest's scratch file and atomic switch, install,   *)
(* the garbage collection of table files by reference counts, and open,    *)
(* driven by the flush body and the cascade of compactions that install    *)
(* versions, and beside readers that pin a version and look its tables up  *)
(* through the cache of reader_for (db.rs).  Between any two storage       *)
(* operations a reader may run, the operation may fail, or the process may *)
(* be killed or lose power.                                                *)
(*                                                                         *)
(* What a table holds is abstracted to the number of its build, so that a  *)
(* second table under an id can be told from the first.  A manifest file   *)
(* is the sequence of its fields, and a CRC is abstracted to the number of *)
(* fields it covers: damage is kept in the state of a piece (Storage).     *)
(***************************************************************************)
EXTENDS Lsm

CONSTANTS
  Readers,     \* the callers of get and scan
  TierFanout,  \* Options::tier_fanout
  MaxTables,   \* bound: table ids
  LateTables,  \* bound: table ids that a flush may use after the last fault
  Faults,      \* the faults that may happen: subset of FaultKinds
  MaxFaults    \* bound: faults in a behaviour

\* "stat" is an error of the existence test in open, apart from the others.
FaultKinds == {"power", "kill", "io", "stat"}

ASSUME ManifestAssumption ==
  /\ TierFanout \in Nat
  /\ MaxTables \in Nat \ {0} /\ LateTables \in 0 .. MaxTables
  /\ Faults \subseteq FaultKinds
  /\ MaxFaults \in Nat

VARIABLES
  fs,        \* the file system, see Storage
  up,        \* Manifest::open has returned
  current,   \* Inner.current
  obsolete,  \* Inner.obsolete
  job,       \* progress and locals of the one flush body, or of open
  rd,        \* progress and locals of each reader
  cache,     \* Db.readers: table id -> what the cached reader has read of it
  faults,    \* faults so far
  builds,    \* history: tables written so far
  allowed    \* history: the version last installed and those tried since

vars == <<fs, up, current, obsolete, job, rd, cache, faults, builds, allowed>>

\* The directory: the manifest, its scratch file, and `<id>.sst` under id.
MANIFEST == 0
MANIFEST_TMP == -1
TableIds == 1 .. MaxTables

Fs == INSTANCE Storage WITH
  Paths <- {MANIFEST, MANIFEST_TMP} \cup TableIds,
  Inodes <- 1 .. MaxTables + 3

\* at    the next step; base is the version a local Arc pins while it runs
\* then  what install returns to: the flush loop, the cascade, or open
\* todo  gc: the files it has still to delete
NoJob == [at |-> "idle", base |-> EmptyVersion, next |-> EmptyVersion,
          then |-> "flush", todo |-> {}, deleted |-> FALSE]

\* want  history: what each table of the pinned version held when it was pinned
NoRead == [at |-> "idle", pin |-> EmptyVersion, id |-> 0, reader |-> <<>>, want |-> <<>>]

-----------------------------------------------------------------------------
\* encode_version: the fields, then the checksum of all of them.
MAGIC == 77
FORMAT == 1

EncodeVersion(v) ==
  LET body == <<MAGIC, FORMAT, v.nextSeq, v.nextTableId, Len(v.tiers)>>
                \o FlattenSeq([t \in DOMAIN v.tiers |-> <<Len(v.tiers[t])>> \o v.tiers[t]])
  IN  [i \in 1 .. Len(body) + 1 |-> Fs!Whole(IF i <= Len(body) THEN body[i] ELSE -Len(body))]

Corrupt == [EmptyVersion EXCEPT !.nextTableId = 0]
NoManifest == [Corrupt EXCEPT !.nextSeq = 0]

\* The loops of decode_version: a tier's count, then so many ids.
DecodeTiers(fields) ==
  FoldLeft(LAMBDA s, f :
             IF s.left = 0 THEN [tiers |-> Append(s.tiers, <<>>), left |-> f]
             ELSE [tiers |-> [s.tiers EXCEPT ![Len(s.tiers)] = Append(@, f)], left |-> s.left - 1],
           [tiers |-> <<>>, left |-> 0], fields)

\* decode_version: the CRC first, then magic, format and a structure that fits.
DecodeVersion(pieces) ==
  LET n == Len(pieces) - 1
      f == [i \in 1 .. n |-> pieces[i].id]
      rest == DecodeTiers(SubSeq(f, 6, n))
  IN  IF \/ n < 5
         \/ \E i \in DOMAIN pieces : pieces[i].state # "whole"
         \/ pieces[n + 1].id # -n
         \/ f[1] # MAGIC \/ f[2] # FORMAT
         \/ rest.left # 0 \/ Len(rest.tiers) # f[5]
      THEN Corrupt
      ELSE [tiers |-> rest.tiers, nextSeq |-> f[3], nextTableId |-> f[4]]

\* What SsTableReader::open accepts: the footer and everything before it.
TableFile(build) == <<Fs!Whole(build), Fs!Whole(0)>>
Complete(f, id) ==
  /\ Fs!Exists(f, id)
  /\ \E build \in 1 .. builds : Fs!Content(f, id) = TableFile(build)

-----------------------------------------------------------------------------
\* Db::open on an empty directory.
Init ==
  /\ fs = Fs!EmptyFs
  /\ up = FALSE
  /\ current = EmptyVersion
  /\ obsolete = {}
  /\ job = NoJob
  /\ rd = [r \in Readers |-> NoRead]
  /\ cache = <<>>
  /\ faults = 0
  /\ builds = 0
  /\ allowed = {NoManifest}

At(stage) == job.at = stage
Goto(stage) == job' = [job EXCEPT !.at = stage]

\* Manifest::open: a manifest whose file test succeeds is decoded, a corrupt one
\* refused; otherwise an empty version is written.
Open ==
  /\ ~up /\ At("idle")
  /\ \E seen \in {Fs!Exists(fs, MANIFEST)} \cup (IF "stat" \in Faults THEN {FALSE} ELSE {}) :
       LET v == DecodeVersion(Fs!Content(fs, MANIFEST)) IN
       \/ /\ seen /\ v # Corrupt
          /\ up' = TRUE
          /\ current' = v
          /\ UNCHANGED <<job, allowed>>
       \/ /\ ~seen
          /\ job' = [NoJob EXCEPT !.at = "deleteTmp", !.then = "open"]
          /\ allowed' = IF NoManifest \in allowed THEN allowed \cup {EmptyVersion} ELSE allowed
          /\ UNCHANGED <<up, current>>
  /\ UNCHANGED <<fs, obsolete, rd, cache, faults, builds>>

\* Every compaction of a cascade uses up an id and at least one table, so the
\* bound on flushes leaves room for all of them.
RoomToFlush ==
  current.nextTableId + Cardinality(ReferencedIds(current))
    <= IF faults < MaxFaults THEN MaxTables ELSE LateTables

\* flush_quiesced takes a frozen memtable.
StartFlush ==
  /\ up /\ At("idle") /\ RoomToFlush
  /\ job' = [NoJob EXCEPT !.at = "create", !.base = current, !.then = "flush"]
  /\ UNCHANGED <<fs, up, current, obsolete, rd, cache, faults, builds, allowed>>

\* maybe_compact: some tier is due, or the flush body is done.
MaybeCompact ==
  /\ At("compact")
  /\ IF TierToCompact(current, TierFanout) = 0 THEN job' = NoJob
     ELSE /\ current.nextTableId <= MaxTables
          /\ job' = [NoJob EXCEPT !.at = "create", !.base = current, !.then = "compact"]
  /\ UNCHANGED <<fs, up, current, obsolete, rd, cache, faults, builds, allowed>>

\* An operation fails and `?` leaves the flush body, or open.
Fail == job' = NoJob

\* write_table: the file is created under the next id, or the id is taken ...
CreateTable ==
  LET id == job.base.nextTableId IN
  /\ At("create")
  /\ IF Fs!Exists(fs, id) THEN Fail /\ UNCHANGED fs
     ELSE Goto("build") /\ fs' = Fs!Create(fs, id)
  /\ UNCHANGED <<up, current, obsolete, rd, cache, faults, builds, allowed>>

Tier == TierToCompact(job.base, TierFanout)

\* ... entries, index, filter and footer are appended to it ...
BuildTable ==
  /\ At("build")
  /\ builds' = builds + 1
  /\ fs' = Fs!AppendTo(fs, job.base.nextTableId, TableFile(builds + 1))
  /\ Goto("syncTable")
  /\ UNCHANGED <<up, current, obsolete, rd, cache, faults, allowed>>

BeginInstall(next) ==
  /\ job' = [job EXCEPT !.at = "deleteTmp", !.next = next]
  /\ allowed' = allowed \cup {next}

\* ... or nothing, when a compaction at the bottom dropped every entry: the
\* builder is dropped and the tier just cleared.
BuildNothing ==
  /\ At("build") /\ job.then = "compact" /\ OutputIsBottom(job.base, Tier)
  /\ BeginInstall(Cleared(job.base, Tier))
  /\ UNCHANGED <<fs, up, current, obsolete, rd, cache, faults, builds>>

\* Mutant of SyncTable: finish leaves the barrier to the manifest's sync_dir.
SyncTableSkipped ==
  LET id == job.base.nextTableId IN
  /\ At("syncTable")
  /\ BeginInstall(IF job.then = "flush" THEN Flushed(job.base, id, job.base.nextSeq + 1)
                  ELSE Compacted(job.base, Tier, id))
  /\ UNCHANGED <<fs, up, current, obsolete, rd, cache, faults, builds>>

\* ... and finish's sync_file; the write clock has advanced since the last flush.
SyncTable ==
  LET id == job.base.nextTableId IN
  /\ At("syncTable")
  /\ fs' = Fs!SyncFile(fs, id)
  /\ BeginInstall(IF job.then = "flush" THEN Flushed(job.base, id, job.base.nextSeq + 1)
                  ELSE Compacted(job.base, Tier, id))
  /\ UNCHANGED <<up, current, obsolete, rd, cache, faults, builds>>

-----------------------------------------------------------------------------
\* write_manifest: whatever deleting a stale scratch file returns is ignored ...
DeleteTmp ==
  /\ At("deleteTmp")
  /\ \/ fs' = Fs!Delete(fs, MANIFEST_TMP) /\ UNCHANGED faults
     \/ /\ "io" \in Faults /\ faults < MaxFaults /\ faults' = faults + 1
        /\ UNCHANGED fs
  /\ Goto("createTmp")
  /\ UNCHANGED <<up, current, obsolete, rd, cache, builds, allowed>>

CreateTmp ==
  /\ At("createTmp")
  /\ IF Fs!Exists(fs, MANIFEST_TMP) THEN Fail /\ UNCHANGED fs
     ELSE Goto("appendTmp") /\ fs' = Fs!Create(fs, MANIFEST_TMP)
  /\ UNCHANGED <<up, current, obsolete, rd, cache, faults, builds, allowed>>

AppendTmp ==
  /\ At("appendTmp")
  /\ fs' = Fs!AppendTo(fs, MANIFEST_TMP, EncodeVersion(job.next))
  /\ Goto("syncTmp")
  /\ UNCHANGED <<up, current, obsolete, rd, cache, faults, builds, allowed>>

SyncTmp ==
  /\ At("syncTmp")
  /\ fs' = Fs!SyncFile(fs, MANIFEST_TMP)
  /\ Goto("rename")
  /\ UNCHANGED <<up, current, obsolete, rd, cache, faults, builds, allowed>>

RenameTmp ==
  /\ At("rename")
  /\ fs' = Fs!Rename(fs, MANIFEST_TMP, MANIFEST)
  /\ Goto("syncDir")
  /\ UNCHANGED <<up, current, obsolete, rd, cache, faults, builds, allowed>>

\* Mutant of SyncSwitch: the rename is taken to be durable by itself.
SyncSwitchSkipped ==
  /\ At("syncDir")
  /\ allowed' = IF job.next \in allowed THEN {job.next} ELSE allowed
  /\ IF job.then = "open" THEN /\ up' = TRUE
                               /\ current' = job.next
                               /\ job' = NoJob
     ELSE Goto("swap") /\ UNCHANGED <<up, current>>
  /\ UNCHANGED <<fs, obsolete, rd, cache, faults, builds>>

\* ... and the last sync_dir makes the switch; open is done with it.
SyncSwitch ==
  /\ At("syncDir")
  /\ fs' = Fs!SyncDir(fs)
  /\ allowed' = IF job.next \in allowed THEN {job.next} ELSE allowed
  /\ IF job.then = "open" THEN /\ up' = TRUE
                               /\ current' = job.next
                               /\ job' = NoJob
     ELSE Goto("swap") /\ UNCHANGED <<up, current>>
  /\ UNCHANGED <<obsolete, rd, cache, faults, builds>>

\* install: the new version is current, the previous one kept for its readers.
Swap ==
  /\ At("swap")
  /\ current' = job.next
  /\ obsolete' = obsolete \cup {current}
  /\ Goto("gc")
  /\ UNCHANGED <<fs, up, rd, cache, faults, builds, allowed>>

OnDisk(f) == {id \in TableIds : Fs!Exists(f, id)}

\* Arc::strong_count > 1: the flush body's local, or a reader's.
Pinned(v) == v = job.base \/ \E r \in Readers : rd[r].at # "idle" /\ rd[r].pin = v

LiveIds(retained) == ReferencedIds(current) \cup UNION {ReferencedIds(v) : v \in retained}

\* Mutants of Gc: reference counts are not asked; only what the version just
\* retired named is looked at.
GcUnpinned ==
  /\ At("gc")
  /\ obsolete' = {}
  /\ job' = [job EXCEPT !.at = "delete", !.todo = OnDisk(fs) \ LiveIds({})]
  /\ UNCHANGED <<fs, up, current, rd, cache, faults, builds, allowed>>

GcRetiredOnly ==
  LET retained == {v \in obsolete : Pinned(v)} IN
  /\ At("gc")
  /\ obsolete' = retained
  /\ job' = [job EXCEPT !.at = "delete",
                        !.todo = UNION {ReferencedIds(v) : v \in obsolete \ retained}
                                   \ LiveIds(retained)]
  /\ UNCHANGED <<fs, up, current, rd, cache, faults, builds, allowed>>

\* gc: under the lock, which versions still count; then the files none names.
Gc ==
  LET retained == {v \in obsolete : Pinned(v)} IN
  /\ At("gc")
  /\ obsolete' = retained
  /\ job' = [job EXCEPT !.at = "delete", !.todo = OnDisk(fs) \ LiveIds(retained)]
  /\ UNCHANGED <<fs, up, current, rd, cache, faults, builds, allowed>>

\* Where install returns to: the loop over frozen tables, of which a failed flush
\* may have left one more, or Wal::reset behind it, or the cascade.
NextJob ==
  IF job.then = "compact" THEN {[NoJob EXCEPT !.at = "compact"]}
  ELSE {[NoJob EXCEPT !.at = "reset"]}
         \cup IF faults > 0 /\ RoomToFlush
              THEN {[NoJob EXCEPT !.at = "create", !.base = current]} ELSE {}

GcDelete ==
  /\ At("delete") /\ job.todo # {}
  /\ fs' = Fs!Delete(fs, Min(job.todo))
  /\ job' = [job EXCEPT !.todo = @ \ {Min(job.todo)}, !.deleted = TRUE]
  /\ UNCHANGED <<up, current, obsolete, rd, cache, faults, builds, allowed>>

GcSync ==
  /\ At("delete") /\ job.todo = {}
  /\ fs' = IF job.deleted THEN Fs!SyncDir(fs) ELSE fs
  /\ job' \in NextJob
  /\ UNCHANGED <<up, current, obsolete, rd, cache, faults, builds, allowed>>

\* Wal::reset, and between flushes a rotation, sync the directory they share.
LogSyncDir ==
  /\ up /\ job.at \in {"reset", "idle"}
  /\ fs' = Fs!SyncDir(fs)
  /\ IF At("reset") THEN Goto("compact") ELSE UNCHANGED job
  /\ UNCHANGED <<up, current, obsolete, rd, cache, faults, builds, allowed>>

\* Any other storage operation of the flush body or of open fails.
OpFails ==
  /\ job.at \notin {"idle", "swap", "deleteTmp", "compact"}
  /\ "io" \in Faults /\ faults < MaxFaults
  /\ faults' = faults + 1
  /\ Fail
  /\ UNCHANGED <<fs, up, current, obsolete, rd, cache, builds, allowed>>

-----------------------------------------------------------------------------
\* get or scan: current() pins the version whose tables the call will look up.
Pin(r) ==
  /\ up /\ rd[r].at = "idle" /\ ReferencedIds(current) # {}
  /\ rd' = [rd EXCEPT ![r] =
       [NoRead EXCEPT !.at = "pinned", !.pin = current,
                      !.want = [id \in ReferencedIds(current) |-> Fs!Content(fs, id)]]]
  /\ UNCHANGED <<fs, up, current, obsolete, job, cache, faults, builds, allowed>>

\* reader_for: a hit under the read lock changes nothing; after a miss the table
\* is opened with no lock held ...
OpenTable(r, id) ==
  /\ rd[r].at = "pinned" /\ id \notin DOMAIN cache
  /\ Complete(fs, id)
  /\ rd' = [rd EXCEPT ![r].at = "insert", ![r].id = id, ![r].reader = Fs!Content(fs, id)]
  /\ UNCHANGED <<fs, up, current, obsolete, job, cache, faults, builds, allowed>>

\* ... and inserted under the write lock, over what another miss inserted.
\* Blocks are read from the file, which a cached reader opens again by its name.
CacheInsert(r) ==
  /\ rd[r].at = "insert"
  /\ cache' = (rd[r].id :> rd[r].reader) @@ cache
  /\ rd' = [rd EXCEPT ![r].at = "pinned", ![r].id = 0, ![r].reader = <<>>]
  /\ UNCHANGED <<fs, up, current, obsolete, job, faults, builds, allowed>>

\* A get returns at its first hit, a scan after its last table.
Unpin(r) ==
  /\ rd[r].at = "pinned"
  /\ rd' = [rd EXCEPT ![r] = NoRead]
  /\ UNCHANGED <<fs, up, current, obsolete, job, cache, faults, builds, allowed>>

-----------------------------------------------------------------------------
Die(kind, image) ==
  /\ kind \in Faults /\ faults < MaxFaults
  /\ faults' = faults + 1
  /\ fs' = image
  /\ up' = FALSE
  /\ current' = EmptyVersion
  /\ obsolete' = {}
  /\ job' = NoJob
  /\ rd' = [r \in Readers |-> NoRead]
  /\ cache' = <<>>
  /\ UNCHANGED <<builds, allowed>>

Kill == Die("kill", fs)

PowerLoss == \E image \in Fs!Crashes(fs) : Die("power", image)

FlusherStep ==
  \/ MaybeCompact \/ CreateTable \/ BuildTable \/ BuildNothing \/ SyncTable
  \/ DeleteTmp \/ CreateTmp \/ AppendTmp \/ SyncTmp \/ RenameTmp \/ SyncSwitch
  \/ Swap \/ Gc \/ GcDelete \/ GcSync

ReaderStep(r) ==
  \/ Pin(r)
  \/ \E id \in ReferencedIds(rd[r].pin) : OpenTable(r, id)
  \/ CacheInsert(r) \/ Unpin(r)

Next ==
  \/ Open \/ StartFlush \/ FlusherStep \/ LogSyncDir \/ OpFails
  \/ \E r \in Readers : ReaderStep(r)
  \/ Kill \/ PowerLoss

Spec == Init /\ [][Next]_vars
-----------------------------------------------------------------------------
TypeOK ==
  /\ up \in BOOLEAN
  /\ current.nextTableId \in 1 .. MaxTables + 1
  /\ job.at # "idle" /\ job.then # "open" => up
  /\ \A v \in obsolete : v.nextTableId <= current.nextTableId
  /\ DOMAIN cache \subseteq 1 .. current.nextTableId - 1
  /\ faults \in 0 .. MaxFaults

\* The disks that the process killed now, or a power loss now, may leave, and
\* what Manifest::open finds on one.
Images == {fs} \cup Fs!Crashes(fs)

RecoveredVersion(image) ==
  IF Fs!Exists(image, MANIFEST) THEN DecodeVersion(Fs!Content(image, MANIFEST))
  ELSE NoManifest

(***************************************************************************)
(* Once open or install has returned Ok, no crash at any storage operation *)
(* of a later switch loses the manifest, leaves one that does not decode,  *)
(* or returns to an older version: what is recovered is the version last   *)
(* installed, or one whose install was under way or failed since           *)
(* (write_manifest, open, decode_version).  Before the first install an    *)
(* empty manifest that one open wrote, interrupted before its sync_dir,    *)
(* and the next one adopted may be lost again: recovery writes it anew.    *)
(***************************************************************************)
InstalledSurvives == \A image \in Images : RecoveredVersion(image) \in allowed

(***************************************************************************)
(* "The manifest references only checksum-valid files that exist": on      *)
(* every disk a crash may leave, and in the running process, each table    *)
(* that a version names is there and complete (write_table, install, gc).  *)
(***************************************************************************)
NamedTablesComplete ==
  /\ \A image \in Images : \A id \in ReferencedIds(RecoveredVersion(image)) : Complete(image, id)
  /\ \A id \in ReferencedIds(current) : Complete(fs, id)

(***************************************************************************)
(* A reader sees the tables of the version it pinned, whatever flushes,    *)
(* compactions and failed installs do meanwhile: their files stay, under   *)
(* their ids there is nothing else, and a reader that the cache keeps by   *)
(* id was opened on that file and not on another one that had the id       *)
(* before or was given it after (gc, current, reader_for).                 *)
(***************************************************************************)
PinnedTablesStay ==
  \A r \in Readers : rd[r].at # "idle" =>
    /\ \A id \in ReferencedIds(rd[r].pin) :
         /\ Complete(fs, id) /\ Fs!Content(fs, id) = rd[r].want[id]
         /\ id \in DOMAIN cache => cache[id] = rd[r].want[id]
    /\ rd[r].at = "insert" => rd[r].reader = rd[r].want[rd[r].id]

(***************************************************************************)
(* A completed gc leaves no table file that no live version names, neither *)
(* on the disk nor on one that a power loss may return to: what crashes    *)
(* and failed flushes left behind is reclaimed with the rest (gc).         *)
(***************************************************************************)
NoGarbageAfterGc ==
  job.at \in {"reset", "compact"} =>
    \A image \in Images : OnDisk(image) \subseteq LiveIds(obsolete)

=============================================================================
