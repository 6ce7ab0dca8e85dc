---------------------------------- MODULE Wal ----------------------------------
(***************************************************************************)
(* The write-ahead log of src/src/wal at the level of its storage          *)
(* operations: the commit pipelines of the three durability modes, the     *)
(* rotation of segments, reset, and recovery with its repair of a torn     *)
(* tail.  Between any two storage operations another thread may run, the   *)
(* operation may fail, or the process may lose power or be killed.         *)
(*                                                                         *)
(* A frame on disk is one piece of a file, named by the append() call it   *)
(* is for and by its place among all writes, as a retry writes it again.   *)
(* Db calls reset() only from a flush body, during which no append() runs  *)
(* (QuiescedBody of WriteGate), and only once every logged record is in a  *)
(* table; here that is the guard of StartReset.                            *)
(***************************************************************************)
EXTENDS Integers, Sequences, SequencesExt, FiniteSetsExt

CONSTANTS
  Threads,      \* the callers of append and reset
  NoThread,     \* the writer mutex has no owner
  Modes,        \* the durability modes to open the log in
  SegmentSize,  \* frames at which a segment is rolled
  MaxAppends,   \* bound: calls of append
  MaxResets,    \* bound: calls of reset
  MaxSegments,  \* bound: segment ids
  Faults,       \* the faults that may happen: subset of FaultKinds
  MaxFaults     \* bound: faults in a behaviour

\* A power loss; the end of the process alone; an error of a storage operation of
\* append or reset; an append that stops half-way; an error returned by Wal::open.
FaultKinds == {"power", "kill", "io", "short", "open"}

ASSUME WalAssumption ==
  /\ NoThread \notin Threads
  /\ Modes \subseteq {"Always", "GroupCommit", "OsBuffered"}
  /\ {SegmentSize, MaxSegments} \subseteq Nat \ {0}
  /\ {MaxAppends, MaxResets, MaxFaults} \subseteq Nat
  /\ Faults \subseteq FaultKinds

VARIABLES
  durability, \* Wal.durability, the same at every open
  fs,        \* the file system, see Storage
  boot,      \* "up", or where Wal::open is
  writer,    \* Wal.writer: its mutex's owner and progress, and the active segment
  coord,     \* Wal.coord: queue, nextSeq, syncedThrough, leaderActive
  parked,    \* threads waiting on Wal.batch_done
  pc,        \* where each thread is
  mine,      \* the frame and commit seq of each thread's append()
  batch,     \* the frames a thread took to write
  calls,     \* append() calls so far
  resets,    \* reset() calls so far
  faults,    \* faults so far
  writes,    \* history: frames written to a file so far
  history,   \* history: those since the last reset, in order
  promised,  \* history: frames whose append() returned Ok with a barrier
  covered,   \* history: the last write made redundant by a flush before reset()
  released   \* history: the last write that a completed reset() dropped

groupVars == <<coord, parked>>
callVars == <<pc, mine, batch>>
boundVars == <<calls, resets, faults>>
ghostVars == <<writes, history, promised, covered, released>>
vars == <<durability, fs, boot, writer, groupVars, callVars, boundVars, ghostVars>>

\* `<id>.wal`, and the scratch name `<id>.wal.tmp` of truncate_tail.
Path(id) == <<id, "wal">>
Tmp(id) == <<id, "tmp">>

Fs == INSTANCE Storage WITH
  Paths <- (1 .. MaxSegments) \X {"wal", "tmp"},
  Inodes <- 1 .. 2 * MaxSegments + 2

(***************************************************************************)
(* idle    no call in progress                                             *)
(* check   commit_group, at the top of its loop                            *)
(* write   about to lock the writer, or holding it                         *)
(* ok, err the batch's outcome, not yet published or returned              *)
(* reset   in reset()                                                      *)
(***************************************************************************)
PCs == {"idle", "check", "write", "ok", "err", "reset"}

Stages == {"none", "append", "sync", "roll", "create", "dirsync",
           "fresh", "publish", "retire"}

Boots == {"up", "scan", "drop", "create", "copy", "sync", "rename", "dirsync",
          "activate", "mkdir"}

NoCall == [frame |-> 0, seq |-> 0]
FreshCoord == [queue |-> <<>>, nextSeq |-> 0, syncedThrough |-> 0, leaderActive |-> FALSE]
WriterOf(id, offset) ==
  [owner |-> NoThread, stage |-> "none", todo |-> <<>>, old |-> {},
   active |-> id, offset |-> offset]

-----------------------------------------------------------------------------
\* list_segments: the ids of the `<id>.wal` files.
Segments(f) == {id \in 1 .. MaxSegments : Fs!Exists(f, Path(id))}

\* frame::decode: Ok only for a frame that is all there with the bytes its CRC
\* was computed on.  Truncated and BadCrc both end the scan.
Decodes(piece) == piece.state = "whole"

\* scan_buffer: how many frames decode before the first that does not.
ValidLen(content) ==
  Max({n \in 0 .. Len(content) : \A i \in 1 .. n : Decodes(content[i])})

Unclean(f, id) ==
  LET content == Fs!Content(f, Path(id)) IN ValidLen(content) < Len(content)

Valid(f, id) ==
  LET content == Fs!Content(f, Path(id)) IN SubSeq(content, 1, ValidLen(content))

\* recover: the segments, ascending, up to the first that does not end cleanly.
Scanned(f) ==
  {id \in Segments(f) : \A older \in Segments(f) : older < id => ~Unclean(f, older)}

Recovered(f) ==
  LET pieces == FlattenSeq([id \in 1 .. MaxSegments |->
                              IF id \in Scanned(f) THEN Valid(f, id) ELSE <<>>])
  IN  [i \in DOMAIN pieces |-> pieces[i].id]

\* The elements of s that are in S, in their order.
Filter(s, S) == FlattenSeq([i \in DOMAIN s |-> IF s[i] \in S THEN <<s[i]>> ELSE <<>>])

-----------------------------------------------------------------------------
\* Wal::open is called on an empty directory.
Init ==
  /\ durability \in Modes
  /\ fs = Fs!EmptyFs
  /\ boot = "scan"
  /\ writer = WriterOf(1, 0)
  /\ coord = FreshCoord
  /\ parked = {}
  /\ pc = [t \in Threads |-> "idle"]
  /\ mine = [t \in Threads |-> NoCall]
  /\ batch = [t \in Threads |-> <<>>]
  /\ calls = 0 /\ resets = 0 /\ faults = 0 /\ writes = 0
  /\ history = <<>>
  /\ promised = {}
  /\ covered = 0
  /\ released = 0

Active == Path(writer.active)
Owns(t, stage) == boot = "up" /\ writer.owner = t /\ writer.stage = stage
Goto(t, to) == pc' = [pc EXCEPT ![t] = to]

\* append() is called: under GroupCommit the frame is queued with the next seq.
Call(t) ==
  LET frame == calls + 1
      seq == coord.nextSeq + 1
  IN
  /\ boot = "up" /\ pc[t] = "idle" /\ calls < MaxAppends
  /\ \A u \in Threads : pc[u] # "reset"
  /\ calls' = frame
  /\ IF durability = "GroupCommit"
     THEN /\ coord' = [coord EXCEPT !.nextSeq = seq,
                                    !.queue = Append(@, [seq |-> seq, frame |-> frame])]
          /\ mine' = [mine EXCEPT ![t] = [frame |-> frame, seq |-> seq]]
          /\ Goto(t, "check")
          /\ UNCHANGED batch
     ELSE /\ mine' = [mine EXCEPT ![t] = [frame |-> frame, seq |-> 0]]
          /\ batch' = [batch EXCEPT ![t] = <<[seq |-> 0, frame |-> frame]>>]
          /\ Goto(t, "write")
          /\ UNCHANGED coord
  /\ UNCHANGED <<fs, boot, writer, parked, resets, faults, ghostVars>>

\* append() returns to the caller; with a barrier behind it, Ok is a promise.
Return(t, ok) ==
  /\ Goto(t, "idle")
  /\ mine' = [mine EXCEPT ![t] = NoCall]
  /\ batch' = [batch EXCEPT ![t] = <<>>]
  /\ promised' = IF ok /\ durability # "OsBuffered" THEN promised \cup {mine[t].frame}
                 ELSE promised

\* commit_group's loop, under the coord lock: a leader has covered my seq ...
Covered(t) ==
  /\ pc[t] = "check" /\ t \notin parked
  /\ coord.syncedThrough >= mine[t].seq
  /\ Return(t, TRUE)
  /\ UNCHANGED <<fs, boot, writer, groupVars, boundVars, writes, history, covered,
                 released>>

\* ... or one is at work: wait for its batch ...
Park(t) ==
  /\ pc[t] = "check" /\ t \notin parked
  /\ coord.syncedThrough < mine[t].seq /\ coord.leaderActive
  /\ parked' = parked \cup {t}
  /\ UNCHANGED <<fs, boot, writer, coord, callVars, boundVars, ghostVars>>

\* ... or lead: take the whole queue.
Lead(t) ==
  /\ pc[t] = "check" /\ t \notin parked
  /\ coord.syncedThrough < mine[t].seq /\ ~coord.leaderActive
  /\ coord' = [coord EXCEPT !.leaderActive = TRUE, !.queue = <<>>]
  /\ batch' = [batch EXCEPT ![t] = coord.queue]
  /\ Goto(t, "write")
  /\ UNCHANGED <<fs, boot, writer, parked, mine, boundVars, ghostVars>>

SpuriousWake(t) ==
  /\ t \in parked
  /\ parked' = parked \ {t}
  /\ UNCHANGED <<fs, boot, writer, coord, callVars, boundVars, ghostVars>>

-----------------------------------------------------------------------------
\* write_batch, commit_sync_now and commit_buffered, with the writer locked.
AfterFrames(todo) ==
  IF todo # <<>> THEN "append" ELSE IF durability = "OsBuffered" THEN "roll" ELSE "sync"

LockWriter(t) ==
  /\ pc[t] = "write" /\ writer.owner = NoThread
  /\ writer' = [writer EXCEPT !.owner = t, !.todo = batch[t],
                              !.stage = AfterFrames(batch[t])]
  /\ UNCHANGED <<fs, boot, groupVars, callVars, boundVars, ghostVars>>

\* Segment::append of the next frame.
WriteFrame(t) ==
  LET piece == [frame |-> Head(writer.todo).frame, nth |-> writes + 1] IN
  /\ Owns(t, "append") /\ Fs!Exists(fs, Active)
  /\ fs' = Fs!AppendTo(fs, Active, <<Fs!Whole(piece)>>)
  /\ writer' = [writer EXCEPT !.todo = Tail(@), !.offset = @ + 1,
                              !.stage = AfterFrames(Tail(writer.todo))]
  /\ writes' = writes + 1
  /\ history' = Append(history, piece)
  /\ UNCHANGED <<boot, groupVars, callVars, boundVars, promised, covered, released>>

\* The durability barrier.
SyncSegment(t) ==
  /\ Owns(t, "sync") /\ Fs!Exists(fs, Active)
  /\ fs' = Fs!SyncFile(fs, Active)
  /\ writer' = [writer EXCEPT !.stage = "roll"]
  /\ UNCHANGED <<boot, groupVars, callVars, boundVars, ghostVars>>

\* maybe_rotate: the segment has room, the lock is released ...
NoRoll(t) ==
  /\ Owns(t, "roll") /\ writer.offset < SegmentSize
  /\ writer' = WriterOf(writer.active, writer.offset)
  /\ Goto(t, "ok")
  /\ UNCHANGED <<fs, boot, groupVars, mine, batch, boundVars, ghostVars>>

\* Mutant of Seal: the segment is abandoned without a barrier.
SealSkipped(t) ==
  /\ Owns(t, "roll") /\ writer.offset >= SegmentSize
  /\ writer' = [writer EXCEPT !.stage = "create"]
  /\ UNCHANGED <<fs, boot, groupVars, callVars, boundVars, ghostVars>>

\* ... or it is full: make what we leave behind durable (bound: an id is left), ...
Seal(t) ==
  /\ Owns(t, "roll") /\ writer.offset >= SegmentSize
  /\ Fs!Exists(fs, Active) /\ writer.active < MaxSegments
  /\ fs' = Fs!SyncFile(fs, Active)
  /\ writer' = [writer EXCEPT !.stage = "create"]
  /\ UNCHANGED <<boot, groupVars, callVars, boundVars, ghostVars>>

\* ... create the next segment, ...
CreateNext(t) ==
  /\ Owns(t, "create") /\ ~Fs!Exists(fs, Path(writer.active + 1))
  /\ fs' = Fs!Create(fs, Path(writer.active + 1))
  /\ writer' = [writer EXCEPT !.stage = "dirsync"]
  /\ UNCHANGED <<boot, groupVars, callVars, boundVars, ghostVars>>

\* ... and switch to it once its name is durable.
SwitchSegment(t) ==
  /\ Owns(t, "dirsync")
  /\ fs' = Fs!SyncDir(fs)
  /\ writer' = WriterOf(writer.active + 1, 0)
  /\ Goto(t, "ok")
  /\ UNCHANGED <<boot, groupVars, mine, batch, boundVars, ghostVars>>

\* The storage operation of each stage fails by itself when its file is gone,
\* or, for a create, is already there.
Blocked ==
  \/ writer.stage \in {"append", "sync"} /\ ~Fs!Exists(fs, Active)
  \/ writer.stage = "roll" /\ writer.offset >= SegmentSize /\ ~Fs!Exists(fs, Active)
  \/ writer.stage = "create" /\ Fs!Exists(fs, Path(writer.active + 1))

\* The operation of the current stage is a storage operation at all.
Operating == writer.stage = "roll" => writer.offset >= SegmentSize

Fault(kind) == kind \in Faults /\ faults < MaxFaults /\ faults' = faults + 1

\* `?` on a storage error: unlock and leave with Err.
Fail(t) ==
  /\ writer' = WriterOf(writer.active, writer.offset)
  /\ Goto(t, IF pc[t] = "reset" THEN "idle" ELSE "err")

OpFails(t) ==
  /\ boot = "up" /\ writer.owner = t /\ Operating
  /\ (Blocked /\ UNCHANGED faults) \/ Fault("io")
  /\ Fail(t)
  /\ UNCHANGED <<fs, boot, groupVars, mine, batch, calls, resets, ghostVars>>

\* RealFs's write_all may fail after some of the bytes.
ShortWrite(t) ==
  /\ Owns(t, "append") /\ Fs!Exists(fs, Active)
  /\ Fault("short")
  /\ LET piece == [frame |-> Head(writer.todo).frame, nth |-> writes + 1]
     IN  fs' = Fs!AppendTo(fs, Active, <<[id |-> piece, state |-> "torn"]>>)
  /\ Fail(t)
  /\ UNCHANGED <<boot, groupVars, mine, batch, calls, resets, ghostVars>>

-----------------------------------------------------------------------------
\* Mutant of Highest: the seq after the batch's last.
HighestPlusOne(t) == IF batch[t] = <<>> THEN mine[t].seq ELSE Last(batch[t]).seq + 1

\* `batch.last()`'s seq, or the leader's own.
Highest(t) == IF batch[t] = <<>> THEN mine[t].seq ELSE Last(batch[t]).seq

\* The batch is durable: in GroupCommit publish that and wake the followers.
CommitOk(t) ==
  /\ pc[t] = "ok"
  /\ IF durability = "GroupCommit"
     THEN /\ coord' = [coord EXCEPT !.leaderActive = FALSE,
                                    !.syncedThrough = Max({@, Highest(t)})]
          /\ parked' = {}
     ELSE UNCHANGED <<groupVars>>
  /\ Return(t, TRUE)
  /\ UNCHANGED <<fs, boot, writer, boundVars, writes, history, covered, released>>

\* Mutants of CommitErr: the frames are dropped; they go to the back of the queue;
\* leader_active stays set.
CommitErrDrops(t) ==
  /\ pc[t] = "err"
  /\ coord' = [coord EXCEPT !.leaderActive = FALSE]
  /\ parked' = {}
  /\ Return(t, FALSE)
  /\ UNCHANGED <<fs, boot, writer, boundVars, writes, history, covered, released>>

CommitErrBehind(t) ==
  /\ pc[t] = "err"
  /\ coord' = [coord EXCEPT !.leaderActive = FALSE, !.queue = @ \o batch[t]]
  /\ parked' = {}
  /\ Return(t, FALSE)
  /\ UNCHANGED <<fs, boot, writer, boundVars, writes, history, covered, released>>

CommitErrStaysLeader(t) ==
  /\ pc[t] = "err"
  /\ coord' = [coord EXCEPT !.queue = batch[t] \o @]
  /\ parked' = {}
  /\ Return(t, FALSE)
  /\ UNCHANGED <<fs, boot, writer, boundVars, writes, history, covered, released>>

\* It failed: its frames go back to the front of the queue, followers are woken.
CommitErr(t) ==
  /\ pc[t] = "err"
  /\ IF durability = "GroupCommit"
     THEN /\ coord' = [coord EXCEPT !.leaderActive = FALSE, !.queue = batch[t] \o @]
          /\ parked' = {}
     ELSE UNCHANGED <<groupVars>>
  /\ Return(t, FALSE)
  /\ UNCHANGED <<fs, boot, writer, boundVars, writes, history, covered, released>>

-----------------------------------------------------------------------------
NextId(ids) == Max({0} \cup ids) + 1

\* reset(): its caller has every logged record in a table (bound: an id is left).
StartReset(t) ==
  /\ boot = "up" /\ resets < MaxResets /\ NextId(Segments(fs)) <= MaxSegments
  /\ \A u \in Threads : pc[u] = "idle"
  /\ resets' = resets + 1
  /\ writer' = [writer EXCEPT !.owner = t, !.stage = "fresh", !.old = Segments(fs)]
  /\ Goto(t, "reset")
  /\ promised' = {}
  /\ covered' = writes
  /\ history' = <<>>
  /\ UNCHANGED <<fs, boot, groupVars, mine, batch, calls, faults, writes, released>>

ResetCreate(t) ==
  /\ Owns(t, "fresh")
  /\ fs' = Fs!Create(fs, Path(NextId(writer.old)))
  /\ writer' = [writer EXCEPT !.stage = "publish"]
  /\ UNCHANGED <<boot, groupVars, callVars, boundVars, ghostVars>>

ResetPublish(t) ==
  /\ Owns(t, "publish")
  /\ fs' = Fs!SyncDir(fs)
  /\ writer' = [writer EXCEPT !.stage = "retire"]
  /\ UNCHANGED <<boot, groupVars, callVars, boundVars, ghostVars>>

ResetRetire(t) ==
  /\ Owns(t, "retire") /\ writer.old # {}
  /\ fs' = Fs!Delete(fs, Path(Min(writer.old)))
  /\ writer' = [writer EXCEPT !.old = @ \ {Min(@)}]
  /\ UNCHANGED <<boot, groupVars, callVars, boundVars, ghostVars>>

\* Mutant of ResetDone: the deletions are not made durable.
ResetDoneUnsynced(t) ==
  /\ Owns(t, "retire") /\ writer.old = {}
  /\ writer' = WriterOf(Max(Segments(fs)), 0)
  /\ Goto(t, "idle")
  /\ released' = covered
  /\ UNCHANGED <<fs, boot, groupVars, mine, batch, boundVars, writes, history,
                 promised, covered>>

\* Only the fresh segment is left: make that durable and append there.
ResetDone(t) ==
  /\ Owns(t, "retire") /\ writer.old = {}
  /\ fs' = Fs!SyncDir(fs)
  /\ writer' = WriterOf(Max(Segments(fs)), 0)
  /\ Goto(t, "idle")
  /\ released' = covered
  /\ UNCHANGED <<boot, groupVars, mine, batch, boundVars, writes, history, promised,
                 covered>>

-----------------------------------------------------------------------------
\* The process stops; what it leaves on disk is `image`.
Die(image) ==
  /\ fs' = image
  /\ boot' = "scan"
  /\ writer' = WriterOf(1, 0)
  /\ coord' = FreshCoord
  /\ parked' = {}
  /\ pc' = [t \in Threads |-> "idle"]
  /\ mine' = [t \in Threads |-> NoCall]
  /\ batch' = [t \in Threads |-> <<>>]
  /\ history' = LET all == Recovered(image) IN
                Filter(all, {p \in ToSet(all) : p.nth > covered})
  /\ UNCHANGED <<calls, resets, writes, promised, covered, released>>

PowerLoss == Fault("power") /\ \E image \in Fs!Crashes(fs) : Die(image)

Kill == Fault("kill") /\ Die(fs)

BootTo(next) ==
  /\ boot' = next
  /\ UNCHANGED <<groupVars, callVars, boundVars, ghostVars>>

Booting(stage, next) == boot = stage /\ BootTo(next) /\ UNCHANGED writer

\* Wal::open: recover() scans; only an unclean tail is rewritten.
TailId == Max(Scanned(fs))

Scan ==
  /\ boot = "scan"
  /\ BootTo(IF Scanned(fs) # {} /\ Unclean(fs, TailId) THEN "drop" ELSE "activate")
  /\ UNCHANGED <<fs, writer>>

\* truncate_tail: drop a stale scratch file, write the clean prefix to a new
\* one, and rename it over the segment.
DropTmp ==
  /\ Booting("drop", "create")
  /\ fs' = IF Fs!Exists(fs, Tmp(TailId)) THEN Fs!Delete(fs, Tmp(TailId)) ELSE fs

CreateTmp == Booting("create", "copy") /\ fs' = Fs!Create(fs, Tmp(TailId))

CopyValid == Booting("copy", "sync") /\ fs' = Fs!AppendTo(fs, Tmp(TailId), Valid(fs, TailId))

\* Mutant of SyncTmp: the rewritten segment is renamed into place unsynced.
SyncTmpSkipped == Booting("sync", "rename") /\ UNCHANGED fs

SyncTmp == Booting("sync", "rename") /\ fs' = Fs!SyncFile(fs, Tmp(TailId))

RenameTmp == Booting("rename", "dirsync") /\ fs' = Fs!Rename(fs, Tmp(TailId), Path(TailId))

SyncRename == Booting("dirsync", "activate") /\ fs' = Fs!SyncDir(fs)

\* The last segment becomes the active one ...
Activate ==
  /\ boot = "activate" /\ Segments(fs) # {}
  /\ LET id == Max(Segments(fs)) IN writer' = WriterOf(id, Len(Fs!Content(fs, Path(id))))
  /\ BootTo("up")
  /\ UNCHANGED fs

\* ... or the first one is created.
CreateFirst ==
  /\ boot = "activate" /\ Segments(fs) = {}
  /\ fs' = Fs!Create(fs, Path(1))
  /\ BootTo("mkdir")
  /\ UNCHANGED writer

SyncFirst ==
  /\ boot = "mkdir"
  /\ fs' = Fs!SyncDir(fs)
  /\ writer' = WriterOf(1, 0)
  /\ BootTo("up")

\* Any storage operation of Wal::open fails and `?` leaves it: the disk stays as
\* it is, whatever of it is durable, and the next Wal::open starts over.
OpenFails ==
  /\ boot # "up" /\ Fault("open")
  /\ boot' = "scan"
  /\ UNCHANGED <<fs, writer, groupVars, callVars, calls, resets, ghostVars>>

Boot ==
  /\ UNCHANGED durability
  /\ \/ Scan \/ DropTmp \/ CreateTmp \/ CopyValid \/ SyncTmp \/ RenameTmp \/ SyncRename
     \/ Activate \/ CreateFirst \/ SyncFirst

\* The steps a call takes once it has been made.
Progress(t) ==
  /\ UNCHANGED durability
  /\ \/ Covered(t) \/ Park(t) \/ Lead(t)
     \/ LockWriter(t) \/ WriteFrame(t) \/ SyncSegment(t)
     \/ NoRoll(t) \/ Seal(t) \/ CreateNext(t) \/ SwitchSegment(t)
     \/ OpFails(t) \/ CommitOk(t) \/ CommitErr(t)
     \/ ResetCreate(t) \/ ResetPublish(t) \/ ResetRetire(t) \/ ResetDone(t)

Next ==
  \/ \E t \in Threads : Progress(t)
  \/ Boot
  \/ /\ UNCHANGED durability
     /\ \/ \E t \in Threads : Call(t) \/ StartReset(t) \/ SpuriousWake(t) \/ ShortWrite(t)
        \/ PowerLoss \/ Kill \/ OpenFails

Spec == Init /\ [][Next]_vars

\* Every thread inside a call is scheduled, storage operations return, and a
\* process that has died is started again.
FairSpec == Spec /\ (\A t \in Threads : WF_vars(Progress(t))) /\ WF_vars(Boot)

-----------------------------------------------------------------------------
Frames == 1 .. MaxAppends
Queued == [seq : Nat, frame : Frames]

TypeOK ==
  /\ boot \in Boots
  /\ writer \in [owner : Threads \cup {NoThread}, stage : Stages, todo : Seq(Queued),
                 old : SUBSET (1 .. MaxSegments), active : 1 .. MaxSegments, offset : Nat]
  /\ coord \in [queue : Seq(Queued), nextSeq : Nat, syncedThrough : Nat,
                leaderActive : BOOLEAN]
  /\ batch \in [Threads -> Seq(Queued)]
  /\ parked \subseteq Threads
  /\ pc \in [Threads -> PCs]
  /\ promised \subseteq Frames /\ released <= covered
  /\ coord.syncedThrough <= coord.nextSeq

\* The disks a failure now may leave: the process is killed or power is lost.
Images == {fs} \cup Fs!Crashes(fs)

(***************************************************************************)
(* The durability contract of Always and GroupCommit: a frame whose        *)
(* append() returned Ok is replayed by recovery from every disk a failure  *)
(* at this moment may leave, a failure in the middle of a rotation, of a   *)
(* reset or of an earlier recovery included (append, recover).             *)
(***************************************************************************)
AckedDurable ==
  \A image \in Images : promised \subseteq {p.frame : p \in ToSet(Recovered(image))}

(***************************************************************************)
(* Recovery never skips: what it replays of the frames written since the   *)
(* last reset is a prefix of them, in the order they were written.  This   *)
(* is all OsBuffered promises, and why maybe_rotate syncs the segment it   *)
(* leaves (maybe_rotate, recover, truncate_tail).                          *)
(***************************************************************************)
PrefixRecovered ==
  \A image \in Images :
    IsPrefix(Filter(Recovered(image), ToSet(history)), history)

(***************************************************************************)
(* Once reset() has returned Ok no failure brings a record it released     *)
(* back: replaying one over newer tables could undo a later write (reset). *)
(***************************************************************************)
ReleasedStayGone ==
  \A image \in Images : \A p \in ToSet(Recovered(image)) : p.nth > released

(***************************************************************************)
(* Group commit strands nobody: a follower sleeps only while a leader is   *)
(* still to call notify_all, and the frame of every append() that waits    *)
(* for a barrier is in the queue or in the running leader's batch          *)
(* (commit_group).                                                         *)
(***************************************************************************)
FollowersCarried ==
  /\ parked # {} => coord.leaderActive
  /\ \A t \in Threads : pc[t] = "check" /\ mine[t].seq > coord.syncedThrough =>
       mine[t] \in ToSet(coord.queue) \cup UNION {ToSet(batch[u]) : u \in Threads}

(***************************************************************************)
(* The queue is in commit order and ahead of the clock, also after a       *)
(* failed batch is put back: "they hold the lowest seqs, so this preserves *)
(* order" (commit_group).  The last frame of a batch is therefore its      *)
(* newest, which is what synced_through is set to.                         *)
(***************************************************************************)
QueueInOrder ==
  /\ \A i, j \in DOMAIN coord.queue : i < j => coord.queue[i].seq < coord.queue[j].seq
  /\ \A i \in DOMAIN coord.queue : coord.queue[i].seq > coord.syncedThrough

(***************************************************************************)
(* Every call returns, wal_group's appends: leaders, followers and the     *)
(* owner of the writer mutex never wait for each other, through failed     *)
(* batches and restarts (commit_group, write_batch).                       *)
(***************************************************************************)
EveryCallReturns == \A t \in Threads : pc[t] # "idle" ~> pc[t] = "idle"
================================================================================
