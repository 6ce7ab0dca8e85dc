------------------------------- MODULE Storage -------------------------------
(***************************************************************************)
(* The storage seam and its power-loss model, after SimFs                  *)
(* (src/src/storage/sim.rs): a flat directory whose names point to inodes, *)
(* with a live image that the process sees and a durable one that a crash  *)
(* returns to.  sync_file makes an inode's bytes durable, sync_dir makes   *)
(* the names durable, and neither does the other's work.                   *)
(*                                                                         *)
(* A file's bytes are abstracted to the sequence of pieces appended to it. *)
(* A crash may keep part of a piece ("torn") or flip a bit in it ("bad").  *)
(* An operation takes a file system and returns the next one; its guard,   *)
(* the absence of AlreadyExists or NotFound, is a predicate of its own.    *)
(***************************************************************************)
EXTENDS Integers, Sequences, FiniteSets

CONSTANTS Paths,    \* the names a program may create
          Inodes    \* inode generations: a pool of positive numbers

Whole(id) == [id |-> id, state |-> "whole"]

(***************************************************************************)
(* live, durable    each name's inode in either image, 0 for none          *)
(* bytes, synced    each inode's pieces in either image                    *)
(***************************************************************************)
EmptyFs ==
  [live |-> [p \in Paths |-> 0], durable |-> [p \in Paths |-> 0],
   bytes |-> [i \in Inodes |-> <<>>], synced |-> [i \in Inodes |-> <<>>]]

Exists(fs, p) == fs.live[p] # 0
Content(fs, p) == fs.bytes[fs.live[p]]

\* collect_unreferenced_inodes: what no name reaches in either image is gone.
Referenced(fs) == {fs.live[p] : p \in Paths} \cup {fs.durable[p] : p \in Paths}

Collect(fs) ==
  LET kept == Referenced(fs) IN
  [fs EXCEPT !.bytes = [i \in Inodes |-> IF i \in kept THEN @[i] ELSE <<>>],
             !.synced = [i \in Inodes |-> IF i \in kept THEN @[i] ELSE <<>>]]

\* create: a fresh, empty generation.  Inode numbers carry no meaning beyond
\* identity, so the smallest unreferenced one stands for next_inode.
Create(fs, p) ==
  LET free == Inodes \ Referenced(fs)
      i == CHOOSE j \in free : \A m \in free : j <= m
  IN  [fs EXCEPT !.live[p] = i]

AppendTo(fs, p, pieces) == [fs EXCEPT !.bytes[fs.live[p]] = @ \o pieces]

SyncFile(fs, p) == [fs EXCEPT !.synced[fs.live[p]] = fs.bytes[fs.live[p]]]

SyncDir(fs) == Collect([fs EXCEPT !.durable = fs.live])

Rename(fs, from, to) ==
  Collect([fs EXCEPT !.live[to] = fs.live[from], !.live[from] = 0])

Delete(fs, p) == Collect([fs EXCEPT !.live[p] = 0])

-----------------------------------------------------------------------------
\* What a tear may leave of an unsynced tail: TearMode Drop and Truncate keep a
\* prefix, possibly ending inside a piece; BitFlip spoils one piece.
TornTails(tail) ==
  {SubSeq(tail, 1, n) : n \in 0 .. Len(tail)}
    \cup {Append(SubSeq(tail, 1, n - 1), [tail[n] EXCEPT !.state = "torn"]) :
            n \in 1 .. Len(tail)}
    \cup {[tail EXCEPT ![n].state = "bad"] : n \in 1 .. Len(tail)}

UnsyncedTail(fs, i) == SubSeq(fs.bytes[i], Len(fs.synced[i]) + 1, Len(fs.bytes[i]))

\* The files whose unsynced appends the crash may tear: still named on disk.
\* SimFs tears the one appended to last; a disk need not, so any one may be.
TearTargets(fs) ==
  {i \in Inodes : Len(fs.bytes[i]) > Len(fs.synced[i])
                  /\ \E p \in Paths : fs.durable[p] = i}

\* crash_locked, once the tear has left `kept` as inode i's durable bytes.
Reverted(fs, synced) ==
  Collect([live |-> fs.durable, durable |-> fs.durable,
           bytes |-> synced, synced |-> synced])

\* The file systems a power loss may leave: at most one file is torn, every
\* other unsynced byte and every name since the last sync_dir is lost.
Crashes(fs) ==
  {Reverted(fs, fs.synced)} \cup
  UNION {{Reverted(fs, [fs.synced EXCEPT ![i] = @ \o tail]) : tail \in TornTails(UnsyncedTail(fs, i))} :
           i \in TearTargets(fs)}
==============================================================================
