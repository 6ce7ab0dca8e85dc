------------------------------ MODULE WalProofs ------------------------------
(***************************************************************************)
(* The log for any number of callers, appends, segments and faults.  Group *)
(* commit keeps its queue in commit order and strands no follower; the     *)
(* variables stay typed; no failure brings a released record back; and     *)
(* under the faults of Calm an acked frame is always replayed, and what is *)
(* replayed is a prefix of what was written.                               *)
(***************************************************************************)
EXTENDS Wal, SeqLemmas

Frame == [frame : Nat, seq : Nat]

\* The threads that have a batch in hand: under GroupCommit, the leader.
Leading == {t \in Threads : pc[t] \in {"write", "ok", "err"}}

\* The types of what group commit keeps, without the bounds of a TLC run.
GroupTypes ==
  /\ calls \in Nat
  /\ pc \in [Threads -> PCs]
  /\ mine \in [Threads -> Frame]
  /\ batch \in [Threads -> Seq(Frame)]
  /\ coord \in [queue : Seq(Frame), nextSeq : Nat, syncedThrough : Nat,
                leaderActive : BOOLEAN]
  /\ parked \subseteq Threads
  /\ writer = [owner |-> writer.owner, stage |-> writer.stage, todo |-> writer.todo,
               old |-> writer.old, active |-> writer.active, offset |-> writer.offset]

\* Whoever holds the writer mutex is writing its batch or resetting the log.
OwnerAtWork ==
  \A t \in Threads : writer.owner = t =>
    IF writer.stage \in {"fresh", "publish", "retire"} THEN pc[t] = "reset"
    ELSE pc[t] = "write"

\* leader_active is set exactly while one thread has a batch, never empty.
OneLeader ==
  /\ coord.leaderActive <=> Leading # {}
  /\ \A t, u \in Leading : t = u
  /\ \A t \in Threads : batch[t] = <<>> <=> t \notin Leading

Ascending(frames) == \A i, j \in DOMAIN frames : i < j => frames[i].seq < frames[j].seq

\* What is not yet durable, the leader's batch and then the queue, is in commit
\* order, after synced_through and no later than the last seq handed out.
CommitOrder ==
  /\ coord.syncedThrough <= coord.nextSeq
  /\ Ascending(coord.queue)
  /\ \A i \in DOMAIN coord.queue :
       coord.syncedThrough < coord.queue[i].seq /\ coord.queue[i].seq <= coord.nextSeq
  /\ \A t \in Leading :
       /\ Ascending(batch[t])
       /\ \A i \in DOMAIN batch[t] :
            /\ coord.syncedThrough < batch[t][i].seq /\ batch[t][i].seq <= coord.nextSeq
            /\ \A j \in DOMAIN coord.queue : batch[t][i].seq < coord.queue[j].seq

Carried(t) ==
  \/ \E i \in DOMAIN coord.queue : mine[t] = coord.queue[i]
  \/ \E u \in Leading : \E i \in DOMAIN batch[u] : mine[t] = batch[u][i]

\* A caller that waits is a follower, and its frame is on its way.
WaitersCarried ==
  /\ \A t \in parked : pc[t] = "check"
  /\ parked # {} => coord.leaderActive
  /\ \A t \in Threads : mine[t].seq <= coord.nextSeq
  /\ \A t \in Threads : pc[t] = "check" /\ mine[t].seq > coord.syncedThrough => Carried(t)

\* Always and OsBuffered leave the coordinator alone.
Ungrouped ==
  coord.queue = <<>> /\ parked = {} /\ \A t \in Threads : pc[t] # "check"

GroupInv ==
  /\ GroupTypes
  /\ OwnerAtWork
  /\ durability = "GroupCommit" => OneLeader /\ CommitOrder /\ WaitersCarried
  /\ durability # "GroupCommit" => Ungrouped
-----------------------------------------------------------------------------
\* The group-commit part of the state is not touched.
LEMMA GroupUntouched ==
  ASSUME GroupInv, GroupTypes', OwnerAtWork', UNCHANGED <<durability, coord, parked, callVars>>
  PROVE  GroupInv'
  BY DEF GroupInv, OneLeader, CommitOrder, WaitersCarried, Ungrouped, Leading, Carried,
         Ascending, callVars

\* Steps of the owner of the writer mutex that keep it.
LEMMA OwnerSteps ==
  ASSUME GroupInv, NEW t \in Threads, UNCHANGED durability,
         \/ WriteFrame(t) \/ SyncSegment(t) \/ Seal(t) \/ CreateNext(t)
         \/ ResetCreate(t) \/ ResetPublish(t) \/ ResetRetire(t)
  PROVE  GroupInv'
<1> USE DEF GroupInv, GroupTypes, OwnerAtWork, Owns, callVars, boundVars, groupVars
<1>1. UNCHANGED <<coord, parked, callVars, calls>>
  BY DEF WriteFrame, SyncSegment, Seal, CreateNext, ResetCreate, ResetPublish, ResetRetire
<1>2. AfterFrames(Tail(writer.todo)) \in {"append", "roll", "sync"}
  BY DEF AfterFrames
<1>3. GroupTypes' /\ OwnerAtWork'
  <2>1. CASE WriteFrame(t)
    BY <1>1, <1>2, <2>1 DEF WriteFrame
  <2>2. CASE SyncSegment(t) \/ Seal(t) \/ CreateNext(t)
    BY <1>1, <2>2 DEF SyncSegment, Seal, CreateNext
  <2>3. CASE ResetCreate(t) \/ ResetPublish(t) \/ ResetRetire(t)
    BY <1>1, <2>3 DEF ResetCreate, ResetPublish, ResetRetire
  <2> QED
    BY <2>1, <2>2, <2>3
<1> QED
  BY <1>1, <1>3, GroupUntouched

\* The writer mutex is taken for a batch.
LEMMA LockStep ==
  ASSUME GroupInv, NEW t \in Threads, UNCHANGED durability, LockWriter(t)
  PROVE  GroupInv'
<1> USE DEF GroupInv, GroupTypes, OwnerAtWork, callVars, boundVars, groupVars, LockWriter
<1>1. AfterFrames(batch[t]) \in {"append", "roll", "sync"}
  BY DEF AfterFrames
<1>2. GroupTypes' /\ OwnerAtWork'
  BY <1>1
<1> QED
  BY <1>2, GroupUntouched

\* A step that moves one thread without making it a leader or a waiter.
LEMMA OtherMoves ==
  ASSUME GroupInv, GroupTypes', OwnerAtWork', Leading' = Leading,
         \A t \in Threads : pc'[t] = "check" <=> pc[t] = "check",
         UNCHANGED <<durability, coord, parked, mine, batch>>
  PROVE  GroupInv'
<1>1. OneLeader => OneLeader'
  BY DEF OneLeader
<1>2. CommitOrder => CommitOrder'
  BY DEF CommitOrder, Ascending
<1>3. \A t \in Threads : Carried(t)' <=> Carried(t)
  BY DEF Carried
<1>4. WaitersCarried => WaitersCarried'
  <2>1. parked \subseteq Threads
    BY DEF GroupInv, GroupTypes
  <2> QED
    BY <1>3, <2>1 DEF WaitersCarried
<1>5. Ungrouped => Ungrouped'
  BY DEF Ungrouped
<1> QED
  BY <1>1, <1>2, <1>4, <1>5 DEF GroupInv

\* A write finishes, well or badly, and the writer mutex is released.
LEMMA WriteDone ==
  ASSUME GroupInv, NEW t \in Threads, pc[t] = "write", NEW to \in {"ok", "err"},
         pc' = [pc EXCEPT ![t] = to], NEW id, NEW offset, writer' = WriterOf(id, offset),
         UNCHANGED <<durability, coord, parked, mine, batch, calls>>
  PROVE  GroupInv'
<1>1. GroupTypes' /\ OwnerAtWork'
  BY WalAssumption DEF GroupInv, GroupTypes, OwnerAtWork, WriterOf, PCs
<1>2. Leading' = Leading
  BY DEF GroupInv, GroupTypes, Leading
<1>3. \A u \in Threads : pc'[u] = "check" <=> pc[u] = "check"
  BY DEF GroupInv, GroupTypes
<1> QED
  BY <1>1, <1>2, <1>3, OtherMoves

\* reset() starts, or leaves with Ok or Err: no append() is in progress.
LEMMA ResetMoves ==
  ASSUME GroupInv, GroupTypes', OwnerAtWork', NEW t \in Threads, pc[t] \in {"idle", "reset"},
         NEW to \in {"idle", "reset"}, pc' = [pc EXCEPT ![t] = to],
         UNCHANGED <<durability, coord, parked, mine, batch>>
  PROVE  GroupInv'
<1>1. Leading' = Leading
  BY DEF GroupInv, GroupTypes, Leading
<1>2. \A u \in Threads : pc'[u] = "check" <=> pc[u] = "check"
  BY DEF GroupInv, GroupTypes
<1> QED
  BY <1>1, <1>2, OtherMoves

\* The step that ends a write: no roll, the switch to a new segment, a failing
\* operation, or the end of a reset.
LEMMA ReleaseSteps ==
  ASSUME GroupInv, NEW t \in Threads, UNCHANGED durability,
         \/ NoRoll(t) \/ SwitchSegment(t) \/ OpFails(t) \/ ShortWrite(t) \/ ResetDone(t)
  PROVE  GroupInv'
<1>1. CASE NoRoll(t)
  <2>1. pc[t] = "write"
    BY <1>1 DEF NoRoll, Owns, GroupInv, OwnerAtWork
  <2> QED
    BY <1>1, <2>1, WriteDone DEF NoRoll, Goto, groupVars, boundVars
<1>2. CASE SwitchSegment(t)
  <2>1. pc[t] = "write"
    BY <1>2 DEF SwitchSegment, Owns, GroupInv, OwnerAtWork
  <2> QED
    BY <1>2, <2>1, WriteDone DEF SwitchSegment, Goto, groupVars, boundVars
<1>3. CASE OpFails(t) \/ ShortWrite(t)
  <2>1. Fail(t) /\ UNCHANGED <<coord, parked, mine, batch, calls>>
    BY <1>3 DEF OpFails, ShortWrite, groupVars
  <2>2. writer.owner = t /\ pc[t] \in {"write", "reset"}
    BY <1>3 DEF OpFails, ShortWrite, Owns, GroupInv, OwnerAtWork
  <2>3. CASE pc[t] = "write"
    <3>1. pc' = [pc EXCEPT ![t] = "err"]
      BY <2>1, <2>3 DEF Fail, Goto
    <3> QED
      BY <2>1, <2>3, <3>1, WriteDone DEF Fail
  <2>4. CASE pc[t] = "reset"
    <3>1. pc' = [pc EXCEPT ![t] = "idle"] /\ writer' = WriterOf(writer.active, writer.offset)
      BY <2>1, <2>4 DEF Fail, Goto
    <3>2. GroupTypes' /\ OwnerAtWork'
      BY <2>1, <3>1, WalAssumption DEF GroupInv, GroupTypes, OwnerAtWork, WriterOf, PCs
    <3> QED
      BY <2>1, <2>4, <3>1, <3>2, ResetMoves
  <2> QED
    BY <2>2, <2>3, <2>4
<1>4. CASE ResetDone(t)
  <2>1. pc[t] = "reset"
    BY <1>4 DEF ResetDone, Owns, GroupInv, OwnerAtWork
  <2>2. /\ pc' = [pc EXCEPT ![t] = "idle"] /\ writer' = WriterOf(Max(Segments(fs)), 0)
        /\ UNCHANGED <<coord, parked, mine, batch, calls>>
    BY <1>4 DEF ResetDone, Goto, groupVars, boundVars
  <2>3. GroupTypes' /\ OwnerAtWork'
    BY <2>2, WalAssumption DEF GroupInv, GroupTypes, OwnerAtWork, WriterOf, PCs
  <2> QED
    BY <2>1, <2>2, <2>3, ResetMoves
<1> QED
  BY <1>1, <1>2, <1>3, <1>4

\* reset() starts beside the committers.
LEMMA StartResetStep ==
  ASSUME GroupInv, NEW t \in Threads, UNCHANGED durability, StartReset(t)
  PROVE  GroupInv'
<1>1. /\ pc[t] = "idle" /\ pc' = [pc EXCEPT ![t] = "reset"]
      /\ UNCHANGED <<coord, parked, mine, batch, calls>>
  BY DEF StartReset, Goto, groupVars
<1>2. GroupTypes' /\ OwnerAtWork'
  BY <1>1 DEF StartReset, GroupInv, GroupTypes, OwnerAtWork, PCs
<1> QED
  BY <1>1, <1>2, ResetMoves

-----------------------------------------------------------------------------
\* Every seq of the coordinator is a number.
LEMMA SeqNumbers ==
  ASSUME GroupTypes
  PROVE  /\ coord.nextSeq \in Nat /\ coord.syncedThrough \in Nat
         /\ coord.queue \in Seq(Frame)
         /\ \A i \in DOMAIN coord.queue : coord.queue[i].seq \in Nat
         /\ \A t \in Threads : mine[t].seq \in Nat
         /\ \A t \in Threads : batch[t] \in Seq(Frame)
         /\ \A t \in Threads : \A i \in DOMAIN batch[t] : batch[t][i].seq \in Nat
<1>1. \A q \in Seq(Frame) : \A i \in DOMAIN q : q[i].seq \in Nat
  <2>1. \A q \in Seq(Frame) : \A i \in DOMAIN q : q[i] \in Frame
    OBVIOUS
  <2>2. \A f \in Frame : f.seq \in Nat
    BY DEF Frame
  <2> QED
    BY <2>1, <2>2
<1>2. coord.queue \in Seq(Frame) /\ \A t \in Threads : batch[t] \in Seq(Frame)
  BY DEF GroupTypes
<1>3. \A t \in Threads : mine[t].seq \in Nat
  BY DEF GroupTypes, Frame
<1> QED
  BY <1>1, <1>2, <1>3 DEF GroupTypes

\* The maximum of two numbers.
LEMMA MaxOfTwo ==
  ASSUME NEW m \in Nat, NEW n \in Nat, m <= n
  PROVE  Max({m, n}) = n
<1>1. \A x \in {m, n} : (\A y \in {m, n} : x >= y) <=> x = n
  OBVIOUS
<1> QED
  BY <1>1 DEF Max

\* append() is called: its frame joins the queue, or is a batch of its own.
LEMMA CallStep ==
  ASSUME GroupInv, NEW t \in Threads, UNCHANGED durability, Call(t)
  PROVE  GroupInv'
<1> DEFINE seq == coord.nextSeq + 1
           new == [seq |-> seq, frame |-> calls + 1]
<1>1. /\ GroupTypes /\ OwnerAtWork /\ pc[t] = "idle" /\ calls' = calls + 1
      /\ UNCHANGED <<writer, parked>>
  BY DEF Call, GroupInv
<1>2. CASE durability = "GroupCommit"
  <2>1. /\ coord' = [coord EXCEPT !.nextSeq = seq, !.queue = Append(@, new)]
        /\ mine' = [mine EXCEPT ![t] = new]
        /\ pc' = [pc EXCEPT ![t] = "check"]
        /\ batch' = batch
    BY <1>2 DEF Call, Goto
  <2>2. /\ OneLeader /\ CommitOrder /\ WaitersCarried
        /\ new \in Frame /\ new.seq = seq /\ coord.queue \in Seq(Frame)
    BY <1>1, <1>2 DEF GroupInv, GroupTypes, Frame
  <2> HIDE DEF new
  <2>3. /\ coord'.queue = Append(coord.queue, new) /\ coord'.nextSeq = coord.nextSeq + 1
        /\ coord'.syncedThrough = coord.syncedThrough
        /\ coord'.leaderActive = coord.leaderActive
        /\ coord.nextSeq \in Nat
    BY <1>1, <2>1 DEF GroupTypes
  <2>4. GroupTypes'
    <3>1. Append(coord.queue, new) \in Seq(Frame) /\ seq \in Nat
      BY <2>2, <2>3
    <3>2. coord' \in [queue : Seq(Frame), nextSeq : Nat, syncedThrough : Nat,
                      leaderActive : BOOLEAN]
      BY <1>1, <2>1, <3>1 DEF GroupTypes
    <3>3. pc' \in [Threads -> PCs] /\ mine' \in [Threads -> Frame]
      BY <1>1, <2>1, <2>2 DEF GroupTypes, PCs
    <3> QED
      BY <1>1, <2>1, <3>2, <3>3 DEF GroupTypes
  <2>5. OwnerAtWork'
    BY <1>1, <2>1 DEF OwnerAtWork, GroupTypes
  <2>6. Leading' = Leading
    BY <1>1, <2>1 DEF Leading, GroupTypes
  <2>7. OneLeader'
    BY <2>1, <2>2, <2>3, <2>6 DEF OneLeader
  <2>q. /\ Len(coord'.queue) = Len(coord.queue) + 1 /\ Len(coord.queue) \in Nat
        /\ DOMAIN coord.queue = 1 .. Len(coord.queue)
        /\ DOMAIN coord'.queue = 1 .. Len(coord.queue) + 1
        /\ \A i \in DOMAIN coord.queue : coord'.queue[i] = coord.queue[i]
        /\ coord'.queue[Len(coord.queue) + 1] = new
    BY <2>2, <2>3
  <2>8. CommitOrder'
    <3>1. /\ \A i \in DOMAIN coord.queue :
               coord.queue[i].seq < seq /\ coord.queue[i].seq \in Nat
          /\ coord.syncedThrough < seq /\ coord.syncedThrough \in Nat
      BY <1>1, <2>2, <2>3, SeqNumbers DEF CommitOrder
    <3>2. Ascending(coord'.queue)
      <4> SUFFICES ASSUME NEW i \in 1 .. Len(coord.queue) + 1,
                          NEW j \in 1 .. Len(coord.queue) + 1, i < j
                   PROVE  coord'.queue[i].seq < coord'.queue[j].seq
        BY <2>q DEF Ascending
      <4>1. i \in 1 .. Len(coord.queue) /\ coord'.queue[i] = coord.queue[i]
        BY <2>q
      <4>2. CASE j = Len(coord.queue) + 1
        BY <2>2, <2>q, <3>1, <4>1, <4>2
      <4>3. CASE j \in 1 .. Len(coord.queue)
        BY <2>2, <2>q, <4>1, <4>3 DEF CommitOrder, Ascending
      <4> QED
        BY <2>q, <4>2, <4>3
    <3>3. \A i \in DOMAIN coord'.queue :
            /\ coord'.syncedThrough < coord'.queue[i].seq
            /\ coord'.queue[i].seq <= coord'.nextSeq
      BY <2>2, <2>3, <2>q, <3>1 DEF CommitOrder
    <3>4. ASSUME NEW u \in Leading
          PROVE  /\ Ascending(batch[u])
                 /\ \A i \in DOMAIN batch[u] :
                      /\ coord'.syncedThrough < batch[u][i].seq
                      /\ batch[u][i].seq <= coord'.nextSeq
                      /\ \A j \in DOMAIN coord'.queue : batch[u][i].seq < coord'.queue[j].seq
      <4>1. Ascending(batch[u])
        BY <2>2 DEF CommitOrder
      <4>2. ASSUME NEW i \in DOMAIN batch[u]
            PROVE  /\ coord.syncedThrough < batch[u][i].seq
                   /\ batch[u][i].seq <= coord.nextSeq /\ batch[u][i].seq \in Nat
        BY <1>1, <2>2, SeqNumbers DEF CommitOrder, Leading
      <4> QED
        BY <2>2, <2>3, <2>q, <4>1, <4>2 DEF CommitOrder
    <3> QED
      BY <2>1, <2>3, <2>6, <3>1, <3>2, <3>3, <3>4 DEF CommitOrder
  <2>9. WaitersCarried'
    <3>1. \A u \in Threads : u # t => mine'[u] = mine[u] /\ pc'[u] = pc[u]
      BY <1>1, <2>1 DEF GroupTypes
    <3>2. mine'[t] = new /\ pc'[t] = "check"
      BY <1>1, <2>1 DEF GroupTypes
    <3>3. Carried(t)'
      BY <2>q, <3>2 DEF Carried
    <3>4. \A u \in Threads : u # t /\ Carried(u) => Carried(u)'
      BY <2>1, <2>6, <2>q, <3>1 DEF Carried
    <3>5. \A u \in Threads : mine'[u].seq <= coord'.nextSeq
      BY <1>1, <2>2, <2>3, <3>1, <3>2, SeqNumbers DEF WaitersCarried
    <3> QED
      BY <1>1, <2>2, <2>3, <3>1, <3>2, <3>3, <3>4, <3>5 DEF WaitersCarried, GroupTypes
  <2> QED
    BY <2>4, <2>5, <2>7, <2>8, <2>9, <1>2 DEF GroupInv
<1>3. CASE durability # "GroupCommit"
  <2>1. /\ mine' = [mine EXCEPT ![t] = [frame |-> calls + 1, seq |-> 0]]
        /\ batch' = [batch EXCEPT ![t] = <<[seq |-> 0, frame |-> calls + 1]>>]
        /\ pc' = [pc EXCEPT ![t] = "write"]
        /\ coord' = coord
    BY <1>3 DEF Call, Goto
  <2>2. [frame |-> calls + 1, seq |-> 0] \in Frame
    BY <1>1 DEF GroupTypes, Frame
  <2>3. GroupTypes'
    BY <1>1, <2>1, <2>2 DEF GroupTypes, PCs
  <2>4. OwnerAtWork' /\ Ungrouped'
    BY <1>1, <1>3, <2>1 DEF OwnerAtWork, GroupTypes, GroupInv, Ungrouped
  <2> QED
    BY <1>3, <2>3, <2>4 DEF GroupInv
<1> QED
  BY <1>2, <1>3

\* What Return does to a thread's call, whoever made it.
LEMMA ReturnTypes ==
  ASSUME GroupTypes, OwnerAtWork, NEW t \in Threads, NEW ok \in BOOLEAN, Return(t, ok),
         pc[t] \notin {"write", "reset"}, UNCHANGED <<writer, calls>>
  PROVE  /\ OwnerAtWork'
         /\ pc' \in [Threads -> PCs] /\ mine' \in [Threads -> Frame]
         /\ batch' \in [Threads -> Seq(Frame)]
         /\ pc'[t] = "idle" /\ mine'[t] = NoCall /\ batch'[t] = <<>> /\ NoCall.seq = 0
         /\ \A u \in Threads : u # t =>
              pc'[u] = pc[u] /\ mine'[u] = mine[u] /\ batch'[u] = batch[u]
<1>1. NoCall \in Frame /\ NoCall.seq = 0
  BY DEF NoCall, Frame
<1>2. /\ pc' = [pc EXCEPT ![t] = "idle"]
      /\ mine' = [mine EXCEPT ![t] = NoCall]
      /\ batch' = [batch EXCEPT ![t] = <<>>]
  BY DEF Return, Goto
<1>3. <<>> \in Seq(Frame)
  OBVIOUS
<1>4. /\ pc' \in [Threads -> PCs] /\ mine' \in [Threads -> Frame]
      /\ batch' \in [Threads -> Seq(Frame)]
  BY <1>1, <1>2, <1>3 DEF GroupTypes, PCs
<1>5. OwnerAtWork'
  BY <1>2 DEF OwnerAtWork, GroupTypes
<1> QED
  BY <1>1, <1>2, <1>4, <1>5 DEF GroupTypes

\* A follower whose seq is covered returns.
LEMMA CoveredStep ==
  ASSUME GroupInv, NEW t \in Threads, UNCHANGED durability, Covered(t)
  PROVE  GroupInv'
<1>1. /\ GroupTypes /\ OwnerAtWork /\ pc[t] = "check" /\ t \notin parked
      /\ Return(t, TRUE) /\ UNCHANGED <<coord, parked, writer, calls>>
  BY DEF Covered, GroupInv, groupVars, boundVars
<1>2. durability = "GroupCommit" /\ OneLeader /\ CommitOrder /\ WaitersCarried
  BY <1>1 DEF GroupInv, Ungrouped
<1>3. /\ OwnerAtWork' /\ GroupTypes'
      /\ pc'[t] = "idle" /\ mine'[t].seq = 0 /\ batch'[t] = <<>>
      /\ \A u \in Threads : u # t =>
           pc'[u] = pc[u] /\ mine'[u] = mine[u] /\ batch'[u] = batch[u]
  BY <1>1, ReturnTypes DEF GroupTypes
<1>4. Leading' = Leading /\ t \notin Leading
  BY <1>1, <1>3 DEF Leading
<1>5. batch' = batch
  BY <1>1, <1>2, <1>4 DEF Return, GroupTypes, OneLeader
<1>6. OneLeader' /\ CommitOrder'
  BY <1>1, <1>2, <1>4, <1>5 DEF OneLeader, CommitOrder
<1>7. WaitersCarried'
  <2>1. \A u \in Threads : u # t /\ Carried(u) => Carried(u)'
    BY <1>1, <1>3, <1>4, <1>5 DEF Carried
  <2>2. \A u \in Threads : mine'[u].seq <= coord.nextSeq
    BY <1>1, <1>2, <1>3, SeqNumbers DEF WaitersCarried
  <2> QED
    BY <1>1, <1>2, <1>3, <2>1, <2>2 DEF WaitersCarried, GroupTypes
<1> QED
  BY <1>1, <1>2, <1>3, <1>6, <1>7 DEF GroupInv

\* A follower goes to sleep, or wakes without being notified.
LEMMA SleepSteps ==
  ASSUME GroupInv, NEW t \in Threads, UNCHANGED durability, Park(t) \/ SpuriousWake(t)
  PROVE  GroupInv'
<1>1. /\ GroupTypes /\ OwnerAtWork
      /\ UNCHANGED <<coord, pc, mine, batch, writer, calls>>
  BY DEF Park, SpuriousWake, GroupInv, callVars, boundVars
<1>2. durability = "GroupCommit" /\ OneLeader /\ CommitOrder /\ WaitersCarried
  BY DEF Park, SpuriousWake, GroupInv, Ungrouped
<1>3. GroupTypes' /\ OwnerAtWork'
  BY <1>1 DEF GroupTypes, OwnerAtWork, Park, SpuriousWake
<1>4. Leading' = Leading
  BY <1>1 DEF Leading
<1>5. OneLeader' /\ CommitOrder'
  BY <1>1, <1>2, <1>4 DEF OneLeader, CommitOrder
<1>6. WaitersCarried'
  <2>1. \A u \in Threads : Carried(u) => Carried(u)'
    BY <1>1, <1>4 DEF Carried
  <2> QED
    BY <1>1, <1>2, <2>1 DEF WaitersCarried, Park, SpuriousWake
<1> QED
  BY <1>2, <1>3, <1>5, <1>6 DEF GroupInv

\* A waiter finds no leader and takes the whole queue, its own frame included.
LEMMA LeadStep ==
  ASSUME GroupInv, NEW t \in Threads, UNCHANGED durability, Lead(t)
  PROVE  GroupInv'
<1>1. /\ GroupTypes /\ OwnerAtWork /\ pc[t] = "check" /\ t \notin parked
      /\ coord.syncedThrough < mine[t].seq /\ ~coord.leaderActive
      /\ UNCHANGED <<parked, mine, writer, calls>>
      /\ coord' = [coord EXCEPT !.leaderActive = TRUE, !.queue = <<>>]
      /\ batch' = [batch EXCEPT ![t] = coord.queue]
      /\ pc' = [pc EXCEPT ![t] = "write"]
  BY DEF Lead, GroupInv, Goto, boundVars
<1>2. durability = "GroupCommit" /\ OneLeader /\ CommitOrder /\ WaitersCarried
  BY <1>1 DEF GroupInv, Ungrouped
<1>3. /\ coord'.queue = <<>> /\ coord'.leaderActive = TRUE
      /\ coord'.syncedThrough = coord.syncedThrough /\ coord'.nextSeq = coord.nextSeq
      /\ DOMAIN coord'.queue = {}
  BY <1>1 DEF GroupTypes
<1>4. Leading = {} /\ Leading' = {t}
  BY <1>1, <1>2 DEF OneLeader, Leading, GroupTypes
<1>5. /\ batch'[t] = coord.queue
      /\ \A u \in Threads : u # t => batch'[u] = batch[u]
  BY <1>1 DEF GroupTypes
<1>6. parked = {}
  BY <1>1, <1>2 DEF WaitersCarried
<1>7. Carried(t) /\ coord.queue # <<>>
  <2>1. Carried(t)
    BY <1>1, <1>2, SeqNumbers DEF WaitersCarried
  <2> QED
    BY <2>1, <1>4 DEF Carried
<1>8. GroupTypes'
  <2>1. coord.queue \in Seq(Frame) /\ <<>> \in Seq(Frame)
    BY <1>1, SeqNumbers
  <2>2. coord' \in [queue : Seq(Frame), nextSeq : Nat, syncedThrough : Nat,
                    leaderActive : BOOLEAN]
    BY <1>1, <2>1 DEF GroupTypes
  <2>3. batch' \in [Threads -> Seq(Frame)] /\ pc' \in [Threads -> PCs]
    BY <1>1, <2>1 DEF GroupTypes, PCs
  <2> QED
    BY <1>1, <2>2, <2>3 DEF GroupTypes
<1>9. OwnerAtWork'
  BY <1>1 DEF OwnerAtWork, GroupTypes
<1>10. OneLeader'
  BY <1>2, <1>3, <1>4, <1>5, <1>7 DEF OneLeader
<1>11. CommitOrder'
  BY <1>2, <1>3, <1>4, <1>5 DEF CommitOrder, Ascending
<1>12. WaitersCarried'
  <2>1. \A u \in Threads : Carried(u) => Carried(u)'
    BY <1>1, <1>4, <1>5 DEF Carried
  <2>2. \A u \in Threads : pc'[u] = "check" => pc[u] = "check"
    BY <1>1 DEF GroupTypes
  <2> QED
    BY <1>1, <1>2, <1>3, <1>6, <2>1, <2>2 DEF WaitersCarried
<1> QED
  BY <1>2, <1>8, <1>9, <1>10, <1>11, <1>12 DEF GroupInv

\* Outside group commit a finished batch touches nothing but its own call.
LEMMA UngroupedCommit ==
  ASSUME GroupInv, NEW t \in Threads, UNCHANGED durability, durability # "GroupCommit",
         CommitOk(t) \/ CommitErr(t)
  PROVE  GroupInv'
<1>1. /\ GroupTypes /\ OwnerAtWork /\ pc[t] \in {"ok", "err"}
      /\ (\E ok \in BOOLEAN : Return(t, ok)) /\ UNCHANGED <<coord, parked, writer, calls>>
  BY DEF CommitOk, CommitErr, GroupInv, groupVars, boundVars
<1>2. /\ OwnerAtWork' /\ GroupTypes' /\ pc'[t] = "idle"
      /\ \A u \in Threads : u # t => pc'[u] = pc[u]
  BY <1>1, ReturnTypes DEF GroupTypes
<1> QED
  BY <1>1, <1>2 DEF GroupInv, Ungrouped

\* The leader publishes its batch: synced_through moves to the batch's last seq.
LEMMA CommitOkStep ==
  ASSUME GroupInv, NEW t \in Threads, UNCHANGED durability, durability = "GroupCommit",
         CommitOk(t)
  PROVE  GroupInv'
<1> DEFINE top == Max({coord.syncedThrough, Highest(t)})
<1>1. /\ GroupTypes /\ OwnerAtWork /\ pc[t] = "ok" /\ t \in Leading
      /\ OneLeader /\ CommitOrder /\ WaitersCarried
      /\ Return(t, TRUE) /\ parked' = {} /\ UNCHANGED <<writer, calls>>
      /\ coord' = [coord EXCEPT !.leaderActive = FALSE, !.syncedThrough = top]
  BY DEF CommitOk, GroupInv, boundVars, Leading
<1>2. /\ OwnerAtWork' /\ pc' \in [Threads -> PCs] /\ mine' \in [Threads -> Frame]
      /\ batch' \in [Threads -> Seq(Frame)]
      /\ pc'[t] = "idle" /\ mine'[t].seq = 0 /\ batch'[t] = <<>>
      /\ \A u \in Threads : u # t =>
           pc'[u] = pc[u] /\ mine'[u] = mine[u] /\ batch'[u] = batch[u]
  BY <1>1, ReturnTypes
<1>3. Leading = {t} /\ Leading' = {}
  <2>1. Leading = {t}
    BY <1>1 DEF OneLeader
  <2>2. \A u \in Threads : u # t => u \notin Leading
    BY <2>1
  <2>3. \A u \in Threads : u \notin Leading'
    BY <1>2, <2>2 DEF Leading
  <2> QED
    BY <2>1, <2>3 DEF Leading
<1>4. /\ batch[t] \in Seq(Frame) /\ batch[t] # <<>> /\ Len(batch[t]) \in DOMAIN batch[t]
      /\ Highest(t) = batch[t][Len(batch[t])].seq /\ Highest(t) \in Nat
      /\ coord.syncedThrough < Highest(t) /\ Highest(t) <= coord.nextSeq
  <2>1. batch[t] \in Seq(Frame) /\ batch[t] # <<>>
    BY <1>1, SeqNumbers DEF OneLeader
  <2>2. Len(batch[t]) \in DOMAIN batch[t]
    BY <2>1
  <2>3. Highest(t) = batch[t][Len(batch[t])].seq
    BY <2>1 DEF Highest, Last
  <2> QED
    BY <1>1, <2>1, <2>2, <2>3, SeqNumbers DEF CommitOrder
<1>5. top = Highest(t)
  BY <1>1, <1>4, SeqNumbers, MaxOfTwo, SMTT(30)
<1> HIDE DEF top
<1>6. /\ coord'.queue = coord.queue /\ coord'.leaderActive = FALSE
      /\ coord'.syncedThrough = Highest(t) /\ coord'.nextSeq = coord.nextSeq
      /\ coord' \in [queue : Seq(Frame), nextSeq : Nat, syncedThrough : Nat,
                     leaderActive : BOOLEAN]
  BY <1>1, <1>4, <1>5 DEF GroupTypes
<1>7. GroupTypes'
  BY <1>1, <1>2, <1>6 DEF GroupTypes
<1>8. OneLeader'
  <2>1. \A u \in Threads : batch'[u] = <<>>
    BY <1>1, <1>2, <1>3 DEF OneLeader
  <2> QED
    BY <1>3, <1>6, <2>1 DEF OneLeader
<1>9. CommitOrder'
  <2>1. \A i \in DOMAIN coord.queue : Highest(t) < coord.queue[i].seq
    BY <1>1, <1>4 DEF CommitOrder
  <2> QED
    BY <1>1, <1>3, <1>4, <1>6, <2>1 DEF CommitOrder
<1>10. WaitersCarried'
  <2>1. \A i \in DOMAIN batch[t] : batch[t][i].seq <= Highest(t)
    <3> SUFFICES ASSUME NEW i \in DOMAIN batch[t] PROVE batch[t][i].seq <= Highest(t)
      OBVIOUS
    <3>1. i = Len(batch[t]) \/ i < Len(batch[t])
      BY <1>4
    <3>2. i < Len(batch[t]) => batch[t][i].seq < batch[t][Len(batch[t])].seq
      BY <1>1, <1>4 DEF CommitOrder, Ascending
    <3> QED
      BY <1>1, <1>4, <3>1, <3>2, SeqNumbers
  <2>2. ASSUME NEW u \in Threads, pc'[u] = "check", mine'[u].seq > coord'.syncedThrough
        PROVE  Carried(u)'
    <3>1. u # t /\ pc[u] = "check" /\ mine'[u] = mine[u] /\ mine[u].seq \in Nat
      BY <1>1, <1>2, <2>2, SeqNumbers
    <3>2. mine[u].seq > Highest(t) /\ mine[u].seq > coord.syncedThrough
      BY <1>1, <1>4, <1>6, <2>2, <3>1, SeqNumbers, SMTT(30)
    <3>3. Carried(u)
      BY <1>1, <3>1, <3>2 DEF WaitersCarried
    <3>4. PICK i \in DOMAIN coord.queue : mine[u] = coord.queue[i]
      BY <1>1, <1>3, <1>4, <2>1, <3>1, <3>2, <3>3, SeqNumbers DEF Carried
    <3> QED
      BY <1>6, <3>1, <3>4 DEF Carried
  <2>3. \A u \in Threads : mine'[u].seq <= coord'.nextSeq
    <3>1. \A u \in Threads : mine[u].seq <= coord.nextSeq
      BY <1>1 DEF WaitersCarried
    <3>2. 0 <= coord.nextSeq
      BY <1>1, SeqNumbers
    <3> QED
      BY <1>2, <1>6, <3>1, <3>2
  <2> QED
    BY <1>1, <2>2, <2>3 DEF WaitersCarried
<1> QED
  BY <1>1, <1>2, <1>7, <1>8, <1>9, <1>10 DEF GroupInv

\* The leader's batch failed: it goes back in front of the queue.
LEMMA CommitErrStep ==
  ASSUME GroupInv, NEW t \in Threads, UNCHANGED durability, durability = "GroupCommit",
         CommitErr(t)
  PROVE  GroupInv'
<1> DEFINE q == batch[t] \o coord.queue
           n == Len(batch[t])
<1>1. /\ GroupTypes /\ OwnerAtWork /\ pc[t] = "err" /\ t \in Leading
      /\ OneLeader /\ CommitOrder /\ WaitersCarried
      /\ Return(t, FALSE) /\ parked' = {} /\ UNCHANGED <<writer, calls>>
      /\ coord' = [coord EXCEPT !.leaderActive = FALSE, !.queue = q]
  BY DEF CommitErr, GroupInv, boundVars, Leading
<1>2. /\ OwnerAtWork' /\ pc' \in [Threads -> PCs] /\ mine' \in [Threads -> Frame]
      /\ batch' \in [Threads -> Seq(Frame)]
      /\ pc'[t] = "idle" /\ mine'[t].seq = 0 /\ batch'[t] = <<>>
      /\ \A u \in Threads : u # t =>
           pc'[u] = pc[u] /\ mine'[u] = mine[u] /\ batch'[u] = batch[u]
  BY <1>1, ReturnTypes
<1>3. Leading = {t} /\ Leading' = {}
  <2>1. Leading = {t}
    BY <1>1 DEF OneLeader
  <2>2. \A u \in Threads : u # t => u \notin Leading
    BY <2>1
  <2>3. \A u \in Threads : u \notin Leading'
    BY <1>2, <2>2 DEF Leading
  <2> QED
    BY <2>1, <2>3 DEF Leading
<1>4. batch[t] \in Seq(Frame) /\ coord.queue \in Seq(Frame) /\ q \in Seq(Frame)
  BY <1>1, SeqNumbers
<1>5. /\ n \in Nat /\ DOMAIN batch[t] = 1 .. n
      /\ DOMAIN coord.queue = 1 .. Len(coord.queue) /\ Len(coord.queue) \in Nat
      /\ DOMAIN q = 1 .. n + Len(coord.queue)
      /\ \A i \in DOMAIN q : q[i] = IF i <= n THEN batch[t][i] ELSE coord.queue[i - n]
  <2>1. n \in Nat /\ DOMAIN batch[t] = 1 .. n
    BY <1>4
  <2>2. DOMAIN coord.queue = 1 .. Len(coord.queue) /\ Len(coord.queue) \in Nat
    BY <1>4
  <2>3. Len(q) = n + Len(coord.queue) /\ DOMAIN q = 1 .. Len(q)
    BY <1>4
  <2>4. \A i \in 1 .. n + Len(coord.queue) :
          q[i] = IF i <= n THEN batch[t][i] ELSE coord.queue[i - n]
    BY <1>4
  <2> QED
    BY <2>1, <2>2, <2>3, <2>4
<1> HIDE DEF q, n
<1>6. /\ coord'.queue = q /\ coord'.leaderActive = FALSE
      /\ coord'.syncedThrough = coord.syncedThrough /\ coord'.nextSeq = coord.nextSeq
      /\ coord' \in [queue : Seq(Frame), nextSeq : Nat, syncedThrough : Nat,
                     leaderActive : BOOLEAN]
  BY <1>1, <1>4 DEF GroupTypes
<1>7. GroupTypes'
  BY <1>1, <1>2, <1>6 DEF GroupTypes
<1>8. OneLeader'
  <2>1. \A u \in Threads : batch'[u] = <<>>
    BY <1>1, <1>2, <1>3 DEF OneLeader
  <2> QED
    BY <1>3, <1>6, <2>1 DEF OneLeader
<1>9. \A i \in DOMAIN q : \/ i \in DOMAIN batch[t] /\ q[i] = batch[t][i]
                          \/ i > n /\ i - n \in DOMAIN coord.queue /\ q[i] = coord.queue[i - n]
  BY <1>5
<1>10. CommitOrder'
  <2>1. Ascending(q)
    <3> SUFFICES ASSUME NEW i \in DOMAIN q, NEW j \in DOMAIN q, i < j
                 PROVE  q[i].seq < q[j].seq
      BY DEF Ascending
    <3>1. CASE j \in DOMAIN batch[t]
      <4>1. i \in DOMAIN batch[t] /\ q[i] = batch[t][i] /\ q[j] = batch[t][j]
        BY <1>5, <3>1
      <4> QED
        BY <1>1, <3>1, <4>1 DEF CommitOrder, Ascending
    <3>2. CASE i > n
      <4>1. /\ i - n \in DOMAIN coord.queue /\ q[i] = coord.queue[i - n]
            /\ j - n \in DOMAIN coord.queue /\ q[j] = coord.queue[j - n] /\ i - n < j - n
        BY <1>5, <3>2
      <4> QED
        BY <1>1, <4>1 DEF CommitOrder, Ascending
    <3>3. CASE i \in DOMAIN batch[t] /\ j > n
      <4>1. q[i] = batch[t][i] /\ j - n \in DOMAIN coord.queue /\ q[j] = coord.queue[j - n]
        BY <1>5, <3>3
      <4> QED
        BY <1>1, <3>3, <4>1 DEF CommitOrder
    <3> QED
      BY <1>5, <3>1, <3>2, <3>3
  <2>2. \A i \in DOMAIN q : coord.syncedThrough < q[i].seq /\ q[i].seq <= coord.nextSeq
    BY <1>1, <1>9 DEF CommitOrder
  <2> QED
    BY <1>1, <1>3, <1>6, <2>1, <2>2 DEF CommitOrder
<1>11. WaitersCarried'
  <2>1. \A i \in DOMAIN batch[t] : i \in DOMAIN q /\ q[i] = batch[t][i]
    BY <1>5
  <2>2. \A i \in DOMAIN coord.queue : i + n \in DOMAIN q /\ q[i + n] = coord.queue[i]
    BY <1>5
  <2>3. ASSUME NEW u \in Threads, pc'[u] = "check", mine'[u].seq > coord'.syncedThrough
        PROVE  Carried(u)'
    <3>1. u # t /\ pc[u] = "check" /\ mine'[u] = mine[u] /\ mine[u].seq > coord.syncedThrough
      BY <1>1, <1>2, <1>6, <2>3, SeqNumbers
    <3>2. Carried(u)
      BY <1>1, <3>1 DEF WaitersCarried
    <3>3. PICK i \in DOMAIN q : mine[u] = q[i]
      BY <1>3, <2>1, <2>2, <3>2 DEF Carried
    <3> QED
      BY <1>6, <3>1, <3>3 DEF Carried
  <2>4. \A u \in Threads : mine'[u].seq <= coord'.nextSeq
    <3>1. \A u \in Threads : mine[u].seq <= coord.nextSeq
      BY <1>1 DEF WaitersCarried
    <3>2. 0 <= coord.nextSeq
      BY <1>1, SeqNumbers
    <3> QED
      BY <1>2, <1>6, <3>1, <3>2
  <2> QED
    BY <1>1, <2>3, <2>4 DEF WaitersCarried
<1> QED
  BY <1>1, <1>2, <1>7, <1>8, <1>10, <1>11 DEF GroupInv

\* A process that has just started has no call in progress.
Fresh ==
  /\ calls \in Nat /\ coord = FreshCoord /\ parked = {} /\ writer = WriterOf(1, 0)
  /\ pc = [t \in Threads |-> "idle"]
  /\ mine = [t \in Threads |-> NoCall]
  /\ batch = [t \in Threads |-> <<>>]

\* A log just opened has no group commit under way.
LEMMA FreshGroup == Fresh => GroupInv
<1> SUFFICES ASSUME Fresh PROVE GroupInv
  OBVIOUS
<1> USE DEF Fresh
<1>1. Leading = {}
  BY DEF Leading
<1>2. /\ FreshCoord \in [queue : Seq(Frame), nextSeq : Nat, syncedThrough : Nat,
                         leaderActive : BOOLEAN]
      /\ NoCall \in Frame /\ <<>> \in Seq(Frame)
  BY DEF FreshCoord, NoCall, Frame
<1>3. /\ coord.queue = <<>> /\ coord.nextSeq = 0 /\ coord.syncedThrough = 0
      /\ coord.leaderActive = FALSE /\ DOMAIN coord.queue = {}
      /\ \A t \in Threads : mine[t].seq = 0
  BY DEF FreshCoord, NoCall
<1>4. GroupTypes
  BY <1>2 DEF GroupTypes, WriterOf, PCs
<1>5. OwnerAtWork
  BY WalAssumption DEF OwnerAtWork, WriterOf
<1> QED
  BY <1>1, <1>3, <1>4, <1>5 DEF GroupInv, OneLeader, CommitOrder, WaitersCarried,
     Ungrouped, Ascending

\* Wal::open touches the file system and the idle writer only.
LEMMA BootStep ==
  ASSUME GroupInv, Boot
  PROVE  GroupInv'
<1>1. UNCHANGED <<durability, coord, parked, callVars, calls>>
  BY DEF Boot, Scan, DropTmp, CreateTmp, CopyValid, SyncTmp, RenameTmp, SyncRename,
         Activate, CreateFirst, SyncFirst, Booting, BootTo, groupVars, callVars, boundVars
<1>2. (\E id, offset : writer' = WriterOf(id, offset)) \/ UNCHANGED writer
  BY DEF Boot, Scan, DropTmp, CreateTmp, CopyValid, SyncTmp, RenameTmp, SyncRename,
         Activate, CreateFirst, SyncFirst, Booting
<1>3. GroupTypes' /\ OwnerAtWork'
  BY <1>1, <1>2, WalAssumption DEF GroupInv, GroupTypes, OwnerAtWork, WriterOf, callVars
<1> QED
  BY <1>1, <1>3, GroupUntouched

(***************************************************************************)
(* The invariant of group commit holds in every behaviour of the log, in   *)
(* every durability mode, across failed batches, resets and restarts.      *)
(***************************************************************************)
THEOREM GroupInductive == Spec => []GroupInv
<1>1. Init => GroupInv
  BY FreshGroup DEF Init, Fresh
<1>2. GroupInv /\ [Next]_vars => GroupInv'
  <2> SUFFICES ASSUME GroupInv, [Next]_vars PROVE GroupInv'
    OBVIOUS
  <2>1. ASSUME NEW t \in Threads, Progress(t) PROVE GroupInv'
    BY <2>1, CoveredStep, SleepSteps, LeadStep, LockStep, OwnerSteps, ReleaseSteps,
       UngroupedCommit, CommitOkStep, CommitErrStep DEF Progress
  <2>2. CASE Boot
    BY <2>2, BootStep
  <2>3. ASSUME NEW t \in Threads, UNCHANGED durability,
               Call(t) \/ StartReset(t) \/ SpuriousWake(t) \/ ShortWrite(t)
        PROVE  GroupInv'
    BY <2>3, CallStep, StartResetStep, SleepSteps, ReleaseSteps
  <2>4. ASSUME NEW image, Die(image) PROVE GroupInv'
    <3>1. Fresh'
      BY <2>4 DEF Die, Fresh, GroupInv, GroupTypes
    <3> QED
      BY <3>1, FreshGroup, PTL
  <2>5. CASE PowerLoss \/ Kill
    BY <2>4, <2>5 DEF PowerLoss, Kill
  <2>6. CASE OpenFails /\ UNCHANGED durability
    <3>1. UNCHANGED <<coord, parked, callVars, calls, writer>>
      BY <2>6 DEF OpenFails, groupVars
    <3>2. GroupTypes' /\ OwnerAtWork'
      BY <3>1 DEF GroupInv, GroupTypes, OwnerAtWork, callVars
    <3> QED
      BY <2>6, <3>1, <3>2, GroupUntouched
  <2>7. CASE UNCHANGED vars
    BY <2>7, GroupUntouched DEF vars, groupVars, callVars, boundVars, GroupInv, GroupTypes,
       OwnerAtWork
  <2> QED
    BY <2>1, <2>2, <2>3, <2>5, <2>6, <2>7 DEF Next
<1> QED
  BY <1>1, <1>2, PTL DEF Spec

(***************************************************************************)
(* "They hold the lowest seqs, so this preserves order" (commit_group):    *)
(* the queue is in commit order and after synced_through, also once failed *)
(* batches have been put back, so a batch's last frame is its newest.      *)
(***************************************************************************)
THEOREM WalQueueInOrder == Spec => []QueueInOrder
<1>1. GroupInv => QueueInOrder
  <2> SUFFICES ASSUME GroupInv PROVE QueueInOrder
    OBVIOUS
  <2>1. CASE durability = "GroupCommit"
    BY <2>1, SeqNumbers DEF GroupInv, CommitOrder, Ascending, QueueInOrder
  <2>2. CASE durability # "GroupCommit"
    <3>1. DOMAIN coord.queue = {}
      BY <2>2 DEF GroupInv, Ungrouped
    <3> QED
      BY <3>1 DEF QueueInOrder
  <2> QED
    BY <2>1, <2>2
<1> QED
  BY <1>1, GroupInductive, PTL

(***************************************************************************)
(* Group commit strands nobody: a follower sleeps on batch_done only while *)
(* a leader is still to notify it, and the frame of every append() that    *)
(* waits is in the queue or in the leader's batch (commit_group).          *)
(***************************************************************************)
THEOREM WalFollowersCarried == Spec => []FollowersCarried
<1>1. GroupInv => FollowersCarried
  <2> SUFFICES ASSUME GroupInv PROVE FollowersCarried
    OBVIOUS
  <2>1. CASE durability = "GroupCommit"
    <3>1. \A t \in Threads : Carried(t) =>
            mine[t] \in ToSet(coord.queue) \cup UNION {ToSet(batch[u]) : u \in Threads}
      BY DEF Carried, ToSet, Leading
    <3> QED
      BY <2>1, <3>1 DEF GroupInv, WaitersCarried, FollowersCarried
  <2>2. CASE durability # "GroupCommit"
    BY <2>2 DEF GroupInv, Ungrouped, FollowersCarried
  <2> QED
    BY <2>1, <2>2
<1> QED
  BY <1>1, GroupInductive, PTL
Ids == 1 .. MaxSegments
Names == Ids \X {"wal", "tmp"}
Pool == 1 .. 2 * MaxSegments + 2

PieceId == [frame : Nat, nth : Nat]
Piece == [id : PieceId, state : {"whole", "torn", "bad"}]

\* A sequence that begins another.
Leads(a, b) == Len(a) <= Len(b) /\ \A k \in 1 .. Len(a) : a[k] = b[k]

FsType(f) ==
  f \in [live : [Names -> Pool \cup {0}], durable : [Names -> Pool \cup {0}],
         bytes : [Pool -> Seq(Piece)], synced : [Pool -> Seq(Piece)]]

\* No two names share an inode, in either image.
OneOwner(f) ==
  \A p, q \in Names : p # q =>
    \A x \in {f.live[p], f.durable[p]} : \A y \in {f.live[q], f.durable[q]} : x = y => x = 0

\* An inode that no name refers to is empty; what is synced of a file begins it.
FreeEmpty(f) ==
  \A i \in Pool : i \notin Fs!Referenced(f) => f.bytes[i] = <<>> /\ f.synced[i] = <<>>
SyncedLeads(f) == \A i \in Pool : Leads(f.synced[i], f.bytes[i])
FsOK(f) == FsType(f) /\ OneOwner(f) /\ FreeEmpty(f) /\ SyncedLeads(f)

\* What can be seen of a file through its name: whether either image has it and
\* whether that is the same file, and its bytes and synced bytes in both.
Held(map, i) == IF i = 0 THEN <<>> ELSE map[i]
View(f, p) ==
  [live |-> f.live[p] # 0, disk |-> f.durable[p] # 0, same |-> f.live[p] = f.durable[p],
   bytes |-> Held(f.bytes, f.live[p]), synced |-> Held(f.synced, f.live[p]),
   diskBytes |-> Held(f.bytes, f.durable[p]), diskSynced |-> Held(f.synced, f.durable[p])]

\* The names of the log's files: two for each id, all different.
LEMMA NameFacts ==
  /\ \A id \in Ids : Path(id) \in Names /\ Tmp(id) \in Names
  /\ \A i, j \in Ids : Path(i) # Tmp(j) /\ (Path(i) = Path(j) => i = j)
                       /\ (Tmp(i) = Tmp(j) => i = j)
  /\ \A p \in Names : \E id \in Ids : p = Path(id) \/ p = Tmp(id)
<1>1. \A p \in Names : \E id \in Ids : p = <<id, "wal">> \/ p = <<id, "tmp">>
  BY DEF Names
<1> QED
  BY <1>1 DEF Path, Tmp, Names

\* An inode is referenced by a name, in memory or on the disk.
LEMMA ReferencedIs ==
  ASSUME NEW f
  PROVE  Fs!Referenced(f) = {f.live[p] : p \in Names} \cup {f.durable[p] : p \in Names}
  BY DEF Fs!Referenced, Names, Ids

\* A file system is its four parts.
LEMMA FsRecord ==
  ASSUME NEW f, FsType(f)
  PROVE  f = [live |-> f.live, durable |-> f.durable, bytes |-> f.bytes, synced |-> f.synced]
  BY DEF FsType

\* What a view is made of.
LEMMA ViewKept ==
  ASSUME NEW f, NEW g, NEW p, g.live[p] = f.live[p], g.durable[p] = f.durable[p],
         \A i \in {f.live[p], f.durable[p]} :
           i # 0 => g.bytes[i] = f.bytes[i] /\ g.synced[i] = f.synced[i]
  PROVE  View(g, p) = View(f, p)
  BY DEF View, Held

\* What a name shows is typed.
LEMMA ViewTypes ==
  ASSUME NEW f, FsType(f), NEW p \in Names
  PROVE  /\ View(f, p).bytes \in Seq(Piece) /\ View(f, p).synced \in Seq(Piece)
         /\ View(f, p).diskBytes \in Seq(Piece) /\ View(f, p).diskSynced \in Seq(Piece)
         /\ View(f, p).live \in BOOLEAN /\ View(f, p).disk \in BOOLEAN
         /\ View(f, p).same \in BOOLEAN
<1>1. f.live[p] \in Pool \cup {0} /\ f.durable[p] \in Pool \cup {0}
  BY DEF FsType
<1>2. <<>> \in Seq(Piece) /\ \A i \in Pool : f.bytes[i] \in Seq(Piece) /\ f.synced[i] \in Seq(Piece)
  BY DEF FsType
<1>3. ASSUME NEW i \in Pool \cup {0}
      PROVE  Held(f.bytes, i) \in Seq(Piece) /\ Held(f.synced, i) \in Seq(Piece)
  BY <1>2 DEF Held
<1> QED
  BY <1>1, <1>3 DEF View

\* What a name shows of itself.
LEMMA ViewShape ==
  ASSUME NEW f, FsOK(f), NEW p \in Names
  PROVE  LET v == View(f, p) IN
         /\ ~v.live => v.bytes = <<>> /\ v.synced = <<>>
         /\ ~v.disk => v.diskBytes = <<>> /\ v.diskSynced = <<>>
         /\ v.same => v.live = v.disk /\ v.bytes = v.diskBytes /\ v.synced = v.diskSynced
         /\ Leads(v.synced, v.bytes) /\ Leads(v.diskSynced, v.diskBytes)
<1>1. f.live[p] \in Pool \cup {0} /\ f.durable[p] \in Pool \cup {0}
  BY DEF FsOK, FsType
<1>2. ASSUME NEW i \in Pool \cup {0} PROVE Leads(Held(f.synced, i), Held(f.bytes, i))
  <2>1. Leads(<<>>, <<>>)
    BY DEF Leads
  <2> QED
    BY <2>1 DEF FsOK, SyncedLeads, Held
<1> QED
  BY <1>1, <1>2 DEF View, Held

\* Dropping the inodes without a name changes what no name shows.
LEMMA CollectFacts ==
  ASSUME NEW f, FsType(f)
  PROVE  LET g == Fs!Collect(f) IN
         /\ FsType(g) /\ FreeEmpty(g)
         /\ g.live = f.live /\ g.durable = f.durable
         /\ \A p \in Names : View(g, p) = View(f, p)
         /\ OneOwner(f) => OneOwner(g)
         /\ SyncedLeads(f) => SyncedLeads(g)
<1> DEFINE g == Fs!Collect(f)
           kept == Fs!Referenced(f)
           b == [i \in Pool |-> IF i \in kept THEN f.bytes[i] ELSE <<>>]
           s == [i \in Pool |-> IF i \in kept THEN f.synced[i] ELSE <<>>]
<1>1. g = [f EXCEPT !.bytes = b, !.synced = s]
  BY DEF Fs!Collect, Pool
<1>2. g = [live |-> f.live, durable |-> f.durable, bytes |-> b, synced |-> s]
  BY <1>1 DEF FsType
<1>3. b \in [Pool -> Seq(Piece)] /\ s \in [Pool -> Seq(Piece)]
  BY DEF FsType
<1>4. FsType(g)
  <2>1. f.live \in [Names -> Pool \cup {0}] /\ f.durable \in [Names -> Pool \cup {0}]
    BY DEF FsType
  <2> HIDE DEF b, s, g
  <2> QED
    BY <1>2, <1>3, <2>1 DEF FsType
<1>5. Fs!Referenced(g) = kept
  <2>1. g.live = f.live /\ g.durable = f.durable
    <3> HIDE DEF g
    <3> QED
      BY <1>2
  <2> QED
    BY <2>1, ReferencedIs, Zenon
<1>6. FreeEmpty(g)
  BY <1>2, <1>5 DEF FreeEmpty
<1>7. ASSUME NEW p \in Names PROVE View(g, p) = View(f, p)
  <2>1. f.live[p] \in kept /\ f.durable[p] \in kept
    BY ReferencedIs
  <2>2. f.live[p] \in Pool \cup {0} /\ f.durable[p] \in Pool \cup {0}
    BY DEF FsType
  <2> HIDE DEF g
  <2> QED
    BY <1>2, <2>1, <2>2, ViewKept
<1>8. OneOwner(f) => OneOwner(g)
  BY <1>2 DEF OneOwner
<1>9. SyncedLeads(f) => SyncedLeads(g)
  <2>1. Leads(<<>>, <<>>)
    BY DEF Leads
  <2> QED
    BY <1>2, <2>1 DEF SyncedLeads
<1> HIDE DEF g
<1> QED
  BY <1>2, <1>4, <1>6, <1>7, <1>8, <1>9 DEF g

-----------------------------------------------------------------------------
\* The disk knows no scratch file, and at most one is open.
OneScratch(f) ==
  /\ \A i \in Ids : ~View(f, Tmp(i)).disk
  /\ \A i, j \in Ids : View(f, Tmp(i)).live /\ View(f, Tmp(j)).live => i = j

\* Create always finds a free inode: two for each id, and two more.
LEMMA FreeInode ==
  ASSUME NEW f, FsType(f), OneScratch(f)
  PROVE  \E i \in Pool : /\ i \notin Fs!Referenced(f)
                         /\ \A j \in Pool : j \notin Fs!Referenced(f) => i <= j
<1> DEFINE M == MaxSegments
           R == Fs!Referenced(f)
<1>1. M \in Nat \ {0}
  BY WalAssumption
<1>2. PICK c : \A i \in Ids : f.live[Tmp(i)] \in {0, c}
  <2>1. \A i \in Ids : View(f, Tmp(i)).live <=> f.live[Tmp(i)] # 0
    BY DEF View
  <2>2. CASE \E i \in Ids : f.live[Tmp(i)] # 0
    <3>1. PICK i \in Ids : f.live[Tmp(i)] # 0
      BY <2>2
    <3>2. \A j \in Ids : f.live[Tmp(j)] \in {0, f.live[Tmp(i)]}
      BY <2>1, <3>1 DEF OneScratch
    <3> QED
      BY <3>2
  <2>3. CASE \A i \in Ids : f.live[Tmp(i)] = 0
    BY <2>3
  <2> QED
    BY <2>2, <2>3
<1>3. \A i \in Ids : f.durable[Tmp(i)] = 0
  BY DEF OneScratch, View
<1> DEFINE full == 0 .. 2 * M + 2
           h == [k \in 1 .. 2 * M + 2 |->
                   IF k <= M THEN f.live[Path(k)]
                   ELSE IF k <= 2 * M THEN f.durable[Path(k - M)]
                   ELSE IF k = 2 * M + 1 /\ c \in full THEN c ELSE 0]
<1>4. ASSUME \A i \in Pool : i \in R PROVE FALSE
  <2>1. h \in [1 .. 2 * M + 2 -> full]
    <3>1. \A p \in Names : f.live[p] \in full /\ f.durable[p] \in full
      <4>1. Pool \cup {0} = full
        BY <1>1 DEF Pool
      <4> QED
        BY <4>1 DEF FsType
    <3>2. \A i \in Ids : f.live[Path(i)] \in full /\ f.durable[Path(i)] \in full
      BY <3>1, NameFacts
    <3>3. ASSUME NEW k \in 1 .. 2 * M + 2
          PROVE  (IF k <= M THEN f.live[Path(k)]
                  ELSE IF k <= 2 * M THEN f.durable[Path(k - M)]
                  ELSE IF k = 2 * M + 1 /\ c \in full THEN c ELSE 0) \in full
      <4>1. k <= M => k \in Ids
        BY DEF Ids
      <4>2. k > M /\ k <= 2 * M => k - M \in Ids
        BY <1>1 DEF Ids
      <4>3. 0 \in full
        BY <1>1
      <4> HIDE DEF full
      <4> QED
        BY <1>1, <3>2, <4>1, <4>2, <4>3
    <3> HIDE DEF full
    <3> QED
      BY <3>3
  <2>2. ASSUME NEW x \in full PROVE \E k \in 1 .. 2 * M + 2 : h[k] = x
    <3>1. 2 * M + 2 \in 1 .. 2 * M + 2 /\ h[2 * M + 2] = 0
      BY <1>1
    <3>2. CASE x = 0
      BY <3>1, <3>2
    <3>3. CASE x # 0
      <4>1. x \in R
        BY <1>1, <1>4, <3>3 DEF Pool
      <4>2. PICK p \in Names : f.live[p] = x \/ f.durable[p] = x
        BY <4>1, ReferencedIs
      <4>3. PICK i \in Ids : p = Path(i) \/ p = Tmp(i)
        BY NameFacts
      <4>4. CASE p = Path(i) /\ f.live[p] = x
        <5>1. i \in 1 .. 2 * M + 2 /\ i <= M
          BY <1>1 DEF Ids
        <5>2. h[i] = f.live[Path(i)]
          BY <5>1
        <5> QED
          BY <4>4, <5>1, <5>2
      <4>5. CASE p = Path(i) /\ f.durable[p] = x
        <5>1. /\ M + i \in 1 .. 2 * M + 2 /\ ~(M + i <= M) /\ M + i <= 2 * M
              /\ (M + i) - M = i
          BY <1>1 DEF Ids
        <5>2. h[M + i] = f.durable[Path(i)]
          BY <5>1
        <5> QED
          BY <4>5, <5>1, <5>2
      <4>6. CASE p = Tmp(i)
        <5>1. x = c
          BY <1>2, <1>3, <3>3, <4>2, <4>6
        <5>2. 2 * M + 1 \in 1 .. 2 * M + 2 /\ ~(2 * M + 1 <= M) /\ ~(2 * M + 1 <= 2 * M)
          BY <1>1
        <5>3. h[2 * M + 1] = x
          BY <5>1, <5>2
        <5> QED
          BY <5>2, <5>3
      <4> QED
        BY <4>2, <4>3, <4>4, <4>5, <4>6
    <3> QED
      BY <3>2, <3>3
  <2>3. h \in Surjection(1 .. 2 * M + 2, full)
    <3> HIDE DEF full, h
    <3> QED
      BY <2>1, <2>2 DEF Surjection
  <2>4. /\ IsFiniteSet(1 .. 2 * M + 2) /\ Cardinality(1 .. 2 * M + 2) = 2 * M + 2
        /\ Cardinality(full) = 2 * M + 3
    <3>1. 1 \in Int /\ 0 \in Int /\ 2 * M + 2 \in Int /\ ~(1 > 2 * M + 2) /\ ~(0 > 2 * M + 2)
      BY <1>1
    <3>2. /\ IsFiniteSet(1 .. 2 * M + 2) /\ Cardinality(1 .. 2 * M + 2) = (2 * M + 2) - 1 + 1
          /\ Cardinality(full) = (2 * M + 2) - 0 + 1
      BY <3>1, FS_Interval
    <3> QED
      BY <1>1, <3>2
  <2>5. Cardinality(full) <= Cardinality(1 .. 2 * M + 2)
    <3> HIDE DEF full, h
    <3> QED
      BY <2>3, <2>4, FS_Surjection
  <2> QED
    BY <1>1, <2>4, <2>5
<1> DEFINE free == {i \in Pool : i \notin R}
<1>5. free # {} /\ free \in SUBSET Nat
  <2>1. \E i \in Pool : i \notin R
    BY <1>4
  <2>2. Pool \subseteq Nat
    BY <1>1 DEF Pool
  <2> QED
    BY <2>1, <2>2
<1>6. PICK i \in free : \A j \in free : i <= j
  BY <1>5, LeastNat
<1> QED
  BY <1>6

\* create: a new file, empty, that only the live image knows.
LEMMA CreateFacts ==
  ASSUME NEW f, FsOK(f), OneScratch(f), NEW p \in Names, f.live[p] = 0
  PROVE  LET g == Fs!Create(f, p) IN
         /\ FsOK(g)
         /\ View(g, p).live /\ ~View(g, p).same
         /\ View(g, p).bytes = <<>> /\ View(g, p).synced = <<>>
         /\ View(g, p).disk = View(f, p).disk
         /\ View(g, p).diskBytes = View(f, p).diskBytes
         /\ View(g, p).diskSynced = View(f, p).diskSynced
         /\ \A q \in Names : q # p => View(g, q) = View(f, q)
<1> DEFINE R == Fs!Referenced(f)
           free == Pool \ R
           i == CHOOSE j \in free : \A m \in free : j <= m
           g == Fs!Create(f, p)
<1>0. FsType(f)
  BY DEF FsOK
<1>1. i \in Pool /\ i \notin R
  <2>1. \E j \in free : \A m \in free : j <= m
    BY <1>0, FreeInode
  <2> QED
    BY <2>1
<1>2. g = [f EXCEPT !.live[p] = i]
  BY DEF Fs!Create, Pool
<1> HIDE DEF i, g, R
<1>3. /\ g.live = [f.live EXCEPT ![p] = i] /\ g.durable = f.durable
      /\ g.bytes = f.bytes /\ g.synced = f.synced
      /\ g = [live |-> [f.live EXCEPT ![p] = i], durable |-> f.durable,
              bytes |-> f.bytes, synced |-> f.synced]
  BY <1>0, <1>2 DEF FsType
<1>4. i # 0
  BY <1>1, WalAssumption DEF Pool
<1>5. [f.live EXCEPT ![p] = i] \in [Names -> Pool \cup {0}]
  BY <1>0, <1>1 DEF FsType
<1>6. FsType(g)
  <2>1. /\ f.durable \in [Names -> Pool \cup {0}]
        /\ f.bytes \in [Pool -> Seq(Piece)] /\ f.synced \in [Pool -> Seq(Piece)]
    BY <1>0 DEF FsType
  <2> QED
    BY <1>3, <1>5, <2>1 DEF FsType
<1>7. /\ g.live[p] = i /\ \A q \in Names : q # p => g.live[q] = f.live[q]
      /\ f.live[p] = 0
  BY <1>0, <1>3 DEF FsType
<1>8. \A q \in Names : f.live[q] # i /\ f.durable[q] # i
  BY <1>1, ReferencedIs DEF R
<1>9. OneOwner(g)
  BY <1>3, <1>7, <1>8 DEF OneOwner, FsOK
<1>10. FreeEmpty(g)
  <2> SUFFICES ASSUME NEW j \in Pool, j \notin Fs!Referenced(g)
               PROVE  g.bytes[j] = <<>> /\ g.synced[j] = <<>>
    BY DEF FreeEmpty
  <2>1. \A q \in Names : f.live[q] # j /\ f.durable[q] # j
    <3>1. 0 # j
      BY WalAssumption DEF Pool
    <3>2. \A q \in Names : g.live[q] # j /\ g.durable[q] # j
      BY ReferencedIs
    <3> QED
      BY <1>3, <1>7, <3>1, <3>2
  <2>2. j \notin Fs!Referenced(f)
    BY <2>1, ReferencedIs
  <2> QED
    BY <1>3, <2>2 DEF FreeEmpty, FsOK
<1>11. SyncedLeads(g)
  BY <1>3 DEF SyncedLeads, FsOK
<1>12. f.bytes[i] = <<>> /\ f.synced[i] = <<>>
  BY <1>1 DEF FsOK, FreeEmpty, R
<1>13. ASSUME NEW q \in Names, q # p PROVE View(g, q) = View(f, q)
  <2>1. g.live[q] = f.live[q] /\ g.durable[q] = f.durable[q]
    BY <1>3, <1>7, <1>13
  <2>2. g.bytes = f.bytes /\ g.synced = f.synced
    BY <1>3
  <2> HIDE DEF g
  <2> QED
    BY <2>1, <2>2, ViewKept
<1>14. /\ View(g, p).live /\ ~View(g, p).same
       /\ View(g, p).bytes = <<>> /\ View(g, p).synced = <<>>
       /\ View(g, p).disk = View(f, p).disk
       /\ View(g, p).diskBytes = View(f, p).diskBytes
       /\ View(g, p).diskSynced = View(f, p).diskSynced
  BY <1>3, <1>4, <1>7, <1>8, <1>12 DEF View, Held
<1> QED
  BY <1>6, <1>9, <1>10, <1>11, <1>13, <1>14 DEF FsOK, g

\* Two names never stand for one file, so what happens to one file is not seen
\* through another name.
LEMMA OwnFile ==
  ASSUME NEW f, FsOK(f), NEW p \in Names, NEW q \in Names, q # p, f.live[p] # 0
  PROVE  f.live[q] # f.live[p] /\ f.durable[q] # f.live[p]
  BY DEF FsOK, OneOwner

\* An append keeps what came first.
LEMMA LeadsGrow ==
  ASSUME NEW a \in Seq(Piece), NEW b \in Seq(Piece), NEW s \in Seq(Piece), Leads(a, b)
  PROVE  Leads(a, b \o s)
<1>1. Len(b \o s) = Len(b) + Len(s) /\ \A k \in 1 .. Len(b) : (b \o s)[k] = b[k]
  OBVIOUS
<1>2. Len(a) \in Nat /\ Len(b) \in Nat /\ Len(s) \in Nat
  OBVIOUS
<1> QED
  BY <1>1, <1>2 DEF Leads

\* append: pieces are added to the bytes, not yet synced.
LEMMA AppendFacts ==
  ASSUME NEW f, FsOK(f), NEW p \in Names, f.live[p] # 0, NEW s \in Seq(Piece)
  PROVE  LET g == Fs!AppendTo(f, p, s) IN
         /\ FsOK(g)
         /\ View(g, p).live /\ View(g, p).same = View(f, p).same
         /\ View(g, p).disk = View(f, p).disk
         /\ View(g, p).bytes = View(f, p).bytes \o s
         /\ View(g, p).synced = View(f, p).synced
         /\ View(g, p).diskBytes = IF View(f, p).same THEN View(f, p).bytes \o s
                                   ELSE View(f, p).diskBytes
         /\ View(g, p).diskSynced = View(f, p).diskSynced
         /\ \A q \in Names : q # p => View(g, q) = View(f, q)
<1> DEFINE x == f.live[p]
           new == f.bytes[x] \o s
           b == [f.bytes EXCEPT ![x] = new]
           g == Fs!AppendTo(f, p, s)
<1>0. FsType(f)
  BY DEF FsOK
<1>1. x \in Pool /\ f.bytes[x] \in Seq(Piece) /\ x # 0
  BY <1>0 DEF FsType
<1>2. b \in [Pool -> Seq(Piece)]
  <2>1. new \in Seq(Piece)
    BY <1>1, ConcatType
  <2>2. f.bytes \in [Pool -> Seq(Piece)]
    BY <1>0 DEF FsType
  <2> HIDE DEF new
  <2> QED
    BY <1>1, <2>1, <2>2
<1>3. g = [live |-> f.live, durable |-> f.durable, bytes |-> b, synced |-> f.synced]
  <2>1. g = [f EXCEPT !.bytes = b]
    BY DEF Fs!AppendTo
  <2> HIDE DEF g, b
  <2> QED
    BY <1>0, <2>1, FsRecord
<1>4. b[x] = new /\ \A i \in Pool : i # x => b[i] = f.bytes[i]
  BY <1>0, <1>1 DEF FsType
<1> HIDE DEF g, b
<1>5. /\ g.live = f.live /\ g.durable = f.durable /\ g.bytes = b /\ g.synced = f.synced
  BY <1>3
<1>6. FsType(g)
  <2>1. /\ f.durable \in [Names -> Pool \cup {0}] /\ f.live \in [Names -> Pool \cup {0}]
        /\ f.synced \in [Pool -> Seq(Piece)]
    BY <1>0 DEF FsType
  <2> QED
    BY <1>2, <1>3, <2>1 DEF FsType
<1>7. OneOwner(g)
  BY <1>5 DEF OneOwner, FsOK
<1>8. x \in Fs!Referenced(f)
  BY ReferencedIs
<1>9. FreeEmpty(g)
  <2>1. Fs!Referenced(g) = Fs!Referenced(f)
    BY <1>5, ReferencedIs, Zenon
  <2> QED
    BY <1>4, <1>5, <1>8, <2>1 DEF FreeEmpty, FsOK
<1>10. SyncedLeads(g)
  <2> SUFFICES ASSUME NEW i \in Pool PROVE Leads(f.synced[i], b[i])
    BY <1>5 DEF SyncedLeads
  <2>1. Leads(f.synced[i], f.bytes[i]) /\ f.synced[i] \in Seq(Piece)
    BY <1>0 DEF FsOK, SyncedLeads, FsType
  <2>2. CASE i = x
    BY <1>1, <1>4, <2>1, <2>2, LeadsGrow
  <2> QED
    BY <1>4, <2>1, <2>2
<1>11. ASSUME NEW q \in Names, q # p PROVE View(g, q) = View(f, q)
  <2>1. f.live[q] # x /\ f.durable[q] # x
    BY <1>1, <1>11, OwnFile
  <2>2. f.live[q] \in Pool \cup {0} /\ f.durable[q] \in Pool \cup {0}
    BY <1>0 DEF FsType
  <2>3. \A i \in {f.live[q], f.durable[q]} :
          i # 0 => g.bytes[i] = f.bytes[i] /\ g.synced[i] = f.synced[i]
    BY <1>4, <1>5, <2>1, <2>2
  <2>4. g.live[q] = f.live[q] /\ g.durable[q] = f.durable[q]
    BY <1>5
  <2> QED
    BY <2>3, <2>4, ViewKept
<1>12. f.durable[p] \in Pool \cup {0}
  BY <1>0 DEF FsType
<1>13. /\ View(g, p).live /\ View(g, p).same = View(f, p).same
       /\ View(g, p).disk = View(f, p).disk
       /\ View(g, p).bytes = View(f, p).bytes \o s
       /\ View(g, p).synced = View(f, p).synced
       /\ View(g, p).diskBytes = IF View(f, p).same THEN View(f, p).bytes \o s
                                 ELSE View(f, p).diskBytes
       /\ View(g, p).diskSynced = View(f, p).diskSynced
  BY <1>1, <1>4, <1>5, <1>12 DEF View, Held
<1> QED
  BY <1>6, <1>7, <1>9, <1>10, <1>11, <1>13 DEF FsOK, g

\* sync_file: what the file holds is durable.
LEMMA SyncFileFacts ==
  ASSUME NEW f, FsOK(f), NEW p \in Names, f.live[p] # 0
  PROVE  LET g == Fs!SyncFile(f, p) IN
         /\ FsOK(g)
         /\ View(g, p).live /\ View(g, p).same = View(f, p).same
         /\ View(g, p).disk = View(f, p).disk
         /\ View(g, p).bytes = View(f, p).bytes
         /\ View(g, p).synced = View(f, p).bytes
         /\ View(g, p).diskBytes = View(f, p).diskBytes
         /\ View(g, p).diskSynced = IF View(f, p).same THEN View(f, p).bytes
                                    ELSE View(f, p).diskSynced
         /\ \A q \in Names : q # p => View(g, q) = View(f, q)
<1> DEFINE x == f.live[p]
           s == [f.synced EXCEPT ![x] = f.bytes[x]]
           g == Fs!SyncFile(f, p)
<1>0. FsType(f)
  BY DEF FsOK
<1>1. x \in Pool /\ f.bytes[x] \in Seq(Piece) /\ x # 0
  BY <1>0 DEF FsType
<1>2. s \in [Pool -> Seq(Piece)]
  BY <1>0, <1>1 DEF FsType
<1>3. g = [live |-> f.live, durable |-> f.durable, bytes |-> f.bytes, synced |-> s]
  BY <1>0, FsRecord DEF Fs!SyncFile
<1>4. s[x] = f.bytes[x] /\ \A i \in Pool : i # x => s[i] = f.synced[i]
  BY <1>0, <1>1 DEF FsType
<1> HIDE DEF g, s
<1>5. /\ g.live = f.live /\ g.durable = f.durable /\ g.bytes = f.bytes /\ g.synced = s
  BY <1>3
<1>6. FsType(g)
  <2>1. /\ f.durable \in [Names -> Pool \cup {0}] /\ f.live \in [Names -> Pool \cup {0}]
        /\ f.bytes \in [Pool -> Seq(Piece)]
    BY <1>0 DEF FsType
  <2> QED
    BY <1>2, <1>3, <2>1 DEF FsType
<1>7. OneOwner(g)
  BY <1>5 DEF OneOwner, FsOK
<1>8. x \in Fs!Referenced(f)
  BY ReferencedIs
<1>9. FreeEmpty(g)
  <2>1. Fs!Referenced(g) = Fs!Referenced(f)
    BY <1>5, ReferencedIs, Zenon
  <2> QED
    BY <1>4, <1>5, <1>8, <2>1 DEF FreeEmpty, FsOK
<1>10. SyncedLeads(g)
  <2>1. Leads(f.bytes[x], f.bytes[x])
    BY <1>1 DEF Leads
  <2> QED
    BY <1>4, <1>5, <2>1 DEF SyncedLeads, FsOK
<1>11. ASSUME NEW q \in Names, q # p PROVE View(g, q) = View(f, q)
  <2>1. f.live[q] # x /\ f.durable[q] # x
    BY <1>1, <1>11, OwnFile
  <2>2. f.live[q] \in Pool \cup {0} /\ f.durable[q] \in Pool \cup {0}
    BY <1>0 DEF FsType
  <2>3. \A i \in {f.live[q], f.durable[q]} :
          i # 0 => g.bytes[i] = f.bytes[i] /\ g.synced[i] = f.synced[i]
    BY <1>4, <1>5, <2>1, <2>2
  <2>4. g.live[q] = f.live[q] /\ g.durable[q] = f.durable[q]
    BY <1>5
  <2> QED
    BY <2>3, <2>4, ViewKept
<1>12. f.durable[p] \in Pool \cup {0}
  BY <1>0 DEF FsType
<1>13. /\ View(g, p).live /\ View(g, p).same = View(f, p).same
       /\ View(g, p).disk = View(f, p).disk
       /\ View(g, p).bytes = View(f, p).bytes
       /\ View(g, p).synced = View(f, p).bytes
       /\ View(g, p).diskBytes = View(f, p).diskBytes
       /\ View(g, p).diskSynced = IF View(f, p).same THEN View(f, p).bytes
                                  ELSE View(f, p).diskSynced
  BY <1>1, <1>4, <1>5, <1>12 DEF View, Held
<1> QED
  BY <1>6, <1>7, <1>9, <1>10, <1>11, <1>13 DEF FsOK, g

\* sync_dir: the disk knows the names the process knows.
LEMMA SyncDirFacts ==
  ASSUME NEW f, FsOK(f)
  PROVE  LET g == Fs!SyncDir(f) IN
         /\ FsOK(g)
         /\ \A p \in Names :
              /\ View(g, p).live = View(f, p).live /\ View(g, p).disk = View(f, p).live
              /\ View(g, p).same
              /\ View(g, p).bytes = View(f, p).bytes /\ View(g, p).diskBytes = View(f, p).bytes
              /\ View(g, p).synced = View(f, p).synced
              /\ View(g, p).diskSynced = View(f, p).synced
<1> DEFINE h == [f EXCEPT !.durable = f.live]
           g == Fs!SyncDir(f)
<1>0. FsType(f)
  BY DEF FsOK
<1>1. h = [live |-> f.live, durable |-> f.live, bytes |-> f.bytes, synced |-> f.synced]
  BY <1>0, FsRecord
<1> HIDE DEF h
<1>2. h.live = f.live /\ h.durable = f.live /\ h.bytes = f.bytes /\ h.synced = f.synced
  BY <1>1
<1>3. FsType(h)
  <2>1. /\ f.live \in [Names -> Pool \cup {0}]
        /\ f.bytes \in [Pool -> Seq(Piece)] /\ f.synced \in [Pool -> Seq(Piece)]
    BY <1>0 DEF FsType
  <2> QED
    BY <1>1, <2>1 DEF FsType
<1>4. OneOwner(h) /\ SyncedLeads(h)
  BY <1>2 DEF FsOK, OneOwner, SyncedLeads
<1>5. g = Fs!Collect(h)
  BY DEF Fs!SyncDir, h
<1>6. FsOK(g) /\ \A p \in Names : View(g, p) = View(h, p)
  BY <1>3, <1>4, <1>5, CollectFacts DEF FsOK
<1>7. \A p \in Names :
        /\ View(h, p).live = View(f, p).live /\ View(h, p).disk = View(f, p).live
        /\ View(h, p).same
        /\ View(h, p).bytes = View(f, p).bytes /\ View(h, p).diskBytes = View(f, p).bytes
        /\ View(h, p).synced = View(f, p).synced
        /\ View(h, p).diskSynced = View(f, p).synced
  BY <1>2 DEF View
<1> HIDE DEF g
<1>8. \A p \in Names :
        /\ View(g, p).live = View(f, p).live /\ View(g, p).disk = View(f, p).live
        /\ View(g, p).same
        /\ View(g, p).bytes = View(f, p).bytes /\ View(g, p).diskBytes = View(f, p).bytes
        /\ View(g, p).synced = View(f, p).synced
        /\ View(g, p).diskSynced = View(f, p).synced
  BY <1>6, <1>7
<1> QED
  BY <1>6, <1>8 DEF g

\* remove: the process does not see the file any more, the disk still has it.
LEMMA DeleteFacts ==
  ASSUME NEW f, FsOK(f), NEW p \in Names
  PROVE  LET g == Fs!Delete(f, p) IN
         /\ FsOK(g)
         /\ ~View(g, p).live /\ View(g, p).bytes = <<>> /\ View(g, p).synced = <<>>
         /\ View(g, p).disk = View(f, p).disk
         /\ View(g, p).diskBytes = View(f, p).diskBytes
         /\ View(g, p).diskSynced = View(f, p).diskSynced
         /\ \A q \in Names : q # p => View(g, q) = View(f, q)
<1> DEFINE l == [f.live EXCEPT ![p] = 0]
           h == [f EXCEPT !.live[p] = 0]
           g == Fs!Delete(f, p)
<1>0. FsType(f)
  BY DEF FsOK
<1>1. h = [live |-> l, durable |-> f.durable, bytes |-> f.bytes, synced |-> f.synced]
  BY <1>0, FsRecord
<1>2. /\ l \in [Names -> Pool \cup {0}]
      /\ l[p] = 0 /\ \A q \in Names : q # p => l[q] = f.live[q]
  BY <1>0 DEF FsType
<1> HIDE DEF h, l
<1>3. h.live = l /\ h.durable = f.durable /\ h.bytes = f.bytes /\ h.synced = f.synced
  BY <1>1
<1>4. FsType(h)
  <2>1. /\ f.durable \in [Names -> Pool \cup {0}]
        /\ f.bytes \in [Pool -> Seq(Piece)] /\ f.synced \in [Pool -> Seq(Piece)]
    BY <1>0 DEF FsType
  <2> QED
    BY <1>1, <1>2, <2>1 DEF FsType
<1>5. OneOwner(h) /\ SyncedLeads(h)
  BY <1>2, <1>3 DEF FsOK, OneOwner, SyncedLeads
<1>6. g = Fs!Collect(h)
  BY DEF Fs!Delete, h
<1>7. FsOK(g) /\ \A q \in Names : View(g, q) = View(h, q)
  BY <1>4, <1>5, <1>6, CollectFacts DEF FsOK
<1>8. ASSUME NEW q \in Names, q # p PROVE View(h, q) = View(f, q)
  <2>1. h.live[q] = f.live[q] /\ h.durable[q] = f.durable[q]
    BY <1>2, <1>3, <1>8
  <2> QED
    BY <1>3, <2>1, ViewKept
<1>9. /\ ~View(h, p).live /\ View(h, p).bytes = <<>> /\ View(h, p).synced = <<>>
      /\ View(h, p).disk = View(f, p).disk
      /\ View(h, p).diskBytes = View(f, p).diskBytes
      /\ View(h, p).diskSynced = View(f, p).diskSynced
  BY <1>2, <1>3 DEF View, Held
<1> QED
  BY <1>7, <1>8, <1>9 DEF g

\* rename over a file: it has the bytes of the one renamed, the disk its old ones.
LEMMA RenameFacts ==
  ASSUME NEW f, FsOK(f), NEW p \in Names, NEW q \in Names, p # q,
         f.live[p] # 0, f.durable[p] = 0
  PROVE  LET g == Fs!Rename(f, p, q) IN
         /\ FsOK(g)
         /\ ~View(g, p).live /\ ~View(g, p).disk
         /\ View(g, q).live /\ ~View(g, q).same
         /\ View(g, q).bytes = View(f, p).bytes /\ View(g, q).synced = View(f, p).synced
         /\ View(g, q).disk = View(f, q).disk
         /\ View(g, q).diskBytes = View(f, q).diskBytes
         /\ View(g, q).diskSynced = View(f, q).diskSynced
         /\ \A r \in Names : r \notin {p, q} => View(g, r) = View(f, r)
<1> DEFINE x == f.live[p]
           l == [[f.live EXCEPT ![q] = x] EXCEPT ![p] = 0]
           l1 == [f.live EXCEPT ![q] = x]
           h1 == [f EXCEPT !.live[q] = x]
           h == [f EXCEPT !.live[q] = x, !.live[p] = 0]
           g == Fs!Rename(f, p, q)
<1>0. FsType(f)
  BY DEF FsOK
<1>1. h = [live |-> l, durable |-> f.durable, bytes |-> f.bytes, synced |-> f.synced]
  <2>1. h1 = [live |-> l1, durable |-> f.durable, bytes |-> f.bytes, synced |-> f.synced]
    BY <1>0, FsRecord
  <2>2. h = [h1 EXCEPT !.live[p] = 0]
    OBVIOUS
  <2>3. l = [l1 EXCEPT ![p] = 0]
    OBVIOUS
  <2> HIDE DEF h1, l1, h, l
  <2> QED
    BY <2>1, <2>2, <2>3
<1>2. /\ l \in [Names -> Pool \cup {0}]
      /\ l[p] = 0 /\ l[q] = x /\ \A r \in Names : r \notin {p, q} => l[r] = f.live[r]
  BY <1>0 DEF FsType
<1> HIDE DEF h, l
<1>3. h.live = l /\ h.durable = f.durable /\ h.bytes = f.bytes /\ h.synced = f.synced
  BY <1>1
<1>4. FsType(h)
  <2>1. /\ f.durable \in [Names -> Pool \cup {0}]
        /\ f.bytes \in [Pool -> Seq(Piece)] /\ f.synced \in [Pool -> Seq(Piece)]
    BY <1>0 DEF FsType
  <2> QED
    BY <1>1, <1>2, <2>1 DEF FsType
<1>5. \A r \in Names : r # p => f.live[r] # x /\ f.durable[r] # x
  BY OwnFile
<1>6. OneOwner(h)
  <2> SUFFICES ASSUME NEW r \in Names, NEW s \in Names, r # s,
                      NEW y \in {h.live[r], h.durable[r]}, NEW z \in {h.live[s], h.durable[s]},
                      y = z
               PROVE  y = 0
    BY DEF OneOwner
  <2>1. \A t \in Names : h.live[t] = 0 \/ (t = q /\ h.live[t] = x) \/ (t # q /\ t # p /\ h.live[t] = f.live[t])
    BY <1>2, <1>3
  <2>2. \A t \in Names : h.durable[t] # x \/ t = p
    BY <1>3, <1>5
  <2>3. h.durable[p] = 0
    BY <1>3
  <2>4. OneOwner(f)
    BY DEF FsOK
  <2>5. \A t \in Names : t # p => f.live[t] # x
    BY <1>5
  <2> QED
    BY <1>3, <2>1, <2>2, <2>3, <2>4, <2>5 DEF OneOwner
<1>7. SyncedLeads(h)
  BY <1>3 DEF FsOK, SyncedLeads
<1>8. g = Fs!Collect(h)
  BY DEF Fs!Rename, h
<1>9. FsOK(g) /\ \A r \in Names : View(g, r) = View(h, r)
  BY <1>4, <1>6, <1>7, <1>8, CollectFacts DEF FsOK
<1>10. ASSUME NEW r \in Names, r \notin {p, q} PROVE View(h, r) = View(f, r)
  <2>1. h.live[r] = f.live[r] /\ h.durable[r] = f.durable[r]
    BY <1>2, <1>3, <1>10
  <2> QED
    BY <1>3, <2>1, ViewKept
<1>11. /\ ~View(h, p).live /\ ~View(h, p).disk
       /\ View(h, q).live /\ ~View(h, q).same
       /\ View(h, q).bytes = View(f, p).bytes /\ View(h, q).synced = View(f, p).synced
       /\ View(h, q).disk = View(f, q).disk
       /\ View(h, q).diskBytes = View(f, q).diskBytes
       /\ View(h, q).diskSynced = View(f, q).diskSynced
  BY <1>2, <1>3, <1>5 DEF View, Held
<1> QED
  BY <1>9, <1>10, <1>11 DEF g

-----------------------------------------------------------------------------
\* What a power loss leaves of an unsynced tail has the tail's first pieces.
LEMMA TornTail ==
  ASSUME NEW tail \in Seq(Piece), NEW t \in Fs!TornTails(tail)
  PROVE  /\ t \in Seq(Piece) /\ Len(t) <= Len(tail)
         /\ \A k \in 1 .. Len(t) : t[k].id = tail[k].id
<1> DEFINE n == Len(tail)
<1>1. n \in Nat /\ \A k \in 1 .. n : tail[k] \in Piece
  OBVIOUS
<1>2. ASSUME NEW m \in 0 .. n
      PROVE  /\ SubSeq(tail, 1, m) \in Seq(Piece) /\ Len(SubSeq(tail, 1, m)) = m
             /\ \A k \in 1 .. m : SubSeq(tail, 1, m)[k] = tail[k]
  BY <1>1
<1>3. ASSUME NEW a \in Piece
      PROVE  /\ [a EXCEPT !.state = "torn"] \in Piece /\ [a EXCEPT !.state = "bad"] \in Piece
             /\ [a EXCEPT !.state = "torn"].id = a.id /\ [a EXCEPT !.state = "bad"].id = a.id
  BY DEF Piece
<1>4. CASE \E m \in 0 .. n : t = SubSeq(tail, 1, m)
  <2>1. PICK m \in 0 .. n : t = SubSeq(tail, 1, m)
    BY <1>4
  <2> QED
    BY <1>1, <1>2, <2>1
<1>5. CASE \E m \in 1 .. n : t = Append(SubSeq(tail, 1, m - 1), [tail[m] EXCEPT !.state = "torn"])
  <2>1. PICK m \in 1 .. n : t = Append(SubSeq(tail, 1, m - 1), [tail[m] EXCEPT !.state = "torn"])
    BY <1>5
  <2> DEFINE s == SubSeq(tail, 1, m - 1)
             a == [tail[m] EXCEPT !.state = "torn"]
  <2>2. m - 1 \in 0 .. n
    BY <1>1
  <2>3. s \in Seq(Piece) /\ Len(s) = m - 1 /\ \A k \in 1 .. m - 1 : s[k] = tail[k]
    BY <1>2, <2>2
  <2>4. a \in Piece /\ a.id = tail[m].id
    BY <1>1, <1>3
  <2> HIDE DEF s, a
  <2>5. t = Append(s, a)
    BY <2>1 DEF s, a
  <2>6. t \in Seq(Piece) /\ Len(t) = m /\ t[m] = a /\ \A k \in 1 .. m - 1 : t[k] = s[k]
    BY <1>1, <2>3, <2>4, <2>5
  <2>7. ASSUME NEW k \in 1 .. m PROVE t[k].id = tail[k].id
    BY <2>3, <2>4, <2>6
  <2> QED
    BY <1>1, <2>6, <2>7
<1>6. CASE \E m \in 1 .. n : t = [tail EXCEPT ![m].state = "bad"]
  <2>1. PICK m \in 1 .. n : t = [tail EXCEPT ![m].state = "bad"]
    BY <1>6
  <2> DEFINE a == [tail[m] EXCEPT !.state = "bad"]
  <2>2. a \in Piece /\ a.id = tail[m].id
    BY <1>1, <1>3
  <2>3. t = [tail EXCEPT ![m] = a]
    BY <2>1
  <2> HIDE DEF a
  <2>4. t \in Seq(Piece) /\ Len(t) = n /\ \A k \in 1 .. n : t[k] = IF k = m THEN a ELSE tail[k]
    BY <1>1, <2>2, <2>3
  <2> QED
    BY <1>1, <2>2, <2>4
<1> QED
  BY <1>4, <1>5, <1>6 DEF Fs!TornTails

\* What a file may hold after a power loss: all that was synced, and of the pieces
\* behind it some of the first, the last of them or one of them perhaps damaged.
Torn(c, v) ==
  /\ c \in Seq(Piece) /\ Leads(v.diskSynced, c)
  /\ Len(c) <= Len(v.diskBytes)
  /\ \A k \in 1 .. Len(c) : c[k].id = v.diskBytes[k].id

\* A power loss gives every name back what the disk had under it.
LEMMA RevertedFacts ==
  ASSUME NEW f, FsOK(f), NEW s \in [Pool -> Seq(Piece)]
  PROVE  LET g == Fs!Reverted(f, s) IN
         /\ FsOK(g)
         /\ \A p \in Names :
              /\ View(g, p).live = View(f, p).disk /\ View(g, p).disk = View(f, p).disk
              /\ View(g, p).same
              /\ View(g, p).bytes = Held(s, f.durable[p])
              /\ View(g, p).synced = View(g, p).bytes
              /\ View(g, p).diskBytes = View(g, p).bytes
              /\ View(g, p).diskSynced = View(g, p).bytes
<1> DEFINE h == [live |-> f.durable, durable |-> f.durable, bytes |-> s, synced |-> s]
           g == Fs!Reverted(f, s)
<1>1. h.live = f.durable /\ h.durable = f.durable /\ h.bytes = s /\ h.synced = s
  OBVIOUS
<1>2. FsType(h)
  <2>1. f.durable \in [Names -> Pool \cup {0}]
    BY DEF FsOK, FsType
  <2> QED
    BY <2>1 DEF FsType
<1>3. g = Fs!Collect(h)
  BY DEF Fs!Reverted
<1> HIDE DEF h, g
<1>4. OneOwner(h)
  BY <1>1 DEF FsOK, OneOwner
<1>5. SyncedLeads(h)
  <2>1. \A a \in Seq(Piece) : Leads(a, a)
    BY DEF Leads
  <2> QED
    BY <1>1, <2>1 DEF SyncedLeads
<1>6. FsOK(g) /\ \A p \in Names : View(g, p) = View(h, p)
  BY <1>2, <1>3, <1>4, <1>5, CollectFacts DEF FsOK
<1>7. \A p \in Names :
        /\ View(h, p).live = View(f, p).disk /\ View(h, p).disk = View(f, p).disk
        /\ View(h, p).same
        /\ View(h, p).bytes = Held(s, f.durable[p])
        /\ View(h, p).synced = View(h, p).bytes
        /\ View(h, p).diskBytes = View(h, p).bytes
        /\ View(h, p).diskSynced = View(h, p).bytes
  BY <1>1 DEF View
<1> QED
  BY <1>6, <1>7 DEF g

\* The tail of a sequence behind its first n elements.
LEMMA RestOf ==
  ASSUME NEW b \in Seq(Piece), NEW n \in 0 .. Len(b)
  PROVE  LET u == SubSeq(b, n + 1, Len(b)) IN
         /\ u \in Seq(Piece) /\ Len(u) = Len(b) - n
         /\ \A k \in 1 .. Len(u) : u[k] = b[n + k]
<1> DEFINE u == SubSeq(b, n + 1, Len(b))
<1>1. Len(b) \in Nat /\ n + 1 \in 1 .. Len(b) + 1 /\ \A k \in 1 .. Len(b) : b[k] \in Piece
  OBVIOUS
<1>2. u = [k \in 1 .. Len(b) - n |-> b[n + k]]
  OBVIOUS
<1>3. \A k \in 1 .. Len(b) - n : n + k \in 1 .. Len(b)
  BY <1>1
<1> HIDE DEF u
<1>4. u \in Seq(Piece)
  BY <1>1, <1>2, <1>3
<1>5. Len(u) = Len(b) - n
  BY <1>1, <1>2
<1> QED
  BY <1>2, <1>4, <1>5 DEF u

\* A power loss: the disk's names, and of each file what the loss left of it.
LEMMA CrashFacts ==
  ASSUME NEW f, FsOK(f), NEW g \in Fs!Crashes(f)
  PROVE  /\ FsOK(g)
         /\ \A p \in Names :
              /\ View(g, p).live = View(f, p).disk /\ View(g, p).disk = View(f, p).disk
              /\ View(g, p).same
              /\ Torn(View(g, p).bytes, View(f, p))
              /\ View(g, p).synced = View(g, p).bytes
              /\ View(g, p).diskBytes = View(g, p).bytes
              /\ View(g, p).diskSynced = View(g, p).bytes
<1> DEFINE Left(i, c) == /\ c \in Seq(Piece) /\ Leads(f.synced[i], c)
                         /\ Len(c) <= Len(f.bytes[i])
                         /\ \A k \in 1 .. Len(c) : c[k].id = f.bytes[i][k].id
<1>1. /\ f.bytes \in [Pool -> Seq(Piece)] /\ f.synced \in [Pool -> Seq(Piece)]
      /\ f.durable \in [Names -> Pool \cup {0}]
  BY DEF FsOK, FsType
<1>2. ASSUME NEW i \in Pool PROVE Left(i, f.synced[i])
  <2>1. Leads(f.synced[i], f.bytes[i]) /\ f.synced[i] \in Seq(Piece)
    BY <1>1 DEF FsOK, SyncedLeads
  <2> QED
    BY <2>1 DEF Leads
<1>3. ASSUME NEW i \in Pool, NEW tail \in Fs!TornTails(Fs!UnsyncedTail(f, i))
      PROVE  Left(i, f.synced[i] \o tail)
  <2> DEFINE a == f.synced[i]
             b == f.bytes[i]
             u == Fs!UnsyncedTail(f, i)
             c == a \o tail
  <2>1. a \in Seq(Piece) /\ b \in Seq(Piece) /\ Len(a) \in Nat /\ Len(b) \in Nat
    BY <1>1
  <2>2. Len(a) <= Len(b) /\ \A k \in 1 .. Len(a) : a[k] = b[k]
    BY DEF FsOK, SyncedLeads, Leads
  <2>3. /\ u \in Seq(Piece) /\ Len(u) = Len(b) - Len(a)
        /\ \A k \in 1 .. Len(u) : u[k] = b[Len(a) + k]
    <3>1. u = SubSeq(b, Len(a) + 1, Len(b)) /\ Len(a) \in 0 .. Len(b)
      BY <2>1, <2>2 DEF Fs!UnsyncedTail
    <3> HIDE DEF u, a, b
    <3> QED
      BY <2>1, <3>1, RestOf
  <2>4. /\ tail \in Seq(Piece) /\ Len(tail) <= Len(u)
        /\ \A k \in 1 .. Len(tail) : tail[k].id = u[k].id
    BY <1>3, <2>3, TornTail
  <2> HIDE DEF u, a, b
  <2>5. /\ c \in Seq(Piece) /\ Len(c) = Len(a) + Len(tail)
        /\ \A k \in 1 .. Len(a) : c[k] = a[k]
        /\ \A k \in 1 .. Len(c) : k > Len(a) => k - Len(a) \in 1 .. Len(tail) /\ c[k] = tail[k - Len(a)]
    BY <2>1, <2>4, ConcatType, ConcatIndex
  <2> HIDE DEF c
  <2>6. ASSUME NEW k \in 1 .. Len(c) PROVE c[k].id = b[k].id
    <3>1. CASE k <= Len(a)
      BY <2>1, <2>2, <2>5, <3>1
    <3>2. CASE k > Len(a)
      <4>1. k - Len(a) \in 1 .. Len(tail) /\ c[k] = tail[k - Len(a)]
        BY <2>5, <3>2
      <4>2. k - Len(a) \in 1 .. Len(u)
        BY <2>1, <2>3, <2>4, <4>1
      <4>3. u[k - Len(a)] = b[Len(a) + (k - Len(a))] /\ Len(a) + (k - Len(a)) = k
        BY <2>1, <2>3, <4>2
      <4> QED
        BY <2>4, <4>1, <4>3
    <3> QED
      BY <2>1, <2>5, <3>1, <3>2
  <2>7. Leads(a, c)
    BY <2>1, <2>4, <2>5 DEF Leads
  <2>8. Len(c) <= Len(b)
    BY <2>1, <2>3, <2>4, <2>5
  <2> QED
    BY <2>5, <2>6, <2>7, <2>8 DEF c, a, b
<1>4. \E s \in [Pool -> Seq(Piece)] : g = Fs!Reverted(f, s) /\ \A i \in Pool : Left(i, s[i])
  <2> HIDE DEF Left
  <2>1. CASE g = Fs!Reverted(f, f.synced)
    BY <1>1, <1>2, <2>1
  <2>2. CASE \E i \in Fs!TearTargets(f) : \E tail \in Fs!TornTails(Fs!UnsyncedTail(f, i)) :
               g = Fs!Reverted(f, [f.synced EXCEPT ![i] = @ \o tail])
    <3>0. PICK i \in Fs!TearTargets(f) : \E tail \in Fs!TornTails(Fs!UnsyncedTail(f, i)) :
                 g = Fs!Reverted(f, [f.synced EXCEPT ![i] = @ \o tail])
      BY <2>2
    <3>1. PICK tail \in Fs!TornTails(Fs!UnsyncedTail(f, i)) :
                 g = Fs!Reverted(f, [f.synced EXCEPT ![i] = @ \o tail])
      BY <3>0
    <3> DEFINE c == f.synced[i] \o tail
               s == [f.synced EXCEPT ![i] = c]
    <3>2. i \in Pool
      BY DEF Fs!TearTargets, Pool
    <3>3. Left(i, c)
      BY <1>3, <3>2
    <3>4. c \in Seq(Piece)
      BY <3>3 DEF Left
    <3>5. g = Fs!Reverted(f, s)
      BY <3>1
    <3> HIDE DEF c
    <3>6. s \in [Pool -> Seq(Piece)] /\ \A j \in Pool : s[j] = IF j = i THEN c ELSE f.synced[j]
      BY <1>1, <3>2, <3>4
    <3> HIDE DEF s
    <3> QED
      BY <1>2, <3>3, <3>5, <3>6
  <2> QED
    BY <2>1, <2>2 DEF Fs!Crashes
<1>5. PICK s \in [Pool -> Seq(Piece)] : g = Fs!Reverted(f, s) /\ \A i \in Pool : Left(i, s[i])
  BY <1>4
<1>6. ASSUME NEW p \in Names PROVE Torn(Held(s, f.durable[p]), View(f, p))
  <2>1. CASE f.durable[p] = 0
    BY <2>1 DEF Torn, Held, View, Leads
  <2>2. CASE f.durable[p] # 0
    <3>1. f.durable[p] \in Pool
      BY <1>1, <2>2
    <3> QED
      BY <1>5, <2>2, <3>1 DEF Torn, Held, View
  <2> QED
    BY <2>1, <2>2
<1> QED
  BY <1>5, <1>6, RevertedFacts

-----------------------------------------------------------------------------
\* The segment with an id, and the scratch file of its repair.
SegOf(f, id) == View(f, Path(id))
ScratchOf(f, id) == View(f, Tmp(id))

Clean(s) == \A k \in DOMAIN s : Decodes(s[k])
ValidOf(s) == SubSeq(s, 1, ValidLen(s))

\* The longest prefix that decodes.
LEMMA ValidLenFacts ==
  ASSUME NEW s \in Seq(Piece)
  PROVE  /\ ValidLen(s) \in 0 .. Len(s)
         /\ \A k \in 1 .. ValidLen(s) : Decodes(s[k])
         /\ \A n \in 1 .. Len(s) : (\A k \in 1 .. n : Decodes(s[k])) => n <= ValidLen(s)
         /\ ValidLen(s) < Len(s) <=> ~Clean(s)
<1> DEFINE T == {n \in 0 .. Len(s) : \A i \in 1 .. n : Decodes(s[i])}
<1>1. Len(s) \in Nat /\ DOMAIN s = 1 .. Len(s)
  OBVIOUS
<1>2. T \in SUBSET Nat /\ 0 \in T /\ \A m \in T : m <= Len(s)
  BY <1>1
<1>3. ValidLen(s) = Max(T)
  BY DEF ValidLen
<1> HIDE DEF T
<1>4. ValidLen(s) \in T /\ \A m \in T : m <= ValidLen(s)
  BY <1>1, <1>2, <1>3, MaxOfNats
<1>5. ValidLen(s) \in 0 .. Len(s) /\ \A k \in 1 .. ValidLen(s) : Decodes(s[k])
  BY <1>4 DEF T
<1>6. \A n \in 1 .. Len(s) : (\A k \in 1 .. n : Decodes(s[k])) => n <= ValidLen(s)
  BY <1>1, <1>4 DEF T
<1>7. ASSUME ~(ValidLen(s) < Len(s)) PROVE Clean(s)
  BY <1>1, <1>5, <1>7 DEF Clean
<1>8. ASSUME Clean(s) PROVE ~(ValidLen(s) < Len(s))
  <2>1. CASE Len(s) = 0
    BY <1>5, <2>1
  <2>2. CASE Len(s) # 0
    <3>1. Len(s) \in 1 .. Len(s) /\ \A k \in 1 .. Len(s) : Decodes(s[k])
      BY <1>1, <1>8, <2>2 DEF Clean
    <3> QED
      BY <1>1, <1>5, <1>6, <3>1
  <2> QED
    BY <2>1, <2>2
<1> QED
  BY <1>5, <1>6, <1>7, <1>8

\* What a scan keeps of a segment: its pieces up to the first damaged one.
LEMMA ValidOfFacts ==
  ASSUME NEW s \in Seq(Piece)
  PROVE  /\ ValidOf(s) \in Seq(Piece) /\ Len(ValidOf(s)) = ValidLen(s)
         /\ \A k \in 1 .. ValidLen(s) : ValidOf(s)[k] = s[k]
         /\ Clean(ValidOf(s))
<1>1. ValidLen(s) \in 0 .. Len(s) /\ \A k \in 1 .. ValidLen(s) : Decodes(s[k])
  BY ValidLenFacts
<1>2. ASSUME NEW n \in 0 .. Len(s)
      PROVE  /\ SubSeq(s, 1, n) \in Seq(Piece) /\ Len(SubSeq(s, 1, n)) = n
             /\ \A k \in 1 .. n : SubSeq(s, 1, n)[k] = s[k]
  OBVIOUS
<1>3. /\ ValidOf(s) \in Seq(Piece) /\ Len(ValidOf(s)) = ValidLen(s)
      /\ \A k \in 1 .. ValidLen(s) : ValidOf(s)[k] = s[k]
  BY <1>1, <1>2 DEF ValidOf
<1>4. DOMAIN ValidOf(s) = 1 .. ValidLen(s)
  BY <1>3
<1> QED
  BY <1>1, <1>3, <1>4 DEF Clean

\* How recovery sees a segment.
LEMMA SegmentFacts ==
  ASSUME NEW f, FsType(f)
  PROVE  /\ Segments(f) = {id \in Ids : SegOf(f, id).live}
         /\ \A id \in Ids :
              /\ SegOf(f, id).bytes \in Seq(Piece)
              /\ Fs!Exists(f, Path(id)) <=> SegOf(f, id).live
              /\ SegOf(f, id).live =>
                   /\ Fs!Content(f, Path(id)) = SegOf(f, id).bytes
                   /\ Unclean(f, id) <=> ~Clean(SegOf(f, id).bytes)
                   /\ Valid(f, id) = ValidOf(SegOf(f, id).bytes)
              /\ ~SegOf(f, id).live => SegOf(f, id).bytes = <<>>
<1>1. ASSUME NEW id \in Ids
      PROVE  /\ SegOf(f, id).bytes \in Seq(Piece)
             /\ Fs!Exists(f, Path(id)) <=> SegOf(f, id).live
             /\ SegOf(f, id).live =>
                  /\ Fs!Content(f, Path(id)) = SegOf(f, id).bytes
                  /\ Unclean(f, id) <=> ~Clean(SegOf(f, id).bytes)
                  /\ Valid(f, id) = ValidOf(SegOf(f, id).bytes)
             /\ ~SegOf(f, id).live => SegOf(f, id).bytes = <<>>
  <2>1. SegOf(f, id).bytes \in Seq(Piece)
    BY NameFacts, ViewTypes DEF SegOf
  <2>2. Fs!Exists(f, Path(id)) <=> SegOf(f, id).live
    BY DEF Fs!Exists, SegOf, View
  <2>3. SegOf(f, id).live => Fs!Content(f, Path(id)) = SegOf(f, id).bytes
    BY DEF Fs!Content, SegOf, View, Held
  <2>4. ~SegOf(f, id).live => SegOf(f, id).bytes = <<>>
    BY DEF SegOf, View, Held
  <2> QED
    BY <2>1, <2>2, <2>3, <2>4, ValidLenFacts DEF Unclean, Valid, ValidOf
<1>2. Segments(f) = {id \in Ids : SegOf(f, id).live}
  BY <1>1 DEF Segments, Ids
<1> QED
  BY <1>1, <1>2

\* The n-th piece of a segment is one recovery replays.
Replays(f, id, n) ==
  /\ id \in Ids /\ n \in 1 .. Len(SegOf(f, id).bytes)
  /\ \A k \in 1 .. n : Decodes(SegOf(f, id).bytes[k])
  /\ \A j \in Ids : j < id => Clean(SegOf(f, j).bytes)

Before(i, m, j, n) == i < j \/ (i = j /\ m < n)

\* recover reads a segment when nothing damaged is in an older one.
LEMMA ScannedIs ==
  ASSUME NEW f, FsType(f), NEW id \in Ids
  PROVE  id \in Scanned(f) <=>
           /\ SegOf(f, id).live
           /\ \A j \in Ids : j < id => Clean(SegOf(f, j).bytes)
<1>1. Clean(<<>>)
  BY DEF Clean
<1> QED
  BY <1>1, SegmentFacts DEF Scanned

\* r replays such pieces only, all of them, in the order of the segments.
Only(f, r) ==
  \A i \in DOMAIN r : \E id, n : Replays(f, id, n) /\ r[i] = SegOf(f, id).bytes[n].id
Every(f, r) ==
  \A id, n : Replays(f, id, n) => \E i \in DOMAIN r : r[i] = SegOf(f, id).bytes[n].id
Orderly(f, r) ==
  \A i, j \in DOMAIN r : i < j =>
    \E a, m, b, n :
      /\ Replays(f, a, m) /\ r[i] = SegOf(f, a).bytes[m].id
      /\ Replays(f, b, n) /\ r[j] = SegOf(f, b).bytes[n].id
      /\ Before(a, m, b, n)

\* What recovery replays, all of it, and in which order.
LEMMA RecoveredFacts ==
  ASSUME NEW f, FsType(f)
  PROVE  /\ Recovered(f) \in Seq(PieceId) /\ Only(f, Recovered(f))
         /\ Every(f, Recovered(f)) /\ Orderly(f, Recovered(f))
<1> DEFINE seqs == [id \in 1 .. MaxSegments |-> IF id \in Scanned(f) THEN Valid(f, id) ELSE <<>>]
           all == FlattenSeq(seqs)
           R == Recovered(f)
<1>1. MaxSegments \in Nat /\ Ids = 1 .. MaxSegments
  BY WalAssumption DEF Ids
<1>2. ASSUME NEW id \in Ids
      PROVE  /\ seqs[id] \in Seq(Piece)
             /\ \A n : n \in 1 .. Len(seqs[id]) <=> Replays(f, id, n)
             /\ \A n \in 1 .. Len(seqs[id]) : seqs[id][n] = SegOf(f, id).bytes[n]
  <2> DEFINE s == SegOf(f, id).bytes
  <2>1. s \in Seq(Piece)
    BY SegmentFacts
  <2>2. CASE id \in Scanned(f)
    <3>1. seqs[id] = ValidOf(s)
      BY <1>1, <2>2, ScannedIs, SegmentFacts
    <3>2. \A n : n \in 1 .. ValidLen(s) <=> n \in 1 .. Len(s) /\ \A k \in 1 .. n : Decodes(s[k])
      BY <2>1, ValidLenFacts
    <3>3. \A j \in Ids : j < id => Clean(SegOf(f, j).bytes)
      BY <2>2, ScannedIs
    <3>4. /\ ValidOf(s) \in Seq(Piece) /\ Len(ValidOf(s)) = ValidLen(s)
          /\ \A n \in 1 .. ValidLen(s) : ValidOf(s)[n] = s[n]
      BY <2>1, ValidOfFacts
    <3> HIDE DEF seqs
    <3> QED
      BY <3>1, <3>2, <3>3, <3>4 DEF Replays
  <2>3. CASE id \notin Scanned(f)
    <3>1. seqs[id] = <<>>
      BY <1>1, <2>3
    <3>2. ~(SegOf(f, id).live /\ \A j \in Ids : j < id => Clean(SegOf(f, j).bytes))
      BY <2>3, ScannedIs
    <3>3. \A n : ~Replays(f, id, n)
      BY <3>2, SegmentFacts DEF Replays
    <3> HIDE DEF seqs
    <3> QED
      BY <3>1, <3>3
  <2> QED
    BY <2>2, <2>3
<1>3. seqs \in Seq(Seq(Piece)) /\ Len(seqs) = MaxSegments
  <2>1. seqs = [id \in 1 .. MaxSegments |-> seqs[id]]
    OBVIOUS
  <2> HIDE DEF seqs
  <2> QED
    BY <1>1, <1>2, <2>1
<1>4. R = [i \in DOMAIN all |-> all[i].id]
  BY DEF Recovered
<1> HIDE DEF seqs
<1>5. /\ all \in Seq(Piece) /\ InOrder(all, seqs, MaxSegments)
      /\ OnlyThose(all, seqs, MaxSegments) /\ AllOfThem(all, seqs, MaxSegments)
  BY <1>3, FlattenType, FlattenElements
<1> HIDE DEF all, R
<1>6. DOMAIN all = 1 .. Len(all) /\ \A i \in 1 .. Len(all) : all[i] \in Piece
  BY <1>5
<1>7. R \in Seq(PieceId)
  BY <1>4, <1>5, <1>6 DEF Piece
<1>8. DOMAIN R = 1 .. Len(all) /\ \A i \in 1 .. Len(all) : R[i] = all[i].id
  BY <1>4, <1>6
<1>9. \A i \in DOMAIN R : \E id, n : Replays(f, id, n) /\ R[i] = SegOf(f, id).bytes[n].id
  <2> SUFFICES ASSUME NEW i \in 1 .. Len(all)
               PROVE  \E id, n : Replays(f, id, n) /\ R[i] = SegOf(f, id).bytes[n].id
    BY <1>8
  <2>1. PICK id \in Ids : \E n \in 1 .. Len(seqs[id]) : all[i] = seqs[id][n]
    BY <1>1, <1>5 DEF OnlyThose
  <2> QED
    BY <1>2, <1>8, <2>1
<1>10. ASSUME NEW id, NEW n, Replays(f, id, n)
       PROVE  \E i \in DOMAIN R : R[i] = SegOf(f, id).bytes[n].id
  <2>1. id \in Ids
    BY <1>10 DEF Replays
  <2>2. n \in 1 .. Len(seqs[id]) /\ seqs[id][n] = SegOf(f, id).bytes[n]
    BY <1>2, <1>10, <2>1
  <2>3. \E i \in 1 .. Len(all) : all[i] = seqs[id][n]
    BY <1>1, <1>5, <2>1, <2>2 DEF AllOfThem
  <2> QED
    BY <1>8, <2>2, <2>3
<1>11. ASSUME NEW i \in DOMAIN R, NEW j \in DOMAIN R, i < j
       PROVE  \E a, m, b, n :
                /\ Replays(f, a, m) /\ R[i] = SegOf(f, a).bytes[m].id
                /\ Replays(f, b, n) /\ R[j] = SegOf(f, b).bytes[n].id
                /\ Before(a, m, b, n)
  <2>1. PICK a \in Ids, b \in Ids :
          \E m \in 1 .. Len(seqs[a]), n \in 1 .. Len(seqs[b]) :
            /\ all[i] = seqs[a][m] /\ all[j] = seqs[b][n]
            /\ a < b \/ (a = b /\ m < n)
    <3>1. i \in 1 .. Len(all) /\ j \in 1 .. Len(all)
      BY <1>8
    <3>2. InOrder(all, seqs, MaxSegments)
      BY <1>5
    <3>3. \E t, u \in 1 .. MaxSegments :
            \E m \in 1 .. Len(seqs[t]), n \in 1 .. Len(seqs[u]) :
              /\ all[i] = seqs[t][m] /\ all[j] = seqs[u][n]
              /\ t < u \/ (t = u /\ m < n)
      BY <1>11, <3>1, <3>2, Zenon DEF InOrder
    <3> QED
      BY <1>1, <3>3
  <2>2. PICK m \in 1 .. Len(seqs[a]), n \in 1 .. Len(seqs[b]) :
            /\ all[i] = seqs[a][m] /\ all[j] = seqs[b][n]
            /\ a < b \/ (a = b /\ m < n)
    BY <2>1
  <2>3. /\ Replays(f, a, m) /\ seqs[a][m] = SegOf(f, a).bytes[m]
        /\ Replays(f, b, n) /\ seqs[b][n] = SegOf(f, b).bytes[n]
    BY <1>2
  <2>4. R[i] = all[i].id /\ R[j] = all[j].id
    BY <1>8
  <2>5. Before(a, m, b, n)
    BY <2>2 DEF Before
  <2> QED
    BY <2>2, <2>3, <2>4, <2>5
<1>12. Only(f, R)
  BY <1>9, Zenon DEF Only
<1>13. Every(f, R)
  BY <1>10, Zenon DEF Every
<1>14. Orderly(f, R)
  BY <1>11, Zenon DEF Orderly
<1> QED
  BY <1>7, <1>12, <1>13, <1>14 DEF R

\* The segment recovery stops in: the first with a piece that does not decode.
BadTail(f, id) ==
  ~Clean(SegOf(f, id).bytes) /\ \A j \in Ids : j < id => Clean(SegOf(f, j).bytes)

\* The damaged segment that recovery repairs is the last it scanned.
LEMMA TailFacts ==
  ASSUME NEW f, FsType(f)
  PROVE  /\ \A id \in Ids : BadTail(f, id) =>
              /\ Max(Scanned(f)) = id /\ Scanned(f) # {} /\ Unclean(f, id)
              /\ SegOf(f, id).live /\ Valid(f, id) = ValidOf(SegOf(f, id).bytes)
         /\ Scanned(f) # {} /\ Unclean(f, Max(Scanned(f))) => BadTail(f, Max(Scanned(f)))
         /\ Scanned(f) # {} => Max(Scanned(f)) \in Ids
         /\ \A id \in Ids : ~Clean(SegOf(f, id).bytes) => \E j \in Ids : BadTail(f, j)
<1>1. Ids \subseteq Nat /\ MaxSegments \in Nat /\ \A id \in Ids : id <= MaxSegments
  BY WalAssumption DEF Ids
<1>2. Clean(<<>>)
  BY DEF Clean
<1>3. Scanned(f) \subseteq Ids
  BY DEF Scanned, Segments, Ids
<1>4. Scanned(f) # {} => /\ Max(Scanned(f)) \in Scanned(f)
                         /\ \A j \in Scanned(f) : j <= Max(Scanned(f))
  BY <1>1, <1>3, MaxOfNats
<1>5. ASSUME NEW id \in Ids, BadTail(f, id)
      PROVE  /\ Max(Scanned(f)) = id /\ Scanned(f) # {} /\ Unclean(f, id)
             /\ SegOf(f, id).live /\ Valid(f, id) = ValidOf(SegOf(f, id).bytes)
  <2>1. SegOf(f, id).live
    BY <1>2, <1>5, SegmentFacts DEF BadTail
  <2>2. id \in Scanned(f)
    BY <1>5, <2>1, ScannedIs DEF BadTail
  <2>3. \A j \in Scanned(f) : ~(id < j)
    BY <1>3, <1>5, ScannedIs DEF BadTail
  <2>4. Max(Scanned(f)) = id
    <3> DEFINE m == Max(Scanned(f))
    <3>1. m \in Scanned(f) /\ id <= m
      BY <1>4, <2>2
    <3>2. m \in Nat /\ id \in Nat /\ ~(id < m)
      BY <1>1, <1>3, <2>3, <3>1
    <3> HIDE DEF m
    <3>3. m = id
      BY <3>1, <3>2
    <3> QED
      BY <3>3 DEF m
  <2>5. Unclean(f, id) /\ Valid(f, id) = ValidOf(SegOf(f, id).bytes)
    BY <1>5, <2>1, SegmentFacts DEF BadTail
  <2> QED
    BY <2>1, <2>2, <2>4, <2>5
<1>6. ASSUME Scanned(f) # {}, Unclean(f, Max(Scanned(f)))
      PROVE  BadTail(f, Max(Scanned(f)))
  <2>1. Max(Scanned(f)) \in Ids /\ Max(Scanned(f)) \in Scanned(f)
    BY <1>3, <1>4, <1>6
  <2>2. /\ SegOf(f, Max(Scanned(f))).live
        /\ \A j \in Ids : j < Max(Scanned(f)) => Clean(SegOf(f, j).bytes)
    BY <2>1, ScannedIs
  <2> QED
    BY <1>6, <2>1, <2>2, SegmentFacts DEF BadTail
<1>7. ASSUME NEW id \in Ids, ~Clean(SegOf(f, id).bytes)
      PROVE  \E j \in Ids : BadTail(f, j)
  <2> DEFINE T == {j \in Ids : ~Clean(SegOf(f, j).bytes)}
  <2>1. T # {} /\ T \in SUBSET Nat
    BY <1>1, <1>7
  <2>2. PICK j \in T : \A m \in T : j <= m
    BY <2>1, LeastNat
  <2>3. \A m \in Ids : m < j => m \notin T
    BY <1>1, <2>2
  <2> QED
    BY <2>2, <2>3 DEF BadTail
<1> QED
  BY <1>3, <1>4, <1>5, <1>6, <1>7

\* Only one segment can be the damaged one that recovery stops at.
LEMMA OneBadTail ==
  ASSUME NEW f, NEW i \in Ids, NEW j \in Ids, BadTail(f, i), BadTail(f, j)
  PROVE  i = j
<1>1. i < j \/ j < i \/ i = j
  BY WalAssumption DEF Ids
<1> QED
  BY <1>1 DEF BadTail

-----------------------------------------------------------------------------
Repairing == {"drop", "create", "copy", "sync", "rename"}

\* A scratch file is only ever that of the segment under repair, not yet on the
\* disk, and holds what the stage of the repair says.
ScratchOK(f, stage) ==
  /\ \A id \in Ids : ~ScratchOf(f, id).disk
  /\ \A id \in Ids : ScratchOf(f, id).live => stage \in {"scan"} \cup Repairing /\ BadTail(f, id)
  /\ stage \in Repairing => \E id \in Ids : BadTail(f, id)
  /\ stage = "create" => \A id \in Ids : ~ScratchOf(f, id).live
  /\ \A id \in Ids : BadTail(f, id) =>
       /\ stage \in {"copy", "sync", "rename"} => ScratchOf(f, id).live
       /\ stage = "copy" => ScratchOf(f, id).bytes = <<>> /\ ScratchOf(f, id).synced = <<>>
       /\ stage \in {"sync", "rename"} =>
            ScratchOf(f, id).bytes = ValidOf(SegOf(f, id).bytes)
       /\ stage = "rename" => ScratchOf(f, id).synced = ScratchOf(f, id).bytes

BootOK ==
  /\ boot \in Boots
  /\ boot # "up" => writer = WriterOf(1, 0) /\ \A t \in Threads : pc[t] = "idle"
  /\ ScratchOK(fs, boot)

\* While reset() is at work, every segment is one it found or the new, empty one.
WriterOK ==
  /\ writer.active \in Ids /\ writer.old \in SUBSET Ids /\ writer.offset \in Nat
  /\ writer.stage \in Stages
  /\ writer.todo \in Seq(Frame)
  /\ writer.stage = "append" => writer.todo # <<>>
  /\ writer.stage \in {"create", "dirsync"} => writer.active < MaxSegments
  /\ writer.stage = "fresh" =>
       /\ NextId(writer.old) <= MaxSegments
       /\ \A id \in Ids : SegOf(fs, id).live => id \in writer.old
  /\ writer.stage \in {"publish", "retire"} =>
       \E id \in Ids :
         /\ SegOf(fs, id).live /\ SegOf(fs, id).bytes = <<>> /\ id \notin writer.old
         /\ \A j \in Ids : SegOf(fs, j).live => j = id \/ j \in writer.old

\* Every piece that a segment holds in either image was written after `n`.
PiecesAfter(f, n) ==
  \A id \in Ids :
    /\ \A k \in DOMAIN SegOf(f, id).bytes : SegOf(f, id).bytes[k].id.nth > n
    /\ \A k \in DOMAIN SegOf(f, id).diskBytes : SegOf(f, id).diskBytes[k].id.nth > n

\* A reset releases no more than was written.
Counts ==
  /\ writes \in Nat /\ covered \in Nat /\ released \in Nat
  /\ released <= covered /\ covered <= writes

\* The files of the log are sound, and nothing in them is older than the last
\* completed reset.  It holds under every fault.
LogInv == FsOK(fs) /\ BootOK /\ WriterOK /\ Counts /\ PiecesAfter(fs, released)

-----------------------------------------------------------------------------
\* Segment ids are the numbers from 1 to MaxSegments.
LEMMA IdsAre == /\ Ids \subseteq Nat \ {0} /\ 1 \in Ids /\ MaxSegments \in Nat \ {0}
                /\ \A id \in Nat \ {0} : id <= MaxSegments => id \in Ids
                /\ \A id \in Ids : id < MaxSegments => id + 1 \in Ids
                /\ \A id \in Ids : id <= MaxSegments
  BY WalAssumption DEF Ids

\* The next id is beyond all of the others.
LEMMA NextIdFacts ==
  ASSUME NEW ids \in SUBSET Ids
  PROVE  NextId(ids) \in Nat \ {0} /\ \A id \in ids : id < NextId(ids)
<1> DEFINE T == {0} \cup ids
<1>1. T \in SUBSET Nat /\ 0 \in T /\ \A id \in T : id <= MaxSegments
  BY IdsAre
<1>2. Max(T) \in T /\ \A id \in T : id <= Max(T)
  BY <1>1, IdsAre, MaxOfNats
<1>3. NextId(ids) = Max(T) + 1
  BY DEF NextId
<1> HIDE DEF T
<1>4. Max(T) \in Nat
  BY <1>1, <1>2
<1>5. ids \subseteq T
  BY DEF T
<1> QED
  BY <1>1, <1>2, <1>3, <1>4, <1>5

\* A step that changes no segment moves no damaged tail.
LEMMA SameTails ==
  ASSUME NEW f, NEW g, \A id \in Ids : SegOf(g, id).bytes = SegOf(f, id).bytes
  PROVE  \A id \in Ids : BadTail(g, id) <=> BadTail(f, id)
  BY DEF BadTail

\* There is at most one scratch file.
LEMMA ScratchAlone ==
  ASSUME NEW f, NEW stage, ScratchOK(f, stage)
  PROVE  OneScratch(f)
<1>1. \A i \in Ids : ~View(f, Tmp(i)).disk
  BY DEF ScratchOK, ScratchOf
<1>2. ASSUME NEW i \in Ids, NEW j \in Ids, View(f, Tmp(i)).live, View(f, Tmp(j)).live
      PROVE  i = j
  BY <1>2, OneBadTail DEF ScratchOK, ScratchOf
<1> QED
  BY <1>1, <1>2 DEF OneScratch

\* While the log is open there is no scratch file.
LEMMA UpScratch ==
  ASSUME NEW f
  PROVE  ScratchOK(f, "up") <=>
           \A id \in Ids : ~ScratchOf(f, id).disk /\ ~ScratchOf(f, id).live
  BY DEF ScratchOK, Repairing

\* What an operation on the file of one segment does to the others.
LEMMA OthersKept ==
  ASSUME NEW f, NEW g, NEW a \in Ids,
         \A q \in Names : q # Path(a) => View(g, q) = View(f, q)
  PROVE  /\ \A id \in Ids : id # a => SegOf(g, id) = SegOf(f, id)
         /\ \A id \in Ids : ScratchOf(g, id) = ScratchOf(f, id)
  BY NameFacts DEF SegOf, ScratchOf

\* What touches a scratch file alone leaves the segments.
LEMMA SegmentsKept ==
  ASSUME NEW f, NEW g, NEW a \in Ids,
         \A q \in Names : q # Tmp(a) => View(g, q) = View(f, q)
  PROVE  /\ \A id \in Ids : SegOf(g, id) = SegOf(f, id)
         /\ \A id \in Ids : id # a => ScratchOf(g, id) = ScratchOf(f, id)
  BY NameFacts DEF SegOf, ScratchOf

\* An operation that leaves each piece where it was, or out.
LEMMA PiecesStayAfter ==
  ASSUME NEW f, NEW g, NEW n, PiecesAfter(f, n),
         \A id \in Ids :
           /\ \/ SegOf(g, id).bytes = SegOf(f, id).bytes
              \/ SegOf(g, id).bytes = <<>>
           /\ \/ SegOf(g, id).diskBytes = SegOf(f, id).diskBytes
              \/ SegOf(g, id).diskBytes = SegOf(f, id).bytes
              \/ SegOf(g, id).diskBytes = <<>>
  PROVE  PiecesAfter(g, n)
<1>1. DOMAIN <<>> = {}
  OBVIOUS
<1> QED
  BY <1>1 DEF PiecesAfter

-----------------------------------------------------------------------------
\* The writer record has its fields.
LEMMA WriterRecord ==
  ASSUME GroupInv
  PROVE  writer = [owner |-> writer.owner, stage |-> writer.stage, todo |-> writer.todo,
                   old |-> writer.old, active |-> writer.active, offset |-> writer.offset]
  BY DEF GroupInv, GroupTypes

\* A writer that owns nothing has no stage to say anything about.
LEMMA IdleWriter ==
  ASSUME NEW id \in Ids, NEW n \in Nat, writer' = WriterOf(id, n)
  PROVE  WriterOK'
<1>1. /\ writer'.active = id /\ writer'.old = {} /\ writer'.offset = n
      /\ writer'.stage = "none" /\ writer'.todo = <<>>
  BY DEF WriterOf
<1> QED
  BY <1>1 DEF WriterOK, Stages

\* Nothing happens to the files.
LEMMA DiskUntouched ==
  ASSUME LogInv, UNCHANGED <<fs, boot, writes, released>>, WriterOK',
         covered' \in {covered, writes},
         boot = "up" \/ UNCHANGED <<writer, pc>>
  PROVE  LogInv'
<1>1. FsOK(fs)' /\ PiecesAfter(fs, released)'
  BY DEF LogInv
<1>2. BootOK'
  BY DEF LogInv, BootOK
<1>3. Counts'
  BY DEF LogInv, Counts
<1> QED
  BY <1>1, <1>2, <1>3 DEF LogInv

\* Steps of a caller outside the writer mutex leave the files alone.
LEMMA CallerSteps ==
  ASSUME LogInv, NEW t \in Threads,
         \/ Call(t) \/ Covered(t) \/ Park(t) \/ Lead(t) \/ CommitOk(t) \/ CommitErr(t)
  PROVE  LogInv'
<1>1. UNCHANGED <<fs, boot, writer, writes, covered, released>>
  BY DEF Call, Covered, Park, Lead, CommitOk, CommitErr, boundVars, ghostVars
<1>2. boot = "up"
  BY DEF Call, Covered, Park, Lead, CommitOk, CommitErr, LogInv, BootOK
<1>3. WriterOK'
  BY <1>1 DEF LogInv, WriterOK
<1> QED
  BY <1>1, <1>2, <1>3, DiskUntouched

\* So does a spurious wake-up.
LEMMA WakeStep ==
  ASSUME LogInv, NEW t \in Threads, SpuriousWake(t)
  PROVE  LogInv'
<1>1. UNCHANGED <<fs, boot, writer, pc, writes, covered, released>>
  BY DEF SpuriousWake, callVars, ghostVars
<1>2. WriterOK'
  BY <1>1 DEF LogInv, WriterOK
<1> QED
  BY <1>1, <1>2, DiskUntouched

\* Locking the writer keeps LogInv.
LEMMA LockStepLog ==
  ASSUME LogInv, GroupInv, NEW t \in Threads, LockWriter(t)
  PROVE  LogInv'
<1>1. UNCHANGED <<fs, boot, writes, covered, released>>
  BY DEF LockWriter, ghostVars
<1>2. boot = "up"
  BY DEF LockWriter, LogInv, BootOK
<1>3. writer' = [writer EXCEPT !.owner = t, !.todo = batch[t], !.stage = AfterFrames(batch[t])]
  BY DEF LockWriter
<1>4. AfterFrames(batch[t]) \in {"append", "roll", "sync"}
  BY DEF AfterFrames
<1>5. /\ writer'.active = writer.active /\ writer'.old = writer.old
      /\ writer'.offset = writer.offset /\ writer'.stage \in {"append", "roll", "sync"}
      /\ writer'.todo = batch[t] /\ batch[t] \in Seq(Frame)
      /\ writer'.stage = "append" => batch[t] # <<>>
  BY <1>3, <1>4, WriterRecord DEF AfterFrames, GroupInv, GroupTypes
<1>6. WriterOK'
  BY <1>5 DEF LogInv, WriterOK, Stages
<1> QED
  BY <1>1, <1>2, <1>6, DiskUntouched

\* So does unlocking it, after a commit or an error.
LEMMA ReleaseLog ==
  ASSUME LogInv, NEW t \in Threads, NoRoll(t) \/ OpFails(t)
  PROVE  LogInv'
<1>1. UNCHANGED <<fs, boot, writes, covered, released>> /\ boot = "up"
  BY DEF NoRoll, OpFails, Owns, ghostVars
<1>2. writer' = WriterOf(writer.active, writer.offset)
  BY DEF NoRoll, OpFails, Fail
<1>3. WriterOK'
  BY <1>2, IdleWriter DEF LogInv, WriterOK
<1> QED
  BY <1>1, <1>3, DiskUntouched

\* reset() starts with the segments there are as its old ones.
LEMMA StartResetLog ==
  ASSUME LogInv, GroupInv, NEW t \in Threads, StartReset(t)
  PROVE  LogInv'
<1>1. UNCHANGED <<fs, boot, writes, released>> /\ boot = "up" /\ covered' = writes
  BY DEF StartReset
<1>2. writer' = [writer EXCEPT !.owner = t, !.stage = "fresh", !.old = Segments(fs)]
  BY DEF StartReset
<1>3. /\ writer'.active = writer.active /\ writer'.old = Segments(fs)
      /\ writer'.offset = writer.offset /\ writer'.stage = "fresh"
      /\ writer'.todo = writer.todo
  BY <1>2, WriterRecord
<1>4. Segments(fs) = {id \in Ids : SegOf(fs, id).live} /\ NextId(Segments(fs)) <= MaxSegments
  BY SegmentFacts DEF StartReset, LogInv, FsOK
<1>5. WriterOK'
  BY <1>1, <1>3, <1>4 DEF LogInv, WriterOK, Stages
<1> QED
  BY <1>1, <1>5, DiskUntouched

-----------------------------------------------------------------------------
\* A step of the open log that changes files.
LEMMA OpenStep ==
  ASSUME LogInv, boot = "up", boot' = "up", FsOK(fs'), WriterOK', Counts',
         PiecesAfter(fs', released'),
         \A id \in Ids : ~ScratchOf(fs', id).disk /\ ~ScratchOf(fs', id).live
  PROVE  LogInv'
<1>1. ScratchOK(fs', boot')
  BY UpScratch
<1>2. BootOK'
  BY <1>1 DEF BootOK, Boots
<1> QED
  BY <1>2 DEF LogInv

\* An open log has no scratch file, on the disk or in memory.
LEMMA NoScratch ==
  ASSUME LogInv, boot = "up"
  PROVE  \A id \in Ids : ~ScratchOf(fs, id).disk /\ ~ScratchOf(fs, id).live
  BY UpScratch DEF LogInv, BootOK

\* A file exists in the file system when its view does.
LEMMA ExistsIs ==
  ASSUME NEW f, NEW id \in Ids
  PROVE  Fs!Exists(f, Path(id)) <=> (SegOf(f, id).live /\ f.live[Path(id)] # 0)
  BY DEF Fs!Exists, SegOf, View

\* Pieces put behind the active segment.
LEMMA AppendLog ==
  ASSUME LogInv, boot = "up", NEW s \in Seq(Piece), Fs!Exists(fs, Active),
         \A k \in DOMAIN s : s[k].id.nth > released
  PROVE  LET g == Fs!AppendTo(fs, Active, s) IN
         /\ FsOK(g) /\ PiecesAfter(g, released)
         /\ \A id \in Ids : ~ScratchOf(g, id).disk /\ ~ScratchOf(g, id).live
<1> DEFINE a == writer.active
           g == Fs!AppendTo(fs, Active, s)
           old == SegOf(fs, a).bytes
<1>1. a \in Ids /\ FsOK(fs) /\ FsType(fs) /\ Path(a) \in Names /\ Active = Path(a)
      /\ fs.live[Path(a)] # 0
  BY NameFacts DEF LogInv, WriterOK, FsOK, Active, Fs!Exists
<1>2. /\ FsOK(g) /\ SegOf(g, a).bytes = old \o s
      /\ SegOf(g, a).diskBytes = old \o s \/ SegOf(g, a).diskBytes = SegOf(fs, a).diskBytes
      /\ \A q \in Names : q # Path(a) => View(g, q) = View(fs, q)
  <2>1. SegOf(fs, a) = View(fs, Active) /\ SegOf(g, a) = View(g, Active)
    BY <1>1 DEF SegOf
  <2>2. FsOK(fs) /\ Active \in Names /\ fs.live[Active] # 0
    BY <1>1
  <2>3. /\ FsOK(g) /\ View(g, Active).bytes = View(fs, Active).bytes \o s
        /\ View(g, Active).diskBytes = IF View(fs, Active).same THEN View(fs, Active).bytes \o s
                                      ELSE View(fs, Active).diskBytes
        /\ \A q \in Names : q # Active => View(g, q) = View(fs, q)
    BY <2>2, AppendFacts
  <2> HIDE DEF g, a
  <2> QED
    BY <1>1, <2>1, <2>3
<1>3. old \in Seq(Piece)
  BY <1>1, SegmentFacts
<1> HIDE DEF g, old
<1>4. /\ \A id \in Ids : id # a => SegOf(g, id) = SegOf(fs, id)
      /\ \A id \in Ids : ScratchOf(g, id) = ScratchOf(fs, id)
  <2> HIDE DEF a
  <2> QED
    BY <1>1, <1>2, OthersKept
<1>5. \A k \in DOMAIN (old \o s) : (old \o s)[k].id.nth > released
  <2>1. \A k \in DOMAIN old : old[k].id.nth > released
    BY <1>1 DEF LogInv, PiecesAfter, old
  <2>2. /\ old \o s \in Seq(Piece) /\ Len(old \o s) = Len(old) + Len(s)
        /\ \A k \in 1 .. Len(old) : (old \o s)[k] = old[k]
        /\ \A k \in 1 .. Len(old \o s) : k > Len(old) =>
             k - Len(old) \in 1 .. Len(s) /\ (old \o s)[k] = s[k - Len(old)]
    BY <1>3, ConcatType, ConcatIndex
  <2>3. /\ DOMAIN old = 1 .. Len(old) /\ DOMAIN s = 1 .. Len(s)
        /\ DOMAIN (old \o s) = 1 .. Len(old \o s) /\ Len(old) \in Nat
    BY <1>3, <2>2
  <2> DEFINE c == old \o s
  <2> HIDE DEF c
  <2>4. /\ Len(c) = Len(old) + Len(s) /\ \A k \in 1 .. Len(old) : c[k] = old[k]
        /\ \A k \in 1 .. Len(c) : k > Len(old) =>
             k - Len(old) \in 1 .. Len(s) /\ c[k] = s[k - Len(old)]
        /\ DOMAIN c = 1 .. Len(c)
    BY <2>2, <2>3 DEF c
  <2>5. ASSUME NEW k \in 1 .. Len(c) PROVE c[k].id.nth > released
    <3>1. CASE k <= Len(old)
      <4>1. k \in 1 .. Len(old)
        BY <3>1
      <4> QED
        BY <2>1, <2>3, <2>4, <4>1
    <3>2. CASE k > Len(old)
      BY <2>3, <2>4, <3>2
    <3> QED
      BY <2>3, <3>1, <3>2
  <2> QED
    BY <2>4, <2>5 DEF c
<1>6. PiecesAfter(g, released)
  BY <1>2, <1>4, <1>5 DEF LogInv, PiecesAfter
<1>7. \A id \in Ids : ~ScratchOf(g, id).disk /\ ~ScratchOf(g, id).live
  BY <1>4, NoScratch
<1> QED
  BY <1>2, <1>6, <1>7 DEF g

\* The piece that an append writes.
LEMMA PieceType ==
  ASSUME NEW fr \in Nat, NEW n \in Nat, NEW state \in {"whole", "torn"}
  PROVE  /\ <<[id |-> [frame |-> fr, nth |-> n], state |-> state]>> \in Seq(Piece)
         /\ \A k \in DOMAIN <<[id |-> [frame |-> fr, nth |-> n], state |-> state]>> :
              <<[id |-> [frame |-> fr, nth |-> n], state |-> state]>>[k].id.nth = n
<1> DEFINE p == [id |-> [frame |-> fr, nth |-> n], state |-> state]
<1>1. p \in Piece /\ p.id.nth = n
  BY DEF Piece, PieceId
<1> HIDE DEF p
<1>2. <<p>> \in Seq(Piece) /\ \A k \in DOMAIN <<p>> : <<p>>[k] = p
  BY <1>1
<1>3. \A k \in DOMAIN <<p>> : <<p>>[k].id.nth = n
  BY <1>1, <1>2
<1> QED
  BY <1>2, <1>3 DEF p

-----------------------------------------------------------------------------
\* The storage operations on a segment, as the segments' views see them.
Elsewhere(f, g, a) ==
  /\ \A id \in Ids : id # a => SegOf(g, id) = SegOf(f, id)
  /\ \A id \in Ids : ScratchOf(g, id) = ScratchOf(f, id)

\* g is f with s put behind segment a.
Appended(f, g, a, s) ==
  /\ FsOK(g) /\ Elsewhere(f, g, a)
  /\ SegOf(g, a).live /\ SegOf(g, a).same = SegOf(f, a).same
  /\ SegOf(g, a).disk = SegOf(f, a).disk
  /\ SegOf(g, a).bytes = SegOf(f, a).bytes \o s
  /\ SegOf(g, a).synced = SegOf(f, a).synced
  /\ SegOf(g, a).diskBytes = IF SegOf(f, a).same THEN SegOf(f, a).bytes \o s
                             ELSE SegOf(f, a).diskBytes
  /\ SegOf(g, a).diskSynced = SegOf(f, a).diskSynced

\* An append adds to the end of one segment, in memory only.
LEMMA SegAppend ==
  ASSUME NEW f, FsOK(f), NEW a \in Ids, SegOf(f, a).live, NEW s \in Seq(Piece)
  PROVE  Appended(f, Fs!AppendTo(f, Path(a), s), a, s)
<1> DEFINE g == Fs!AppendTo(f, Path(a), s)
           p == Path(a)
<1>1. p \in Names /\ f.live[p] # 0 /\ SegOf(f, a) = View(f, p) /\ SegOf(g, a) = View(g, p)
  BY NameFacts DEF SegOf, View
<1> HIDE DEF g
<1>2. /\ FsOK(g)
      /\ View(g, p).live /\ View(g, p).same = View(f, p).same
      /\ View(g, p).disk = View(f, p).disk
      /\ View(g, p).bytes = View(f, p).bytes \o s
      /\ View(g, p).synced = View(f, p).synced
      /\ View(g, p).diskBytes = IF View(f, p).same THEN View(f, p).bytes \o s
                                ELSE View(f, p).diskBytes
      /\ View(g, p).diskSynced = View(f, p).diskSynced
      /\ \A q \in Names : q # p => View(g, q) = View(f, q)
  BY <1>1, AppendFacts DEF g
<1>3. Elsewhere(f, g, a)
  BY <1>2, OthersKept DEF Elsewhere
<1> QED
  BY <1>1, <1>2, <1>3 DEF g, Appended

\* A barrier makes one segment's bytes durable, and its name no more than it was.
LEMMA SegSync ==
  ASSUME NEW f, FsOK(f), NEW a \in Ids, SegOf(f, a).live
  PROVE  LET g == Fs!SyncFile(f, Path(a)) IN
         /\ FsOK(g) /\ Elsewhere(f, g, a)
         /\ SegOf(g, a).live /\ SegOf(g, a).same = SegOf(f, a).same
         /\ SegOf(g, a).disk = SegOf(f, a).disk
         /\ SegOf(g, a).bytes = SegOf(f, a).bytes
         /\ SegOf(g, a).synced = SegOf(f, a).bytes
         /\ SegOf(g, a).diskBytes = SegOf(f, a).diskBytes
         /\ SegOf(g, a).diskSynced = IF SegOf(f, a).same THEN SegOf(f, a).bytes
                                     ELSE SegOf(f, a).diskSynced
<1> DEFINE g == Fs!SyncFile(f, Path(a))
           p == Path(a)
<1>1. p \in Names /\ f.live[p] # 0 /\ SegOf(f, a) = View(f, p) /\ SegOf(g, a) = View(g, p)
  BY NameFacts DEF SegOf, View
<1> HIDE DEF g
<1>2. /\ FsOK(g)
      /\ View(g, p).live /\ View(g, p).same = View(f, p).same
      /\ View(g, p).disk = View(f, p).disk
      /\ View(g, p).bytes = View(f, p).bytes
      /\ View(g, p).synced = View(f, p).bytes
      /\ View(g, p).diskBytes = View(f, p).diskBytes
      /\ View(g, p).diskSynced = IF View(f, p).same THEN View(f, p).bytes
                                 ELSE View(f, p).diskSynced
      /\ \A q \in Names : q # p => View(g, q) = View(f, q)
  BY <1>1, SyncFileFacts DEF g
<1>3. Elsewhere(f, g, a)
  BY <1>2, OthersKept DEF Elsewhere
<1> QED
  BY <1>1, <1>2, <1>3 DEF g

\* A create adds an empty segment whose name is not durable yet.
LEMMA SegCreate ==
  ASSUME NEW f, FsOK(f), OneScratch(f), NEW a \in Ids, ~SegOf(f, a).live
  PROVE  LET g == Fs!Create(f, Path(a)) IN
         /\ FsOK(g) /\ Elsewhere(f, g, a)
         /\ SegOf(g, a).live /\ ~SegOf(g, a).same
         /\ SegOf(g, a).bytes = <<>> /\ SegOf(g, a).synced = <<>>
         /\ SegOf(g, a).disk = SegOf(f, a).disk
         /\ SegOf(g, a).diskBytes = SegOf(f, a).diskBytes
         /\ SegOf(g, a).diskSynced = SegOf(f, a).diskSynced
<1> DEFINE g == Fs!Create(f, Path(a))
           p == Path(a)
<1>1. p \in Names /\ f.live[p] = 0 /\ SegOf(f, a) = View(f, p) /\ SegOf(g, a) = View(g, p)
  BY NameFacts DEF SegOf, View
<1> HIDE DEF g
<1>2. /\ FsOK(g)
      /\ View(g, p).live /\ ~View(g, p).same
      /\ View(g, p).bytes = <<>> /\ View(g, p).synced = <<>>
      /\ View(g, p).disk = View(f, p).disk
      /\ View(g, p).diskBytes = View(f, p).diskBytes
      /\ View(g, p).diskSynced = View(f, p).diskSynced
      /\ \A q \in Names : q # p => View(g, q) = View(f, q)
  BY <1>1, CreateFacts DEF g
<1>3. Elsewhere(f, g, a)
  BY <1>2, OthersKept DEF Elsewhere
<1> QED
  BY <1>1, <1>2, <1>3 DEF g

\* A delete removes a segment from memory and leaves the disk.
LEMMA SegDelete ==
  ASSUME NEW f, FsOK(f), NEW a \in Ids
  PROVE  LET g == Fs!Delete(f, Path(a)) IN
         /\ FsOK(g) /\ Elsewhere(f, g, a)
         /\ ~SegOf(g, a).live /\ SegOf(g, a).bytes = <<>> /\ SegOf(g, a).synced = <<>>
         /\ SegOf(g, a).disk = SegOf(f, a).disk
         /\ SegOf(g, a).diskBytes = SegOf(f, a).diskBytes
         /\ SegOf(g, a).diskSynced = SegOf(f, a).diskSynced
<1> DEFINE g == Fs!Delete(f, Path(a))
           p == Path(a)
<1>1. p \in Names /\ SegOf(f, a) = View(f, p) /\ SegOf(g, a) = View(g, p)
  BY NameFacts DEF SegOf
<1> HIDE DEF g
<1>2. /\ FsOK(g)
      /\ ~View(g, p).live /\ View(g, p).bytes = <<>> /\ View(g, p).synced = <<>>
      /\ View(g, p).disk = View(f, p).disk
      /\ View(g, p).diskBytes = View(f, p).diskBytes
      /\ View(g, p).diskSynced = View(f, p).diskSynced
      /\ \A q \in Names : q # p => View(g, q) = View(f, q)
  BY <1>1, DeleteFacts DEF g
<1>3. Elsewhere(f, g, a)
  BY <1>2, OthersKept DEF Elsewhere
<1> QED
  BY <1>1, <1>2, <1>3 DEF g

\* A directory sync makes the names there are those of the disk.
LEMMA SegSyncDir ==
  ASSUME NEW f, FsOK(f)
  PROVE  LET g == Fs!SyncDir(f) IN
         /\ FsOK(g)
         /\ \A id \in Ids :
              /\ SegOf(g, id).live = SegOf(f, id).live /\ SegOf(g, id).disk = SegOf(f, id).live
              /\ SegOf(g, id).same
              /\ SegOf(g, id).bytes = SegOf(f, id).bytes
              /\ SegOf(g, id).diskBytes = SegOf(f, id).bytes
              /\ SegOf(g, id).synced = SegOf(f, id).synced
              /\ SegOf(g, id).diskSynced = SegOf(f, id).synced
              /\ ScratchOf(g, id).live = ScratchOf(f, id).live
              /\ ScratchOf(g, id).disk = ScratchOf(f, id).live
  BY SyncDirFacts, NameFacts DEF SegOf, ScratchOf

-----------------------------------------------------------------------------
\* The writer record after a step that keeps the mutex.
LEMMA KeptWriter ==
  ASSUME GroupInv, NEW stage, writer' = [writer EXCEPT !.stage = stage]
  PROVE  /\ writer'.stage = stage /\ writer'.active = writer.active /\ writer'.old = writer.old
         /\ writer'.offset = writer.offset /\ writer'.todo = writer.todo
  BY WriterRecord

\* The bytes of a live segment are those of its inode.
LEMMA LiveSegment ==
  ASSUME NEW id \in Ids
  PROVE  Fs!Exists(fs, Path(id)) <=> SegOf(fs, id).live
  BY ExistsIs DEF SegOf, View, Fs!Exists

\* An open log: its file system is sound, without scratch files.
LEMMA UpFacts ==
  ASSUME LogInv, boot = "up"
  PROVE  /\ FsOK(fs) /\ FsType(fs) /\ OneScratch(fs)
         /\ \A id \in Ids : ~ScratchOf(fs, id).disk /\ ~ScratchOf(fs, id).live
         /\ writer.active \in Ids /\ Active = Path(writer.active)
  BY NoScratch, ScratchAlone DEF LogInv, BootOK, FsOK, WriterOK, Active

\* The barrier and the seal of a full segment keep LogInv.
LEMMA SyncLog ==
  ASSUME LogInv, GroupInv, NEW t \in Threads, SyncSegment(t) \/ Seal(t)
  PROVE  LogInv'
<1> DEFINE a == writer.active
<1>1. /\ boot = "up" /\ boot' = "up" /\ UNCHANGED <<writes, covered, released>>
      /\ fs' = Fs!SyncFile(fs, Path(a)) /\ SegOf(fs, a).live
      /\ \/ writer' = [writer EXCEPT !.stage = "roll"]
         \/ writer' = [writer EXCEPT !.stage = "create"] /\ a < MaxSegments
  BY LiveSegment DEF SyncSegment, Seal, Owns, Active, ghostVars, LogInv, WriterOK
<1>2. FsOK(fs) /\ a \in Ids /\ \A id \in Ids : ~ScratchOf(fs, id).disk /\ ~ScratchOf(fs, id).live
  BY <1>1, UpFacts
<1>3. /\ FsOK(fs') /\ Elsewhere(fs, fs', a)
      /\ SegOf(fs', a).bytes = SegOf(fs, a).bytes
      /\ SegOf(fs', a).diskBytes = SegOf(fs, a).diskBytes
  BY <1>1, <1>2, SegSync
<1>4. PiecesAfter(fs', released')
  BY <1>1, <1>3, PiecesStayAfter DEF LogInv, Elsewhere
<1>5. \A id \in Ids : ~ScratchOf(fs', id).disk /\ ~ScratchOf(fs', id).live
  BY <1>2, <1>3 DEF Elsewhere
<1>6. WriterOK'
  <2>1. /\ writer'.stage \in {"roll", "create"} /\ (writer'.stage = "create" => a < MaxSegments)
        /\ writer'.active = a /\ writer'.old = writer.old
        /\ writer'.offset = writer.offset /\ writer'.todo = writer.todo
    BY <1>1, KeptWriter
  <2> QED
    BY <2>1 DEF LogInv, WriterOK, Stages
<1> QED
  BY <1>1, <1>3, <1>4, <1>5, <1>6, OpenStep DEF LogInv, Counts

\* The create of the next segment keeps LogInv.
LEMMA CreateNextLog ==
  ASSUME LogInv, GroupInv, NEW t \in Threads, CreateNext(t)
  PROVE  LogInv'
<1> DEFINE a == writer.active + 1
<1>1. /\ boot = "up" /\ boot' = "up" /\ UNCHANGED <<writes, covered, released>>
      /\ fs' = Fs!Create(fs, Path(a)) /\ ~Fs!Exists(fs, Path(a)) /\ writer.stage = "create"
      /\ writer' = [writer EXCEPT !.stage = "dirsync"]
  BY DEF CreateNext, Owns, ghostVars
<1>2. /\ FsOK(fs) /\ OneScratch(fs) /\ writer.active < MaxSegments
      /\ \A id \in Ids : ~ScratchOf(fs, id).disk /\ ~ScratchOf(fs, id).live
  BY <1>1, UpFacts DEF LogInv, WriterOK
<1>3. a \in Ids
  BY <1>2, IdsAre DEF LogInv, WriterOK
<1> HIDE DEF a
<1>4. ~SegOf(fs, a).live
  BY <1>1, <1>3, LiveSegment
<1>5. /\ FsOK(fs') /\ Elsewhere(fs, fs', a) /\ SegOf(fs', a).bytes = <<>>
      /\ SegOf(fs', a).diskBytes = SegOf(fs, a).diskBytes
  BY <1>1, <1>2, <1>3, <1>4, SegCreate
<1>6. PiecesAfter(fs', released')
  BY <1>1, <1>5, PiecesStayAfter DEF LogInv, Elsewhere
<1>7. \A id \in Ids : ~ScratchOf(fs', id).disk /\ ~ScratchOf(fs', id).live
  BY <1>2, <1>5 DEF Elsewhere
<1>8. WriterOK'
  BY <1>1, <1>2, KeptWriter DEF LogInv, WriterOK, Stages
<1> QED
  BY <1>1, <1>5, <1>6, <1>7, <1>8, OpenStep DEF LogInv, Counts

\* The switch to the next segment keeps LogInv.
LEMMA SwitchLog ==
  ASSUME LogInv, GroupInv, NEW t \in Threads, SwitchSegment(t)
  PROVE  LogInv'
<1>1. /\ boot = "up" /\ boot' = "up" /\ UNCHANGED <<writes, covered, released>>
      /\ fs' = Fs!SyncDir(fs) /\ writer.stage = "dirsync"
      /\ writer' = WriterOf(writer.active + 1, 0)
  BY DEF SwitchSegment, Owns, ghostVars
<1>2. /\ FsOK(fs) /\ writer.active + 1 \in Ids
      /\ \A id \in Ids : ~ScratchOf(fs, id).disk /\ ~ScratchOf(fs, id).live
  BY <1>1, UpFacts, IdsAre DEF LogInv, WriterOK
<1>3. /\ FsOK(fs')
      /\ \A id \in Ids : /\ SegOf(fs', id).bytes = SegOf(fs, id).bytes
                         /\ SegOf(fs', id).diskBytes = SegOf(fs, id).bytes
                         /\ ~ScratchOf(fs', id).disk /\ ~ScratchOf(fs', id).live
  BY <1>1, <1>2, SegSyncDir
<1>4. PiecesAfter(fs', released')
  BY <1>1, <1>3, PiecesStayAfter DEF LogInv
<1>5. WriterOK'
  BY <1>1, <1>2, IdleWriter
<1> QED
  BY <1>1, <1>3, <1>4, <1>5, OpenStep DEF LogInv, Counts

-----------------------------------------------------------------------------
\* The frame about to be written.
LEMMA HeadFrame ==
  ASSUME LogInv, writer.stage = "append"
  PROVE  /\ writer.todo \in Seq(Frame) /\ writer.todo # <<>>
         /\ Head(writer.todo) \in Frame /\ Head(writer.todo).frame \in Nat
         /\ Tail(writer.todo) \in Seq(Frame)
<1>1. writer.todo \in Seq(Frame) /\ writer.todo # <<>>
  BY DEF LogInv, WriterOK
<1>2. Head(writer.todo) \in Frame /\ Tail(writer.todo) \in Seq(Frame)
  BY <1>1
<1> QED
  BY <1>1, <1>2 DEF Frame

\* An appended frame is newer than every released one.
LEMMA WriteFrameLog ==
  ASSUME LogInv, GroupInv, NEW t \in Threads, WriteFrame(t)
  PROVE  LogInv'
<1> DEFINE piece == [frame |-> Head(writer.todo).frame, nth |-> writes + 1]
           s == <<[id |-> piece, state |-> "whole"]>>
           fr == Head(writer.todo).frame
           n == writes + 1
           rest == Tail(writer.todo)
<1>1. /\ boot = "up" /\ boot' = "up" /\ UNCHANGED <<covered, released>> /\ writes' = writes + 1
      /\ Fs!Exists(fs, Active) /\ fs' = Fs!AppendTo(fs, Active, s) /\ writer.stage = "append"
      /\ writer' = [writer EXCEPT !.todo = rest, !.offset = @ + 1, !.stage = AfterFrames(rest)]
  BY DEF WriteFrame, Owns, Fs!Whole
<1>2. /\ writes \in Nat /\ released \in Nat /\ covered \in Nat
      /\ released <= covered /\ covered <= writes
  BY DEF LogInv, Counts
<1>3. s \in Seq(Piece) /\ \A k \in DOMAIN s : s[k].id.nth > released
  <2>1. fr \in Nat /\ n \in Nat /\ n > released
    BY <1>1, <1>2, HeadFrame
  <2> HIDE DEF fr, n
  <2>2. /\ <<[id |-> [frame |-> fr, nth |-> n], state |-> "whole"]>> \in Seq(Piece)
        /\ \A k \in DOMAIN <<[id |-> [frame |-> fr, nth |-> n], state |-> "whole"]>> :
             <<[id |-> [frame |-> fr, nth |-> n], state |-> "whole"]>>[k].id.nth = n
    BY <2>1, PieceType
  <2>3. s = <<[id |-> [frame |-> fr, nth |-> n], state |-> "whole"]>>
    BY DEF fr, n
  <2> HIDE DEF s
  <2> QED
    BY <2>1, <2>2, <2>3
<1> HIDE DEF s
<1>4. /\ FsOK(fs') /\ PiecesAfter(fs', released')
      /\ \A id \in Ids : ~ScratchOf(fs', id).disk /\ ~ScratchOf(fs', id).live
  BY <1>1, <1>3, AppendLog
<1>5. rest \in Seq(Frame)
  BY <1>1, HeadFrame
<1> HIDE DEF rest
<1>6. /\ writer'.active = writer.active /\ writer'.old = writer.old
      /\ writer'.offset = writer.offset + 1 /\ writer'.todo = rest
      /\ writer'.stage = AfterFrames(rest)
  BY <1>1, WriterRecord
<1>7. AfterFrames(rest) \in {"append", "roll", "sync"} /\ (AfterFrames(rest) = "append" => rest # <<>>)
  BY DEF AfterFrames
<1>8. WriterOK'
  BY <1>5, <1>6, <1>7 DEF LogInv, WriterOK, Stages
<1>9. Counts'
  BY <1>1, <1>2 DEF Counts
<1> QED
  BY <1>1, <1>4, <1>8, <1>9, OpenStep

\* So is one that is written in part.
LEMMA ShortWriteLog ==
  ASSUME LogInv, GroupInv, NEW t \in Threads, ShortWrite(t)
  PROVE  LogInv'
<1> DEFINE piece == [frame |-> Head(writer.todo).frame, nth |-> writes + 1]
           s == <<[id |-> piece, state |-> "torn"]>>
           fr == Head(writer.todo).frame
           n == writes + 1
<1>1. /\ boot = "up" /\ boot' = "up" /\ UNCHANGED <<writes, covered, released>>
      /\ Fs!Exists(fs, Active) /\ fs' = Fs!AppendTo(fs, Active, s) /\ writer.stage = "append"
      /\ writer' = WriterOf(writer.active, writer.offset)
  BY DEF ShortWrite, Owns, ghostVars, Fail
<1>2. /\ writes \in Nat /\ released \in Nat /\ covered \in Nat
      /\ released <= covered /\ covered <= writes
  BY DEF LogInv, Counts
<1>3. s \in Seq(Piece) /\ \A k \in DOMAIN s : s[k].id.nth > released
  <2>1. fr \in Nat /\ n \in Nat /\ n > released
    BY <1>1, <1>2, HeadFrame
  <2> HIDE DEF fr, n
  <2>2. /\ <<[id |-> [frame |-> fr, nth |-> n], state |-> "torn"]>> \in Seq(Piece)
        /\ \A k \in DOMAIN <<[id |-> [frame |-> fr, nth |-> n], state |-> "torn"]>> :
             <<[id |-> [frame |-> fr, nth |-> n], state |-> "torn"]>>[k].id.nth = n
    BY <2>1, PieceType
  <2>3. s = <<[id |-> [frame |-> fr, nth |-> n], state |-> "torn"]>>
    BY DEF fr, n
  <2> HIDE DEF s
  <2> QED
    BY <2>1, <2>2, <2>3
<1> HIDE DEF s
<1>4. /\ FsOK(fs') /\ PiecesAfter(fs', released')
      /\ \A id \in Ids : ~ScratchOf(fs', id).disk /\ ~ScratchOf(fs', id).live
  BY <1>1, <1>3, AppendLog
<1>5. WriterOK'
  BY <1>1, IdleWriter DEF LogInv, WriterOK
<1> QED
  BY <1>1, <1>4, <1>5, OpenStep DEF LogInv, Counts

-----------------------------------------------------------------------------
\* reset(): the fresh segment is newer than the old ones.
LEMMA ResetCreateLog ==
  ASSUME LogInv, GroupInv, NEW t \in Threads, ResetCreate(t)
  PROVE  LogInv'
<1> DEFINE a == NextId(writer.old)
<1>1. /\ boot = "up" /\ boot' = "up" /\ UNCHANGED <<writes, covered, released>>
      /\ fs' = Fs!Create(fs, Path(a)) /\ writer.stage = "fresh"
      /\ writer' = [writer EXCEPT !.stage = "publish"]
  BY DEF ResetCreate, Owns, ghostVars
<1>2. /\ FsOK(fs) /\ OneScratch(fs) /\ writer.old \in SUBSET Ids /\ a <= MaxSegments
      /\ \A id \in Ids : SegOf(fs, id).live => id \in writer.old
      /\ \A id \in Ids : ~ScratchOf(fs, id).disk /\ ~ScratchOf(fs, id).live
  BY <1>1, UpFacts DEF LogInv, WriterOK
<1>3. a \in Ids /\ a \notin writer.old
  BY <1>2, IdsAre, NextIdFacts
<1> HIDE DEF a
<1>4. ~SegOf(fs, a).live
  BY <1>2, <1>3
<1>5. /\ FsOK(fs') /\ Elsewhere(fs, fs', a) /\ SegOf(fs', a).bytes = <<>>
      /\ SegOf(fs', a).diskBytes = SegOf(fs, a).diskBytes /\ SegOf(fs', a).live
  BY <1>1, <1>2, <1>3, <1>4, SegCreate
<1>6. PiecesAfter(fs', released')
  BY <1>1, <1>5, PiecesStayAfter DEF LogInv, Elsewhere
<1>7. \A id \in Ids : ~ScratchOf(fs', id).disk /\ ~ScratchOf(fs', id).live
  BY <1>2, <1>5 DEF Elsewhere
<1>8. \A j \in Ids : SegOf(fs', j).live => j = a \/ j \in writer.old
  BY <1>2, <1>5 DEF Elsewhere
<1>9. WriterOK'
  BY <1>1, <1>2, <1>3, <1>5, <1>8, KeptWriter DEF LogInv, WriterOK, Stages
<1> QED
  BY <1>1, <1>5, <1>6, <1>7, <1>9, OpenStep DEF LogInv, Counts

\* reset(): its name is made durable.
LEMMA ResetPublishLog ==
  ASSUME LogInv, GroupInv, NEW t \in Threads, ResetPublish(t)
  PROVE  LogInv'
<1>1. /\ boot = "up" /\ boot' = "up" /\ UNCHANGED <<writes, covered, released>>
      /\ fs' = Fs!SyncDir(fs) /\ writer.stage = "publish"
      /\ writer' = [writer EXCEPT !.stage = "retire"]
  BY DEF ResetPublish, Owns, ghostVars
<1>2. FsOK(fs) /\ \A id \in Ids : ~ScratchOf(fs, id).disk /\ ~ScratchOf(fs, id).live
  BY <1>1, UpFacts
<1>3. /\ FsOK(fs')
      /\ \A id \in Ids : /\ SegOf(fs', id).bytes = SegOf(fs, id).bytes
                         /\ SegOf(fs', id).live = SegOf(fs, id).live
                         /\ SegOf(fs', id).diskBytes = SegOf(fs, id).bytes
                         /\ ~ScratchOf(fs', id).disk /\ ~ScratchOf(fs', id).live
  BY <1>1, <1>2, SegSyncDir
<1>4. PiecesAfter(fs', released')
  BY <1>1, <1>3, PiecesStayAfter DEF LogInv
<1>5. PICK id \in Ids :
         /\ SegOf(fs, id).live /\ SegOf(fs, id).bytes = <<>> /\ id \notin writer.old
         /\ \A j \in Ids : SegOf(fs, j).live => j = id \/ j \in writer.old
  BY <1>1 DEF LogInv, WriterOK
<1>6. /\ SegOf(fs', id).live /\ SegOf(fs', id).bytes = <<>> /\ id \notin writer'.old
      /\ \A j \in Ids : SegOf(fs', j).live => j = id \/ j \in writer'.old
  BY <1>1, <1>3, <1>5, KeptWriter
<1>7. WriterOK'
  BY <1>1, <1>6, KeptWriter DEF LogInv, WriterOK, Stages
<1> QED
  BY <1>1, <1>3, <1>4, <1>7, OpenStep DEF LogInv, Counts

\* reset(): an old segment is deleted, and no other.
LEMMA ResetRetireLog ==
  ASSUME LogInv, GroupInv, NEW t \in Threads, ResetRetire(t)
  PROVE  LogInv'
<1> DEFINE a == Min(writer.old)
<1>1. /\ boot = "up" /\ boot' = "up" /\ UNCHANGED <<writes, covered, released>>
      /\ fs' = Fs!Delete(fs, Path(a)) /\ writer.stage = "retire" /\ writer.old # {}
      /\ writer' = [writer EXCEPT !.old = @ \ {a}]
  BY DEF ResetRetire, Owns, ghostVars
<1>2. /\ FsOK(fs) /\ writer.old \in SUBSET Ids /\ writer.old \in SUBSET Nat
      /\ \A id \in Ids : ~ScratchOf(fs, id).disk /\ ~ScratchOf(fs, id).live
  BY <1>1, UpFacts, IdsAre DEF LogInv, WriterOK
<1>3. a \in writer.old /\ a \in Ids
  BY <1>1, <1>2, MinOfNats
<1> HIDE DEF a
<1>4. /\ FsOK(fs') /\ Elsewhere(fs, fs', a) /\ SegOf(fs', a).bytes = <<>>
      /\ SegOf(fs', a).diskBytes = SegOf(fs, a).diskBytes /\ ~SegOf(fs', a).live
  BY <1>1, <1>2, <1>3, SegDelete
<1>5. PiecesAfter(fs', released')
  BY <1>1, <1>4, PiecesStayAfter DEF LogInv, Elsewhere
<1>6. \A id \in Ids : ~ScratchOf(fs', id).disk /\ ~ScratchOf(fs', id).live
  BY <1>2, <1>4 DEF Elsewhere
<1>7. PICK id \in Ids :
         /\ SegOf(fs, id).live /\ SegOf(fs, id).bytes = <<>> /\ id \notin writer.old
         /\ \A j \in Ids : SegOf(fs, j).live => j = id \/ j \in writer.old
  BY <1>1 DEF LogInv, WriterOK
<1>8. /\ writer'.active = writer.active /\ writer'.old = writer.old \ {a}
      /\ writer'.offset = writer.offset /\ writer'.stage = "retire" /\ writer'.todo = writer.todo
  BY <1>1, WriterRecord
<1>9. id # a /\ SegOf(fs', id) = SegOf(fs, id)
  BY <1>3, <1>4, <1>7 DEF Elsewhere
<1>10. /\ SegOf(fs', id).live /\ SegOf(fs', id).bytes = <<>> /\ id \notin writer'.old
       /\ \A j \in Ids : SegOf(fs', j).live => j = id \/ j \in writer'.old
  BY <1>4, <1>7, <1>8, <1>9 DEF Elsewhere
<1>11. WriterOK'
  BY <1>2, <1>8, <1>10 DEF LogInv, WriterOK, Stages
<1> QED
  BY <1>1, <1>4, <1>5, <1>6, <1>11, OpenStep DEF LogInv, Counts

\* At the end of a reset only the fresh segment is left, and it is empty.
LEMMA FreshAlone ==
  ASSUME LogInv, writer.stage = "retire", writer.old = {}
  PROVE  \E id \in Ids : /\ Segments(fs) = {id} /\ Max(Segments(fs)) = id
                         /\ \A j \in Ids : SegOf(fs, j).bytes = <<>>
<1>1. PICK id \in Ids :
         /\ SegOf(fs, id).live /\ SegOf(fs, id).bytes = <<>>
         /\ \A j \in Ids : SegOf(fs, j).live => j = id
  BY DEF LogInv, WriterOK
<1>2. /\ Segments(fs) = {j \in Ids : SegOf(fs, j).live}
      /\ \A j \in Ids : ~SegOf(fs, j).live => SegOf(fs, j).bytes = <<>>
  BY SegmentFacts DEF LogInv, FsOK
<1>3. Segments(fs) = {id}
  BY <1>1, <1>2
<1>4. Max({id}) = id
  <2>1. {id} \in SUBSET Nat /\ {id} # {} /\ id \in Nat /\ \A m \in {id} : m <= id
    BY IdsAre
  <2>2. Max({id}) \in {id}
    BY <2>1, MaxOfNats
  <2> QED
    BY <2>2
<1> QED
  BY <1>1, <1>2, <1>3, <1>4

\* reset(): once the deletions are durable no released piece is left anywhere.
LEMMA ResetDoneLog ==
  ASSUME LogInv, GroupInv, NEW t \in Threads, ResetDone(t)
  PROVE  LogInv'
<1>1. /\ boot = "up" /\ boot' = "up" /\ UNCHANGED <<writes, covered>> /\ released' = covered
      /\ fs' = Fs!SyncDir(fs) /\ writer.stage = "retire" /\ writer.old = {}
      /\ writer' = WriterOf(Max(Segments(fs)), 0)
  BY DEF ResetDone, Owns
<1>2. PICK a \in Ids : /\ Max(Segments(fs)) = a
                       /\ \A j \in Ids : SegOf(fs, j).bytes = <<>>
  BY <1>1, FreshAlone
<1>3. FsOK(fs) /\ \A id \in Ids : ~ScratchOf(fs, id).disk /\ ~ScratchOf(fs, id).live
  BY <1>1, UpFacts
<1>4. /\ FsOK(fs')
      /\ \A id \in Ids : /\ SegOf(fs', id).bytes = <<>> /\ SegOf(fs', id).diskBytes = <<>>
                         /\ ~ScratchOf(fs', id).disk /\ ~ScratchOf(fs', id).live
  BY <1>1, <1>2, <1>3, SegSyncDir
<1>5. PiecesAfter(fs', released')
  <2>1. DOMAIN <<>> = {}
    OBVIOUS
  <2> QED
    BY <1>4, <2>1 DEF PiecesAfter
<1>6. WriterOK'
  BY <1>1, <1>2, IdleWriter
<1>7. Counts'
  BY <1>1 DEF LogInv, Counts
<1> QED
  BY <1>1, <1>4, <1>5, <1>6, <1>7, OpenStep

-----------------------------------------------------------------------------
\* A step of Wal::open that leaves the writer to the last one.
LEMMA OpeningStep ==
  ASSUME LogInv, boot # "up", UNCHANGED <<writer, pc, writes, covered, released>>,
         FsOK(fs'), PiecesAfter(fs', released), ScratchOK(fs', boot'), boot' \in Boots
  PROVE  LogInv'
<1>1. writer = WriterOf(1, 0) /\ \A t \in Threads : pc[t] = "idle"
  BY DEF LogInv, BootOK
<1>2. BootOK'
  BY <1>1 DEF BootOK
<1>3. WriterOK'
  BY <1>1, IdsAre, IdleWriter
<1> QED
  BY <1>2, <1>3 DEF LogInv, Counts

\* Only a repair knows of a scratch file.
LEMMA IdleScratch ==
  ASSUME NEW f, NEW stage \in {"up", "dirsync", "activate", "mkdir"}
  PROVE  ScratchOK(f, stage) <=>
           \A id \in Ids : ~ScratchOf(f, id).disk /\ ~ScratchOf(f, id).live
  BY DEF ScratchOK, Repairing

\* Recovery's scan finds the segment to repair, if there is one.
LEMMA ScanLog ==
  ASSUME LogInv, Scan
  PROVE  LogInv'
<1>1. /\ boot = "scan" /\ UNCHANGED <<fs, writer, pc, writes, covered, released>>
      /\ boot' = IF Scanned(fs) # {} /\ Unclean(fs, TailId) THEN "drop" ELSE "activate"
  BY DEF Scan, BootTo, callVars, ghostVars
<1>2. FsOK(fs) /\ FsType(fs) /\ ScratchOK(fs, "scan") /\ PiecesAfter(fs, released)
  BY <1>1 DEF LogInv, BootOK, FsOK
<1>3. CASE Scanned(fs) # {} /\ Unclean(fs, TailId)
  <2>1. TailId \in Ids /\ BadTail(fs, TailId)
    BY <1>2, <1>3, TailFacts DEF TailId
  <2>2. ScratchOK(fs, "drop")
    BY <1>2, <2>1 DEF ScratchOK, Repairing
  <2> QED
    BY <1>1, <1>2, <1>3, <2>2, OpeningStep DEF Boots
<1>4. CASE ~(Scanned(fs) # {} /\ Unclean(fs, TailId))
  <2>1. \A id \in Ids : ~BadTail(fs, id)
    BY <1>2, <1>4, TailFacts DEF TailId
  <2>2. ScratchOK(fs, "activate")
    BY <1>2, <2>1 DEF ScratchOK, Repairing
  <2> QED
    BY <1>1, <1>2, <1>4, <2>2, OpeningStep DEF Boots
<1> QED
  BY <1>3, <1>4

\* What the stages of a repair have in common.
LEMMA RepairFacts ==
  ASSUME LogInv, boot \in Repairing
  PROVE  \E a \in Ids :
           /\ TailId = a /\ BadTail(fs, a) /\ SegOf(fs, a).live
           /\ Valid(fs, TailId) = ValidOf(SegOf(fs, a).bytes)
           /\ \A id \in Ids : BadTail(fs, id) => id = a
           /\ FsOK(fs) /\ FsType(fs) /\ OneScratch(fs) /\ PiecesAfter(fs, released)
           /\ ScratchOK(fs, boot) /\ boot # "up"
           /\ \A id \in Ids : ~ScratchOf(fs, id).disk /\ (id # a => ~ScratchOf(fs, id).live)
<1>1. FsOK(fs) /\ FsType(fs) /\ ScratchOK(fs, boot) /\ PiecesAfter(fs, released)
  BY DEF LogInv, BootOK, FsOK
<1>2. PICK a \in Ids : BadTail(fs, a)
  BY <1>1 DEF ScratchOK
<1>3. /\ TailId = a /\ SegOf(fs, a).live
      /\ Valid(fs, a) = ValidOf(SegOf(fs, a).bytes)
  BY <1>1, <1>2, TailFacts DEF TailId
<1>4. \A id \in Ids : BadTail(fs, id) => id = a
  BY <1>2, OneBadTail
<1>5. OneScratch(fs) /\ boot # "up"
  BY <1>1, ScratchAlone DEF Repairing
<1>6. \A id \in Ids : ~ScratchOf(fs, id).disk /\ (id # a => ~ScratchOf(fs, id).live)
  BY <1>1, <1>4 DEF ScratchOK
<1> QED
  BY <1>1, <1>2, <1>3, <1>4, <1>5, <1>6

\* An operation on the scratch file leaves the segments, and so what is to be repaired.
LEMMA ScratchStep ==
  ASSUME NEW f, NEW g, NEW a \in Ids, PiecesAfter(f, released), BadTail(f, a),
         \A id \in Ids : BadTail(f, id) => id = a,
         \A q \in Names : q # Tmp(a) => View(g, q) = View(f, q)
  PROVE  /\ \A id \in Ids : SegOf(g, id) = SegOf(f, id)
         /\ \A id \in Ids : id # a => ScratchOf(g, id) = ScratchOf(f, id)
         /\ PiecesAfter(g, released) /\ BadTail(g, a)
         /\ \A id \in Ids : BadTail(g, id) => id = a
<1>1. /\ \A id \in Ids : SegOf(g, id) = SegOf(f, id)
      /\ \A id \in Ids : id # a => ScratchOf(g, id) = ScratchOf(f, id)
  BY SegmentsKept
<1>2. \A id \in Ids : BadTail(g, id) <=> BadTail(f, id)
  BY <1>1, SameTails
<1> QED
  BY <1>1, <1>2 DEF PiecesAfter

\* Repair: a scratch file of an earlier repair is dropped.
LEMMA DropTmpLog ==
  ASSUME LogInv, DropTmp
  PROVE  LogInv'
<1>1. /\ boot = "drop" /\ boot' = "create" /\ UNCHANGED <<writer, pc, writes, covered, released>>
      /\ fs' = IF Fs!Exists(fs, Tmp(TailId)) THEN Fs!Delete(fs, Tmp(TailId)) ELSE fs
  BY DEF DropTmp, Booting, BootTo, callVars, ghostVars
<1>2. PICK a \in Ids :
        /\ TailId = a /\ BadTail(fs, a) /\ \A id \in Ids : BadTail(fs, id) => id = a
        /\ FsOK(fs) /\ PiecesAfter(fs, released) /\ boot # "up"
        /\ \A id \in Ids : ~ScratchOf(fs, id).disk /\ (id # a => ~ScratchOf(fs, id).live)
  BY <1>1, RepairFacts DEF Repairing
<1>3. /\ FsOK(fs') /\ PiecesAfter(fs', released) /\ BadTail(fs', a)
      /\ \A id \in Ids : ~ScratchOf(fs', id).disk /\ ~ScratchOf(fs', id).live
  <2>1. CASE Fs!Exists(fs, Tmp(a))
    <3>1. fs' = Fs!Delete(fs, Tmp(a)) /\ Tmp(a) \in Names
      BY <1>1, <1>2, <2>1, NameFacts
    <3>2. /\ FsOK(fs') /\ ~View(fs', Tmp(a)).live /\ View(fs', Tmp(a)).disk = View(fs, Tmp(a)).disk
          /\ \A q \in Names : q # Tmp(a) => View(fs', q) = View(fs, q)
      BY <1>2, <3>1, DeleteFacts
    <3>3. /\ \A id \in Ids : id # a => ScratchOf(fs', id) = ScratchOf(fs, id)
          /\ PiecesAfter(fs', released) /\ BadTail(fs', a)
      BY <1>2, <3>2, ScratchStep
    <3>4. ~ScratchOf(fs', a).live /\ ~ScratchOf(fs', a).disk
      BY <1>2, <3>2 DEF ScratchOf
    <3> QED
      BY <1>2, <3>2, <3>3, <3>4
  <2>2. CASE ~Fs!Exists(fs, Tmp(a))
    <3>1. fs' = fs /\ ~ScratchOf(fs, a).live
      BY <1>1, <1>2, <2>2 DEF Fs!Exists, ScratchOf, View
    <3> QED
      BY <1>2, <3>1
  <2> QED
    BY <2>1, <2>2
<1>4. ScratchOK(fs', "create")
  BY <1>2, <1>3 DEF ScratchOK, Repairing
<1> QED
  BY <1>1, <1>3, <1>4, OpeningStep DEF Boots

\* Repair: the scratch file is created.
LEMMA CreateTmpLog ==
  ASSUME LogInv, CreateTmp
  PROVE  LogInv'
<1>1. /\ boot = "create" /\ boot' = "copy" /\ UNCHANGED <<writer, pc, writes, covered, released>>
      /\ fs' = Fs!Create(fs, Tmp(TailId))
  BY DEF CreateTmp, Booting, BootTo, callVars, ghostVars
<1>2. PICK a \in Ids :
        /\ TailId = a /\ BadTail(fs, a) /\ \A id \in Ids : BadTail(fs, id) => id = a
        /\ FsOK(fs) /\ OneScratch(fs) /\ PiecesAfter(fs, released) /\ ScratchOK(fs, boot)
        /\ \A id \in Ids : ~ScratchOf(fs, id).disk /\ (id # a => ~ScratchOf(fs, id).live)
  BY <1>1, RepairFacts DEF Repairing
<1>3. fs.live[Tmp(a)] = 0 /\ Tmp(a) \in Names
  BY <1>1, <1>2, NameFacts DEF ScratchOK, ScratchOf, View
<1>4. /\ FsOK(fs') /\ View(fs', Tmp(a)).live /\ View(fs', Tmp(a)).bytes = <<>>
      /\ View(fs', Tmp(a)).synced = <<>> /\ View(fs', Tmp(a)).disk = View(fs, Tmp(a)).disk
      /\ \A q \in Names : q # Tmp(a) => View(fs', q) = View(fs, q)
  BY <1>1, <1>2, <1>3, CreateFacts
<1>5. /\ \A id \in Ids : id # a => ScratchOf(fs', id) = ScratchOf(fs, id)
      /\ PiecesAfter(fs', released) /\ BadTail(fs', a)
      /\ \A id \in Ids : BadTail(fs', id) => id = a
  BY <1>2, <1>4, ScratchStep
<1>6. /\ ScratchOf(fs', a).live /\ ScratchOf(fs', a).bytes = <<>>
      /\ ScratchOf(fs', a).synced = <<>> /\ ~ScratchOf(fs', a).disk
  BY <1>2, <1>4 DEF ScratchOf
<1>7. ScratchOK(fs', "copy")
  BY <1>2, <1>5, <1>6 DEF ScratchOK, Repairing
<1> QED
  BY <1>1, <1>4, <1>5, <1>7, OpeningStep DEF Boots

\* Repair: the frames that decode are copied to it.
LEMMA CopyValidLog ==
  ASSUME LogInv, CopyValid
  PROVE  LogInv'
<1>1. /\ boot = "copy" /\ boot' = "sync" /\ UNCHANGED <<writer, pc, writes, covered, released>>
      /\ fs' = Fs!AppendTo(fs, Tmp(TailId), Valid(fs, TailId))
  BY DEF CopyValid, Booting, BootTo, callVars, ghostVars
<1>2. PICK a \in Ids :
        /\ TailId = a /\ BadTail(fs, a) /\ \A id \in Ids : BadTail(fs, id) => id = a
        /\ Valid(fs, TailId) = ValidOf(SegOf(fs, a).bytes)
        /\ FsOK(fs) /\ FsType(fs) /\ PiecesAfter(fs, released) /\ ScratchOK(fs, boot)
        /\ \A id \in Ids : ~ScratchOf(fs, id).disk /\ (id # a => ~ScratchOf(fs, id).live)
  BY <1>1, RepairFacts DEF Repairing
<1> DEFINE v == ValidOf(SegOf(fs, a).bytes)
<1>3. fs.live[Tmp(a)] # 0 /\ Tmp(a) \in Names /\ View(fs, Tmp(a)).bytes = <<>>
  BY <1>1, <1>2, NameFacts DEF ScratchOK, ScratchOf, View
<1>4. v \in Seq(Piece) /\ <<>> \o v = v
  <2>1. v \in Seq(Piece)
    BY <1>2, SegmentFacts, ValidOfFacts
  <2> HIDE DEF v
  <2> QED
    BY <2>1
<1>5. fs' = Fs!AppendTo(fs, Tmp(a), v)
  BY <1>1, <1>2
<1> HIDE DEF v
<1>6. /\ FsOK(fs') /\ View(fs', Tmp(a)).live /\ View(fs', Tmp(a)).bytes = v
      /\ View(fs', Tmp(a)).disk = View(fs, Tmp(a)).disk
      /\ \A q \in Names : q # Tmp(a) => View(fs', q) = View(fs, q)
  <2> DEFINE g == Fs!AppendTo(fs, Tmp(a), v)
  <2>1. FsOK(fs) /\ Tmp(a) \in Names /\ fs.live[Tmp(a)] # 0 /\ v \in Seq(Piece)
    BY <1>2, <1>3, <1>4
  <2>2. /\ FsOK(g) /\ View(g, Tmp(a)).live
        /\ View(g, Tmp(a)).bytes = View(fs, Tmp(a)).bytes \o v
        /\ View(g, Tmp(a)).disk = View(fs, Tmp(a)).disk
        /\ \A q \in Names : q # Tmp(a) => View(g, q) = View(fs, q)
    BY <2>1, AppendFacts
  <2>3. fs' = g
    BY <1>5
  <2> HIDE DEF g
  <2> QED
    BY <1>3, <1>4, <2>2, <2>3
<1>7. /\ \A id \in Ids : SegOf(fs', id) = SegOf(fs, id)
      /\ \A id \in Ids : id # a => ScratchOf(fs', id) = ScratchOf(fs, id)
      /\ PiecesAfter(fs', released) /\ BadTail(fs', a)
      /\ \A id \in Ids : BadTail(fs', id) => id = a
  BY <1>2, <1>6, ScratchStep
<1>8. /\ ScratchOf(fs', a).live /\ ~ScratchOf(fs', a).disk
      /\ ScratchOf(fs', a).bytes = ValidOf(SegOf(fs', a).bytes)
  BY <1>2, <1>6, <1>7 DEF ScratchOf, v
<1>9. ScratchOK(fs', "sync")
  BY <1>2, <1>7, <1>8 DEF ScratchOK, Repairing
<1> QED
  BY <1>1, <1>6, <1>7, <1>9, OpeningStep DEF Boots

\* Repair: they are made durable there.
LEMMA SyncTmpLog ==
  ASSUME LogInv, SyncTmp
  PROVE  LogInv'
<1>1. /\ boot = "sync" /\ boot' = "rename" /\ UNCHANGED <<writer, pc, writes, covered, released>>
      /\ fs' = Fs!SyncFile(fs, Tmp(TailId))
  BY DEF SyncTmp, Booting, BootTo, callVars, ghostVars
<1>2. PICK a \in Ids :
        /\ TailId = a /\ BadTail(fs, a) /\ \A id \in Ids : BadTail(fs, id) => id = a
        /\ FsOK(fs) /\ PiecesAfter(fs, released) /\ ScratchOK(fs, boot)
        /\ \A id \in Ids : ~ScratchOf(fs, id).disk /\ (id # a => ~ScratchOf(fs, id).live)
  BY <1>1, RepairFacts DEF Repairing
<1>3. /\ fs.live[Tmp(a)] # 0 /\ Tmp(a) \in Names
      /\ View(fs, Tmp(a)).bytes = ValidOf(SegOf(fs, a).bytes)
  BY <1>1, <1>2, NameFacts DEF ScratchOK, ScratchOf, View
<1>4. /\ FsOK(fs') /\ View(fs', Tmp(a)).live /\ View(fs', Tmp(a)).bytes = View(fs, Tmp(a)).bytes
      /\ View(fs', Tmp(a)).synced = View(fs, Tmp(a)).bytes
      /\ View(fs', Tmp(a)).disk = View(fs, Tmp(a)).disk
      /\ \A q \in Names : q # Tmp(a) => View(fs', q) = View(fs, q)
  BY <1>1, <1>2, <1>3, SyncFileFacts
<1>5. /\ \A id \in Ids : SegOf(fs', id) = SegOf(fs, id)
      /\ \A id \in Ids : id # a => ScratchOf(fs', id) = ScratchOf(fs, id)
      /\ PiecesAfter(fs', released) /\ BadTail(fs', a)
      /\ \A id \in Ids : BadTail(fs', id) => id = a
  BY <1>2, <1>4, ScratchStep
<1>6. /\ ScratchOf(fs', a).live /\ ~ScratchOf(fs', a).disk
      /\ ScratchOf(fs', a).bytes = ValidOf(SegOf(fs', a).bytes)
      /\ ScratchOf(fs', a).synced = ScratchOf(fs', a).bytes
  BY <1>2, <1>3, <1>4, <1>5 DEF ScratchOf
<1>7. ScratchOK(fs', "rename")
  BY <1>2, <1>5, <1>6 DEF ScratchOK, Repairing
<1> QED
  BY <1>1, <1>4, <1>5, <1>7, OpeningStep DEF Boots

\* What a scan keeps is no older than what it read.
LEMMA ValidAfter ==
  ASSUME NEW s \in Seq(Piece), NEW n, \A k \in DOMAIN s : s[k].id.nth > n
  PROVE  \A k \in DOMAIN ValidOf(s) : ValidOf(s)[k].id.nth > n
<1>1. /\ DOMAIN s = 1 .. Len(s) /\ ValidLen(s) \in 0 .. Len(s)
      /\ DOMAIN ValidOf(s) = 1 .. ValidLen(s)
      /\ \A k \in 1 .. ValidLen(s) : ValidOf(s)[k] = s[k]
  <2>1. ValidOf(s) \in Seq(Piece) /\ Len(ValidOf(s)) = ValidLen(s)
    BY ValidOfFacts
  <2> QED
    BY <2>1, ValidLenFacts, ValidOfFacts
<1> QED
  BY <1>1

\* The repaired segment takes the place of the damaged one.
LEMMA RenameEffect ==
  ASSUME LogInv, RenameTmp
  PROVE  \E a \in Ids :
           /\ BadTail(fs, a) /\ FsOK(fs')
           /\ SegOf(fs', a).live /\ ~SegOf(fs', a).same
           /\ SegOf(fs', a).bytes = ValidOf(SegOf(fs, a).bytes)
           /\ SegOf(fs', a).synced = SegOf(fs', a).bytes
           /\ SegOf(fs', a).disk = SegOf(fs, a).disk
           /\ SegOf(fs', a).diskBytes = SegOf(fs, a).diskBytes
           /\ SegOf(fs', a).diskSynced = SegOf(fs, a).diskSynced
           /\ \A id \in Ids : id # a => SegOf(fs', id) = SegOf(fs, id)
           /\ \A id \in Ids : ~ScratchOf(fs', id).disk /\ ~ScratchOf(fs', id).live
<1>1. boot = "rename" /\ fs' = Fs!Rename(fs, Tmp(TailId), Path(TailId))
  BY DEF RenameTmp, Booting
<1>2. PICK a \in Ids :
        /\ TailId = a /\ BadTail(fs, a)
        /\ FsOK(fs) /\ ScratchOK(fs, boot)
        /\ \A id \in Ids : ~ScratchOf(fs, id).disk /\ (id # a => ~ScratchOf(fs, id).live)
  BY <1>1, RepairFacts DEF Repairing
<1>3. /\ Tmp(a) \in Names /\ Path(a) \in Names /\ Tmp(a) # Path(a)
      /\ \A id \in Ids : id # a => Path(id) \notin {Tmp(a), Path(a)} /\ Path(id) \in Names
      /\ \A id \in Ids : id # a => Tmp(id) \notin {Tmp(a), Path(a)} /\ Tmp(id) \in Names
  BY NameFacts
<1>4. /\ fs.live[Tmp(a)] # 0 /\ fs.durable[Tmp(a)] = 0
      /\ View(fs, Tmp(a)).bytes = ValidOf(SegOf(fs, a).bytes)
      /\ View(fs, Tmp(a)).synced = View(fs, Tmp(a)).bytes
  BY <1>1, <1>2 DEF ScratchOK, ScratchOf, View
<1>5. /\ FsOK(fs')
      /\ ~View(fs', Tmp(a)).live /\ ~View(fs', Tmp(a)).disk
      /\ View(fs', Path(a)).live /\ ~View(fs', Path(a)).same
      /\ View(fs', Path(a)).bytes = View(fs, Tmp(a)).bytes
      /\ View(fs', Path(a)).synced = View(fs, Tmp(a)).synced
      /\ View(fs', Path(a)).disk = View(fs, Path(a)).disk
      /\ View(fs', Path(a)).diskBytes = View(fs, Path(a)).diskBytes
      /\ View(fs', Path(a)).diskSynced = View(fs, Path(a)).diskSynced
      /\ \A r \in Names : r \notin {Tmp(a), Path(a)} => View(fs', r) = View(fs, r)
  BY <1>1, <1>2, <1>3, <1>4, RenameFacts
<1>6. /\ \A id \in Ids : id # a => SegOf(fs', id) = SegOf(fs, id)
      /\ \A id \in Ids : id # a => ScratchOf(fs', id) = ScratchOf(fs, id)
  BY <1>3, <1>5 DEF SegOf, ScratchOf
<1>7. ~ScratchOf(fs', a).live /\ ~ScratchOf(fs', a).disk
  BY <1>5 DEF ScratchOf
<1>8. /\ SegOf(fs', a).live /\ ~SegOf(fs', a).same
      /\ SegOf(fs', a).bytes = ValidOf(SegOf(fs, a).bytes)
      /\ SegOf(fs', a).synced = SegOf(fs', a).bytes
      /\ SegOf(fs', a).disk = SegOf(fs, a).disk
      /\ SegOf(fs', a).diskBytes = SegOf(fs, a).diskBytes
      /\ SegOf(fs', a).diskSynced = SegOf(fs, a).diskSynced
  BY <1>4, <1>5 DEF SegOf
<1> QED
  BY <1>2, <1>5, <1>6, <1>7, <1>8

\* Repair: the scratch file replaces the segment.
LEMMA RenameTmpLog ==
  ASSUME LogInv, RenameTmp
  PROVE  LogInv'
<1>1. boot # "up" /\ boot' = "dirsync" /\ UNCHANGED <<writer, pc, writes, covered, released>>
  BY DEF RenameTmp, Booting, BootTo, callVars, ghostVars
<1>2. PICK a \in Ids :
         /\ FsOK(fs') /\ SegOf(fs', a).bytes = ValidOf(SegOf(fs, a).bytes)
         /\ SegOf(fs', a).diskBytes = SegOf(fs, a).diskBytes
         /\ \A id \in Ids : id # a => SegOf(fs', id) = SegOf(fs, id)
         /\ \A id \in Ids : ~ScratchOf(fs', id).disk /\ ~ScratchOf(fs', id).live
  BY RenameEffect
<1>3. PiecesAfter(fs', released)
  <2>1. PiecesAfter(fs, released) /\ SegOf(fs, a).bytes \in Seq(Piece)
    BY SegmentFacts DEF LogInv, FsOK
  <2>2. \A k \in DOMAIN SegOf(fs', a).bytes : SegOf(fs', a).bytes[k].id.nth > released
    BY <1>2, <2>1, ValidAfter DEF PiecesAfter
  <2> QED
    BY <1>2, <2>1, <2>2 DEF PiecesAfter
<1>4. ScratchOK(fs', "dirsync")
  BY <1>2, IdleScratch
<1> QED
  BY <1>1, <1>2, <1>3, <1>4, OpeningStep DEF Boots

\* Repair: the rename is made durable.
LEMMA SyncRenameLog ==
  ASSUME LogInv, SyncRename
  PROVE  LogInv'
<1>1. /\ boot = "dirsync" /\ boot' = "activate" /\ UNCHANGED <<writer, pc, writes, covered, released>>
      /\ fs' = Fs!SyncDir(fs)
  BY DEF SyncRename, Booting, BootTo, callVars, ghostVars
<1>2. FsOK(fs) /\ \A id \in Ids : ~ScratchOf(fs, id).disk /\ ~ScratchOf(fs, id).live
  BY <1>1, IdleScratch DEF LogInv, BootOK
<1>3. /\ FsOK(fs')
      /\ \A id \in Ids : /\ SegOf(fs', id).bytes = SegOf(fs, id).bytes
                         /\ SegOf(fs', id).diskBytes = SegOf(fs, id).bytes
                         /\ ~ScratchOf(fs', id).disk /\ ~ScratchOf(fs', id).live
  BY <1>1, <1>2, SegSyncDir
<1>4. PiecesAfter(fs', released)
  BY <1>3, PiecesStayAfter DEF LogInv
<1>5. ScratchOK(fs', "activate")
  BY <1>3, IdleScratch
<1> QED
  BY <1>1, <1>3, <1>4, <1>5, OpeningStep DEF Boots

\* Recovery is done: the newest segment is the active one.
LEMMA ActivateLog ==
  ASSUME LogInv, Activate
  PROVE  LogInv'
<1> DEFINE a == Max(Segments(fs))
<1>1. /\ boot = "activate" /\ boot' = "up" /\ UNCHANGED <<fs, pc, writes, covered, released>>
      /\ Segments(fs) # {} /\ writer' = WriterOf(a, Len(Fs!Content(fs, Path(a))))
  BY DEF Activate, BootTo, callVars, ghostVars
<1>2. FsOK(fs) /\ FsType(fs) /\ \A id \in Ids : ~ScratchOf(fs, id).disk /\ ~ScratchOf(fs, id).live
  BY <1>1, IdleScratch DEF LogInv, BootOK, FsOK
<1>3. Segments(fs) = {id \in Ids : SegOf(fs, id).live} /\ Segments(fs) \in SUBSET Nat
  BY <1>2, SegmentFacts, IdsAre
<1>4. a \in Segments(fs)
  BY <1>1, <1>3, IdsAre, MaxOfNats
<1>5. a \in Ids /\ SegOf(fs, a).live
  BY <1>3, <1>4
<1> HIDE DEF a
<1>6. Fs!Content(fs, Path(a)) = SegOf(fs, a).bytes /\ SegOf(fs, a).bytes \in Seq(Piece)
  BY <1>2, <1>5, SegmentFacts
<1>7. Len(Fs!Content(fs, Path(a))) \in Nat
  BY <1>6
<1>8. WriterOK'
  BY <1>1, <1>5, <1>7, IdleWriter
<1>9. ScratchOK(fs', "up")
  BY <1>1, <1>2, IdleScratch
<1>10. BootOK'
  BY <1>1, <1>9 DEF BootOK, Boots
<1> QED
  BY <1>1, <1>8, <1>10 DEF LogInv, Counts

\* An empty directory gets its first segment.
LEMMA CreateFirstLog ==
  ASSUME LogInv, CreateFirst
  PROVE  LogInv'
<1>1. /\ boot = "activate" /\ boot' = "mkdir" /\ UNCHANGED <<writer, pc, writes, covered, released>>
      /\ Segments(fs) = {} /\ fs' = Fs!Create(fs, Path(1))
  BY DEF CreateFirst, BootTo, callVars, ghostVars
<1>2. /\ FsOK(fs) /\ FsType(fs) /\ OneScratch(fs) /\ 1 \in Ids
      /\ \A id \in Ids : ~ScratchOf(fs, id).disk /\ ~ScratchOf(fs, id).live
  BY <1>1, IdleScratch, ScratchAlone, IdsAre DEF LogInv, BootOK, FsOK
<1>3. ~SegOf(fs, 1).live
  BY <1>1, <1>2, SegmentFacts
<1>4. /\ FsOK(fs') /\ Elsewhere(fs, fs', 1) /\ SegOf(fs', 1).bytes = <<>>
      /\ SegOf(fs', 1).diskBytes = SegOf(fs, 1).diskBytes
  BY <1>1, <1>2, <1>3, SegCreate
<1>5. PiecesAfter(fs', released)
  BY <1>4, PiecesStayAfter DEF LogInv, Elsewhere
<1>6. ScratchOK(fs', "mkdir")
  BY <1>2, <1>4, IdleScratch DEF Elsewhere
<1> QED
  BY <1>1, <1>4, <1>5, <1>6, OpeningStep DEF Boots

\* Its name is made durable before the log is open.
LEMMA SyncFirstLog ==
  ASSUME LogInv, SyncFirst
  PROVE  LogInv'
<1>1. /\ boot = "mkdir" /\ boot' = "up" /\ UNCHANGED <<pc, writes, covered, released>>
      /\ fs' = Fs!SyncDir(fs) /\ writer' = WriterOf(1, 0)
  BY DEF SyncFirst, BootTo, callVars, ghostVars
<1>2. FsOK(fs) /\ \A id \in Ids : ~ScratchOf(fs, id).disk /\ ~ScratchOf(fs, id).live
  BY <1>1, IdleScratch DEF LogInv, BootOK
<1>3. /\ FsOK(fs')
      /\ \A id \in Ids : /\ SegOf(fs', id).bytes = SegOf(fs, id).bytes
                         /\ SegOf(fs', id).diskBytes = SegOf(fs, id).bytes
                         /\ ~ScratchOf(fs', id).disk /\ ~ScratchOf(fs', id).live
  BY <1>1, <1>2, SegSyncDir
<1>4. PiecesAfter(fs', released')
  BY <1>1, <1>3, PiecesStayAfter DEF LogInv
<1>5. ScratchOK(fs', "up")
  BY <1>3, IdleScratch
<1>6. BootOK'
  BY <1>1, <1>5 DEF BootOK, Boots
<1>7. WriterOK'
  BY <1>1, IdsAre, IdleWriter
<1> QED
  BY <1>1, <1>3, <1>4, <1>6, <1>7 DEF LogInv, Counts

-----------------------------------------------------------------------------
\* What a power loss leaves of the segments.
LEMMA CrashSegments ==
  ASSUME NEW f, FsOK(f), NEW g \in Fs!Crashes(f)
  PROVE  /\ FsOK(g)
         /\ \A id \in Ids :
              /\ SegOf(g, id).live = SegOf(f, id).disk /\ SegOf(g, id).disk = SegOf(f, id).disk
              /\ SegOf(g, id).same
              /\ Torn(SegOf(g, id).bytes, SegOf(f, id))
              /\ SegOf(g, id).synced = SegOf(g, id).bytes
              /\ SegOf(g, id).diskBytes = SegOf(g, id).bytes
              /\ SegOf(g, id).diskSynced = SegOf(g, id).bytes
              /\ ScratchOf(g, id).live = ScratchOf(f, id).disk
              /\ ScratchOf(g, id).disk = ScratchOf(f, id).disk
  BY CrashFacts, NameFacts DEF SegOf, ScratchOf

\* No failure puts a piece on the disk that was not there.
LEMMA ImagesAfter ==
  ASSUME NEW f, FsOK(f), NEW n, PiecesAfter(f, n), NEW g \in {f} \cup Fs!Crashes(f)
  PROVE  FsOK(g) /\ PiecesAfter(g, n)
<1>1. CASE g \in Fs!Crashes(f)
  <2>1. /\ FsOK(g)
        /\ \A id \in Ids : Torn(SegOf(g, id).bytes, SegOf(f, id))
                           /\ SegOf(g, id).diskBytes = SegOf(g, id).bytes
    BY <1>1, CrashSegments
  <2>2. ASSUME NEW id \in Ids, NEW k \in DOMAIN SegOf(g, id).bytes
        PROVE  SegOf(g, id).bytes[k].id.nth > n
    <3>1. /\ SegOf(g, id).bytes \in Seq(Piece)
          /\ Len(SegOf(g, id).bytes) <= Len(SegOf(f, id).diskBytes)
          /\ \A j \in 1 .. Len(SegOf(g, id).bytes) :
               SegOf(g, id).bytes[j].id = SegOf(f, id).diskBytes[j].id
      BY <2>1 DEF Torn
    <3>2. Path(id) \in Names
      BY NameFacts
    <3>3. SegOf(f, id).diskBytes \in Seq(Piece)
      BY <3>2, ViewTypes DEF SegOf, FsOK
    <3>4. k \in 1 .. Len(SegOf(g, id).bytes) /\ k \in DOMAIN SegOf(f, id).diskBytes
      <4> DEFINE c == SegOf(g, id).bytes
                 d == SegOf(f, id).diskBytes
      <4>1. c \in Seq(Piece) /\ d \in Seq(Piece) /\ Len(c) <= Len(d) /\ k \in DOMAIN c
        BY <2>2, <3>1, <3>3
      <4> HIDE DEF c, d
      <4>2. k \in 1 .. Len(c) /\ k \in DOMAIN d
        BY <4>1
      <4> QED
        BY <4>2 DEF c, d
    <3> QED
      BY <3>1, <3>4 DEF PiecesAfter
  <2> QED
    BY <2>1, <2>2 DEF PiecesAfter
<1>2. CASE g = f
  BY <1>2
<1> QED
  BY <1>1, <1>2

\* A power loss or a kill keeps LogInv.
LEMMA DieLog ==
  ASSUME LogInv, NEW image \in {fs} \cup Fs!Crashes(fs), Die(image)
  PROVE  LogInv'
<1>1. /\ fs' = image /\ boot' = "scan" /\ writer' = WriterOf(1, 0)
      /\ pc' = [t \in Threads |-> "idle"] /\ UNCHANGED <<writes, covered, released>>
  BY DEF Die
<1>2. FsOK(fs') /\ PiecesAfter(fs', released)
  BY <1>1, ImagesAfter DEF LogInv
<1>3. ScratchOK(fs', "scan")
  <2>1. CASE image = fs
    BY <1>1, <2>1 DEF LogInv, BootOK, ScratchOK, Repairing
  <2>2. CASE image \in Fs!Crashes(fs)
    <3>1. \A id \in Ids : ~ScratchOf(fs', id).disk /\ ~ScratchOf(fs', id).live
      BY <1>1, <2>2, CrashSegments DEF LogInv, BootOK, ScratchOK
    <3> QED
      BY <3>1 DEF ScratchOK, Repairing
  <2> QED
    BY <2>1, <2>2
<1>4. BootOK'
  BY <1>1, <1>3 DEF BootOK, Boots
<1>5. WriterOK'
  BY <1>1, IdsAre, IdleWriter
<1> QED
  BY <1>1, <1>2, <1>4, <1>5 DEF LogInv, Counts

\* So does an open that fails: the next one finds what it left.
LEMMA OpenFailsLog ==
  ASSUME LogInv, OpenFails
  PROVE  LogInv'
<1>1. /\ boot # "up" /\ boot' = "scan"
      /\ UNCHANGED <<fs, writer, pc, writes, covered, released>>
  BY DEF OpenFails, callVars, ghostVars
<1>2. FsOK(fs') /\ PiecesAfter(fs', released)
  BY <1>1 DEF LogInv
<1>3. ScratchOK(fs', "scan")
  BY <1>1 DEF LogInv, BootOK, ScratchOK, Repairing
<1> QED
  BY <1>1, <1>2, <1>3, OpeningStep DEF Boots

\* An empty directory.
LEMMA EmptyViews ==
  /\ FsOK(Fs!EmptyFs) /\ \A p \in Names : View(Fs!EmptyFs, p) =
       [live |-> FALSE, disk |-> FALSE, same |-> TRUE, bytes |-> <<>>, synced |-> <<>>,
        diskBytes |-> <<>>, diskSynced |-> <<>>]
<1> DEFINE f == Fs!EmptyFs
<1>1. f = [live |-> [p \in Names |-> 0], durable |-> [p \in Names |-> 0],
           bytes |-> [i \in Pool |-> <<>>], synced |-> [i \in Pool |-> <<>>]]
  BY DEF Fs!EmptyFs, Names, Ids, Pool
<1>2. /\ \A p \in Names : f.live[p] = 0 /\ f.durable[p] = 0
      /\ \A i \in Pool : f.bytes[i] = <<>> /\ f.synced[i] = <<>>
  BY <1>1
<1>3. FsType(f)
  BY <1>1 DEF FsType
<1>4. OneOwner(f)
  BY <1>2 DEF OneOwner
<1>5. FreeEmpty(f)
  BY <1>2 DEF FreeEmpty
<1>6. SyncedLeads(f)
  <2>1. Leads(<<>>, <<>>)
    BY DEF Leads
  <2> QED
    BY <1>2, <2>1 DEF SyncedLeads
<1> QED
  BY <1>2, <1>3, <1>4, <1>5, <1>6 DEF FsOK, View, Held

\* An empty directory satisfies LogInv.
LEMMA InitLog == Init => LogInv
<1> SUFFICES ASSUME Init PROVE LogInv
  OBVIOUS
<1>1. /\ fs = Fs!EmptyFs /\ boot = "scan" /\ writer = WriterOf(1, 0)
      /\ pc = [t \in Threads |-> "idle"] /\ writes = 0 /\ covered = 0 /\ released = 0
  BY DEF Init
<1>2. /\ FsOK(fs)
      /\ \A id \in Ids : /\ SegOf(fs, id).bytes = <<>> /\ SegOf(fs, id).diskBytes = <<>>
                         /\ ~ScratchOf(fs, id).live /\ ~ScratchOf(fs, id).disk
  BY <1>1, EmptyViews, NameFacts DEF SegOf, ScratchOf
<1>3. PiecesAfter(fs, released)
  <2>1. DOMAIN <<>> = {}
    OBVIOUS
  <2> QED
    BY <1>2, <2>1 DEF PiecesAfter
<1>4. BootOK
  BY <1>1, <1>2 DEF BootOK, Boots, ScratchOK, Repairing
<1>5. WriterOK
  <2>1. /\ writer.active = 1 /\ writer.old = {} /\ writer.offset = 0
        /\ writer.stage = "none" /\ writer.todo = <<>>
    BY <1>1 DEF WriterOf
  <2> QED
    BY <2>1, IdsAre DEF WriterOK, Stages
<1> QED
  BY <1>1, <1>2, <1>3, <1>4, <1>5 DEF LogInv, Counts

-----------------------------------------------------------------------------
\* Every step keeps LogInv, whatever fails.
LEMMA LogStep ==
  ASSUME LogInv, GroupInv, [Next]_vars
  PROVE  LogInv'
<1>1. ASSUME NEW t \in Threads, Progress(t) PROVE LogInv'
  BY <1>1, CallerSteps, LockStepLog, WriteFrameLog, SyncLog, ReleaseLog, CreateNextLog,
     SwitchLog, ResetCreateLog, ResetPublishLog, ResetRetireLog, ResetDoneLog DEF Progress
<1>2. CASE Boot
  BY <1>2, ScanLog, DropTmpLog, CreateTmpLog, CopyValidLog, SyncTmpLog, RenameTmpLog,
     SyncRenameLog, ActivateLog, CreateFirstLog, SyncFirstLog DEF Boot
<1>3. ASSUME NEW t \in Threads, Call(t) \/ StartReset(t) \/ SpuriousWake(t) \/ ShortWrite(t)
      PROVE  LogInv'
  BY <1>3, CallerSteps, StartResetLog, WakeStep, ShortWriteLog
<1>4. CASE PowerLoss \/ Kill
  BY <1>4, DieLog DEF PowerLoss, Kill
<1>5. CASE OpenFails
  BY <1>5, OpenFailsLog
<1>6. CASE UNCHANGED vars
  <2>1. UNCHANGED <<fs, boot, writer, pc, writes, covered, released>>
    BY <1>6 DEF vars, callVars, ghostVars
  <2>2. WriterOK'
    BY <2>1 DEF LogInv, WriterOK
  <2> QED
    BY <2>1, <2>2, DiskUntouched
<1> QED
  BY <1>1, <1>2, <1>3, <1>4, <1>5, <1>6 DEF Next

(***************************************************************************)
(* The file system, the writer's segments and recovery's progress stay     *)
(* sound, and no released piece comes back, in every behaviour and under   *)
(* every fault.                                                            *)
(***************************************************************************)
THEOREM LogInductive == Spec => []LogInv
<1>1. Init => LogInv
  BY InitLog
<1>2. LogInv /\ GroupInv /\ [Next]_vars => LogInv'
  BY LogStep
<1> QED
  BY <1>1, <1>2, GroupInductive, PTL DEF Spec

(***************************************************************************)
(* Once reset() has returned Ok, no failure, kill or torn write at any     *)
(* moment brings a record it released back (reset, recover).               *)
(***************************************************************************)
THEOREM WalReleasedStayGone == Spec => []ReleasedStayGone
<1>1. LogInv => ReleasedStayGone
  <2> SUFFICES ASSUME LogInv, NEW image \in Images, NEW p \in ToSet(Recovered(image))
               PROVE  p.nth > released
    BY DEF ReleasedStayGone
  <2>1. FsOK(image) /\ PiecesAfter(image, released)
    BY ImagesAfter DEF LogInv, Images
  <2>2. PICK i \in DOMAIN Recovered(image) : p = Recovered(image)[i]
    BY DEF ToSet
  <2>3. PICK id, n : Replays(image, id, n) /\ p = SegOf(image, id).bytes[n].id
    <3>1. FsType(image)
      BY <2>1 DEF FsOK
    <3>2. Only(image, Recovered(image))
      BY <3>1, RecoveredFacts
    <3>3. \E id, n : Replays(image, id, n) /\ Recovered(image)[i] = SegOf(image, id).bytes[n].id
      BY <3>2 DEF Only
    <3> QED
      BY <2>2, <3>3
  <2>4. id \in Ids /\ n \in 1 .. Len(SegOf(image, id).bytes)
    BY <2>3 DEF Replays
  <2>5. SegOf(image, id).bytes \in Seq(Piece)
    BY <2>1, <2>4, SegmentFacts DEF FsOK
  <2> QED
    BY <2>1, <2>3, <2>4, <2>5 DEF PiecesAfter
<1> QED
  BY <1>1, LogInductive, PTL

-----------------------------------------------------------------------------
\* The types that bound the frames, and what keeps them: who is in a call has a frame.
TypeInv ==
  /\ writer.owner \in Threads \cup {NoThread}
  /\ writer.todo \in Seq(Queued)
  /\ coord.queue \in Seq(Queued)
  /\ batch \in [Threads -> Seq(Queued)]
  /\ calls <= MaxAppends
  /\ promised \subseteq Frames
  /\ \A t \in Threads : pc[t] \notin {"idle", "reset"} => mine[t].frame \in Frames
  /\ coord.syncedThrough <= coord.nextSeq

\* What is queued, in hand or being written is typed.
LEMMA QueuedTypes ==
  ASSUME TypeInv
  PROVE  /\ writer.owner \in Threads \cup {NoThread} /\ writer.todo \in Seq(Queued)
         /\ \A t \in Threads : batch[t] \in Seq(Queued)
         /\ writer.todo # <<>> => Tail(writer.todo) \in Seq(Queued)
         /\ <<>> \in Seq(Queued)
<1>1. writer.owner \in Threads \cup {NoThread} /\ writer.todo \in Seq(Queued)
      /\ batch \in [Threads -> Seq(Queued)]
  BY DEF TypeInv
<1> QED
  BY <1>1

\* What a step does to the writer: nothing, a field or two, a release.
LEMMA WriterTypes ==
  ASSUME GroupInv, TypeInv,
         \/ \E t \in Threads : \E stage : writer' = [writer EXCEPT !.owner = t, !.todo = batch[t], !.stage = stage]
         \/ \E t \in Threads : \E stage, old : writer' = [writer EXCEPT !.owner = t, !.stage = stage, !.old = old]
         \/ \E stage, offset : writer' = [writer EXCEPT !.todo = Tail(@), !.offset = offset, !.stage = stage]
                               /\ writer.todo # <<>>
         \/ \E stage : writer' = [writer EXCEPT !.stage = stage]
         \/ \E old : writer' = [writer EXCEPT !.old = old]
         \/ \E id, offset : writer' = WriterOf(id, offset)
         \/ writer' = writer
  PROVE  writer'.owner \in Threads \cup {NoThread} /\ writer'.todo \in Seq(Queued)
<1>1. /\ writer.owner \in Threads \cup {NoThread} /\ writer.todo \in Seq(Queued)
      /\ \A t \in Threads : batch[t] \in Seq(Queued)
      /\ writer.todo # <<>> => Tail(writer.todo) \in Seq(Queued)
      /\ <<>> \in Seq(Queued)
  BY QueuedTypes
<1>2. <<>> \in Seq(Queued)
  BY <1>1
<1>3. CASE \E t \in Threads : \E stage : writer' = [writer EXCEPT !.owner = t, !.todo = batch[t], !.stage = stage]
  BY <1>1, <1>3, WriterRecord
<1>4. CASE \E t \in Threads : \E stage, old : writer' = [writer EXCEPT !.owner = t, !.stage = stage, !.old = old]
  BY <1>1, <1>4, WriterRecord
<1>5. CASE \E stage, offset : writer' = [writer EXCEPT !.todo = Tail(@), !.offset = offset, !.stage = stage]
                              /\ writer.todo # <<>>
  BY <1>1, <1>5, WriterRecord
<1>6. CASE \E stage : writer' = [writer EXCEPT !.stage = stage]
  BY <1>1, <1>6, WriterRecord
<1>7. CASE \E old : writer' = [writer EXCEPT !.old = old]
  BY <1>1, <1>7, WriterRecord
<1>8. CASE \E id, offset : writer' = WriterOf(id, offset)
  <2>1. PICK id, offset : writer' = WriterOf(id, offset)
    BY <1>8
  <2>2. writer'.owner = NoThread /\ writer'.todo = <<>>
    BY <2>1 DEF WriterOf
  <2> QED
    BY <1>2, <2>2
<1> QED
  BY <1>1, <1>3, <1>4, <1>5, <1>6, <1>7, <1>8

\* A step of the mutex's owner: it may leave its call for the outcome.
LEMMA OwnerTypes ==
  ASSUME GroupInv, LogInv, TypeInv, NEW t \in Threads,
         \/ LockWriter(t) \/ WriteFrame(t) \/ SyncSegment(t) \/ Seal(t) \/ CreateNext(t)
         \/ NoRoll(t) \/ SwitchSegment(t) \/ OpFails(t) \/ ShortWrite(t)
         \/ StartReset(t) \/ ResetCreate(t) \/ ResetPublish(t) \/ ResetRetire(t) \/ ResetDone(t)
  PROVE  TypeInv'
<1>1. UNCHANGED <<coord, mine, batch, calls>> /\ promised' \in {promised, {}}
  BY DEF LockWriter, WriteFrame, SyncSegment, Seal, CreateNext, NoRoll, SwitchSegment, OpFails,
         ShortWrite, StartReset, ResetCreate, ResetPublish, ResetRetire, ResetDone, groupVars,
         callVars, boundVars, ghostVars
<1>2. writer'.owner \in Threads \cup {NoThread} /\ writer'.todo \in Seq(Queued)
  <2>1. CASE LockWriter(t)
    BY <2>1, WriterTypes DEF LockWriter
  <2>2. CASE WriteFrame(t)
    <3>1. writer.todo # <<>>
      BY <2>2 DEF WriteFrame, Owns, LogInv, WriterOK
    <3>2. writer' = [writer EXCEPT !.todo = Tail(@), !.offset = @ + 1,
                                   !.stage = AfterFrames(Tail(writer.todo))]
      BY <2>2 DEF WriteFrame
    <3>3. writer' = [writer EXCEPT !.todo = Tail(@), !.offset = writer.offset + 1,
                                   !.stage = AfterFrames(Tail(writer.todo))]
      BY <3>2
    <3> QED
      BY <3>1, <3>3, WriterTypes
  <2>3. CASE SyncSegment(t) \/ Seal(t) \/ CreateNext(t) \/ ResetCreate(t) \/ ResetPublish(t)
    BY <2>3, WriterTypes DEF SyncSegment, Seal, CreateNext, ResetCreate, ResetPublish
  <2>4. CASE NoRoll(t) \/ SwitchSegment(t) \/ OpFails(t) \/ ShortWrite(t) \/ ResetDone(t)
    BY <2>4, WriterTypes DEF NoRoll, SwitchSegment, OpFails, ShortWrite, ResetDone, Fail
  <2>5. CASE StartReset(t)
    BY <2>5, WriterTypes DEF StartReset
  <2>6. CASE ResetRetire(t)
    <3>1. writer' = [writer EXCEPT !.old = @ \ {Min(@)}]
      BY <2>6 DEF ResetRetire
    <3>2. writer' = [writer EXCEPT !.old = writer.old \ {Min(writer.old)}]
      BY <3>1
    <3> QED
      BY <3>2, WriterTypes
  <2> QED
    BY <2>1, <2>2, <2>3, <2>4, <2>5, <2>6
<1>3. ASSUME NEW u \in Threads, pc'[u] \notin {"idle", "reset"} PROVE mine'[u].frame \in Frames
  <2>1. pc \in [Threads -> PCs]
    BY DEF GroupInv, GroupTypes
  <2>2. pc[u] \notin {"idle", "reset"}
    <3>1. CASE LockWriter(t) \/ WriteFrame(t) \/ SyncSegment(t) \/ Seal(t) \/ CreateNext(t)
               \/ ResetCreate(t) \/ ResetPublish(t) \/ ResetRetire(t)
      BY <1>3, <3>1 DEF LockWriter, WriteFrame, SyncSegment, Seal, CreateNext, ResetCreate,
                        ResetPublish, ResetRetire, callVars
    <3>2. CASE NoRoll(t) \/ SwitchSegment(t)
      <4>1. pc[t] = "write" /\ pc' = [pc EXCEPT ![t] = "ok"]
        BY <3>2 DEF NoRoll, SwitchSegment, Owns, Goto, GroupInv, OwnerAtWork
      <4> QED
        BY <1>3, <2>1, <4>1
    <3>3. CASE OpFails(t) \/ ShortWrite(t)
      <4>1. pc' = [pc EXCEPT ![t] = IF pc[t] = "reset" THEN "idle" ELSE "err"]
            /\ pc[t] \in {"write", "reset"}
        BY <3>3 DEF OpFails, ShortWrite, Owns, Fail, Goto, GroupInv, OwnerAtWork
      <4> QED
        BY <1>3, <2>1, <4>1
    <3>4. CASE StartReset(t)
      BY <1>3, <2>1, <3>4 DEF StartReset, Goto
    <3>5. CASE ResetDone(t)
      BY <1>3, <2>1, <3>5 DEF ResetDone, Goto
    <3> QED
      BY <3>1, <3>2, <3>3, <3>4, <3>5
  <2> QED
    BY <1>1, <2>2 DEF TypeInv
<1> QED
  BY <1>1, <1>2, <1>3 DEF TypeInv

\* append() is called, and leads.
LEMMA CallTypes ==
  ASSUME GroupInv, TypeInv, NEW t \in Threads, Call(t) \/ Lead(t)
  PROVE  TypeInv'
<1>1. /\ coord.queue \in Seq(Queued) /\ coord.nextSeq \in Nat /\ calls \in Nat
      /\ coord.syncedThrough \in Nat /\ MaxAppends \in Nat /\ pc \in [Threads -> PCs]
      /\ mine \in [Threads -> Frame] /\ batch \in [Threads -> Seq(Queued)]
      /\ coord = [queue |-> coord.queue, nextSeq |-> coord.nextSeq,
                  syncedThrough |-> coord.syncedThrough, leaderActive |-> coord.leaderActive]
  BY WalAssumption DEF GroupInv, GroupTypes, TypeInv
<1>2. CASE Call(t)
  <2> DEFINE fr == calls + 1
             seq == coord.nextSeq + 1
  <2>1. fr \in Frames /\ fr <= MaxAppends /\ seq \in Nat
    BY <1>1, <1>2 DEF Call, Frames
  <2>2. /\ UNCHANGED <<writer, promised>> /\ calls' = fr
        /\ mine' = [mine EXCEPT ![t] = [frame |-> fr, seq |-> mine'[t].seq]]
        /\ pc' = [pc EXCEPT ![t] = pc'[t]]
    BY <1>1, <1>2 DEF Call, Goto, ghostVars
  <2>3. coord'.queue \in Seq(Queued) /\ coord'.syncedThrough <= coord'.nextSeq
    <3>1. [seq |-> seq, frame |-> fr] \in Queued
      BY <2>1 DEF Queued
    <3>2. \/ coord' = coord
          \/ coord' = [coord EXCEPT !.nextSeq = seq, !.queue = Append(@, [seq |-> seq, frame |-> fr])]
      BY <1>2 DEF Call
    <3>3. Append(coord.queue, [seq |-> seq, frame |-> fr]) \in Seq(Queued)
      BY <1>1, <3>1
    <3> HIDE DEF fr
    <3>4. CASE coord' = [coord EXCEPT !.nextSeq = seq, !.queue = Append(@, [seq |-> seq, frame |-> fr])]
      <4>1. coord'.queue = Append(coord.queue, [seq |-> seq, frame |-> fr])
            /\ coord'.syncedThrough = coord.syncedThrough /\ coord'.nextSeq = coord.nextSeq + 1
        BY <1>1, <3>4
      <4> QED
        BY <1>1, <3>3, <4>1 DEF TypeInv
    <3> QED
      BY <3>2, <3>4 DEF TypeInv
  <2>4. batch' \in [Threads -> Seq(Queued)]
    <3>1. [seq |-> 0, frame |-> fr] \in Queued
      BY <2>1 DEF Queued
    <3>2. <<[seq |-> 0, frame |-> fr]>> \in Seq(Queued)
      BY <3>1
    <3>3. batch' = batch \/ batch' = [batch EXCEPT ![t] = <<[seq |-> 0, frame |-> fr]>>]
      BY <1>2 DEF Call
    <3> HIDE DEF fr
    <3> QED
      BY <1>1, <3>2, <3>3
  <2>5. ASSUME NEW u \in Threads, pc'[u] \notin {"idle", "reset"} PROVE mine'[u].frame \in Frames
    <3>1. mine'[t].frame = fr /\ \A v \in Threads : v # t => mine'[v] = mine[v] /\ pc'[v] = pc[v]
      BY <1>1, <2>2
    <3>2. CASE u = t
      BY <2>1, <3>1, <3>2
    <3>3. CASE u # t
      BY <2>5, <3>1, <3>3 DEF TypeInv
    <3> QED
      BY <3>2, <3>3
  <2> QED
    BY <2>1, <2>2, <2>3, <2>4, <2>5 DEF TypeInv
<1>3. CASE Lead(t)
  <2>1. /\ UNCHANGED <<writer, mine, calls, promised>> /\ pc[t] = "check"
        /\ coord' = [coord EXCEPT !.leaderActive = TRUE, !.queue = <<>>]
        /\ batch' = [batch EXCEPT ![t] = coord.queue] /\ pc' = [pc EXCEPT ![t] = "write"]
    BY <1>3 DEF Lead, Goto, boundVars, ghostVars
  <2>2. /\ coord'.queue = <<>> /\ coord'.syncedThrough = coord.syncedThrough
        /\ coord'.nextSeq = coord.nextSeq
    BY <1>1, <2>1
  <2>3. batch' \in [Threads -> Seq(Queued)] /\ <<>> \in Seq(Queued)
    BY <1>1, <2>1
  <2>4. \A u \in Threads : pc'[u] \notin {"idle", "reset"} => pc[u] \notin {"idle", "reset"}
    BY <1>1, <2>1
  <2> QED
    BY <2>1, <2>2, <2>3, <2>4 DEF TypeInv
<1> QED
  BY <1>2, <1>3

\* append() returns.
LEMMA ReturnTypesKept ==
  ASSUME GroupInv, GroupInv', TypeInv, UNCHANGED durability, NEW t \in Threads,
         Covered(t) \/ CommitOk(t) \/ CommitErr(t)
  PROVE  TypeInv'
<1>1. /\ coord.queue \in Seq(Queued) /\ pc \in [Threads -> PCs]
      /\ mine \in [Threads -> Frame] /\ batch \in [Threads -> Seq(Queued)]
      /\ coord = [queue |-> coord.queue, nextSeq |-> coord.nextSeq,
                  syncedThrough |-> coord.syncedThrough, leaderActive |-> coord.leaderActive]
  BY DEF GroupInv, GroupTypes, TypeInv
<1>2. /\ UNCHANGED <<writer, calls>> /\ pc[t] \in {"check", "ok", "err"}
      /\ pc' = [pc EXCEPT ![t] = "idle"] /\ mine' = [mine EXCEPT ![t] = NoCall]
      /\ batch' = [batch EXCEPT ![t] = <<>>]
      /\ promised' \in {promised, promised \cup {mine[t].frame}}
  BY DEF Covered, CommitOk, CommitErr, Return, Goto, boundVars
<1>3. promised' \subseteq Frames
  <2>1. promised \subseteq Frames /\ mine[t].frame \in Frames
    BY <1>2 DEF TypeInv
  <2> QED
    BY <1>2, <2>1
<1>4. batch' \in [Threads -> Seq(Queued)]
  BY <1>1, <1>2
<1>5. coord'.queue \in Seq(Queued)
  <2>1. CASE coord' = coord
    BY <1>1, <2>1
  <2>2. CASE CommitOk(t) /\ durability = "GroupCommit"
    <3>1. coord' = [coord EXCEPT !.leaderActive = FALSE, !.syncedThrough = Max({@, Highest(t)})]
      BY <2>2 DEF CommitOk
    <3> QED
      BY <1>1, <3>1
  <2>3. CASE CommitErr(t) /\ durability = "GroupCommit"
    <3>1. coord' = [coord EXCEPT !.leaderActive = FALSE, !.queue = batch[t] \o @]
      BY <2>3 DEF CommitErr
    <3>2. batch[t] \o coord.queue \in Seq(Queued)
      BY <1>1
    <3> QED
      BY <1>1, <3>1, <3>2
  <2> QED
    BY <2>1, <2>2, <2>3 DEF Covered, CommitOk, CommitErr, groupVars
<1>6. coord'.syncedThrough <= coord'.nextSeq
  <2>1. CASE durability = "GroupCommit"
    BY <2>1 DEF GroupInv, CommitOrder
  <2>2. CASE durability # "GroupCommit"
    <3>1. coord' = coord
      BY <2>2 DEF Covered, CommitOk, CommitErr, groupVars
    <3> QED
      BY <3>1 DEF TypeInv
  <2> QED
    BY <2>1, <2>2
<1>7. \A u \in Threads : pc'[u] \notin {"idle", "reset"} =>
        pc[u] \notin {"idle", "reset"} /\ mine'[u] = mine[u]
  BY <1>1, <1>2
<1> QED
  BY <1>2, <1>3, <1>4, <1>5, <1>6, <1>7 DEF TypeInv

\* The process stops.
LEMMA DieTypes ==
  ASSUME TypeInv, NEW image, Die(image)
  PROVE  TypeInv'
<1>1. /\ writer'.owner = NoThread /\ writer'.todo = <<>> /\ coord'.queue = <<>>
      /\ coord'.syncedThrough = 0 /\ coord'.nextSeq = 0
      /\ batch' = [t \in Threads |-> <<>>] /\ \A t \in Threads : pc'[t] = "idle"
      /\ UNCHANGED <<calls, promised>>
  BY DEF Die, WriterOf, FreshCoord
<1>2. <<>> \in Seq(Queued) /\ batch' \in [Threads -> Seq(Queued)]
  BY <1>1
<1> QED
  BY <1>1, <1>2 DEF TypeInv

\* The variables start typed.
LEMMA InitTypes == Init => TypeInv
<1> SUFFICES ASSUME Init PROVE TypeInv
  OBVIOUS
<1>1. /\ writer.owner = NoThread /\ writer.todo = <<>> /\ coord.queue = <<>>
      /\ coord.syncedThrough = 0 /\ coord.nextSeq = 0
      /\ batch = [t \in Threads |-> <<>>] /\ \A t \in Threads : pc[t] = "idle"
      /\ calls = 0 /\ promised = {} /\ MaxAppends \in Nat
  BY WalAssumption DEF Init, WriterOf, FreshCoord
<1>2. <<>> \in Seq(Queued) /\ batch \in [Threads -> Seq(Queued)]
  BY <1>1
<1> QED
  BY <1>1, <1>2 DEF TypeInv

\* Every step keeps them typed.
LEMMA TypeStep ==
  ASSUME GroupInv, GroupInv', LogInv, TypeInv, [Next]_vars
  PROVE  TypeInv'
<1>1. ASSUME NEW t \in Threads, Park(t) \/ SpuriousWake(t) PROVE TypeInv'
  BY <1>1 DEF Park, SpuriousWake, TypeInv, callVars, boundVars, ghostVars
<1>2. ASSUME NEW t \in Threads, Progress(t) PROVE TypeInv'
  BY <1>1, <1>2, OwnerTypes, CallTypes, ReturnTypesKept DEF Progress
<1>3. CASE Boot
  <2>1. UNCHANGED <<coord, pc, mine, batch, calls, promised>>
    BY <1>3 DEF Boot, Scan, DropTmp, CreateTmp, CopyValid, SyncTmp, RenameTmp, SyncRename,
           Activate, CreateFirst, SyncFirst, Booting, BootTo, groupVars, callVars, boundVars,
           ghostVars
  <2>2. writer' = writer \/ \E id, offset : writer' = WriterOf(id, offset)
    BY <1>3 DEF Boot, Scan, DropTmp, CreateTmp, CopyValid, SyncTmp, RenameTmp, SyncRename,
           Activate, CreateFirst, SyncFirst, Booting
  <2>3. writer'.owner \in Threads \cup {NoThread} /\ writer'.todo \in Seq(Queued)
    BY <2>2, WriterTypes
  <2> QED
    BY <2>1, <2>3 DEF TypeInv
<1>4. ASSUME NEW t \in Threads, Call(t) \/ StartReset(t) \/ SpuriousWake(t) \/ ShortWrite(t)
      PROVE  TypeInv'
  BY <1>1, <1>4, OwnerTypes, CallTypes
<1>5. CASE PowerLoss \/ Kill
  BY <1>5, DieTypes DEF PowerLoss, Kill
<1>6. CASE OpenFails \/ UNCHANGED vars
  BY <1>6 DEF OpenFails, vars, groupVars, callVars, boundVars, ghostVars, TypeInv
<1> QED
  BY <1>2, <1>3, <1>4, <1>5, <1>6 DEF Next

(***************************************************************************)
(* The variables of the log stay typed, for any threads, bounds and        *)
(* faults: no id, offset or commit seq leaves its range (append,           *)
(* maybe_rotate, reset, recover).                                          *)
(***************************************************************************)
THEOREM WalTypeOK == Spec => []TypeOK
<1>1. Init => TypeInv
  BY InitTypes
<1>2. GroupInv /\ GroupInv' /\ LogInv /\ TypeInv /\ [Next]_vars => TypeInv'
  BY TypeStep
<1>3. GroupInv /\ LogInv /\ TypeInv => TypeOK
  <2> SUFFICES ASSUME GroupInv, LogInv, TypeInv PROVE TypeOK
    OBVIOUS
  <2>1. /\ writer = [owner |-> writer.owner, stage |-> writer.stage, todo |-> writer.todo,
                     old |-> writer.old, active |-> writer.active, offset |-> writer.offset]
        /\ writer.stage \in Stages /\ writer.old \in SUBSET Ids /\ writer.active \in Ids
        /\ writer.offset \in Nat
    BY WriterRecord DEF LogInv, WriterOK
  <2>2. writer \in [owner : Threads \cup {NoThread}, stage : Stages, todo : Seq(Queued),
                    old : SUBSET (1 .. MaxSegments), active : 1 .. MaxSegments, offset : Nat]
    BY <2>1 DEF TypeInv, Ids
  <2>3. coord = [queue |-> coord.queue, nextSeq |-> coord.nextSeq,
                 syncedThrough |-> coord.syncedThrough, leaderActive |-> coord.leaderActive]
        /\ coord.nextSeq \in Nat /\ coord.syncedThrough \in Nat /\ coord.leaderActive \in BOOLEAN
    BY DEF GroupInv, GroupTypes
  <2>4. coord \in [queue : Seq(Queued), nextSeq : Nat, syncedThrough : Nat,
                   leaderActive : BOOLEAN]
    BY <2>3 DEF TypeInv
  <2> QED
    BY <2>2, <2>4 DEF TypeOK, TypeInv, GroupInv, GroupTypes, LogInv, BootOK, Counts
<1> QED
  BY <1>1, <1>2, <1>3, GroupInductive, LogInductive, PTL DEF Spec

-----------------------------------------------------------------------------
\* Without kills, short writes and errors returned by Wal::open.
Calm == Faults \subseteq {"power", "io"}

\* The disk has the file the process has, and all of its bytes are synced.
Settled(v) == v.same /\ v.diskSynced = v.diskBytes

(***************************************************************************)
(* An open log that appends to segment `a`: no segment is damaged, those   *)
(* behind it are durable, those ahead of it are empty, and the disk knows  *)
(* the names up to it.                                                     *)
(***************************************************************************)
Sound(f, a) ==
  /\ \A id \in Ids : Clean(SegOf(f, id).bytes) /\ Clean(SegOf(f, id).diskBytes)
  /\ \A id \in Ids : id > a => SegOf(f, id).bytes = <<>> /\ SegOf(f, id).diskBytes = <<>>
  /\ \A id \in Ids : id <= a /\ SegOf(f, id).live => SegOf(f, id).same
  /\ \A id \in Ids : id < a => SegOf(f, id).diskSynced = SegOf(f, id).diskBytes
  /\ \E id \in Ids : id >= a /\ SegOf(f, id).live

ResetStages == {"fresh", "publish", "retire"}

\* An open log at each stage of the step in progress; while reset() is at work,
\* nobody is in append().
UpDisk ==
  /\ Sound(fs, writer.active)
  /\ writer.stage \in {"publish", "retire"} =>
       \A id \in Ids : SegOf(fs, id).live /\ id \notin writer.old => id > writer.active
  /\ writer.stage \in {"create", "dirsync"} =>
       /\ SegOf(fs, writer.active).live
       /\ SegOf(fs, writer.active).synced = SegOf(fs, writer.active).bytes
  /\ writer.stage = "dirsync" => SegOf(fs, writer.active + 1).live
  /\ writer.stage \in ResetStages =>
       /\ history = <<>> /\ promised = {} /\ writer.owner \in Threads
       /\ \A t \in Threads : pc[t] \in {"idle", "reset"}

\* A log being opened: only the last segment with anything in it is damaged, and
\* all is durable but what the repair has just renamed or created.
BootDisk(f, stage) ==
  /\ \A i, j \in Ids : i < j => Clean(SegOf(f, i).diskBytes) \/ SegOf(f, j).diskBytes = <<>>
  /\ \A id \in Ids : SegOf(f, id).diskSynced = SegOf(f, id).diskBytes
  /\ stage \in {"scan", "activate"} \cup Repairing => \A id \in Ids : SegOf(f, id).same
  /\ stage = "dirsync" => \A id \in Ids :
       /\ SegOf(f, id).synced = SegOf(f, id).bytes
       /\ SegOf(f, id).live <=> SegOf(f, id).disk
       /\ SegOf(f, id).bytes = ValidOf(SegOf(f, id).diskBytes)
  /\ stage = "activate" => \A id \in Ids : Clean(SegOf(f, id).bytes)
  /\ stage = "mkdir" => /\ SegOf(f, 1).live
                        /\ \A id \in Ids : ~SegOf(f, id).disk /\ SegOf(f, id).bytes = <<>>

\* What the disk owes the process: of all pieces only the newest are at risk.
DiskInv == IF boot = "up" THEN UpDisk ELSE BootDisk(fs, boot)

-----------------------------------------------------------------------------
\* An empty segment has nothing damaged in it.
LEMMA EmptyIsClean == Clean(<<>>) /\ DOMAIN <<>> = {}
  BY DEF Clean

\* What a segment shows is typed.
LEMMA SegTypes ==
  ASSUME NEW f, FsOK(f), NEW id \in Ids
  PROVE  /\ SegOf(f, id).bytes \in Seq(Piece) /\ SegOf(f, id).synced \in Seq(Piece)
         /\ SegOf(f, id).diskBytes \in Seq(Piece) /\ SegOf(f, id).diskSynced \in Seq(Piece)
         /\ SegOf(f, id).live \in BOOLEAN /\ SegOf(f, id).disk \in BOOLEAN
         /\ SegOf(f, id).same \in BOOLEAN
  BY NameFacts, ViewTypes DEF FsOK, SegOf

\* A segment without a name is empty, and what is synced of one comes first in it.
LEMMA SegShape ==
  ASSUME NEW f, FsOK(f), NEW id \in Ids
  PROVE  LET v == SegOf(f, id) IN
         /\ ~v.live => v.bytes = <<>> /\ v.synced = <<>>
         /\ ~v.disk => v.diskBytes = <<>> /\ v.diskSynced = <<>>
         /\ v.same => v.live = v.disk /\ v.bytes = v.diskBytes /\ v.synced = v.diskSynced
         /\ Leads(v.synced, v.bytes) /\ Leads(v.diskSynced, v.diskBytes)
<1>1. Path(id) \in Names
  BY NameFacts
<1> QED
  BY <1>1, ViewShape DEF SegOf

\* A clean segment stays so when a whole piece is put behind it.
LEMMA CleanAppend ==
  ASSUME NEW s \in Seq(Piece), Clean(s), NEW p \in Piece, p.state = "whole"
  PROVE  Clean(s \o <<p>>)
<1> DEFINE c == s \o <<p>>
<1>1. /\ DOMAIN c = 1 .. Len(s) + 1 /\ c[Len(s) + 1] = p
      /\ \A k \in 1 .. Len(s) : c[k] = s[k]
      /\ DOMAIN s = 1 .. Len(s) /\ Len(s) \in Nat
  OBVIOUS
<1> HIDE DEF c
<1>2. ASSUME NEW k \in 1 .. Len(s) + 1 PROVE Decodes(c[k])
  <2>1. CASE k = Len(s) + 1
    BY <1>1, <2>1 DEF Decodes
  <2>2. CASE k # Len(s) + 1
    <3>1. k \in 1 .. Len(s)
      BY <1>1, <2>2
    <3> QED
      BY <1>1, <3>1 DEF Clean
  <2> QED
    BY <2>1, <2>2
<1> QED
  BY <1>1, <1>2 DEF Clean, c

\* Behind the active segment all is durable, in the process's names too.
LEMMA Behind ==
  ASSUME NEW f, FsOK(f), NEW a \in Ids, Sound(f, a), NEW id \in Ids, id < a
  PROVE  SegOf(f, id).synced = SegOf(f, id).bytes
<1>1. CASE SegOf(f, id).live
  BY <1>1, SegShape, IdsAre DEF Sound
<1>2. CASE ~SegOf(f, id).live
  BY <1>2, SegShape
<1> QED
  BY <1>1, <1>2

-----------------------------------------------------------------------------
\* Steps of the open log that do not touch a file.
LEMMA QuietDisk ==
  ASSUME DiskInv, boot = "up", boot' = "up", UNCHANGED <<fs, history>>,
         writer'.active = writer.active,
         \/ writer' = writer /\ (writer.stage \in ResetStages =>
               promised' = promised /\ \A t \in Threads : pc'[t] \in {"idle", "reset"})
         \/ writer'.stage \in {"none", "append", "sync", "roll"}
  PROVE  DiskInv'
<1>1. UpDisk
  BY DEF DiskInv
<1>2. UpDisk'
  BY <1>1 DEF UpDisk, ResetStages
<1> QED
  BY <1>2 DEF DiskInv

\* A reset in progress is some thread's.
LEMMA ResetOwned ==
  ASSUME GroupInv, DiskInv, boot = "up", writer.stage \in ResetStages
  PROVE  \E t \in Threads : pc[t] = "reset"
  BY DEF GroupInv, OwnerAtWork, DiskInv, UpDisk, ResetStages

\* A caller's step is not taken during a reset, or leaves what a reset left.
LEMMA CallerDisk ==
  ASSUME GroupInv, LogInv, DiskInv, NEW t \in Threads,
         \/ Call(t) \/ Covered(t) \/ Park(t) \/ Lead(t) \/ CommitOk(t) \/ CommitErr(t)
         \/ SpuriousWake(t)
  PROVE  DiskInv'
<1>1. UNCHANGED <<fs, boot, writer, history>>
  BY DEF Call, Covered, Park, Lead, CommitOk, CommitErr, SpuriousWake, boundVars, ghostVars
<1>2. CASE SpuriousWake(t)
  <2>1. UNCHANGED <<pc, promised>>
    BY <1>2 DEF SpuriousWake, callVars, ghostVars
  <2> QED
    BY <1>1, <2>1 DEF DiskInv, UpDisk
<1>3. CASE ~SpuriousWake(t)
  <2>1. boot = "up"
    BY <1>3 DEF Call, Covered, Park, Lead, CommitOk, CommitErr, LogInv, BootOK
  <2>2. writer.stage \notin ResetStages
    <3>1. SUFFICES ASSUME writer.stage \in ResetStages PROVE FALSE
      OBVIOUS
    <3>2. \A u \in Threads : pc[u] \in {"idle", "reset"}
      BY <2>1, <3>1 DEF DiskInv, UpDisk
    <3>3. Call(t)
      BY <1>3, <3>2 DEF Covered, Park, Lead, CommitOk, CommitErr
    <3> QED
      BY <2>1, <3>1, <3>3, ResetOwned DEF Call
  <2> QED
    BY <1>1, <2>1, <2>2, QuietDisk
<1> QED
  BY <1>2, <1>3

-----------------------------------------------------------------------------
\* Locking and unlocking the writer keeps DiskInv.
LEMMA WriterDisk ==
  ASSUME GroupInv, DiskInv, NEW t \in Threads, LockWriter(t) \/ NoRoll(t) \/ OpFails(t), boot = "up"
  PROVE  DiskInv'
<1>1. UNCHANGED <<fs, boot, history>>
  BY DEF LockWriter, NoRoll, OpFails, ghostVars
<1>2. writer'.active = writer.active /\ writer'.stage \in {"none", "append", "sync", "roll"}
  <2>1. CASE LockWriter(t)
    <3>1. AfterFrames(batch[t]) \in {"append", "roll", "sync"}
      BY DEF AfterFrames
    <3> QED
      BY <2>1, <3>1, WriterRecord DEF LockWriter
  <2>2. CASE NoRoll(t) \/ OpFails(t)
    BY <2>2 DEF NoRoll, OpFails, Fail, WriterOf
  <2> QED
    BY <2>1, <2>2
<1> QED
  BY <1>1, <1>2, QuietDisk

\* The start of a reset keeps DiskInv.
LEMMA StartResetDisk ==
  ASSUME GroupInv, DiskInv, NEW t \in Threads, StartReset(t)
  PROVE  DiskInv'
<1>1. /\ boot = "up" /\ boot' = "up" /\ fs' = fs /\ history' = <<>> /\ promised' = {}
      /\ pc' = [pc EXCEPT ![t] = "reset"] /\ \A u \in Threads : pc[u] = "idle"
      /\ writer' = [writer EXCEPT !.owner = t, !.stage = "fresh", !.old = Segments(fs)]
  BY DEF StartReset, Goto
<1>2. writer'.active = writer.active /\ writer'.stage = "fresh" /\ writer'.owner = t
  BY <1>1, WriterRecord
<1>3. \A u \in Threads : pc'[u] \in {"idle", "reset"}
  BY <1>1 DEF GroupInv, GroupTypes
<1>4. UpDisk'
  BY <1>1, <1>2, <1>3 DEF DiskInv, UpDisk, ResetStages
<1> QED
  BY <1>1, <1>4 DEF DiskInv

\* What the writing of a frame does to the active segment.
LEMMA WriteEffect ==
  ASSUME GroupInv, LogInv, DiskInv, NEW t \in Threads, WriteFrame(t)
  PROVE  \E p \in Piece :
           LET a == writer.active
               new == SegOf(fs, a).bytes \o <<p>>
           IN
           /\ a \in Ids /\ p.state = "whole" /\ p.id.nth = writes + 1 /\ writes' = writes + 1
           /\ p.id.frame = Head(writer.todo).frame /\ history' = Append(history, p.id)
           /\ boot = "up" /\ boot' = "up" /\ UNCHANGED <<promised, covered, pc, mine, batch, coord>>
           /\ writer.stage = "append" /\ writer.owner = t /\ writer'.active = a
           /\ writer'.owner = t
           /\ writer'.todo = Tail(writer.todo) /\ writer'.stage = AfterFrames(Tail(writer.todo))
           /\ SegOf(fs, a).live /\ SegOf(fs, a).same /\ Elsewhere(fs, fs', a)
           /\ SegOf(fs', a).live /\ SegOf(fs', a).same
           /\ SegOf(fs', a).bytes = new /\ SegOf(fs', a).diskBytes = new
           /\ SegOf(fs', a).diskSynced = SegOf(fs, a).diskSynced
           /\ Sound(fs, a)
<1> DEFINE a == writer.active
           fr == Head(writer.todo).frame
           p == [id |-> [frame |-> fr, nth |-> writes + 1], state |-> "whole"]
           s == <<p>>
<1>1. /\ boot = "up" /\ boot' = "up" /\ UNCHANGED <<promised, covered, pc, mine, batch, coord>>
      /\ writes' = writes + 1 /\ history' = Append(history, p.id)
      /\ Fs!Exists(fs, Path(a)) /\ fs' = Fs!AppendTo(fs, Path(a), s)
      /\ writer.stage = "append" /\ writer.owner = t
      /\ writer' = [writer EXCEPT !.todo = Tail(@), !.offset = @ + 1,
                                  !.stage = AfterFrames(Tail(writer.todo))]
  BY DEF WriteFrame, Owns, Fs!Whole, Active, callVars, groupVars
<1>2. a \in Ids /\ FsOK(fs) /\ writes \in Nat /\ fr \in Nat
  BY <1>1, HeadFrame DEF LogInv, WriterOK, Counts
<1>3. p \in Piece /\ p.state = "whole" /\ p.id.nth = writes + 1 /\ p.id.frame = fr
  BY <1>2 DEF Piece, PieceId
<1>4. Sound(fs, a)
  BY <1>1 DEF DiskInv, UpDisk
<1>5. SegOf(fs, a).live /\ SegOf(fs, a).same
  <2> HIDE DEF a
  <2>1. SegOf(fs, a).live
    BY <1>1, <1>2, LiveSegment
  <2>2. a <= a
    BY <1>2, IdsAre
  <2> QED
    BY <1>2, <1>4, <2>1, <2>2 DEF Sound
<1>6. /\ writer'.active = a /\ writer'.todo = Tail(writer.todo) /\ writer'.owner = t
      /\ writer'.stage = AfterFrames(Tail(writer.todo))
  BY <1>1, WriterRecord
<1> HIDE DEF p, fr, a
<1>7. s \in Seq(Piece)
  BY <1>3
<1> HIDE DEF s
<1>8. /\ Elsewhere(fs, fs', a)
      /\ SegOf(fs', a).live /\ SegOf(fs', a).same
      /\ SegOf(fs', a).bytes = SegOf(fs, a).bytes \o s
      /\ SegOf(fs', a).diskBytes = SegOf(fs, a).bytes \o s
      /\ SegOf(fs', a).diskSynced = SegOf(fs, a).diskSynced
  <2>1. fs' = Fs!AppendTo(fs, Path(a), s)
    BY <1>1
  <2>2. FsOK(fs) /\ a \in Ids
    BY <1>2
  <2>3. Appended(fs, fs', a, s)
    BY <1>5, <1>7, <2>1, <2>2, SegAppend
  <2> QED
    BY <1>5, <2>3 DEF Appended
<1> QED
  BY <1>1, <1>2, <1>3, <1>4, <1>5, <1>6, <1>8 DEF a, fr, s

\* A frame appended to the active segment keeps DiskInv.
LEMMA WriteDisk ==
  ASSUME GroupInv, LogInv, DiskInv, NEW t \in Threads, WriteFrame(t)
  PROVE  DiskInv'
<1> DEFINE a == writer.active
<1>1. PICK p \in Piece :
        /\ a \in Ids /\ p.state = "whole"
        /\ boot = "up" /\ boot' = "up" /\ writer'.active = a
        /\ writer'.stage = AfterFrames(Tail(writer.todo))
        /\ Elsewhere(fs, fs', a) /\ SegOf(fs', a).live /\ SegOf(fs', a).same
        /\ SegOf(fs', a).bytes = SegOf(fs, a).bytes \o <<p>>
        /\ SegOf(fs', a).diskBytes = SegOf(fs, a).bytes \o <<p>>
        /\ Sound(fs, a)
  BY WriteEffect
<1>2. AfterFrames(Tail(writer.todo)) \in {"append", "roll", "sync"}
  BY DEF AfterFrames
<1> HIDE DEF a
<1>3. SegOf(fs, a).bytes \in Seq(Piece) /\ Clean(SegOf(fs, a).bytes)
  BY <1>1, SegTypes DEF LogInv, Sound
<1>4. Clean(SegOf(fs', a).bytes) /\ Clean(SegOf(fs', a).diskBytes)
  BY <1>1, <1>3, CleanAppend
<1>5. Sound(fs', a)
  <2>1. \A id \in Ids : Clean(SegOf(fs', id).bytes) /\ Clean(SegOf(fs', id).diskBytes)
    BY <1>1, <1>4 DEF Sound, Elsewhere
  <2>2. \A id \in Ids : id > a \/ id < a => id # a /\ SegOf(fs', id) = SegOf(fs, id)
    BY <1>1, IdsAre DEF Elsewhere
  <2>3. \A id \in Ids : id <= a /\ SegOf(fs', id).live => SegOf(fs', id).same
    BY <1>1 DEF Sound, Elsewhere
  <2>4. a >= a
    BY <1>1, IdsAre
  <2> QED
    BY <1>1, <2>1, <2>2, <2>3, <2>4 DEF Sound
<1>6. UpDisk'
  BY <1>1, <1>2, <1>5 DEF UpDisk, ResetStages, a
<1> QED
  BY <1>1, <1>6 DEF DiskInv

\* What the barrier and the seal of a full segment do.
LEMMA SyncEffect ==
  ASSUME GroupInv, LogInv, DiskInv, NEW t \in Threads, SyncSegment(t) \/ Seal(t)
  PROVE  LET a == writer.active IN
         /\ a \in Ids /\ boot = "up" /\ boot' = "up" /\ Sound(fs, a)
         /\ writer'.active = a /\ writer'.todo = writer.todo /\ writer.owner = t /\ writer'.owner = t
         /\ writer'.stage \in {"roll", "create"} /\ writer.stage \in {"sync", "roll"}
         /\ Elsewhere(fs, fs', a) /\ SegOf(fs, a).live /\ SegOf(fs, a).same
         /\ SegOf(fs', a).live /\ SegOf(fs', a).same
         /\ SegOf(fs', a).bytes = SegOf(fs, a).bytes
         /\ SegOf(fs', a).diskBytes = SegOf(fs, a).bytes
         /\ SegOf(fs', a).synced = SegOf(fs, a).bytes
         /\ SegOf(fs', a).diskSynced = SegOf(fs, a).bytes
         /\ UNCHANGED <<history, promised, pc, mine, batch, coord, writes, covered>>
<1> DEFINE a == writer.active
<1>1. /\ boot = "up" /\ boot' = "up" /\ fs' = Fs!SyncFile(fs, Path(a)) /\ Fs!Exists(fs, Path(a))
      /\ writer.owner = t /\ writer.stage \in {"sync", "roll"}
      /\ \/ writer' = [writer EXCEPT !.stage = "roll"]
         \/ writer' = [writer EXCEPT !.stage = "create"]
      /\ UNCHANGED <<history, promised, pc, mine, batch, coord, writes, covered>>
  BY DEF SyncSegment, Seal, Owns, Active, ghostVars, callVars, groupVars
<1>2. a \in Ids /\ FsOK(fs) /\ Sound(fs, a)
  BY <1>1 DEF LogInv, WriterOK, DiskInv, UpDisk
<1>3. /\ writer'.active = a /\ writer'.todo = writer.todo /\ writer'.stage \in {"roll", "create"}
      /\ writer'.owner = t
  BY <1>1, WriterRecord
<1> HIDE DEF a
<1>4. SegOf(fs, a).live /\ SegOf(fs, a).same
  <2>1. SegOf(fs, a).live
    BY <1>1, <1>2, LiveSegment
  <2> QED
    BY <1>2, <2>1, IdsAre DEF Sound
<1>5. SegOf(fs, a).diskBytes = SegOf(fs, a).bytes
  BY <1>2, <1>4, SegShape
<1>6. /\ Elsewhere(fs, fs', a)
      /\ SegOf(fs', a).live /\ SegOf(fs', a).same
      /\ SegOf(fs', a).bytes = SegOf(fs, a).bytes
      /\ SegOf(fs', a).diskBytes = SegOf(fs, a).bytes
      /\ SegOf(fs', a).synced = SegOf(fs, a).bytes
      /\ SegOf(fs', a).diskSynced = SegOf(fs, a).bytes
  BY <1>1, <1>2, <1>4, <1>5, SegSync
<1> QED
  BY <1>1, <1>2, <1>3, <1>4, <1>6 DEF a

\* They keep DiskInv.
LEMMA SyncDisk ==
  ASSUME GroupInv, LogInv, DiskInv, NEW t \in Threads, SyncSegment(t) \/ Seal(t)
  PROVE  DiskInv'
<1> DEFINE a == writer.active
<1>1. /\ a \in Ids /\ boot = "up" /\ boot' = "up" /\ Sound(fs, a)
      /\ writer'.active = a /\ writer'.stage \in {"roll", "create"}
      /\ Elsewhere(fs, fs', a) /\ SegOf(fs, a).live
      /\ SegOf(fs', a).live /\ SegOf(fs', a).same
      /\ SegOf(fs', a).bytes = SegOf(fs, a).bytes
      /\ SegOf(fs', a).diskBytes = SegOf(fs, a).bytes
      /\ SegOf(fs', a).synced = SegOf(fs, a).bytes
  BY SyncEffect
<1> HIDE DEF a
<1>2. Sound(fs', a)
  <2>1. \A id \in Ids : Clean(SegOf(fs', id).bytes) /\ Clean(SegOf(fs', id).diskBytes)
    BY <1>1 DEF Sound, Elsewhere
  <2>2. \A id \in Ids : id > a \/ id < a => id # a /\ SegOf(fs', id) = SegOf(fs, id)
    BY <1>1, IdsAre DEF Elsewhere
  <2>3. \A id \in Ids : id <= a /\ SegOf(fs', id).live => SegOf(fs', id).same
    BY <1>1 DEF Sound, Elsewhere
  <2>4. a >= a
    BY <1>1, IdsAre
  <2> QED
    BY <1>1, <2>1, <2>2, <2>3, <2>4 DEF Sound
<1>3. UpDisk'
  BY <1>1, <1>2 DEF UpDisk, ResetStages, a
<1> QED
  BY <1>1, <1>3 DEF DiskInv

-----------------------------------------------------------------------------
\* g is f with a new, empty segment b that the disk does not know.
Created(f, g, b) ==
  /\ Elsewhere(f, g, b) /\ ~SegOf(f, b).live
  /\ SegOf(g, b).live
  /\ SegOf(g, b).bytes = <<>> /\ SegOf(g, b).synced = <<>>
  /\ SegOf(g, b).disk = SegOf(f, b).disk
  /\ SegOf(g, b).diskBytes = SegOf(f, b).diskBytes
  /\ SegOf(g, b).diskSynced = SegOf(f, b).diskSynced

\* A create of the file system is one in the sense of Created.
LEMMA CreatedIs ==
  ASSUME NEW f, FsOK(f), OneScratch(f), NEW b \in Ids, ~SegOf(f, b).live
  PROVE  Created(f, Fs!Create(f, Path(b)), b)
  BY SegCreate DEF Created

\* The disk of g knows the segments of f, in their process's state.
Published(f, g) ==
  \A id \in Ids :
    /\ SegOf(g, id).live = SegOf(f, id).live /\ SegOf(g, id).disk = SegOf(f, id).live
    /\ SegOf(g, id).same
    /\ SegOf(g, id).bytes = SegOf(f, id).bytes
    /\ SegOf(g, id).diskBytes = SegOf(f, id).bytes
    /\ SegOf(g, id).synced = SegOf(f, id).synced
    /\ SegOf(g, id).diskSynced = SegOf(f, id).synced

\* A directory sync is one in the sense of Published.
LEMMA PublishedIs ==
  ASSUME NEW f, FsOK(f)
  PROVE  Published(f, Fs!SyncDir(f))
  BY SegSyncDir DEF Published

\* A new segment ahead of the active one.
LEMMA CreatedAhead ==
  ASSUME NEW f, NEW g, NEW a \in Ids, NEW b \in Ids, a < b, Sound(f, a), Created(f, g, b)
  PROVE  Sound(g, a) /\ SegOf(g, a) = SegOf(f, a)
<1>1. \A id \in Ids : id # b => SegOf(g, id) = SegOf(f, id)
  BY DEF Created, Elsewhere
<1>2. SegOf(g, b).live /\ SegOf(g, b).bytes = <<>> /\ SegOf(g, b).diskBytes = <<>>
  BY DEF Created, Sound
<1>3. a \in Nat /\ b \in Nat /\ \A id \in Ids : id \in Nat
  BY IdsAre
<1>4. \A id \in Ids : (id <= a => id # b) /\ (id < a => id # b)
  BY <1>3
<1>5. \A id \in Ids : Clean(SegOf(g, id).bytes) /\ Clean(SegOf(g, id).diskBytes)
  BY <1>1, <1>2, EmptyIsClean DEF Sound
<1>6. \A id \in Ids : id > a => SegOf(g, id).bytes = <<>> /\ SegOf(g, id).diskBytes = <<>>
  BY <1>1, <1>2 DEF Sound
<1>7. \A id \in Ids : id <= a /\ SegOf(g, id).live => SegOf(g, id).same
  BY <1>1, <1>4 DEF Sound
<1>8. \A id \in Ids : id < a => SegOf(g, id).diskSynced = SegOf(g, id).diskBytes
  BY <1>1, <1>3, <1>4 DEF Sound
<1>9. b >= a
  BY <1>3
<1> QED
  BY <1>1, <1>2, <1>3, <1>4, <1>5, <1>6, <1>7, <1>8, <1>9 DEF Sound

\* What the create of the next segment does.
LEMMA CreateNextEffect ==
  ASSUME GroupInv, LogInv, DiskInv, NEW t \in Threads, CreateNext(t)
  PROVE  LET a == writer.active IN
         /\ a \in Ids /\ a + 1 \in Ids /\ boot = "up" /\ boot' = "up" /\ Sound(fs, a)
         /\ writer'.active = a /\ writer'.todo = writer.todo /\ writer.owner = t /\ writer'.owner = t
         /\ writer'.stage = "dirsync" /\ writer.stage = "create"
         /\ Created(fs, fs', a + 1)
         /\ UNCHANGED <<history, promised, pc, mine, batch, coord, writes, covered>>
<1> DEFINE a == writer.active
<1>1. /\ boot = "up" /\ boot' = "up" /\ fs' = Fs!Create(fs, Path(a + 1))
      /\ ~Fs!Exists(fs, Path(a + 1)) /\ writer.stage = "create" /\ writer.owner = t
      /\ writer' = [writer EXCEPT !.stage = "dirsync"]
      /\ UNCHANGED <<history, promised, pc, mine, batch, coord, writes, covered>>
  BY DEF CreateNext, Owns, ghostVars, callVars, groupVars
<1>2. a \in Ids /\ FsOK(fs) /\ Sound(fs, a) /\ OneScratch(fs) /\ a < MaxSegments
  BY <1>1, UpFacts DEF LogInv, WriterOK, DiskInv, UpDisk
<1>3. a + 1 \in Ids
  BY <1>2, IdsAre
<1>4. /\ writer'.active = a /\ writer'.todo = writer.todo /\ writer'.stage = "dirsync"
      /\ writer'.owner = t
  BY <1>1, WriterRecord
<1>5. ~SegOf(fs, a + 1).live
  BY <1>1, <1>3, LiveSegment
<1>6. Created(fs, fs', a + 1)
  BY <1>1, <1>2, <1>3, <1>5, CreatedIs
<1> QED
  BY <1>1, <1>2, <1>3, <1>4, <1>6

\* It keeps DiskInv.
LEMMA CreateNextDisk ==
  ASSUME GroupInv, LogInv, DiskInv, NEW t \in Threads, CreateNext(t)
  PROVE  DiskInv'
<1> DEFINE a == writer.active
           b == a + 1
<1>1. /\ a \in Ids /\ b \in Ids /\ boot = "up" /\ boot' = "up" /\ Sound(fs, a)
      /\ writer'.active = a /\ writer'.stage = "dirsync" /\ writer.stage = "create"
      /\ Created(fs, fs', b)
  BY CreateNextEffect
<1>2. a < b
  <2>1. a \in Nat /\ b = a + 1
    BY <1>1, IdsAre
  <2> HIDE DEF a, b
  <2> QED
    BY <2>1
<1>3. SegOf(fs, a).live /\ SegOf(fs, a).synced = SegOf(fs, a).bytes
  BY <1>1 DEF DiskInv, UpDisk
<1>4. writer'.active + 1 = b
  BY <1>1
<1> HIDE DEF a, b
<1>5. Sound(fs', a) /\ SegOf(fs', a) = SegOf(fs, a)
  BY <1>1, <1>2, CreatedAhead
<1>6. SegOf(fs', b).live
  BY <1>1 DEF Created
<1>7. UpDisk'
  BY <1>1, <1>3, <1>4, <1>5, <1>6 DEF UpDisk, ResetStages
<1> QED
  BY <1>1, <1>7 DEF DiskInv

\* What the switch to the next segment does.
LEMMA SwitchEffect ==
  ASSUME GroupInv, LogInv, DiskInv, NEW t \in Threads, SwitchSegment(t)
  PROVE  LET a == writer.active IN
         /\ a \in Ids /\ a + 1 \in Ids /\ boot = "up" /\ boot' = "up" /\ Sound(fs, a)
         /\ writer'.active = a + 1 /\ writer'.stage = "none" /\ writer.owner = t
         /\ writer.stage = "dirsync" /\ writer'.owner = NoThread
         /\ SegOf(fs, a).synced = SegOf(fs, a).bytes /\ SegOf(fs, a + 1).live
         /\ Published(fs, fs') /\ pc' = [pc EXCEPT ![t] = "ok"]
         /\ UNCHANGED <<history, promised, mine, batch, coord, writes, covered>>
<1> DEFINE a == writer.active
<1>1. /\ boot = "up" /\ boot' = "up" /\ fs' = Fs!SyncDir(fs)
      /\ writer.stage = "dirsync" /\ writer.owner = t
      /\ writer' = WriterOf(a + 1, 0) /\ pc' = [pc EXCEPT ![t] = "ok"]
      /\ UNCHANGED <<history, promised, mine, batch, coord, writes, covered>>
  BY DEF SwitchSegment, Owns, ghostVars, groupVars, Goto
<1>2. /\ a \in Ids /\ FsOK(fs) /\ Sound(fs, a) /\ a < MaxSegments
      /\ SegOf(fs, a).synced = SegOf(fs, a).bytes /\ SegOf(fs, a + 1).live
  BY <1>1 DEF LogInv, WriterOK, DiskInv, UpDisk
<1>3. a + 1 \in Ids
  BY <1>2, IdsAre
<1>4. writer'.active = a + 1 /\ writer'.stage = "none" /\ writer'.owner = NoThread
  BY <1>1 DEF WriterOf
<1>5. Published(fs, fs')
  BY <1>1, <1>2, PublishedIs
<1> QED
  BY <1>1, <1>2, <1>3, <1>4, <1>5

\* It keeps DiskInv: the segment it leaves was sealed.
LEMMA SwitchDisk ==
  ASSUME GroupInv, LogInv, DiskInv, NEW t \in Threads, SwitchSegment(t)
  PROVE  DiskInv'
<1> DEFINE a == writer.active
           b == a + 1
<1>1. /\ a \in Ids /\ b \in Ids /\ boot' = "up" /\ Sound(fs, a)
      /\ writer'.active = b /\ writer'.stage = "none"
      /\ SegOf(fs, a).synced = SegOf(fs, a).bytes /\ SegOf(fs, b).live
      /\ Published(fs, fs')
  BY SwitchEffect
<1>2. a \in Nat /\ b = a + 1 /\ \A id \in Ids : id \in Nat
  BY <1>1, IdsAre
<1> HIDE DEF a, b
<1>3. Sound(fs', b)
  <2>1. \A id \in Ids : Clean(SegOf(fs', id).bytes) /\ Clean(SegOf(fs', id).diskBytes)
    BY <1>1 DEF Sound, Published
  <2>2. \A id \in Ids : id > b => SegOf(fs', id).bytes = <<>> /\ SegOf(fs', id).diskBytes = <<>>
    <3>1. \A id \in Ids : id > b => id > a
      BY <1>2
    <3> QED
      BY <1>1, <3>1 DEF Sound, Published
  <2>3. \A id \in Ids : SegOf(fs', id).same
    BY <1>1 DEF Published
  <2>4. ASSUME NEW id \in Ids, id < b PROVE SegOf(fs', id).diskSynced = SegOf(fs', id).diskBytes
    <3>1. id < a \/ id = a
      BY <1>2, <2>4
    <3>2. SegOf(fs, id).synced = SegOf(fs, id).bytes
      BY <1>1, <3>1, Behind DEF LogInv
    <3> QED
      BY <1>1, <3>2 DEF Published
  <2>5. SegOf(fs', b).live /\ b >= b
    BY <1>1, <1>2 DEF Published
  <2> QED
    BY <1>1, <2>1, <2>2, <2>3, <2>4, <2>5 DEF Sound
<1>4. UpDisk'
  BY <1>1, <1>3 DEF UpDisk, ResetStages
<1> QED
  BY <1>1, <1>4 DEF DiskInv

-----------------------------------------------------------------------------
\* reset()'s create keeps DiskInv.
LEMMA ResetCreateDisk ==
  ASSUME GroupInv, LogInv, DiskInv, NEW t \in Threads, ResetCreate(t)
  PROVE  DiskInv'
<1> DEFINE a == writer.active
           b == NextId(writer.old)
<1>1. /\ boot = "up" /\ boot' = "up" /\ fs' = Fs!Create(fs, Path(b))
      /\ writer.stage = "fresh" /\ writer' = [writer EXCEPT !.stage = "publish"]
      /\ UNCHANGED <<history, promised, pc>>
  BY DEF ResetCreate, Owns, ghostVars, callVars
<1>2. /\ a \in Ids /\ FsOK(fs) /\ Sound(fs, a) /\ OneScratch(fs)
      /\ writer.old \in SUBSET Ids /\ b <= MaxSegments
      /\ \A id \in Ids : SegOf(fs, id).live => id \in writer.old
      /\ history = <<>> /\ promised = {} /\ writer.owner \in Threads
      /\ \A u \in Threads : pc[u] \in {"idle", "reset"}
  BY <1>1, UpFacts DEF LogInv, WriterOK, DiskInv, UpDisk, ResetStages
<1>3. /\ writer'.active = a /\ writer'.old = writer.old /\ writer'.stage = "publish"
      /\ writer'.owner = writer.owner
  BY <1>1, WriterRecord
<1>4. b \in Ids /\ \A id \in writer.old : id < b
  BY <1>2, IdsAre, NextIdFacts
<1> HIDE DEF a, b
<1>5. a < b
  <2>1. PICK id \in Ids : id >= a /\ SegOf(fs, id).live
    BY <1>2 DEF Sound
  <2>2. id < b
    BY <1>2, <1>4, <2>1
  <2> QED
    BY <1>2, <1>4, <2>1, <2>2, IdsAre
<1>6. ~SegOf(fs, b).live
  BY <1>2, <1>4, IdsAre
<1>7. Created(fs, fs', b)
  BY <1>1, <1>2, <1>4, <1>6, CreatedIs
<1>8. Sound(fs', a)
  BY <1>2, <1>4, <1>5, <1>7, CreatedAhead
<1>9. \A id \in Ids : SegOf(fs', id).live /\ id \notin writer'.old => id > a
  BY <1>2, <1>3, <1>5, <1>7 DEF Created, Elsewhere
<1>10. UpDisk'
  BY <1>1, <1>2, <1>3, <1>8, <1>9 DEF UpDisk, ResetStages
<1> QED
  BY <1>1, <1>10 DEF DiskInv

\* Its first directory sync keeps DiskInv.
LEMMA ResetPublishDisk ==
  ASSUME GroupInv, LogInv, DiskInv, NEW t \in Threads, ResetPublish(t)
  PROVE  DiskInv'
<1> DEFINE a == writer.active
<1>1. /\ boot = "up" /\ boot' = "up" /\ fs' = Fs!SyncDir(fs)
      /\ writer.stage = "publish" /\ writer' = [writer EXCEPT !.stage = "retire"]
      /\ UNCHANGED <<history, promised, pc>>
  BY DEF ResetPublish, Owns, ghostVars, callVars
<1>2. /\ a \in Ids /\ FsOK(fs) /\ Sound(fs, a)
      /\ \A id \in Ids : SegOf(fs, id).live /\ id \notin writer.old => id > a
      /\ history = <<>> /\ promised = {} /\ writer.owner \in Threads
      /\ \A u \in Threads : pc[u] \in {"idle", "reset"}
  BY <1>1, UpFacts DEF LogInv, DiskInv, UpDisk, ResetStages
<1>3. /\ writer'.active = a /\ writer'.old = writer.old /\ writer'.stage = "retire"
      /\ writer'.owner = writer.owner
  BY <1>1, WriterRecord
<1>4. Published(fs, fs')
  BY <1>1, <1>2, PublishedIs
<1> HIDE DEF a
<1>5. Sound(fs', a)
  <2>1. \A id \in Ids : Clean(SegOf(fs', id).bytes) /\ Clean(SegOf(fs', id).diskBytes)
    BY <1>2, <1>4 DEF Sound, Published
  <2>2. \A id \in Ids : id > a => SegOf(fs', id).bytes = <<>> /\ SegOf(fs', id).diskBytes = <<>>
    BY <1>2, <1>4 DEF Sound, Published
  <2>3. \A id \in Ids : SegOf(fs', id).same
    BY <1>4 DEF Published
  <2>4. \A id \in Ids : id < a => SegOf(fs', id).diskSynced = SegOf(fs', id).diskBytes
    BY <1>2, <1>4, Behind DEF Published
  <2>5. \E id \in Ids : id >= a /\ SegOf(fs', id).live
    BY <1>2, <1>4 DEF Sound, Published
  <2> QED
    BY <2>1, <2>2, <2>3, <2>4, <2>5 DEF Sound
<1>6. \A id \in Ids : SegOf(fs', id).live /\ id \notin writer'.old => id > a
  BY <1>2, <1>3, <1>4 DEF Published
<1>7. UpDisk'
  BY <1>1, <1>2, <1>3, <1>5, <1>6 DEF UpDisk, ResetStages
<1> QED
  BY <1>1, <1>7 DEF DiskInv

\* Its deletions, oldest first, keep DiskInv.
LEMMA ResetRetireDisk ==
  ASSUME GroupInv, LogInv, DiskInv, NEW t \in Threads, ResetRetire(t)
  PROVE  DiskInv'
<1> DEFINE a == writer.active
           b == Min(writer.old)
<1>1. /\ boot = "up" /\ boot' = "up" /\ fs' = Fs!Delete(fs, Path(b))
      /\ writer.stage = "retire" /\ writer.old # {}
      /\ writer' = [writer EXCEPT !.old = @ \ {b}]
      /\ UNCHANGED <<history, promised, pc>>
  BY DEF ResetRetire, Owns, ghostVars, callVars
<1>2. /\ a \in Ids /\ FsOK(fs) /\ Sound(fs, a)
      /\ writer.old \in SUBSET Ids
      /\ \A id \in Ids : SegOf(fs, id).live /\ id \notin writer.old => id > a
      /\ history = <<>> /\ promised = {} /\ writer.owner \in Threads
      /\ \A u \in Threads : pc[u] \in {"idle", "reset"}
      /\ \E id \in Ids : SegOf(fs, id).live /\ id \notin writer.old
  BY <1>1, UpFacts DEF LogInv, WriterOK, DiskInv, UpDisk, ResetStages
<1>3. /\ writer'.active = a /\ writer'.old = writer.old \ {b} /\ writer'.stage = "retire"
      /\ writer'.owner = writer.owner
  BY <1>1, WriterRecord
<1>4. b \in writer.old /\ b \in Ids
  BY <1>1, <1>2, IdsAre, MinOfNats
<1> HIDE DEF a, b
<1>5. /\ Elsewhere(fs, fs', b) /\ ~SegOf(fs', b).live /\ SegOf(fs', b).bytes = <<>>
      /\ SegOf(fs', b).diskBytes = SegOf(fs, b).diskBytes
      /\ SegOf(fs', b).diskSynced = SegOf(fs, b).diskSynced
  <2>1. FsOK(fs) /\ b \in Ids /\ fs' = Fs!Delete(fs, Path(b))
    BY <1>1, <1>2, <1>4
  <2> QED
    BY <2>1, SegDelete
<1>6. Sound(fs', a)
  <2>1. \A id \in Ids : Clean(SegOf(fs', id).bytes) /\ Clean(SegOf(fs', id).diskBytes)
    BY <1>2, <1>5, EmptyIsClean DEF Sound, Elsewhere
  <2>2. \A id \in Ids : id > a => SegOf(fs', id).bytes = <<>> /\ SegOf(fs', id).diskBytes = <<>>
    BY <1>2, <1>5 DEF Sound, Elsewhere
  <2>3. \A id \in Ids : id <= a /\ SegOf(fs', id).live => SegOf(fs', id).same
    BY <1>2, <1>5 DEF Sound, Elsewhere
  <2>4. \A id \in Ids : id < a => SegOf(fs', id).diskSynced = SegOf(fs', id).diskBytes
    BY <1>2, <1>5 DEF Sound, Elsewhere
  <2>5. PICK id \in Ids : SegOf(fs, id).live /\ id \notin writer.old
    BY <1>2
  <2>6. id > a /\ id # b
    BY <1>2, <1>4, <2>5
  <2>7. id >= a /\ SegOf(fs', id).live
    BY <1>2, <1>5, <2>5, <2>6, IdsAre DEF Elsewhere
  <2> QED
    BY <2>1, <2>2, <2>3, <2>4, <2>7 DEF Sound
<1>7. \A id \in Ids : SegOf(fs', id).live /\ id \notin writer'.old => id > a
  BY <1>2, <1>3, <1>5 DEF Elsewhere
<1>8. UpDisk'
  BY <1>1, <1>2, <1>3, <1>6, <1>7 DEF UpDisk, ResetStages
<1> QED
  BY <1>1, <1>8 DEF DiskInv

\* Its end keeps DiskInv: only the fresh segment is left.
LEMMA ResetDoneDisk ==
  ASSUME GroupInv, LogInv, DiskInv, NEW t \in Threads, ResetDone(t)
  PROVE  DiskInv'
<1>1. /\ boot = "up" /\ boot' = "up" /\ fs' = Fs!SyncDir(fs) /\ writer.stage = "retire"
      /\ writer.old = {} /\ writer' = WriterOf(Max(Segments(fs)), 0)
  BY DEF ResetDone, Owns
<1>2. PICK b \in Ids : /\ Segments(fs) = {b} /\ Max(Segments(fs)) = b
                       /\ \A j \in Ids : SegOf(fs, j).bytes = <<>>
  BY <1>1, FreshAlone
<1>3. FsOK(fs) /\ FsType(fs)
  BY DEF LogInv, FsOK
<1>4. Published(fs, fs')
  BY <1>1, <1>3, PublishedIs
<1>5. \A id \in Ids : SegOf(fs, id).live <=> id = b
  BY <1>2, <1>3, SegmentFacts
<1>6. writer'.active = b /\ writer'.stage = "none"
  BY <1>1, <1>2 DEF WriterOf
<1>7. Sound(fs', b)
  <2>1. \A id \in Ids : SegOf(fs', id).bytes = <<>> /\ SegOf(fs', id).diskBytes = <<>>
                        /\ SegOf(fs', id).same
    BY <1>2, <1>4 DEF Published
  <2>2. ASSUME NEW id \in Ids, id < b PROVE SegOf(fs', id).diskSynced = SegOf(fs', id).diskBytes
    <3>1. ~SegOf(fs, id).live
      BY <1>5, <2>2, IdsAre
    <3>2. SegOf(fs, id).synced = <<>>
      BY <1>3, <3>1, SegShape
    <3> QED
      BY <1>4, <2>1, <3>2 DEF Published
  <2>3. SegOf(fs', b).live /\ b >= b
    BY <1>4, <1>5, IdsAre DEF Published
  <2> QED
    BY <2>1, <2>2, <2>3, EmptyIsClean DEF Sound
<1>8. UpDisk'
  BY <1>6, <1>7 DEF UpDisk, ResetStages
<1> QED
  BY <1>1, <1>8 DEF DiskInv

-----------------------------------------------------------------------------
SameSegments(f, g) == \A id \in Ids : SegOf(g, id) = SegOf(f, id)

\* The steps of a repair that work on the scratch file only.
LEMMA RepairEffect ==
  ASSUME LogInv, DropTmp \/ CreateTmp \/ CopyValid \/ SyncTmp
  PROVE  /\ SameSegments(fs, fs') /\ boot \in Repairing /\ boot' \in Repairing
         /\ UNCHANGED <<history, promised, pc, mine, batch, coord, writes, covered, writer>>
<1>1. /\ boot \in Repairing /\ boot' \in Repairing
      /\ UNCHANGED <<history, promised, pc, mine, batch, coord, writes, covered, writer>>
  BY DEF DropTmp, CreateTmp, CopyValid, SyncTmp, Booting, BootTo, ghostVars, callVars,
         groupVars, Repairing
<1>2. PICK a \in Ids :
        /\ TailId = a /\ FsOK(fs) /\ FsType(fs) /\ OneScratch(fs) /\ ScratchOK(fs, boot)
        /\ BadTail(fs, a) /\ Valid(fs, TailId) = ValidOf(SegOf(fs, a).bytes)
  BY <1>1, RepairFacts
<1> DEFINE v == ValidOf(SegOf(fs, a).bytes)
<1>3. Tmp(a) \in Names
  BY NameFacts
<1>4. \A q \in Names : q # Tmp(a) => View(fs', q) = View(fs, q)
  <2>1. CASE DropTmp
    BY <1>2, <1>3, <2>1, DeleteFacts DEF DropTmp
  <2>2. CASE CreateTmp
    <3>1. fs.live[Tmp(a)] = 0 /\ fs' = Fs!Create(fs, Tmp(a))
      BY <1>2, <2>2 DEF CreateTmp, Booting, ScratchOK, ScratchOf, View
    <3> QED
      BY <1>2, <1>3, <3>1, CreateFacts
  <2>3. CASE CopyValid
    <3>1. fs.live[Tmp(a)] # 0 /\ fs' = Fs!AppendTo(fs, Tmp(a), v)
      BY <1>2, <2>3 DEF CopyValid, Booting, ScratchOK, ScratchOf, View
    <3>2. v \in Seq(Piece)
      BY <1>2, SegmentFacts, ValidOfFacts
    <3> HIDE DEF v
    <3> QED
      BY <1>2, <1>3, <3>1, <3>2, AppendFacts
  <2>4. CASE SyncTmp
    <3>1. fs.live[Tmp(a)] # 0 /\ fs' = Fs!SyncFile(fs, Tmp(a))
      BY <1>2, <2>4 DEF SyncTmp, Booting, ScratchOK, ScratchOf, View
    <3> QED
      BY <1>2, <1>3, <3>1, SyncFileFacts
  <2> QED
    BY <2>1, <2>2, <2>3, <2>4
<1>5. SameSegments(fs, fs')
  BY <1>4, SegmentsKept DEF SameSegments
<1> QED
  BY <1>1, <1>5

\* Work on the scratch file keeps DiskInv.
LEMMA RepairDisk ==
  ASSUME LogInv, DiskInv, DropTmp \/ CreateTmp \/ CopyValid \/ SyncTmp
  PROVE  DiskInv'
<1>1. SameSegments(fs, fs') /\ boot \in Repairing /\ boot' \in Repairing
  BY RepairEffect
<1>2. BootDisk(fs, boot) /\ boot' # "up"
  BY <1>1 DEF DiskInv, Repairing
<1>3. BootDisk(fs', boot')
  BY <1>1, <1>2 DEF BootDisk, SameSegments, Repairing
<1> QED
  BY <1>2, <1>3 DEF DiskInv

\* So does the scan.
LEMMA ScanDisk ==
  ASSUME LogInv, DiskInv, Scan
  PROVE  DiskInv'
<1>1. /\ boot = "scan" /\ fs' = fs
      /\ boot' = IF Scanned(fs) # {} /\ Unclean(fs, TailId) THEN "drop" ELSE "activate"
  BY DEF Scan, BootTo
<1>2. BootDisk(fs, "scan") /\ FsType(fs)
  BY <1>1 DEF DiskInv, LogInv, FsOK
<1>3. boot' = "activate" => \A id \in Ids : Clean(SegOf(fs, id).bytes)
  BY <1>1, <1>2, TailFacts DEF TailId
<1>4. BootDisk(fs', boot')
  BY <1>1, <1>2, <1>3 DEF BootDisk, Repairing
<1> QED
  BY <1>1, <1>4 DEF DiskInv

\* Of an undamaged segment a scan keeps everything.
LEMMA WholeIsValid ==
  ASSUME NEW s \in Seq(Piece), Clean(s)
  PROVE  ValidOf(s) = s
<1>1. ValidLen(s) = Len(s)
  BY ValidLenFacts
<1>2. ValidOf(s) \in Seq(Piece) /\ Len(ValidOf(s)) = Len(s)
      /\ \A k \in 1 .. Len(s) : ValidOf(s)[k] = s[k]
  BY <1>1, ValidOfFacts
<1> QED
  BY <1>2

\* The rename keeps DiskInv: the disk still has the damaged segment.
LEMMA RenameDisk ==
  ASSUME LogInv, DiskInv, RenameTmp
  PROVE  DiskInv'
<1>1. boot = "rename" /\ boot' = "dirsync"
  BY DEF RenameTmp, Booting, BootTo
<1>2. BootDisk(fs, "rename") /\ FsOK(fs)
  BY <1>1 DEF DiskInv, LogInv
<1>3. PICK a \in Ids :
         /\ BadTail(fs, a) /\ FsOK(fs')
         /\ SegOf(fs', a).live
         /\ SegOf(fs', a).bytes = ValidOf(SegOf(fs, a).bytes)
         /\ SegOf(fs', a).synced = SegOf(fs', a).bytes
         /\ SegOf(fs', a).disk = SegOf(fs, a).disk
         /\ SegOf(fs', a).diskBytes = SegOf(fs, a).diskBytes
         /\ SegOf(fs', a).diskSynced = SegOf(fs, a).diskSynced
         /\ \A id \in Ids : id # a => SegOf(fs', id) = SegOf(fs, id)
  BY RenameEffect
<1>4. \A id \in Ids : /\ SegOf(fs, id).same
                      /\ SegOf(fs, id).diskSynced = SegOf(fs, id).diskBytes
                      /\ SegOf(fs, id).bytes = SegOf(fs, id).diskBytes
                      /\ SegOf(fs, id).synced = SegOf(fs, id).diskSynced
                      /\ SegOf(fs, id).live = SegOf(fs, id).disk
  BY <1>2, SegShape DEF BootDisk, Repairing
<1>5. SegOf(fs, a).live
  <2>1. SegOf(fs, a).bytes # <<>>
    BY <1>3, EmptyIsClean DEF BadTail
  <2> QED
    BY <1>2, <2>1, SegShape
<1>6. ASSUME NEW id \in Ids, id # a
      PROVE  SegOf(fs, id).bytes = ValidOf(SegOf(fs, id).diskBytes)
  <2>1. Clean(SegOf(fs, id).diskBytes)
    <3>1. CASE id < a
      BY <1>3, <1>4, <3>1 DEF BadTail
    <3>2. CASE id > a
      <4>1. ~Clean(SegOf(fs, a).diskBytes)
        BY <1>3, <1>4 DEF BadTail
      <4>2. SegOf(fs, id).diskBytes = <<>>
        BY <1>2, <3>2, <4>1 DEF BootDisk
      <4> QED
        BY <4>2, EmptyIsClean
    <3> QED
      BY <1>6, <3>1, <3>2, IdsAre
  <2>2. SegOf(fs, id).diskBytes \in Seq(Piece)
    BY <1>2, SegTypes
  <2> QED
    BY <1>4, <2>1, <2>2, WholeIsValid
<1>7. \A id \in Ids : /\ SegOf(fs', id).synced = SegOf(fs', id).bytes
                      /\ SegOf(fs', id).live <=> SegOf(fs', id).disk
                      /\ SegOf(fs', id).bytes = ValidOf(SegOf(fs', id).diskBytes)
  BY <1>3, <1>4, <1>5, <1>6
<1>8. BootDisk(fs', "dirsync")
  <2>1. \A id \in Ids : /\ SegOf(fs', id).diskBytes = SegOf(fs, id).diskBytes
                        /\ SegOf(fs', id).diskSynced = SegOf(fs, id).diskSynced
    BY <1>3
  <2> QED
    BY <1>2, <1>7, <2>1 DEF BootDisk, Repairing
<1> QED
  BY <1>1, <1>8 DEF DiskInv

\* Once the rename is durable no segment is damaged.
LEMMA SyncRenameDisk ==
  ASSUME LogInv, DiskInv, SyncRename
  PROVE  DiskInv'
<1>1. boot = "dirsync" /\ boot' = "activate" /\ fs' = Fs!SyncDir(fs)
  BY DEF SyncRename, Booting, BootTo
<1>2. BootDisk(fs, "dirsync") /\ FsOK(fs)
  BY <1>1 DEF DiskInv, LogInv
<1>3. Published(fs, fs')
  BY <1>1, <1>2, PublishedIs
<1>4. \A id \in Ids : Clean(SegOf(fs, id).bytes) /\ SegOf(fs, id).synced = SegOf(fs, id).bytes
  BY <1>2, SegTypes, ValidOfFacts DEF BootDisk
<1>5. BootDisk(fs', "activate")
  BY <1>3, <1>4 DEF BootDisk, Published, Repairing
<1> QED
  BY <1>1, <1>5 DEF DiskInv

\* The log opens with every segment sound.
LEMMA ActivateDisk ==
  ASSUME LogInv, DiskInv, Activate
  PROVE  DiskInv'
<1> DEFINE a == Max(Segments(fs))
<1>1. /\ boot = "activate" /\ boot' = "up" /\ fs' = fs /\ Segments(fs) # {}
      /\ writer' = WriterOf(a, Len(Fs!Content(fs, Path(a))))
  BY DEF Activate, BootTo
<1>2. BootDisk(fs, "activate") /\ FsOK(fs) /\ FsType(fs)
  BY <1>1 DEF DiskInv, LogInv, FsOK
<1>3. Segments(fs) = {id \in Ids : SegOf(fs, id).live} /\ Segments(fs) \in SUBSET Nat
  BY <1>2, SegmentFacts, IdsAre
<1>4. a \in Segments(fs) /\ \A id \in Segments(fs) : id <= a
  BY <1>1, <1>3, IdsAre, MaxOfNats
<1>5. writer'.active = a /\ writer'.stage = "none"
  BY <1>1 DEF WriterOf
<1> HIDE DEF a
<1>6. Sound(fs, a)
  <2>1. \A id \in Ids : /\ SegOf(fs, id).same /\ Clean(SegOf(fs, id).bytes)
                        /\ SegOf(fs, id).diskSynced = SegOf(fs, id).diskBytes
                        /\ SegOf(fs, id).bytes = SegOf(fs, id).diskBytes
    BY <1>2, SegShape DEF BootDisk
  <2>2. ASSUME NEW id \in Ids, id > a PROVE SegOf(fs, id).bytes = <<>>
    <3>1. ~SegOf(fs, id).live
      BY <1>3, <1>4, <2>2, IdsAre
    <3> QED
      BY <1>2, <3>1, SegShape
  <2>3. a \in Ids /\ SegOf(fs, a).live /\ a >= a
    BY <1>3, <1>4, IdsAre
  <2> QED
    BY <2>1, <2>2, <2>3 DEF Sound
<1>7. UpDisk'
  BY <1>1, <1>5, <1>6 DEF UpDisk, ResetStages
<1> QED
  BY <1>1, <1>7 DEF DiskInv

\* What the create of the first segment does.
LEMMA CreateFirstEffect ==
  ASSUME LogInv, DiskInv, CreateFirst
  PROVE  /\ boot = "activate" /\ boot' = "mkdir" /\ Created(fs, fs', 1)
         /\ BootDisk(fs, "activate") /\ FsOK(fs)
         /\ \A id \in Ids : ~SegOf(fs, id).live
         /\ UNCHANGED <<history, promised, pc, mine, batch, coord, writes, covered, writer>>
<1>1. /\ boot = "activate" /\ boot' = "mkdir" /\ Segments(fs) = {} /\ fs' = Fs!Create(fs, Path(1))
      /\ UNCHANGED <<history, promised, pc, mine, batch, coord, writes, covered, writer>>
  BY DEF CreateFirst, BootTo, ghostVars, callVars, groupVars
<1>2. BootDisk(fs, "activate") /\ FsOK(fs) /\ FsType(fs) /\ OneScratch(fs) /\ 1 \in Ids
  BY <1>1, ScratchAlone, IdsAre DEF DiskInv, LogInv, FsOK, BootOK
<1>3. \A id \in Ids : ~SegOf(fs, id).live
  BY <1>1, <1>2, SegmentFacts
<1>4. Created(fs, fs', 1)
  BY <1>1, <1>2, <1>3, CreatedIs
<1> QED
  BY <1>1, <1>2, <1>3, <1>4

\* It keeps DiskInv.
LEMMA CreateFirstDisk ==
  ASSUME LogInv, DiskInv, CreateFirst
  PROVE  DiskInv'
<1>1. /\ boot' = "mkdir" /\ Created(fs, fs', 1) /\ BootDisk(fs, "activate") /\ FsOK(fs)
      /\ \A id \in Ids : ~SegOf(fs, id).live
  BY CreateFirstEffect
<1>2. \A id \in Ids : ~SegOf(fs, id).disk /\ SegOf(fs, id).bytes = <<>>
  BY <1>1, SegShape DEF BootDisk
<1>3. \A id \in Ids : /\ SegOf(fs', id).disk = SegOf(fs, id).disk
                      /\ SegOf(fs', id).bytes = <<>>
                      /\ SegOf(fs', id).diskBytes = SegOf(fs, id).diskBytes
                      /\ SegOf(fs', id).diskSynced = SegOf(fs, id).diskSynced
  BY <1>1, <1>2 DEF Created, Elsewhere
<1>4. SegOf(fs', 1).live
  BY <1>1 DEF Created
<1>5. BootDisk(fs', "mkdir")
  BY <1>1, <1>2, <1>3, <1>4 DEF BootDisk, Repairing
<1> QED
  BY <1>1, <1>5 DEF DiskInv

\* So does the sync of its name.
LEMMA SyncFirstDisk ==
  ASSUME LogInv, DiskInv, SyncFirst
  PROVE  DiskInv'
<1>1. boot = "mkdir" /\ boot' = "up" /\ fs' = Fs!SyncDir(fs) /\ writer' = WriterOf(1, 0)
  BY DEF SyncFirst, BootTo
<1>2. BootDisk(fs, "mkdir") /\ FsOK(fs) /\ 1 \in Ids
  BY <1>1, IdsAre DEF DiskInv, LogInv
<1>3. Published(fs, fs')
  BY <1>1, <1>2, PublishedIs
<1>4. \A id \in Ids : SegOf(fs', id).bytes = <<>> /\ SegOf(fs', id).diskBytes = <<>>
                      /\ SegOf(fs', id).same
  BY <1>2, <1>3 DEF BootDisk, Published
<1>5. SegOf(fs', 1).live
  BY <1>2, <1>3 DEF BootDisk, Published
<1>6. \A id \in Ids : ~(id < 1) /\ 1 >= 1
  BY IdsAre
<1>7. Sound(fs', 1)
  BY <1>2, <1>4, <1>5, <1>6, EmptyIsClean DEF Sound
<1>8. writer'.active = 1 /\ writer'.stage = "none"
  BY <1>1 DEF WriterOf
<1>9. UpDisk'
  BY <1>7, <1>8 DEF UpDisk, ResetStages
<1> QED
  BY <1>1, <1>9 DEF DiskInv

-----------------------------------------------------------------------------
\* Only the last segment with anything in it has something to lose.
LastAtRisk(f) ==
  \A i, j \in Ids : i < j =>
    \/ SegOf(f, i).diskSynced = SegOf(f, i).diskBytes /\ Clean(SegOf(f, i).diskBytes)
    \/ SegOf(f, j).diskBytes = <<>>

\* At every moment only the newest data is at risk.
LEMMA AtRisk ==
  ASSUME LogInv, DiskInv
  PROVE  LastAtRisk(fs)
<1>1. CASE boot = "up"
  <2>1. PICK a \in Ids : Sound(fs, a)
    BY <1>1 DEF DiskInv, UpDisk, LogInv, WriterOK
  <2>2. ASSUME NEW i \in Ids, NEW j \in Ids, i < j PROVE i < a \/ j > a
    BY <2>2, IdsAre
  <2> QED
    BY <2>1, <2>2 DEF Sound, LastAtRisk
<1>2. CASE boot # "up"
  BY <1>2 DEF DiskInv, BootDisk, LastAtRisk
<1> QED
  BY <1>1, <1>2

\* What begins with a sequence and is no longer is that sequence.
LEMMA LeadsWhole ==
  ASSUME NEW a \in Seq(Piece), NEW c \in Seq(Piece), Leads(a, c), Len(c) <= Len(a)
  PROVE  c = a
<1>1. Len(c) = Len(a) /\ \A k \in 1 .. Len(a) : c[k] = a[k]
  BY DEF Leads
<1> QED
  BY <1>1

\* What is synced a power loss leaves alone, and what is empty.
LEMMA TornSynced ==
  ASSUME NEW f, FsOK(f), NEW id \in Ids, NEW c, Torn(c, SegOf(f, id))
  PROVE  /\ SegOf(f, id).diskSynced = SegOf(f, id).diskBytes => c = SegOf(f, id).diskBytes
         /\ SegOf(f, id).diskBytes = <<>> => c = <<>>
<1>1. SegOf(f, id).diskSynced \in Seq(Piece) /\ SegOf(f, id).diskBytes \in Seq(Piece)
  BY SegTypes
<1>2. /\ c \in Seq(Piece) /\ Leads(SegOf(f, id).diskSynced, c)
      /\ Len(c) <= Len(SegOf(f, id).diskBytes)
  BY DEF Torn
<1>3. SegOf(f, id).diskBytes = <<>> => c = <<>>
  BY <1>1, <1>2
<1> QED
  BY <1>1, <1>2, <1>3, LeadsWhole

\* A power loss leaves a disk that recovery can open.
LEMMA CrashDisk ==
  ASSUME LogInv, DiskInv, NEW image \in Fs!Crashes(fs)
  PROVE  BootDisk(image, "scan")
<1>1. \A id \in Ids :
        /\ SegOf(image, id).same
        /\ Torn(SegOf(image, id).bytes, SegOf(fs, id))
        /\ SegOf(image, id).diskBytes = SegOf(image, id).bytes
        /\ SegOf(image, id).diskSynced = SegOf(image, id).bytes
  BY CrashSegments DEF LogInv
<1>2. FsOK(fs)
  BY DEF LogInv
<1>3. CASE boot = "up"
  <2>1. ASSUME NEW i \in Ids, NEW j \in Ids, i < j
        PROVE  Clean(SegOf(image, i).diskBytes) \/ SegOf(image, j).diskBytes = <<>>
    <3>1. \/ SegOf(fs, i).diskSynced = SegOf(fs, i).diskBytes /\ Clean(SegOf(fs, i).diskBytes)
          \/ SegOf(fs, j).diskBytes = <<>>
      BY <2>1, AtRisk DEF LastAtRisk
    <3> QED
      BY <1>1, <1>2, <3>1, TornSynced
  <2> QED
    BY <1>1, <2>1 DEF BootDisk, Repairing
<1>4. CASE boot # "up"
  <2>1. BootDisk(fs, boot)
    BY <1>4 DEF DiskInv
  <2>2. \A id \in Ids : SegOf(image, id).bytes = SegOf(fs, id).diskBytes
    BY <1>1, <1>2, <2>1, TornSynced DEF BootDisk
  <2> QED
    BY <1>1, <2>1, <2>2 DEF BootDisk, Repairing
<1> QED
  BY <1>3, <1>4

\* An empty directory satisfies DiskInv.
LEMMA InitDisk == Init => DiskInv
<1> SUFFICES ASSUME Init PROVE DiskInv
  OBVIOUS
<1>1. fs = Fs!EmptyFs /\ boot = "scan"
  BY DEF Init
<1>2. \A id \in Ids : /\ SegOf(fs, id).diskBytes = <<>> /\ SegOf(fs, id).diskSynced = <<>>
                      /\ SegOf(fs, id).same
  BY <1>1, EmptyViews, NameFacts DEF SegOf
<1>3. BootDisk(fs, "scan")
  BY <1>2 DEF BootDisk, Repairing
<1> QED
  BY <1>1, <1>3 DEF DiskInv

\* Every step keeps DiskInv.
LEMMA DiskStep ==
  ASSUME Calm, GroupInv, LogInv, DiskInv, [Next]_vars
  PROVE  DiskInv'
<1>1. ASSUME NEW t \in Threads, Progress(t) PROVE DiskInv'
  <2>1. CASE LockWriter(t) \/ NoRoll(t) \/ OpFails(t)
    <3>1. boot = "up"
      BY <2>1 DEF LockWriter, NoRoll, OpFails, Owns, LogInv, BootOK
    <3> QED
      BY <2>1, <3>1, WriterDisk
  <2>2. CASE ~(LockWriter(t) \/ NoRoll(t) \/ OpFails(t))
    BY <1>1, <2>2, CallerDisk, WriteDisk, SyncDisk, CreateNextDisk, SwitchDisk,
       ResetCreateDisk, ResetPublishDisk, ResetRetireDisk, ResetDoneDisk DEF Progress
  <2> QED
    BY <2>1, <2>2
<1>2. CASE Boot
  BY <1>2, ScanDisk, RepairDisk, RenameDisk, SyncRenameDisk, ActivateDisk, CreateFirstDisk,
     SyncFirstDisk DEF Boot
<1>3. ASSUME NEW t \in Threads, Call(t) \/ StartReset(t) \/ SpuriousWake(t) \/ ShortWrite(t)
      PROVE  DiskInv'
  <2>1. ~ShortWrite(t)
    BY DEF ShortWrite, Fault, Calm
  <2> QED
    BY <1>3, <2>1, CallerDisk, StartResetDisk
<1>4. CASE PowerLoss \/ Kill \/ OpenFails
  <2>1. PICK image \in Fs!Crashes(fs) : Die(image)
    BY <1>4 DEF PowerLoss, Kill, OpenFails, Fault, Calm
  <2>2. fs' = image /\ boot' = "scan"
    BY <2>1 DEF Die
  <2> QED
    BY <2>1, <2>2, CrashDisk DEF DiskInv
<1>5. CASE UNCHANGED vars
  BY <1>5 DEF vars, callVars, ghostVars, DiskInv, UpDisk
<1> QED
  BY <1>1, <1>2, <1>3, <1>4, <1>5 DEF Next

-----------------------------------------------------------------------------
\* What the segments of either image hold.
Bytes(f) == [id \in Ids |-> SegOf(f, id).bytes]
DiskBytes(f) == [id \in Ids |-> SegOf(f, id).diskBytes]

\* The pieces of the segments are in the order they were written, the last no
\* later than the w-th of all.
Ordered(F, w) ==
  /\ \A id \in Ids : \A k \in 1 .. Len(F[id]) : F[id][k].id.nth <= w
  /\ \A i, j \in Ids : \A m \in 1 .. Len(F[i]), n \in 1 .. Len(F[j]) :
       Before(i, m, j, n) => F[i][m].id.nth < F[j][n].id.nth

\* Neither image has the pieces in another order than they were written in.
OrderInv == Ordered(Bytes(fs), writes) /\ Ordered(DiskBytes(fs), writes)

\* c has some of the first pieces of d, whatever became of their bytes.
Within(c, d) == Len(c) <= Len(d) /\ \A k \in 1 .. Len(c) : c[k].id = d[k].id

\* The order survives the loss of pieces.
LEMMA OrderedShrinks ==
  ASSUME NEW F \in [Ids -> Seq(Piece)], NEW G \in [Ids -> Seq(Piece)], NEW w,
         Ordered(F, w), \A id \in Ids : Within(G[id], F[id])
  PROVE  Ordered(G, w)
<1>1. ASSUME NEW id \in Ids, NEW k \in 1 .. Len(G[id])
      PROVE  k \in 1 .. Len(F[id]) /\ G[id][k].id = F[id][k].id
  <2>1. Len(F[id]) \in Nat /\ Len(G[id]) \in Nat /\ Len(G[id]) <= Len(F[id])
    BY DEF Within
  <2> QED
    BY <1>1, <2>1 DEF Within
<1>2. \A id \in Ids : \A k \in 1 .. Len(G[id]) : G[id][k].id.nth <= w
  BY <1>1 DEF Ordered
<1>3. ASSUME NEW i \in Ids, NEW j \in Ids, NEW m \in 1 .. Len(G[i]), NEW n \in 1 .. Len(G[j]),
             Before(i, m, j, n)
      PROVE  G[i][m].id.nth < G[j][n].id.nth
  <2>1. m \in 1 .. Len(F[i]) /\ n \in 1 .. Len(F[j]) /\ G[i][m].id = F[i][m].id
        /\ G[j][n].id = F[j][n].id
    BY <1>1
  <2>2. F[i][m].id.nth < F[j][n].id.nth
    BY <1>3, <2>1 DEF Ordered
  <2> QED
    BY <2>1, <2>2
<1> QED
  BY <1>2, <1>3 DEF Ordered

\* The next piece goes behind all others.
LEMMA OrderedGrows ==
  ASSUME NEW F \in [Ids -> Seq(Piece)], NEW G, NEW w \in Nat, Ordered(F, w),
         NEW a \in Ids, NEW p \in Piece, p.id.nth = w + 1, G[a] = F[a] \o <<p>>,
         \A id \in Ids : id # a => G[id] = F[id], \A id \in Ids : id > a => F[id] = <<>>
  PROVE  Ordered(G, w + 1)
<1> DEFINE l == Len(F[a])
<1>1. /\ l \in Nat /\ Len(G[a]) = l + 1 /\ G[a][l + 1] = p
      /\ \A k \in 1 .. l : G[a][k] = F[a][k]
  <2>1. F[a] \in Seq(Piece)
    OBVIOUS
  <2> DEFINE s == F[a]
  <2> HIDE DEF s
  <2>2. Len(s \o <<p>>) = Len(s) + 1 /\ (s \o <<p>>)[Len(s) + 1] = p
        /\ \A k \in 1 .. Len(s) : (s \o <<p>>)[k] = s[k]
    BY <2>1 DEF s
  <2> QED
    BY <2>1, <2>2 DEF s
<1>2. \A id \in Ids : \A k \in 1 .. Len(F[id]) : F[id][k].id.nth \in Nat
  <2> TAKE id \in Ids
  <2>1. F[id] \in Seq(Piece)
    OBVIOUS
  <2>2. \A k \in 1 .. Len(F[id]) : F[id][k] \in Piece
    BY <2>1
  <2> QED
    BY <2>2 DEF Piece, PieceId
<1> HIDE DEF l
\* A piece of G is one of F, or the new one.
<1>3. ASSUME NEW id \in Ids, NEW k \in 1 .. Len(G[id])
      PROVE  \/ id = a /\ k = l + 1 /\ G[id][k] = p
             \/ k \in 1 .. Len(F[id]) /\ G[id][k] = F[id][k]
  <2>1. CASE id = a
    <3>1. k \in 1 .. l + 1
      BY <1>1, <1>3, <2>1
    <3>2. k = l + 1 \/ k \in 1 .. l
      BY <1>1, <3>1
    <3> QED
      BY <1>1, <2>1, <3>2 DEF l
  <2>2. CASE id # a
    BY <1>3, <2>2
  <2> QED
    BY <2>1, <2>2
<1>4. \A id \in Ids : \A k \in 1 .. Len(G[id]) : G[id][k].id.nth <= w + 1
  <2> SUFFICES ASSUME NEW id \in Ids, NEW k \in 1 .. Len(G[id]) PROVE G[id][k].id.nth <= w + 1
    OBVIOUS
  <2>1. CASE G[id][k] = p
    BY <2>1
  <2>2. CASE k \in 1 .. Len(F[id]) /\ G[id][k] = F[id][k]
    <3>1. F[id][k].id.nth <= w /\ F[id][k].id.nth \in Nat
      BY <1>2, <2>2 DEF Ordered
    <3> QED
      BY <2>2, <3>1
  <2> QED
    BY <1>3, <2>1, <2>2
<1>5. ASSUME NEW i \in Ids, NEW j \in Ids, NEW m \in 1 .. Len(G[i]), NEW n \in 1 .. Len(G[j]),
             Before(i, m, j, n)
      PROVE  G[i][m].id.nth < G[j][n].id.nth
  <2>1. CASE m \in 1 .. Len(F[i]) /\ G[i][m] = F[i][m] /\ n \in 1 .. Len(F[j]) /\ G[j][n] = F[j][n]
    <3>1. F[i][m].id.nth < F[j][n].id.nth
      BY <1>5, <2>1 DEF Ordered
    <3> QED
      BY <2>1, <3>1
  <2>2. CASE m \in 1 .. Len(F[i]) /\ G[i][m] = F[i][m] /\ G[j][n] = p
    <3>1. F[i][m].id.nth <= w /\ F[i][m].id.nth \in Nat
      BY <1>2, <2>2 DEF Ordered
    <3> QED
      BY <2>2, <3>1
  <2>3. CASE i = a /\ m = l + 1
    <3>1. a < j \/ (a = j /\ l + 1 < n)
      BY <1>5, <2>3 DEF Before
    <3>2. CASE a < j
      <4>1. j > a /\ j # a
        BY <3>2, IdsAre
      <4>2. F[j] = <<>> /\ G[j] = F[j]
        BY <4>1
      <4> QED
        BY <4>2
    <3>3. CASE a = j /\ l + 1 < n
      <4>1. n \in 1 .. l + 1
        BY <1>1, <3>3
      <4> QED
        BY <1>1, <3>3, <4>1
    <3> QED
      BY <3>1, <3>2, <3>3
  <2> QED
    BY <1>3, <2>1, <2>2, <2>3
<1> QED
  BY <1>4, <1>5 DEF Ordered

\* The contents of the segments are typed.
LEMMA BytesTypes ==
  ASSUME NEW f, FsOK(f)
  PROVE  Bytes(f) \in [Ids -> Seq(Piece)] /\ DiskBytes(f) \in [Ids -> Seq(Piece)]
  BY SegTypes DEF Bytes, DiskBytes

\* A sequence, none of it, and what a scan keeps of it are within it.
LEMMA WithinItself ==
  ASSUME NEW s \in Seq(Piece)
  PROVE  Within(s, s) /\ Within(<<>>, s) /\ Within(ValidOf(s), s)
<1>1. Len(s) \in Nat /\ Len(<<>>) = 0
  OBVIOUS
<1>2. Within(s, s) /\ Within(<<>>, s)
  BY <1>1 DEF Within
<1>3. /\ ValidLen(s) \in 0 .. Len(s) /\ Len(ValidOf(s)) = ValidLen(s)
      /\ \A k \in 1 .. ValidLen(s) : ValidOf(s)[k] = s[k]
  BY ValidLenFacts, ValidOfFacts
<1>4. Within(ValidOf(s), s)
  BY <1>1, <1>3 DEF Within
<1> QED
  BY <1>2, <1>4

\* A step that writes nothing new: what a segment holds it held before, in the
\* same image or, once the disk knows it, in the other.
LEMMA NothingNew ==
  ASSUME NEW f, NEW g, FsOK(f), FsOK(g), NEW w, Ordered(Bytes(f), w), Ordered(DiskBytes(f), w),
         \/ \A id \in Ids : Within(SegOf(g, id).bytes, SegOf(f, id).bytes)
         \/ \A id \in Ids : Within(SegOf(g, id).bytes, SegOf(f, id).diskBytes),
         \/ \A id \in Ids : Within(SegOf(g, id).diskBytes, SegOf(f, id).bytes)
         \/ \A id \in Ids : Within(SegOf(g, id).diskBytes, SegOf(f, id).diskBytes)
  PROVE  Ordered(Bytes(g), w) /\ Ordered(DiskBytes(g), w)
<1>1. /\ Bytes(f) \in [Ids -> Seq(Piece)] /\ DiskBytes(f) \in [Ids -> Seq(Piece)]
      /\ Bytes(g) \in [Ids -> Seq(Piece)] /\ DiskBytes(g) \in [Ids -> Seq(Piece)]
  BY BytesTypes
<1>2. /\ \/ \A id \in Ids : Within(Bytes(g)[id], Bytes(f)[id])
         \/ \A id \in Ids : Within(Bytes(g)[id], DiskBytes(f)[id])
      /\ \/ \A id \in Ids : Within(DiskBytes(g)[id], Bytes(f)[id])
         \/ \A id \in Ids : Within(DiskBytes(g)[id], DiskBytes(f)[id])
  BY DEF Bytes, DiskBytes
<1> QED
  BY <1>1, <1>2, OrderedShrinks

\* A frame is appended behind all others, as the newest of them.
LEMMA WriteOrder ==
  ASSUME GroupInv, LogInv, DiskInv, OrderInv, NEW t \in Threads, WriteFrame(t)
  PROVE  OrderInv'
<1> DEFINE a == writer.active
<1>1. PICK p \in Piece :
        /\ a \in Ids /\ p.id.nth = writes + 1 /\ writes' = writes + 1
        /\ SegOf(fs, a).same /\ Elsewhere(fs, fs', a) /\ Sound(fs, a)
        /\ SegOf(fs', a).bytes = SegOf(fs, a).bytes \o <<p>>
        /\ SegOf(fs', a).diskBytes = SegOf(fs, a).bytes \o <<p>>
  BY WriteEffect
<1> HIDE DEF a
<1>2. /\ Bytes(fs) \in [Ids -> Seq(Piece)] /\ DiskBytes(fs) \in [Ids -> Seq(Piece)]
      /\ writes \in Nat /\ SegOf(fs, a).diskBytes = SegOf(fs, a).bytes
  BY <1>1, BytesTypes, SegShape DEF LogInv, Counts
<1>3. /\ Bytes(fs')[a] = Bytes(fs)[a] \o <<p>> /\ DiskBytes(fs')[a] = DiskBytes(fs)[a] \o <<p>>
      /\ \A id \in Ids : id # a => Bytes(fs')[id] = Bytes(fs)[id]
      /\ \A id \in Ids : id # a => DiskBytes(fs')[id] = DiskBytes(fs)[id]
      /\ \A id \in Ids : id > a => Bytes(fs)[id] = <<>> /\ DiskBytes(fs)[id] = <<>>
  BY <1>1, <1>2 DEF Bytes, DiskBytes, Elsewhere, Sound
<1>4. Ordered(Bytes(fs'), writes + 1)
  BY <1>1, <1>2, <1>3, OrderedGrows DEF OrderInv
<1>5. Ordered(DiskBytes(fs'), writes + 1)
  BY <1>1, <1>2, <1>3, OrderedGrows DEF OrderInv
<1> QED
  BY <1>1, <1>4, <1>5 DEF OrderInv

-----------------------------------------------------------------------------
\* g holds no piece that f did not, nor in another place.
Shrinks(f, g) ==
  /\ \/ \A id \in Ids : Within(SegOf(g, id).bytes, SegOf(f, id).bytes)
     \/ \A id \in Ids : Within(SegOf(g, id).bytes, SegOf(f, id).diskBytes)
  /\ \/ \A id \in Ids : Within(SegOf(g, id).diskBytes, SegOf(f, id).bytes)
     \/ \A id \in Ids : Within(SegOf(g, id).diskBytes, SegOf(f, id).diskBytes)

\* The same of the contents of a segment.
LEMMA WithinSegments ==
  ASSUME NEW f, FsOK(f), NEW id \in Ids
  PROVE  LET v == SegOf(f, id) IN
         /\ Within(v.bytes, v.bytes) /\ Within(<<>>, v.bytes)
         /\ Within(ValidOf(v.bytes), v.bytes)
         /\ Within(v.diskBytes, v.diskBytes)
  BY SegTypes, WithinItself

SameBytes(f, g) ==
  \A id \in Ids : /\ SegOf(g, id).bytes = SegOf(f, id).bytes
                  /\ SegOf(g, id).diskBytes = SegOf(f, id).diskBytes

\* A step that changes no content adds no piece.
LEMMA ShrinksSameBytes ==
  ASSUME NEW f, NEW g, FsOK(f), SameBytes(f, g)
  PROVE  Shrinks(f, g)
<1>1. \A id \in Ids : /\ Within(SegOf(g, id).bytes, SegOf(f, id).bytes)
                      /\ Within(SegOf(g, id).diskBytes, SegOf(f, id).diskBytes)
  BY WithinSegments DEF SameBytes
<1> QED
  BY <1>1 DEF Shrinks

\* Nor does a create, ...
LEMMA ShrinksCreated ==
  ASSUME NEW f, NEW g, FsOK(f), NEW b \in Ids, Created(f, g, b)
  PROVE  Shrinks(f, g)
<1>1. ASSUME NEW id \in Ids
      PROVE  /\ Within(SegOf(g, id).bytes, SegOf(f, id).bytes)
             /\ Within(SegOf(g, id).diskBytes, SegOf(f, id).diskBytes)
  <2>1. CASE id = b
    BY <2>1, WithinSegments DEF Created
  <2>2. CASE id # b
    BY <2>2, WithinSegments DEF Created, Elsewhere
  <2> QED
    BY <2>1, <2>2
<1> QED
  BY <1>1 DEF Shrinks

\* ... a directory sync, which shows the disk what memory had, ...
LEMMA ShrinksPublished ==
  ASSUME NEW f, NEW g, FsOK(f), Published(f, g)
  PROVE  Shrinks(f, g)
<1>1. \A id \in Ids : /\ Within(SegOf(g, id).bytes, SegOf(f, id).bytes)
                      /\ Within(SegOf(g, id).diskBytes, SegOf(f, id).bytes)
  BY WithinSegments DEF Published
<1> QED
  BY <1>1 DEF Shrinks

\* ... a barrier, ...
LEMMA ShrinksSynced ==
  ASSUME GroupInv, LogInv, DiskInv, NEW t \in Threads, SyncSegment(t) \/ Seal(t)
  PROVE  Shrinks(fs, fs')
<1> DEFINE a == writer.active
<1>1. /\ a \in Ids /\ Elsewhere(fs, fs', a)
      /\ SegOf(fs', a).bytes = SegOf(fs, a).bytes
      /\ SegOf(fs', a).diskBytes = SegOf(fs, a).bytes
      /\ SegOf(fs, a).same
  BY SyncEffect
<1>2. FsOK(fs)
  BY DEF LogInv
<1> HIDE DEF a
<1>3. SegOf(fs, a).diskBytes = SegOf(fs, a).bytes
  BY <1>1, <1>2, SegShape
<1>4. SameBytes(fs, fs')
  BY <1>1, <1>3 DEF SameBytes, Elsewhere
<1> QED
  BY <1>2, <1>4, ShrinksSameBytes
\* ... a deletion, ...
LEMMA ShrinksRetire ==
  ASSUME GroupInv, LogInv, NEW t \in Threads, ResetRetire(t)
  PROVE  Shrinks(fs, fs')
<1> DEFINE b == Min(writer.old)
<1>1. fs' = Fs!Delete(fs, Path(b)) /\ writer.old # {}
  BY DEF ResetRetire
<1>2. FsOK(fs) /\ b \in Ids
  BY <1>1, IdsAre, MinOfNats DEF LogInv, WriterOK
<1> HIDE DEF b
<1>3. /\ Elsewhere(fs, fs', b) /\ SegOf(fs', b).bytes = <<>>
      /\ SegOf(fs', b).diskBytes = SegOf(fs, b).diskBytes
  BY <1>1, <1>2, SegDelete
<1>4. ASSUME NEW id \in Ids
      PROVE  /\ Within(SegOf(fs', id).bytes, SegOf(fs, id).bytes)
             /\ Within(SegOf(fs', id).diskBytes, SegOf(fs, id).diskBytes)
  <2>1. CASE id = b
    BY <1>2, <1>3, <2>1, WithinSegments
  <2>2. CASE id # b
    BY <1>2, <1>3, <2>2, WithinSegments DEF Elsewhere
  <2> QED
    BY <2>1, <2>2
<1> QED
  BY <1>4 DEF Shrinks

\* ... the rename of a repaired segment, ...
LEMMA ShrinksRenamed ==
  ASSUME LogInv, RenameTmp
  PROVE  Shrinks(fs, fs')
<1>1. PICK a \in Ids :
         /\ SegOf(fs', a).bytes = ValidOf(SegOf(fs, a).bytes)
         /\ SegOf(fs', a).diskBytes = SegOf(fs, a).diskBytes
         /\ \A id \in Ids : id # a => SegOf(fs', id) = SegOf(fs, id)
  BY RenameEffect
<1>2. FsOK(fs)
  BY DEF LogInv
<1>3. ASSUME NEW id \in Ids
      PROVE  /\ Within(SegOf(fs', id).bytes, SegOf(fs, id).bytes)
             /\ Within(SegOf(fs', id).diskBytes, SegOf(fs, id).diskBytes)
  <2>1. CASE id = a
    BY <1>1, <1>2, <2>1, WithinSegments
  <2>2. CASE id # a
    BY <1>1, <1>2, <2>2, WithinSegments
  <2> QED
    BY <2>1, <2>2
<1> QED
  BY <1>3 DEF Shrinks

\* ... or a power loss.
LEMMA ShrinksCrashed ==
  ASSUME NEW f, FsOK(f), NEW g \in Fs!Crashes(f)
  PROVE  Shrinks(f, g)
<1>1. \A id \in Ids : /\ Within(SegOf(g, id).bytes, SegOf(f, id).diskBytes)
                      /\ SegOf(g, id).diskBytes = SegOf(g, id).bytes
  BY CrashSegments DEF Torn, Within
<1> QED
  BY <1>1 DEF Shrinks

\* Nothing but the append of a frame puts a piece into a segment.
LEMMA StepShrinks ==
  ASSUME Calm, GroupInv, LogInv, DiskInv, [Next]_vars, \A t \in Threads : ~WriteFrame(t)
  PROVE  Shrinks(fs, fs') /\ writes' = writes
<1>1. FsOK(fs)
  BY DEF LogInv
<1>2. fs' = fs => Shrinks(fs, fs')
  BY <1>1, ShrinksSameBytes DEF SameBytes
<1>3. ASSUME NEW t \in Threads, Progress(t) PROVE Shrinks(fs, fs') /\ writes' = writes
  <2>1. CASE Covered(t) \/ Park(t) \/ Lead(t) \/ LockWriter(t) \/ NoRoll(t) \/ OpFails(t)
             \/ CommitOk(t) \/ CommitErr(t)
    BY <1>2, <2>1 DEF Covered, Park, Lead, LockWriter, NoRoll, OpFails, CommitOk, CommitErr,
       ghostVars
  <2>2. CASE SyncSegment(t) \/ Seal(t)
    BY <2>2, ShrinksSynced, SyncEffect
  <2>3. CASE CreateNext(t)
    <3>1. /\ writer.active + 1 \in Ids /\ Created(fs, fs', writer.active + 1)
          /\ writes' = writes
      BY <2>3, CreateNextEffect
    <3> QED
      BY <1>1, <3>1, ShrinksCreated
  <2>4. CASE SwitchSegment(t) \/ ResetPublish(t) \/ ResetDone(t)
    <3>1. fs' = Fs!SyncDir(fs) /\ writes' = writes
      BY <2>4 DEF SwitchSegment, ResetPublish, ResetDone, ghostVars
    <3> QED
      BY <1>1, <3>1, PublishedIs, ShrinksPublished
  <2>5. CASE ResetCreate(t)
    <3> DEFINE b == NextId(writer.old)
    <3>1. /\ fs' = Fs!Create(fs, Path(b)) /\ boot = "up" /\ writer.stage = "fresh"
          /\ writes' = writes
      BY <2>5 DEF ResetCreate, Owns, ghostVars
    <3>2. /\ OneScratch(fs) /\ writer.old \in SUBSET Ids /\ b <= MaxSegments
          /\ \A id \in Ids : SegOf(fs, id).live => id \in writer.old
      BY <3>1, UpFacts DEF LogInv, WriterOK
    <3>3. b \in Ids /\ \A id \in writer.old : id < b
      BY <3>2, IdsAre, NextIdFacts
    <3> HIDE DEF b
    <3>4. ~SegOf(fs, b).live
      BY <3>2, <3>3, IdsAre
    <3> QED
      BY <1>1, <3>1, <3>2, <3>3, <3>4, CreatedIs, ShrinksCreated
  <2>6. CASE ResetRetire(t)
    <3>1. writes' = writes
      BY <2>6 DEF ResetRetire, ghostVars
    <3> QED
      BY <2>6, <3>1, ShrinksRetire
  <2> QED
    BY <1>3, <2>1, <2>2, <2>3, <2>4, <2>5, <2>6 DEF Progress
<1>4. CASE Boot
  <2>1. CASE Scan \/ Activate
    BY <1>2, <2>1 DEF Scan, Activate, BootTo, ghostVars
  <2>2. CASE DropTmp \/ CreateTmp \/ CopyValid \/ SyncTmp
    <3>1. SameBytes(fs, fs') /\ writes' = writes
      BY <2>2, RepairEffect DEF SameSegments, SameBytes
    <3> QED
      BY <1>1, <3>1, ShrinksSameBytes
  <2>3. CASE RenameTmp
    BY <2>3, ShrinksRenamed DEF RenameTmp, Booting, BootTo, ghostVars
  <2>4. CASE SyncRename \/ SyncFirst
    <3>1. fs' = Fs!SyncDir(fs) /\ writes' = writes
      BY <2>4 DEF SyncRename, SyncFirst, Booting, BootTo, ghostVars
    <3> QED
      BY <1>1, <3>1, PublishedIs, ShrinksPublished
  <2>5. CASE CreateFirst
    BY <1>1, <2>5, CreateFirstEffect, IdsAre, ShrinksCreated
  <2> QED
    BY <1>4, <2>1, <2>2, <2>3, <2>4, <2>5 DEF Boot
<1>5. ASSUME NEW t \in Threads, Call(t) \/ StartReset(t) \/ SpuriousWake(t) \/ ShortWrite(t)
      PROVE  Shrinks(fs, fs') /\ writes' = writes
  <2>1. ~ShortWrite(t)
    BY DEF ShortWrite, Fault, Calm
  <2> QED
    BY <1>2, <1>5, <2>1 DEF Call, StartReset, SpuriousWake, ghostVars
<1>6. CASE PowerLoss \/ Kill \/ OpenFails
  <2>1. PICK image \in Fs!Crashes(fs) : Die(image)
    BY <1>6 DEF PowerLoss, Kill, OpenFails, Fault, Calm
  <2>2. fs' = image /\ writes' = writes
    BY <2>1 DEF Die
  <2> QED
    BY <1>1, <2>2, ShrinksCrashed
<1>7. CASE UNCHANGED vars
  BY <1>2, <1>7 DEF vars, ghostVars
<1> QED
  BY <1>3, <1>4, <1>5, <1>6, <1>7 DEF Next

\* Every step keeps the pieces in order.
LEMMA OrderStep ==
  ASSUME Calm, GroupInv, LogInv, LogInv', DiskInv, OrderInv, [Next]_vars
  PROVE  OrderInv'
<1>1. CASE \E t \in Threads : WriteFrame(t)
  BY <1>1, WriteOrder
<1>2. CASE \A t \in Threads : ~WriteFrame(t)
  <2>1. Shrinks(fs, fs') /\ writes' = writes
    BY <1>2, StepShrinks
  <2>2. FsOK(fs) /\ FsOK(fs')
    BY DEF LogInv
  <2> QED
    BY <2>1, <2>2, NothingNew DEF OrderInv, Shrinks
<1> QED
  BY <1>1, <1>2

\* At the start there are none.
LEMMA InitOrder == Init => OrderInv
<1> SUFFICES ASSUME Init PROVE OrderInv
  OBVIOUS
<1>1. fs = Fs!EmptyFs
  BY DEF Init
<1>2. \A id \in Ids : SegOf(fs, id).bytes = <<>> /\ SegOf(fs, id).diskBytes = <<>>
  BY <1>1, EmptyViews, NameFacts DEF SegOf
<1> QED
  BY <1>2 DEF OrderInv, Ordered, Bytes, DiskBytes

-----------------------------------------------------------------------------
\* Piece q is the n-th of s, and a scan of s gets that far.
At(s, n, q) == n \in 1 .. Len(s) /\ s[n].id = q /\ \A k \in 1 .. n : Decodes(s[k])

\* Piece q is in a segment of the process and of the disk; it is synced there.
Placed(f, q) ==
  \E id \in Ids : \E n \in Nat : At(SegOf(f, id).bytes, n, q) /\ At(SegOf(f, id).diskBytes, n, q)
Kept(f, q) ==
  \E id \in Ids : \E n \in Nat : At(SegOf(f, id).bytes, n, q) /\ At(SegOf(f, id).diskSynced, n, q)

\* The segments of f lose nothing that decodes.
Grows(f, g) ==
  \A id \in Ids : SegOf(f, id).live =>
    /\ Leads(ValidOf(SegOf(f, id).bytes), SegOf(g, id).bytes)
    /\ Leads(ValidOf(SegOf(f, id).diskBytes), SegOf(g, id).diskBytes)
    /\ Leads(ValidOf(SegOf(f, id).diskSynced), SegOf(g, id).diskSynced)

\* A piece that a scan reaches is among what it keeps.
LEMMA AtValid ==
  ASSUME NEW s \in Seq(Piece), NEW c \in Seq(Piece), Leads(ValidOf(s), c), NEW n, NEW q, At(s, n, q)
  PROVE  At(c, n, q)
<1>1. n <= ValidLen(s) /\ n \in Nat /\ n >= 1
  BY ValidLenFacts DEF At
<1>2. /\ ValidOf(s) \in Seq(Piece) /\ Len(ValidOf(s)) = ValidLen(s)
      /\ \A k \in 1 .. ValidLen(s) : ValidOf(s)[k] = s[k]
      /\ ValidLen(s) \in Nat
  BY ValidOfFacts, ValidLenFacts
<1>3. Len(c) \in Nat /\ ValidLen(s) <= Len(c) /\ \A k \in 1 .. ValidLen(s) : c[k] = s[k]
  BY <1>2 DEF Leads
<1>4. n \in 1 .. Len(c) /\ \A k \in 1 .. n : c[k] = s[k]
  BY <1>1, <1>2, <1>3
<1> QED
  BY <1>1, <1>4 DEF At

\* It stays where it is when more is written behind it.
LEMMA AtLeads ==
  ASSUME NEW s \in Seq(Piece), NEW c \in Seq(Piece), Leads(s, c), NEW n, NEW q, At(s, n, q)
  PROVE  At(c, n, q)
<1>1. Len(s) \in Nat /\ Len(c) \in Nat /\ Len(s) <= Len(c) /\ \A k \in 1 .. Len(s) : c[k] = s[k]
  BY DEF Leads
<1>2. n \in 1 .. Len(c) /\ \A k \in 1 .. n : c[k] = s[k]
  BY <1>1 DEF At
<1> QED
  BY <1>2 DEF At

\* It is in a segment that exists.
LEMMA AtLive ==
  ASSUME NEW f, FsOK(f), NEW id \in Ids, NEW n, NEW q, At(SegOf(f, id).bytes, n, q)
  PROVE  SegOf(f, id).live
<1>1. ~SegOf(f, id).live => SegOf(f, id).bytes = <<>>
  BY SegShape
<1>2. Len(<<>>) = 0 /\ ~(n \in 1 .. 0)
  OBVIOUS
<1> QED
  BY <1>1, <1>2 DEF At

\* A step that loses nothing that decodes keeps pieces placed, and kept.
LEMMA GrowsKeeps ==
  ASSUME NEW f, NEW g, FsOK(f), FsOK(g), Grows(f, g), NEW q
  PROVE  (Placed(f, q) => Placed(g, q)) /\ (Kept(f, q) => Kept(g, q))
<1>1. ASSUME NEW id \in Ids, NEW n \in Nat, At(SegOf(f, id).bytes, n, q)
      PROVE  /\ At(SegOf(g, id).bytes, n, q)
             /\ At(SegOf(f, id).diskBytes, n, q) => At(SegOf(g, id).diskBytes, n, q)
             /\ At(SegOf(f, id).diskSynced, n, q) => At(SegOf(g, id).diskSynced, n, q)
  <2>1. SegOf(f, id).live
    BY <1>1, AtLive
  <2>2. /\ Leads(ValidOf(SegOf(f, id).bytes), SegOf(g, id).bytes)
        /\ Leads(ValidOf(SegOf(f, id).diskBytes), SegOf(g, id).diskBytes)
        /\ Leads(ValidOf(SegOf(f, id).diskSynced), SegOf(g, id).diskSynced)
    BY <2>1 DEF Grows
  <2>3. /\ SegOf(f, id).bytes \in Seq(Piece) /\ SegOf(f, id).diskBytes \in Seq(Piece)
        /\ SegOf(f, id).diskSynced \in Seq(Piece)
        /\ SegOf(g, id).bytes \in Seq(Piece) /\ SegOf(g, id).diskBytes \in Seq(Piece)
        /\ SegOf(g, id).diskSynced \in Seq(Piece)
    BY SegTypes
  <2> QED
    BY <1>1, <2>2, <2>3, AtValid
<1> QED
  BY <1>1 DEF Placed, Kept

\* What is kept survives a power loss.
LEMMA CrashKeeps ==
  ASSUME NEW f, FsOK(f), NEW g \in Fs!Crashes(f), NEW q, Kept(f, q)
  PROVE  Kept(g, q)
<1>1. \A id \in Ids : /\ SegOf(f, id).diskSynced \in Seq(Piece)
                      /\ SegOf(g, id).bytes \in Seq(Piece)
                      /\ Leads(SegOf(f, id).diskSynced, SegOf(g, id).bytes)
                      /\ SegOf(g, id).diskSynced = SegOf(g, id).bytes
  BY SegTypes, CrashSegments DEF Torn
<1> QED
  BY <1>1, AtLeads DEF Kept

\* What a scan keeps of a sequence begins it.
LEMMA LeadsValid ==
  ASSUME NEW s \in Seq(Piece), NEW c \in Seq(Piece)
  PROVE  /\ Leads(s, s) /\ Leads(ValidOf(s), s) /\ Leads(ValidOf(s), ValidOf(s))
         /\ Leads(s, c) => Leads(ValidOf(s), c)
<1>1. /\ ValidOf(s) \in Seq(Piece) /\ Len(ValidOf(s)) = ValidLen(s)
      /\ \A k \in 1 .. ValidLen(s) : ValidOf(s)[k] = s[k]
      /\ ValidLen(s) \in 0 .. Len(s) /\ Len(s) \in Nat
  BY ValidOfFacts, ValidLenFacts
<1>2. Leads(s, s) /\ Leads(ValidOf(s), ValidOf(s)) /\ Leads(ValidOf(s), s)
  BY <1>1 DEF Leads
<1>3. ASSUME Leads(s, c) PROVE Leads(ValidOf(s), c)
  <2>1. Len(c) \in Nat /\ Len(s) <= Len(c) /\ \A k \in 1 .. Len(s) : c[k] = s[k]
    BY <1>3 DEF Leads
  <2> QED
    BY <1>1, <2>1 DEF Leads
<1> QED
  BY <1>2, <1>3

\* The step leaves a segment's pieces where they are, or puts more behind them.
Extends(v, w) ==
  Leads(v.bytes, w.bytes) /\ Leads(v.diskBytes, w.diskBytes) /\ Leads(v.diskSynced, w.diskSynced)

\* A step that only extends segments loses nothing.
LEMMA ExtendsGrows ==
  ASSUME NEW f, NEW g, FsOK(f), FsOK(g),
         \A id \in Ids : SegOf(f, id).live => Extends(SegOf(f, id), SegOf(g, id))
  PROVE  Grows(f, g)
<1> SUFFICES ASSUME NEW id \in Ids, SegOf(f, id).live
             PROVE  /\ Leads(ValidOf(SegOf(f, id).bytes), SegOf(g, id).bytes)
                    /\ Leads(ValidOf(SegOf(f, id).diskBytes), SegOf(g, id).diskBytes)
                    /\ Leads(ValidOf(SegOf(f, id).diskSynced), SegOf(g, id).diskSynced)
  BY DEF Grows
<1>1. /\ SegOf(f, id).bytes \in Seq(Piece) /\ SegOf(f, id).diskBytes \in Seq(Piece)
      /\ SegOf(f, id).diskSynced \in Seq(Piece)
      /\ SegOf(g, id).bytes \in Seq(Piece) /\ SegOf(g, id).diskBytes \in Seq(Piece)
      /\ SegOf(g, id).diskSynced \in Seq(Piece)
  BY SegTypes
<1>2. Extends(SegOf(f, id), SegOf(g, id))
  OBVIOUS
<1> QED
  BY <1>1, <1>2, LeadsValid DEF Extends

\* Nor does one that leaves them as they are.
LEMMA ExtendsItself ==
  ASSUME NEW f, FsOK(f), NEW id \in Ids
  PROVE  Extends(SegOf(f, id), SegOf(f, id))
  BY SegTypes, LeadsValid DEF Extends

-----------------------------------------------------------------------------
\* Nothing of an empty segment is synced.
LEMMA SyncedLeadsDisk ==
  ASSUME NEW f, FsOK(f), NEW id \in Ids
  PROVE  LET v == SegOf(f, id) IN
         /\ v.diskBytes = <<>> => v.diskSynced = <<>>
         /\ v.bytes = <<>> => v.synced = <<>>
<1>1. /\ SegOf(f, id).diskSynced \in Seq(Piece) /\ SegOf(f, id).synced \in Seq(Piece)
      /\ Leads(SegOf(f, id).diskSynced, SegOf(f, id).diskBytes)
      /\ Leads(SegOf(f, id).synced, SegOf(f, id).bytes)
  BY SegTypes, SegShape
<1>2. ASSUME NEW s \in Seq(Piece), Leads(s, <<>>) PROVE s = <<>>
  BY <1>2 DEF Leads
<1> QED
  BY <1>1, <1>2

\* A step that leaves the segments alone loses nothing, ...
LEMMA GrowsSame ==
  ASSUME NEW f, NEW g, FsOK(f), FsOK(g), SameSegments(f, g)
  PROVE  Grows(f, g)
<1>1. \A id \in Ids : Extends(SegOf(f, id), SegOf(g, id))
  BY ExtendsItself DEF SameSegments
<1> QED
  BY <1>1, ExtendsGrows

\* ... nor does a create, ...
LEMMA GrowsCreated ==
  ASSUME NEW f, NEW g, FsOK(f), FsOK(g), NEW b \in Ids, Created(f, g, b)
  PROVE  Grows(f, g)
<1>1. \A id \in Ids : SegOf(f, id).live => Extends(SegOf(f, id), SegOf(g, id))
  BY ExtendsItself DEF Created, Elsewhere
<1> QED
  BY <1>1, ExtendsGrows

\* ... an append, ...
LEMMA GrowsWritten ==
  ASSUME GroupInv, LogInv, LogInv', DiskInv, NEW t \in Threads, WriteFrame(t)
  PROVE  Grows(fs, fs')
<1> DEFINE a == writer.active
<1>1. PICK p \in Piece :
         /\ a \in Ids /\ Elsewhere(fs, fs', a) /\ SegOf(fs, a).same
         /\ SegOf(fs', a).bytes = SegOf(fs, a).bytes \o <<p>>
         /\ SegOf(fs', a).diskBytes = SegOf(fs, a).bytes \o <<p>>
         /\ SegOf(fs', a).diskSynced = SegOf(fs, a).diskSynced
  BY WriteEffect
<1> HIDE DEF a
<1>2. FsOK(fs) /\ FsOK(fs')
  BY DEF LogInv
<1>3. SegOf(fs, a).diskBytes = SegOf(fs, a).bytes
  BY <1>1, <1>2, SegShape
<1>4. ASSUME NEW s \in Seq(Piece) PROVE Leads(s, s \o <<p>>) /\ Leads(s, s)
  BY DEF Leads
<1>5. Extends(SegOf(fs, a), SegOf(fs', a))
  BY <1>1, <1>2, <1>3, <1>4, SegTypes DEF Extends
<1>6. \A id \in Ids : Extends(SegOf(fs, id), SegOf(fs', id))
  BY <1>1, <1>2, <1>5, ExtendsItself DEF Elsewhere
<1> QED
  BY <1>2, <1>6, ExtendsGrows

\* ... a barrier or a seal, ...
LEMMA GrowsSynced ==
  ASSUME GroupInv, LogInv, LogInv', DiskInv, NEW t \in Threads, SyncSegment(t) \/ Seal(t)
  PROVE  Grows(fs, fs')
<1> DEFINE a == writer.active
<1>1. /\ a \in Ids /\ Elsewhere(fs, fs', a) /\ SegOf(fs, a).same
      /\ SegOf(fs', a).bytes = SegOf(fs, a).bytes
      /\ SegOf(fs', a).diskBytes = SegOf(fs, a).bytes
      /\ SegOf(fs', a).diskSynced = SegOf(fs, a).bytes
  BY SyncEffect
<1> HIDE DEF a
<1>2. FsOK(fs) /\ FsOK(fs')
  BY DEF LogInv
<1>3. /\ SegOf(fs, a).diskBytes = SegOf(fs, a).bytes
      /\ Leads(SegOf(fs, a).diskSynced, SegOf(fs, a).bytes)
      /\ Leads(SegOf(fs, a).bytes, SegOf(fs, a).bytes)
  <2>1. SegOf(fs, a).bytes \in Seq(Piece)
    BY <1>1, <1>2, SegTypes
  <2> QED
    BY <1>1, <1>2, <2>1, SegShape, LeadsValid
<1>4. Extends(SegOf(fs, a), SegOf(fs', a))
  BY <1>1, <1>3 DEF Extends
<1>5. \A id \in Ids : Extends(SegOf(fs, id), SegOf(fs', id))
  BY <1>1, <1>2, <1>4, ExtendsItself DEF Elsewhere
<1> QED
  BY <1>2, <1>5, ExtendsGrows

\* ... the switch of segments, ...
LEMMA GrowsSwitched ==
  ASSUME GroupInv, LogInv, LogInv', DiskInv, NEW t \in Threads, SwitchSegment(t)
  PROVE  Grows(fs, fs')
<1> DEFINE a == writer.active
<1>1. a \in Ids /\ Sound(fs, a) /\ Published(fs, fs')
  BY SwitchEffect
<1> HIDE DEF a
<1>2. FsOK(fs) /\ FsOK(fs')
  BY DEF LogInv
<1>3. ASSUME NEW id \in Ids, SegOf(fs, id).live
      PROVE  /\ SegOf(fs, id).bytes = SegOf(fs, id).diskBytes
             /\ SegOf(fs, id).synced = SegOf(fs, id).diskSynced
  <2>1. CASE id > a
    BY <1>1, <1>2, <2>1, SyncedLeadsDisk DEF Sound
  <2>2. CASE ~(id > a)
    <3>1. SegOf(fs, id).same
      BY <1>1, <1>3, <2>2, IdsAre DEF Sound
    <3> QED
      BY <1>2, <3>1, SegShape
  <2> QED
    BY <2>1, <2>2
<1>4. \A id \in Ids : SegOf(fs, id).live => Extends(SegOf(fs, id), SegOf(fs', id))
  <2> TAKE id \in Ids
  <2> HAVE SegOf(fs, id).live
  <2>1. Extends(SegOf(fs, id), SegOf(fs, id))
    BY <1>2, ExtendsItself
  <2>2. /\ SegOf(fs', id).bytes = SegOf(fs, id).bytes
        /\ SegOf(fs', id).diskBytes = SegOf(fs, id).diskBytes
        /\ SegOf(fs', id).diskSynced = SegOf(fs, id).diskSynced
    BY <1>1, <1>3 DEF Published
  <2> QED
    BY <2>1, <2>2 DEF Extends
<1> QED
  BY <1>2, <1>4, ExtendsGrows

\* ... the rename of a repaired segment, which holds what decodes, ...
LEMMA GrowsRenamed ==
  ASSUME LogInv, LogInv', RenameTmp
  PROVE  Grows(fs, fs')
<1>1. PICK a \in Ids :
         /\ SegOf(fs', a).bytes = ValidOf(SegOf(fs, a).bytes)
         /\ SegOf(fs', a).diskBytes = SegOf(fs, a).diskBytes
         /\ SegOf(fs', a).diskSynced = SegOf(fs, a).diskSynced
         /\ \A id \in Ids : id # a => SegOf(fs', id) = SegOf(fs, id)
  BY RenameEffect
<1>2. FsOK(fs)
  BY DEF LogInv
<1>3. \A id \in Ids :
        /\ Leads(ValidOf(SegOf(fs, id).bytes), ValidOf(SegOf(fs, id).bytes))
        /\ Leads(ValidOf(SegOf(fs, id).bytes), SegOf(fs, id).bytes)
        /\ Leads(ValidOf(SegOf(fs, id).diskBytes), SegOf(fs, id).diskBytes)
        /\ Leads(ValidOf(SegOf(fs, id).diskSynced), SegOf(fs, id).diskSynced)
  BY <1>2, SegTypes, LeadsValid
<1> QED
  BY <1>1, <1>3 DEF Grows

\* ... or the directory sync that ends recovery.
LEMMA GrowsPublished ==
  ASSUME LogInv, LogInv', DiskInv, SyncRename \/ SyncFirst
  PROVE  Grows(fs, fs')
<1>1. FsOK(fs) /\ fs' = Fs!SyncDir(fs)
  BY DEF LogInv, SyncRename, SyncFirst, Booting, BootTo
<1>2. Published(fs, fs')
  BY <1>1, PublishedIs
<1>3. ASSUME NEW id \in Ids
      PROVE  /\ Leads(ValidOf(SegOf(fs, id).bytes), SegOf(fs, id).bytes)
             /\ Leads(ValidOf(SegOf(fs, id).diskBytes), SegOf(fs, id).bytes)
             /\ Leads(ValidOf(SegOf(fs, id).diskSynced), SegOf(fs, id).synced)
  <2>1. /\ SegOf(fs, id).bytes \in Seq(Piece) /\ SegOf(fs, id).diskBytes \in Seq(Piece)
        /\ SegOf(fs, id).diskSynced = SegOf(fs, id).diskBytes
    BY <1>1, SegTypes DEF DiskInv, BootDisk, SyncRename, SyncFirst, Booting
  <2>2. Leads(ValidOf(SegOf(fs, id).bytes), SegOf(fs, id).bytes)
    BY <2>1, LeadsValid
  <2>3. CASE SyncRename
    <3>1. /\ SegOf(fs, id).synced = SegOf(fs, id).bytes
          /\ SegOf(fs, id).bytes = ValidOf(SegOf(fs, id).diskBytes)
      BY <2>3 DEF DiskInv, BootDisk, SyncRename, Booting
    <3> QED
      BY <2>1, <2>2, <3>1, LeadsValid
  <2>4. CASE SyncFirst
    <3>1. SegOf(fs, id).bytes = <<>> /\ ~SegOf(fs, id).disk
      BY <2>4 DEF DiskInv, BootDisk, SyncFirst
    <3>2. SegOf(fs, id).diskBytes = <<>> /\ SegOf(fs, id).synced = <<>>
      BY <1>1, <3>1, SegShape, SyncedLeadsDisk
    <3> QED
      BY <2>1, <2>2, <3>1, <3>2
  <2> QED
    BY <2>2, <2>3, <2>4
<1> QED
  BY <1>2, <1>3 DEF Grows, Published

\* No step of recovery loses anything that decodes.
LEMMA BootGrows ==
  ASSUME LogInv, LogInv', DiskInv, Boot
  PROVE  Grows(fs, fs')
<1>1. FsOK(fs) /\ FsOK(fs')
  BY DEF LogInv
<1>2. SameSegments(fs, fs') => Grows(fs, fs')
  BY <1>1, GrowsSame
<1>3. CASE Scan \/ Activate
  BY <1>2, <1>3 DEF Scan, Activate, SameSegments
<1>4. CASE DropTmp \/ CreateTmp \/ CopyValid \/ SyncTmp
  BY <1>2, <1>4, RepairEffect
<1>5. CASE CreateFirst
  BY <1>1, <1>5, CreateFirstEffect, IdsAre, GrowsCreated
<1> QED
  BY <1>3, <1>4, <1>5, GrowsRenamed, GrowsPublished DEF Boot

-----------------------------------------------------------------------------
\* The mode waits for a barrier before append() returns.
Barrier == durability # "OsBuffered"

\* Frame x is in a piece that no power loss takes away.
Safe(f, x) == \E q : Kept(f, q) /\ q.frame = x

\* So is every frame of the batch in hand.
BatchSafe(t) == \A i \in DOMAIN batch[t] : Safe(fs, batch[t][i].frame)

\* A caller that may return Ok has its frame in its batch, or safe.
CallerAck(t) ==
  /\ pc[t] = "check" /\ mine[t].seq <= coord.syncedThrough => Safe(fs, mine[t].frame)
  /\ pc[t] \in {"write", "ok"} => \E i \in DOMAIN batch[t] : batch[t][i].frame = mine[t].frame
  /\ pc[t] = "ok" /\ Barrier => BatchSafe(t)

\* Frame x is in segment a.
Logged(f, a, x) == \E n \in 1 .. Len(SegOf(f, a).bytes) : SegOf(f, a).bytes[n].id.frame = x

\* A frame of the batch is still to be written, or in the active segment.
UnderWay(f, w, x) ==
  (\E k \in DOMAIN w.todo : w.todo[k].frame = x) \/ Logged(f, w.active, x)

\* The owner of the writer mutex loses none of its batch on the way.
OwnerAck(t) ==
  /\ writer.stage \in {"append", "sync"} =>
       \A i \in DOMAIN batch[t] : UnderWay(fs, writer, batch[t][i].frame)
  /\ writer.stage = "sync" => writer.todo = <<>> /\ Barrier
  /\ writer.stage \in {"roll", "create", "dirsync"} /\ Barrier => BatchSafe(t)

\* What is promised is safe, and what a caller may yet promise is on its way.
AckInv ==
  /\ \A x \in promised : Safe(fs, x)
  /\ \A t \in Threads : CallerAck(t) /\ (writer.owner = t => OwnerAck(t))

\* The step takes no safe frame away.
SafeKept == \A x : Safe(fs, x) => Safe(fs', x)

-----------------------------------------------------------------------------
\* What was safe stays safe in such a step.
LEMMA GrowsSafe ==
  ASSUME LogInv, LogInv', Grows(fs, fs')
  PROVE  SafeKept
<1>1. FsOK(fs) /\ FsOK(fs')
  BY DEF LogInv
<1> QED
  BY <1>1, GrowsKeeps DEF SafeKept, Safe

\* Nobody is in append(): only what was promised matters.
LEMMA RestingAck ==
  ASSUME SafeKept, \A x \in promised : Safe(fs, x), promised' \subseteq promised,
         \A t \in Threads : pc'[t] \in {"idle", "reset"},
         writer'.stage \in {"none"} \cup ResetStages
  PROVE  AckInv'
  BY DEF SafeKept, AckInv, CallerAck, OwnerAck, ResetStages

\* A caller that stays where it is.
LEMMA CallerStays ==
  ASSUME SafeKept, NEW t \in Threads, CallerAck(t), UNCHANGED durability,
         pc'[t] = pc[t], mine'[t] = mine[t], batch'[t] = batch[t],
         coord'.syncedThrough = coord.syncedThrough
  PROVE  CallerAck(t)'
  BY DEF SafeKept, CallerAck, BatchSafe, Barrier

\* The writer's progress as seen by another thread's step.
LEMMA OwnerStays ==
  ASSUME NEW t \in Threads, OwnerAck(t), UNCHANGED <<durability, fs, writer>>,
         batch'[t] = batch[t]
  PROVE  OwnerAck(t)'
  BY DEF OwnerAck, UnderWay, Logged, BatchSafe, Barrier

\* Only the one caller moves, and the mutex stays as it is.
LEMMA OneCaller ==
  ASSUME GroupInv, AckInv, NEW t \in Threads, UNCHANGED <<durability, fs, writer>>,
         \A u \in Threads : u # t => /\ pc'[u] = pc[u] /\ mine'[u] = mine[u]
                                     /\ batch'[u] = batch[u],
         pc[t] # "write" \/ batch'[t] = batch[t],
         writer.stage \notin ResetStages,
         \A x \in promised' : x \in promised \/ Safe(fs, x),
         \A u \in Threads : CallerAck(u)'
  PROVE  AckInv'
<1>3. ASSUME NEW u \in Threads, writer'.owner = u PROVE OwnerAck(u)'
  <2>1. writer.owner = u /\ OwnerAck(u)
    BY <1>3 DEF AckInv
  <2>2. pc[u] = "write"
    BY <2>1 DEF GroupInv, OwnerAtWork, ResetStages
  <2>3. batch'[u] = batch[u]
    BY <2>2
  <2> QED
    BY <2>1, <2>3, OwnerStays
<1>4. \A x \in promised' : Safe(fs', x)
  BY DEF AckInv
<1> QED
  BY <1>3, <1>4 DEF AckInv

\* While append() is called no reset is in progress.
LEMMA NoCallInReset ==
  ASSUME GroupInv, LogInv, DiskInv, NEW t \in Threads,
         \/ Call(t) \/ Covered(t) \/ Park(t) \/ Lead(t) \/ CommitOk(t) \/ CommitErr(t)
         \/ LockWriter(t)
  PROVE  writer.stage \notin ResetStages /\ UNCHANGED fs
<1>1. boot = "up"
  BY DEF Call, Covered, Park, Lead, CommitOk, CommitErr, LockWriter, LogInv, BootOK
<1>2. ASSUME writer.stage \in ResetStages PROVE FALSE
  <2>1. \A u \in Threads : pc[u] \in {"idle", "reset"}
    BY <1>1, <1>2 DEF DiskInv, UpDisk
  <2>2. Call(t)
    BY <2>1 DEF Covered, Park, Lead, CommitOk, CommitErr, LockWriter
  <2> QED
    BY <1>1, <1>2, <2>2, ResetOwned DEF Call
<1>3. UNCHANGED fs
  BY DEF Call, Covered, Park, Lead, CommitOk, CommitErr, LockWriter
<1> QED
  BY <1>2, <1>3

\* A call returns, with Ok only if its frame is safe or needs no barrier.
LEMMA ReturnAck ==
  ASSUME GroupInv, AckInv, NEW t \in Threads, NEW ok \in BOOLEAN, Return(t, ok),
         UNCHANGED <<durability, fs, writer>>, pc[t] # "write", writer.stage \notin ResetStages,
         ok /\ Barrier => Safe(fs, mine[t].frame),
         \A u \in Threads : u # t /\ pc[u] = "check" =>
           (mine[u].seq <= coord'.syncedThrough => Safe(fs, mine[u].frame))
  PROVE  AckInv'
<1>1. /\ pc' = [pc EXCEPT ![t] = "idle"] /\ mine' = [mine EXCEPT ![t] = NoCall]
      /\ batch' = [batch EXCEPT ![t] = <<>>]
      /\ promised' = IF ok /\ Barrier THEN promised \cup {mine[t].frame} ELSE promised
  BY DEF Return, Goto, Barrier
<1>2. /\ pc'[t] = "idle"
      /\ \A u \in Threads : u # t => pc'[u] = pc[u] /\ mine'[u] = mine[u] /\ batch'[u] = batch[u]
  BY <1>1 DEF GroupInv, GroupTypes
<1>3. ASSUME NEW u \in Threads PROVE CallerAck(u)'
  <2>1. CASE u = t
    BY <1>2, <2>1 DEF CallerAck
  <2>2. CASE u # t
    <3>1. CallerAck(u) /\ pc'[u] = pc[u] /\ mine'[u] = mine[u] /\ batch'[u] = batch[u]
      BY <1>2, <2>2 DEF AckInv
    <3>2. pc[u] = "check" /\ mine[u].seq <= coord'.syncedThrough => Safe(fs, mine[u].frame)
      BY <2>2
    <3> QED
      BY <3>1, <3>2 DEF CallerAck, BatchSafe, Barrier
  <2> QED
    BY <2>1, <2>2
<1>4. \A x \in promised' : x \in promised \/ Safe(fs, x)
  BY <1>1
<1> QED
  BY <1>2, <1>3, <1>4, OneCaller

\* A follower returns Ok once a leader has covered its seq: its frame is safe.
LEMMA CoveredAck ==
  ASSUME GroupInv, LogInv, DiskInv, AckInv, NEW t \in Threads, Covered(t), UNCHANGED durability
  PROVE  AckInv'
<1>1. /\ pc[t] = "check" /\ coord.syncedThrough >= mine[t].seq /\ Return(t, TRUE)
      /\ UNCHANGED <<fs, writer, coord>>
  BY DEF Covered, groupVars
<1>2. mine[t].seq <= coord.syncedThrough
  BY <1>1, SeqNumbers DEF GroupInv
<1>3. Safe(fs, mine[t].frame)
  BY <1>1, <1>2 DEF AckInv, CallerAck
<1>4. \A u \in Threads : u # t /\ pc[u] = "check" =>
        (mine[u].seq <= coord'.syncedThrough => Safe(fs, mine[u].frame))
  BY <1>1 DEF AckInv, CallerAck
<1> QED
  BY <1>1, <1>3, <1>4, NoCallInReset, ReturnAck

\* A failed batch goes back to the queue and promises nothing.
LEMMA CommitErrAck ==
  ASSUME GroupInv, LogInv, DiskInv, AckInv, NEW t \in Threads, CommitErr(t), UNCHANGED durability
  PROVE  AckInv'
<1>1. pc[t] = "err" /\ Return(t, FALSE) /\ UNCHANGED <<fs, writer>>
  BY DEF CommitErr
<1>2. coord'.syncedThrough = coord.syncedThrough
  BY DEF CommitErr, groupVars, GroupInv, GroupTypes
<1>3. \A u \in Threads : u # t /\ pc[u] = "check" =>
        (mine[u].seq <= coord'.syncedThrough => Safe(fs, mine[u].frame))
  BY <1>2 DEF AckInv, CallerAck
<1> QED
  BY <1>1, <1>3, NoCallInReset, ReturnAck

\* The last frame of the batch has the highest seq, and what waits for a seq
\* between the old and the new clock has its frame in the batch.
LEMMA BatchCovers ==
  ASSUME GroupInv, durability = "GroupCommit", NEW t \in Threads, pc[t] = "ok",
         NEW u \in Threads, pc[u] = "check", NEW top \in Nat,
         top = coord.syncedThrough \/ top = Highest(t), mine[u].seq <= top
  PROVE  \/ mine[u].seq <= coord.syncedThrough
         \/ \E i \in DOMAIN batch[t] : mine[u].frame = batch[t][i].frame
<1>1. /\ GroupTypes /\ OneLeader /\ CommitOrder /\ WaitersCarried /\ t \in Leading
  BY DEF GroupInv, Leading
<1>2. /\ coord.syncedThrough \in Nat /\ mine[u].seq \in Nat /\ batch[t] \in Seq(Frame)
      /\ batch[t] # <<>> /\ \A i \in DOMAIN batch[t] : batch[t][i].seq \in Nat
      /\ \A i \in DOMAIN coord.queue : coord.queue[i].seq \in Nat
  BY <1>1, SeqNumbers DEF OneLeader
<1>3. SUFFICES ASSUME mine[u].seq > coord.syncedThrough
               PROVE  \E i \in DOMAIN batch[t] : mine[u].frame = batch[t][i].frame
  BY <1>2
<1>4. top = Highest(t) /\ Highest(t) = batch[t][Len(batch[t])].seq
      /\ Len(batch[t]) \in DOMAIN batch[t]
  BY <1>2, <1>3 DEF Highest, Last
<1>5. Carried(u)
  BY <1>1, <1>3 DEF WaitersCarried
<1>6. ASSUME NEW i \in DOMAIN coord.queue, mine[u] = coord.queue[i] PROVE FALSE
  <2>1. batch[t][Len(batch[t])].seq < coord.queue[i].seq
    BY <1>1, <1>4 DEF CommitOrder
  <2>2. mine[u].seq = coord.queue[i].seq
    BY <1>6
  <2> QED
    BY <1>2, <1>4, <2>1, <2>2
<1>7. PICK w \in Leading : \E i \in DOMAIN batch[w] : mine[u] = batch[w][i]
  BY <1>5, <1>6 DEF Carried
<1>8. w = t
  BY <1>1 DEF OneLeader
<1> QED
  BY <1>7, <1>8

\* A leader publishes the end of its batch: all of it is safe.
LEMMA CommitOkAck ==
  ASSUME GroupInv, LogInv, DiskInv, AckInv, NEW t \in Threads, CommitOk(t), UNCHANGED durability
  PROVE  AckInv'
<1>1. pc[t] = "ok" /\ Return(t, TRUE) /\ UNCHANGED <<fs, writer>>
  BY DEF CommitOk
<1>2. Barrier => BatchSafe(t) /\ Safe(fs, mine[t].frame)
  BY <1>1 DEF AckInv, CallerAck, BatchSafe
<1>3. ASSUME NEW u \in Threads, pc[u] = "check", mine[u].seq <= coord'.syncedThrough
      PROVE  Safe(fs, mine[u].frame)
  <2>1. durability = "GroupCommit"
    BY <1>3 DEF GroupInv, Ungrouped
  <2>2. /\ coord.syncedThrough \in Nat /\ Highest(t) \in Nat
        /\ coord'.syncedThrough = Max({coord.syncedThrough, Highest(t)})
    <3>1. /\ t \in Leading /\ batch[t] \in Seq(Frame) /\ batch[t] # <<>>
          /\ \A i \in DOMAIN batch[t] : batch[t][i].seq \in Nat
          /\ coord.syncedThrough \in Nat
      BY <1>1, <2>1, SeqNumbers DEF GroupInv, OneLeader, Leading
    <3>2. Highest(t) = batch[t][Len(batch[t])].seq /\ Len(batch[t]) \in DOMAIN batch[t]
      BY <3>1 DEF Highest, Last
    <3>3. coord' = [coord EXCEPT !.leaderActive = FALSE,
                                 !.syncedThrough = Max({coord.syncedThrough, Highest(t)})]
      BY <2>1 DEF CommitOk
    <3> QED
      BY <3>1, <3>2, <3>3 DEF GroupInv, GroupTypes
  <2>3. coord'.syncedThrough \in Nat /\ coord'.syncedThrough \in {coord.syncedThrough, Highest(t)}
    <3> DEFINE m == coord.syncedThrough
               h == Highest(t)
    <3>1. m \in Nat /\ h \in Nat
      BY <2>2
    <3> HIDE DEF m, h
    <3>2. Max({m, h}) \in {m, h}
      <4>1. CASE m <= h
        BY <3>1, <4>1, MaxOfTwo
      <4>2. CASE h <= m
        <5>1. {m, h} = {h, m}
          OBVIOUS
        <5> QED
          BY <3>1, <4>2, <5>1, MaxOfTwo
      <4> QED
        BY <3>1, <4>1, <4>2
    <3> QED
      BY <2>2, <3>1, <3>2 DEF m, h
  <2>4. \/ mine[u].seq <= coord.syncedThrough
        \/ \E i \in DOMAIN batch[t] : mine[u].frame = batch[t][i].frame
    BY <1>1, <1>3, <2>1, <2>3, BatchCovers
  <2>5. BatchSafe(t)
    BY <1>2, <2>1 DEF Barrier
  <2> QED
    BY <1>3, <2>4, <2>5 DEF AckInv, CallerAck, BatchSafe
<1> QED
  BY <1>1, <1>2, <1>3, NoCallInReset, ReturnAck

-----------------------------------------------------------------------------
\* A new call is not covered by what is published.
LEMMA CallAck ==
  ASSUME GroupInv, LogInv, DiskInv, AckInv, NEW t \in Threads, Call(t), UNCHANGED durability
  PROVE  AckInv'
<1>1. /\ pc[t] = "idle" /\ UNCHANGED <<fs, writer, promised>>
      /\ coord'.syncedThrough = coord.syncedThrough
      /\ \A u \in Threads : u # t => pc'[u] = pc[u] /\ mine'[u] = mine[u] /\ batch'[u] = batch[u]
  BY DEF Call, Goto, GroupInv, GroupTypes, ghostVars
<1>2. CallerAck(t)'
  <2>1. CASE durability = "GroupCommit"
    <3>1. mine' = [mine EXCEPT ![t] = [frame |-> calls + 1, seq |-> coord.nextSeq + 1]]
          /\ pc' = [pc EXCEPT ![t] = "check"]
      BY <2>1 DEF Call, Goto
    <3>2. pc'[t] = "check" /\ mine'[t].seq = coord.nextSeq + 1
      BY <3>1 DEF GroupInv, GroupTypes
    <3>3. coord.syncedThrough \in Nat /\ coord.nextSeq \in Nat
          /\ coord.syncedThrough <= coord.nextSeq
      BY <2>1, SeqNumbers DEF GroupInv, CommitOrder
    <3>4. ~(mine'[t].seq <= coord'.syncedThrough)
      BY <1>1, <3>2, <3>3
    <3> QED
      BY <3>2, <3>4 DEF CallerAck
  <2>2. CASE durability # "GroupCommit"
    <3>1. /\ mine' = [mine EXCEPT ![t] = [frame |-> calls + 1, seq |-> 0]]
          /\ batch' = [batch EXCEPT ![t] = <<[seq |-> 0, frame |-> calls + 1]>>]
          /\ pc' = [pc EXCEPT ![t] = "write"]
      BY <2>2 DEF Call, Goto
    <3>2. /\ pc'[t] = "write" /\ mine'[t].frame = calls + 1
          /\ batch'[t] = <<[seq |-> 0, frame |-> calls + 1]>>
      BY <3>1 DEF GroupInv, GroupTypes
    <3>3. 1 \in DOMAIN batch'[t] /\ batch'[t][1].frame = calls + 1
      BY <3>2
    <3> QED
      BY <3>2, <3>3 DEF CallerAck
  <2> QED
    BY <2>1, <2>2
<1>3. SafeKept
  BY <1>1 DEF SafeKept
<1>4. \A u \in Threads : CallerAck(u)'
  <2> TAKE u \in Threads
  <2>1. CASE u = t
    BY <1>2, <2>1
  <2>2. CASE u # t
    <3>1. CallerAck(u)
      BY DEF AckInv
    <3> QED
      BY <1>1, <1>3, <2>2, <3>1, CallerStays
  <2> QED
    BY <2>1, <2>2
<1>5. pc[t] # "write"
  BY <1>1
<1> QED
  BY <1>1, <1>4, <1>5, NoCallInReset, OneCaller

\* A leader takes the whole queue.
LEMMA LeadAck ==
  ASSUME GroupInv, LogInv, DiskInv, AckInv, NEW t \in Threads, Lead(t), UNCHANGED durability
  PROVE  AckInv'
<1>1. /\ pc[t] = "check" /\ UNCHANGED <<fs, writer, promised, mine>>
      /\ coord.syncedThrough < mine[t].seq /\ ~coord.leaderActive
      /\ coord' = [coord EXCEPT !.leaderActive = TRUE, !.queue = <<>>]
      /\ batch' = [batch EXCEPT ![t] = coord.queue] /\ pc' = [pc EXCEPT ![t] = "write"]
  BY DEF Lead, Goto, ghostVars
<1>2. /\ coord'.syncedThrough = coord.syncedThrough
      /\ pc'[t] = "write" /\ batch'[t] = coord.queue
      /\ \A u \in Threads : u # t => pc'[u] = pc[u] /\ mine'[u] = mine[u] /\ batch'[u] = batch[u]
  BY <1>1 DEF GroupInv, GroupTypes
<1>3. OneLeader /\ WaitersCarried
  BY <1>1 DEF GroupInv, Ungrouped
<1>4. \E i \in DOMAIN coord.queue : mine[t] = coord.queue[i]
  <2>1. Carried(t)
    BY <1>1, <1>3, SeqNumbers DEF WaitersCarried, GroupInv
  <2> QED
    BY <1>1, <1>3, <2>1 DEF Carried, OneLeader
<1>5. CallerAck(t)'
  BY <1>1, <1>2, <1>4 DEF CallerAck
<1>6. SafeKept
  BY <1>1 DEF SafeKept
<1>7. \A u \in Threads : CallerAck(u)'
  <2> TAKE u \in Threads
  <2>1. CASE u = t
    BY <1>5, <2>1
  <2>2. CASE u # t
    <3>1. CallerAck(u)
      BY DEF AckInv
    <3> QED
      BY <1>2, <1>6, <2>2, <3>1, CallerStays
  <2> QED
    BY <2>1, <2>2
<1>8. pc[t] # "write"
  BY <1>1
<1> QED
  BY <1>1, <1>2, <1>7, <1>8, NoCallInReset, OneCaller

\* Nothing that matters here changes.
LEMMA UntouchedAck ==
  ASSUME AckInv, UNCHANGED <<durability, fs, writer, coord, callVars, promised>>
  PROVE  AckInv'
  BY DEF AckInv, CallerAck, OwnerAck, UnderWay, Logged, BatchSafe, Barrier, callVars

\* The owner starts with all of its batch to write.
LEMMA LockAck ==
  ASSUME GroupInv, LogInv, DiskInv, AckInv, NEW t \in Threads, LockWriter(t), UNCHANGED durability
  PROVE  AckInv'
<1>1. /\ pc[t] = "write" /\ UNCHANGED <<fs, promised, coord, pc, mine, batch>>
      /\ writer' = [writer EXCEPT !.owner = t, !.todo = batch[t], !.stage = AfterFrames(batch[t])]
  BY DEF LockWriter, ghostVars, groupVars, callVars
<1>2. /\ writer'.owner = t /\ writer'.todo = batch[t] /\ writer'.stage = AfterFrames(batch[t])
  BY <1>1, WriterRecord
<1>3. \A u \in Threads : CallerAck(u)'
  BY <1>1 DEF AckInv, CallerAck, BatchSafe, Barrier
<1>4. batch[t] # <<>>
  <2>1. \E i \in DOMAIN batch[t] : batch[t][i].frame = mine[t].frame
    BY <1>1 DEF AckInv, CallerAck
  <2> QED
    BY <2>1, EmptyIsClean
<1>5. writer'.stage = "append"
  BY <1>2, <1>4 DEF AfterFrames
<1>6. OwnerAck(t)'
  BY <1>1, <1>2, <1>5 DEF OwnerAck, UnderWay
<1>7. \A x \in promised' : Safe(fs', x)
  BY <1>1 DEF AckInv
<1> QED
  BY <1>2, <1>3, <1>6, <1>7 DEF AckInv

\* A step of the mutex's owner that leaves all callers where they are.
LEMMA OwnerMoves ==
  ASSUME AckInv, SafeKept, NEW t \in Threads, writer'.owner = t, OwnerAck(t)',
         UNCHANGED <<durability, promised, coord, pc, mine, batch>>
  PROVE  AckInv'
<1>1. \A u \in Threads : CallerAck(u)'
  <2> TAKE u \in Threads
  <2>1. CallerAck(u)
    BY DEF AckInv
  <2> QED
    BY <2>1, CallerStays
<1>2. \A x \in promised' : Safe(fs', x)
  BY DEF AckInv, SafeKept
<1> QED
  BY <1>1, <1>2 DEF AckInv

\* A frame written moves from what is to do to what is logged.
LEMMA WriteAck ==
  ASSUME GroupInv, LogInv, LogInv', DiskInv, AckInv, NEW t \in Threads, WriteFrame(t),
         UNCHANGED durability
  PROVE  AckInv'
<1> DEFINE a == writer.active
           todo == writer.todo
           old == SegOf(fs, a).bytes
<1>1. PICK p \in Piece :
         /\ a \in Ids /\ p.id.frame = Head(todo).frame
         /\ UNCHANGED <<promised, covered, pc, mine, batch, coord>>
         /\ writer.stage = "append" /\ writer.owner = t /\ writer'.active = a
         /\ writer'.owner = t
         /\ writer'.todo = Tail(todo) /\ writer'.stage = AfterFrames(Tail(todo))
         /\ SegOf(fs', a).bytes = old \o <<p>>
  BY WriteEffect
<1>2. SafeKept
  BY GrowsWritten, GrowsSafe
<1>3. todo \in Seq(Frame) /\ todo # <<>>
  BY <1>1, HeadFrame
<1>4. old \in Seq(Piece)
  BY <1>1, SegTypes DEF LogInv
<1> HIDE DEF a, todo, old
<1>5. /\ Len(old \o <<p>>) = Len(old) + 1 /\ (old \o <<p>>)[Len(old) + 1] = p
      /\ \A n \in 1 .. Len(old) : (old \o <<p>>)[n] = old[n]
      /\ Len(old) \in Nat
  BY <1>4
<1>6. \A k \in DOMAIN todo : \/ todo[k] = Head(todo)
                             \/ \E j \in DOMAIN Tail(todo) : Tail(todo)[j] = todo[k]
  <2> TAKE k \in DOMAIN todo
  <2>1. /\ DOMAIN todo = 1 .. Len(todo) /\ Head(todo) = todo[1] /\ Len(todo) \in Nat
        /\ DOMAIN Tail(todo) = 1 .. Len(todo) - 1
        /\ \A j \in 1 .. Len(todo) - 1 : Tail(todo)[j] = todo[j + 1]
    BY <1>3
  <2>2. CASE k = 1
    BY <2>1, <2>2
  <2>3. CASE k # 1
    <3>1. k - 1 \in 1 .. Len(todo) - 1 /\ (k - 1) + 1 = k
      BY <2>1, <2>3
    <3>2. Tail(todo)[k - 1] = todo[k]
      BY <2>1, <3>1
    <3> QED
      BY <2>1, <3>1, <3>2
  <2> QED
    BY <2>2, <2>3
<1>7. ASSUME NEW x, UnderWay(fs, writer, x) PROVE UnderWay(fs', writer', x)
  <2>1. CASE \E k \in DOMAIN todo : todo[k].frame = x
    <3>1. PICK k \in DOMAIN todo : todo[k].frame = x
      BY <2>1
    <3>2. CASE todo[k] = Head(todo)
      <4>1. p.id.frame = x
        BY <1>1, <3>1, <3>2
      <4>2. Len(old) + 1 \in 1 .. Len(SegOf(fs', a).bytes)
            /\ SegOf(fs', a).bytes[Len(old) + 1] = p
        BY <1>1, <1>5
      <4> QED
        BY <1>1, <4>1, <4>2 DEF UnderWay, Logged
    <3>3. CASE \E j \in DOMAIN Tail(todo) : Tail(todo)[j] = todo[k]
      BY <1>1, <3>1, <3>3 DEF UnderWay
    <3> QED
      BY <1>6, <3>2, <3>3
  <2>2. CASE Logged(fs, a, x)
    <3>1. PICK n \in 1 .. Len(old) : old[n].id.frame = x
      BY <2>2 DEF Logged, old
    <3>2. n \in 1 .. Len(SegOf(fs', a).bytes) /\ SegOf(fs', a).bytes[n] = old[n]
      BY <1>1, <1>5
    <3> QED
      BY <1>1, <3>1, <3>2 DEF UnderWay, Logged
  <2> QED
    BY <1>7, <2>1, <2>2 DEF UnderWay, a, todo
<1>8. OwnerAck(t)
  BY <1>1 DEF AckInv
<1>9. OwnerAck(t)'
  <2>1. \A i \in DOMAIN batch[t] : UnderWay(fs, writer, batch[t][i].frame)
    BY <1>1, <1>8 DEF OwnerAck
  <2>2. \A i \in DOMAIN batch'[t] : UnderWay(fs', writer', batch'[t][i].frame)
    BY <1>1, <1>7, <2>1
  <2>3. writer'.stage = "sync" => writer'.todo = <<>> /\ Barrier'
    BY <1>1 DEF AfterFrames, Barrier
  <2>4. writer'.stage \in {"roll", "create", "dirsync"} => ~Barrier'
    BY <1>1 DEF AfterFrames, Barrier
  <2> QED
    BY <2>2, <2>3, <2>4 DEF OwnerAck
<1> QED
  BY <1>1, <1>2, <1>9, OwnerMoves

-----------------------------------------------------------------------------
\* The barrier makes safe all that is in the active segment.
LEMMA SyncSafe ==
  ASSUME GroupInv, LogInv, DiskInv, NEW t \in Threads, SyncSegment(t) \/ Seal(t),
         NEW x, Logged(fs, writer.active, x)
  PROVE  Safe(fs', x)
<1> DEFINE a == writer.active
           s == SegOf(fs, a).bytes
<1>1. /\ a \in Ids /\ Sound(fs, a)
      /\ SegOf(fs', a).bytes = s /\ SegOf(fs', a).diskSynced = s
  BY SyncEffect
<1>2. PICK n \in 1 .. Len(s) : s[n].id.frame = x
  BY DEF Logged
<1>3. s \in Seq(Piece) /\ Clean(s)
  BY <1>1, SegTypes DEF LogInv, Sound
<1> HIDE DEF a, s
<1>4. n \in Nat /\ \A k \in 1 .. n : Decodes(s[k])
  BY <1>2, <1>3 DEF Clean
<1>5. At(s, n, s[n].id)
  BY <1>4 DEF At
<1> QED
  BY <1>1, <1>2, <1>4, <1>5 DEF Kept, Safe

\* The barrier makes what the owner logged safe.
LEMMA SyncAck ==
  ASSUME GroupInv, LogInv, LogInv', DiskInv, AckInv, NEW t \in Threads, SyncSegment(t) \/ Seal(t),
         UNCHANGED durability
  PROVE  AckInv'
<1>1. /\ writer.owner = t /\ writer'.owner = t
      /\ UNCHANGED <<promised, pc, mine, batch, coord>>
  BY SyncEffect
<1>2. SafeKept
  BY GrowsSynced, GrowsSafe
<1>3. OwnerAck(t)
  BY <1>1 DEF AckInv
<1>4. CASE SyncSegment(t)
  <2>1. writer.stage = "sync" /\ writer'.stage = "roll"
    BY <1>4, WriterRecord DEF SyncSegment, Owns
  <2>2. \A i \in DOMAIN batch[t] : Logged(fs, writer.active, batch[t][i].frame)
    BY <1>3, <2>1, EmptyIsClean DEF OwnerAck, UnderWay
  <2>3. \A i \in DOMAIN batch[t] : Safe(fs', batch[t][i].frame)
    BY <1>4, <2>2, SyncSafe
  <2>4. OwnerAck(t)'
    BY <1>1, <2>1, <2>3 DEF OwnerAck, BatchSafe
  <2> QED
    BY <1>1, <1>2, <2>4, OwnerMoves
<1>5. CASE Seal(t)
  <2>1. writer.stage = "roll" /\ writer'.stage = "create"
    BY <1>5, WriterRecord DEF Seal, Owns
  <2>2. OwnerAck(t)'
    BY <1>1, <1>2, <1>3, <2>1 DEF OwnerAck, BatchSafe, SafeKept, Barrier
  <2> QED
    BY <1>1, <1>2, <2>2, OwnerMoves
<1> QED
  BY <1>4, <1>5

\* The create of the next segment keeps AckInv.
LEMMA CreateNextAck ==
  ASSUME GroupInv, LogInv, LogInv', DiskInv, AckInv, NEW t \in Threads, CreateNext(t),
         UNCHANGED durability
  PROVE  AckInv'
<1>1. /\ writer.owner = t /\ writer'.owner = t
      /\ writer.stage = "create" /\ writer'.stage = "dirsync"
      /\ UNCHANGED <<promised, pc, mine, batch, coord>>
  BY CreateNextEffect
<1>2. SafeKept
  <2>1. writer.active + 1 \in Ids /\ Created(fs, fs', writer.active + 1)
    BY CreateNextEffect
  <2>2. FsOK(fs) /\ FsOK(fs')
    BY DEF LogInv
  <2> QED
    BY <2>1, <2>2, GrowsCreated, GrowsSafe
<1>3. OwnerAck(t)
  BY <1>1 DEF AckInv
<1>4. OwnerAck(t)'
  BY <1>1, <1>2, <1>3 DEF OwnerAck, BatchSafe, SafeKept, Barrier
<1> QED
  BY <1>1, <1>2, <1>4, OwnerMoves

\* The write ends and the mutex is released.
LEMMA ReleaseAck ==
  ASSUME GroupInv, AckInv, SafeKept, NEW t \in Threads, NEW to \in {"ok", "err"},
         pc' = [pc EXCEPT ![t] = to], writer'.owner = NoThread, pc[t] = "write",
         to = "ok" /\ Barrier => BatchSafe(t),
         UNCHANGED <<durability, promised, coord, mine, batch>>
  PROVE  AckInv'
<1>1. pc'[t] = to /\ \A u \in Threads : u # t => pc'[u] = pc[u]
  BY DEF GroupInv, GroupTypes
<1>2. \A u \in Threads : CallerAck(u)'
  <2> TAKE u \in Threads
  <2>1. CallerAck(u)
    BY DEF AckInv
  <2>2. CASE u = t
    <3>1. \E i \in DOMAIN batch[t] : batch[t][i].frame = mine[t].frame
      BY <2>1, <2>2 DEF CallerAck
    <3>2. to = "ok" /\ Barrier => \A i \in DOMAIN batch[t] : Safe(fs', batch[t][i].frame)
      BY DEF SafeKept, BatchSafe
    <3> QED
      BY <1>1, <2>2, <3>1, <3>2 DEF CallerAck, BatchSafe, Barrier
  <2>3. CASE u # t
    BY <1>1, <2>1, <2>3, CallerStays
  <2> QED
    BY <2>2, <2>3
<1>3. \A u \in Threads : writer'.owner # u
  BY WalAssumption
<1>4. \A x \in promised' : Safe(fs', x)
  BY DEF AckInv, SafeKept
<1> QED
  BY <1>2, <1>3, <1>4 DEF AckInv

\* The owner leaves with its batch behind a barrier.
LEMMA NoRollAck ==
  ASSUME GroupInv, LogInv, AckInv, NEW t \in Threads, NoRoll(t), UNCHANGED durability
  PROVE  AckInv'
<1>1. /\ writer.owner = t /\ writer.stage = "roll" /\ writer'.owner = NoThread
      /\ pc' = [pc EXCEPT ![t] = "ok"] /\ UNCHANGED <<fs, promised, coord, mine, batch>>
  BY DEF NoRoll, Owns, Goto, WriterOf, ghostVars, groupVars
<1>2. pc[t] = "write" /\ OwnerAck(t)
  BY <1>1 DEF GroupInv, OwnerAtWork, AckInv
<1>3. Barrier => BatchSafe(t)
  BY <1>1, <1>2 DEF OwnerAck
<1>4. SafeKept
  BY <1>1 DEF SafeKept
<1> QED
  BY <1>1, <1>2, <1>3, <1>4, ReleaseAck

\* So it does after a rotation.
LEMMA SwitchAck ==
  ASSUME GroupInv, LogInv, LogInv', DiskInv, AckInv, NEW t \in Threads, SwitchSegment(t),
         UNCHANGED durability
  PROVE  AckInv'
<1>1. /\ writer.owner = t /\ writer.stage = "dirsync" /\ writer'.owner = NoThread
      /\ pc' = [pc EXCEPT ![t] = "ok"] /\ UNCHANGED <<promised, coord, mine, batch>>
  BY SwitchEffect
<1>2. pc[t] = "write" /\ OwnerAck(t)
  BY <1>1 DEF GroupInv, OwnerAtWork, AckInv
<1>3. Barrier => BatchSafe(t)
  BY <1>1, <1>2 DEF OwnerAck
<1>4. SafeKept
  BY GrowsSwitched, GrowsSafe
<1> QED
  BY <1>1, <1>2, <1>3, <1>4, ReleaseAck

\* The owner leaves with an error and no promise.
LEMMA OpFailsAck ==
  ASSUME GroupInv, LogInv, DiskInv, AckInv, NEW t \in Threads, OpFails(t), UNCHANGED durability
  PROVE  AckInv'
<1>1. /\ boot = "up" /\ writer.owner = t /\ writer' = WriterOf(writer.active, writer.offset)
      /\ pc' = [pc EXCEPT ![t] = IF pc[t] = "reset" THEN "idle" ELSE "err"]
      /\ UNCHANGED <<fs, promised, coord, mine, batch>>
  BY DEF OpFails, Fail, Goto, ghostVars, groupVars
<1>2. writer'.owner = NoThread /\ writer'.stage = "none"
  BY <1>1 DEF WriterOf
<1>3. SafeKept
  BY <1>1 DEF SafeKept
<1>4. CASE writer.stage \in ResetStages
  <2>1. pc[t] = "reset" /\ promised = {} /\ \A u \in Threads : pc[u] \in {"idle", "reset"}
    BY <1>1, <1>4 DEF GroupInv, OwnerAtWork, ResetStages, DiskInv, UpDisk
  <2>2. \A u \in Threads : pc'[u] \in {"idle", "reset"}
    BY <1>1, <2>1 DEF GroupInv, GroupTypes
  <2> QED
    BY <1>1, <1>2, <1>3, <2>1, <2>2, RestingAck
<1>5. CASE writer.stage \notin ResetStages
  <2>1. pc[t] = "write"
    BY <1>1, <1>5 DEF GroupInv, OwnerAtWork, ResetStages
  <2>2. pc' = [pc EXCEPT ![t] = "err"]
    BY <1>1, <2>1
  <2> QED
    BY <1>1, <1>2, <1>3, <2>1, <2>2, ReleaseAck
<1> QED
  BY <1>4, <1>5

\* reset() starts with nobody in append(), and releases every promise.
LEMMA ResetAck ==
  ASSUME GroupInv, DiskInv, NEW t \in Threads,
         \/ StartReset(t) \/ ResetCreate(t) \/ ResetPublish(t) \/ ResetRetire(t) \/ ResetDone(t)
  PROVE  AckInv'
<1>1. promised' = {}
  BY DEF StartReset, ResetCreate, ResetPublish, ResetRetire, ResetDone, Owns, DiskInv, UpDisk,
         ResetStages, ghostVars
<1>2. \A u \in Threads : pc'[u] \in {"idle", "reset"}
  <2>1. CASE StartReset(t)
    BY <2>1 DEF StartReset, Goto, GroupInv, GroupTypes
  <2>2. CASE ~StartReset(t)
    <3>1. \A u \in Threads : pc[u] \in {"idle", "reset"}
      BY <2>2 DEF ResetCreate, ResetPublish, ResetRetire, ResetDone, Owns, DiskInv, UpDisk,
         ResetStages
    <3>2. pc' = pc \/ pc' = [pc EXCEPT ![t] = "idle"]
      BY <2>2 DEF ResetCreate, ResetPublish, ResetRetire, ResetDone, Goto, callVars
    <3> QED
      BY <3>1, <3>2 DEF GroupInv, GroupTypes
  <2> QED
    BY <2>1, <2>2
<1>3. writer'.stage \in {"none"} \cup ResetStages
  <2>1. CASE StartReset(t) \/ ResetCreate(t) \/ ResetPublish(t)
    BY <2>1, WriterRecord DEF StartReset, ResetCreate, ResetPublish, ResetStages
  <2>2. CASE ResetRetire(t)
    BY <2>2, WriterRecord DEF ResetRetire, Owns, ResetStages
  <2>3. CASE ResetDone(t)
    BY <2>3 DEF ResetDone, WriterOf
  <2> QED
    BY <2>1, <2>2, <2>3
<1> QED
  BY <1>1, <1>2, <1>3 DEF AckInv, CallerAck, OwnerAck, ResetStages

\* Recovery keeps what is promised.
LEMMA BootAck ==
  ASSUME GroupInv, LogInv, AckInv, SafeKept, Boot
  PROVE  AckInv'
<1>1. boot # "up" /\ UNCHANGED <<pc, promised>>
  BY DEF Boot, Scan, DropTmp, CreateTmp, CopyValid, SyncTmp, RenameTmp, SyncRename, Activate,
         CreateFirst, SyncFirst, Booting, BootTo, callVars, ghostVars
<1>2. writer' = writer \/ \E id, offset : writer' = WriterOf(id, offset)
  BY DEF Boot, Scan, DropTmp, CreateTmp, CopyValid, SyncTmp, RenameTmp, SyncRename, Activate,
         CreateFirst, SyncFirst, Booting
<1>3. writer.stage = "none" /\ \A t \in Threads : pc[t] = "idle"
  BY <1>1 DEF LogInv, BootOK, WriterOf
<1>4. writer'.stage = "none"
  BY <1>2, <1>3 DEF WriterOf
<1> QED
  BY <1>1, <1>3, <1>4, RestingAck DEF AckInv

\* A power loss keeps what is promised.
LEMMA CrashAck ==
  ASSUME LogInv, AckInv, NEW image \in Fs!Crashes(fs), Die(image)
  PROVE  AckInv'
<1>1. /\ fs' = image /\ writer' = WriterOf(1, 0) /\ promised' = promised
      /\ pc' = [t \in Threads |-> "idle"]
  BY DEF Die
<1>2. SafeKept
  BY <1>1, CrashKeeps DEF SafeKept, Safe, LogInv
<1>3. writer'.stage = "none"
  BY <1>1 DEF WriterOf
<1> QED
  BY <1>1, <1>2, <1>3, RestingAck DEF AckInv

\* Every step keeps AckInv.
LEMMA AckStep ==
  ASSUME Calm, GroupInv, LogInv, LogInv', DiskInv, AckInv, [Next]_vars
  PROVE  AckInv'
<1>1. ASSUME NEW t \in Threads, Progress(t) PROVE AckInv'
  <2>1. UNCHANGED durability
    BY <1>1 DEF Progress
  <2>2. CASE Park(t)
    BY <2>1, <2>2, UntouchedAck DEF Park, ghostVars
  <2> QED
    BY <1>1, <2>1, <2>2, CoveredAck, LeadAck, LockAck, WriteAck, SyncAck, NoRollAck,
       CreateNextAck, SwitchAck, OpFailsAck, CommitOkAck, CommitErrAck, ResetAck DEF Progress
<1>2. CASE Boot
  <2>1. SafeKept
    BY <1>2, BootGrows, GrowsSafe
  <2> QED
    BY <1>2, <2>1, BootAck
<1>3. ASSUME NEW t \in Threads, UNCHANGED durability,
             Call(t) \/ StartReset(t) \/ SpuriousWake(t) \/ ShortWrite(t)
      PROVE  AckInv'
  <2>1. ~ShortWrite(t)
    BY DEF ShortWrite, Fault, Calm
  <2>2. CASE SpuriousWake(t)
    BY <1>3, <2>2, UntouchedAck DEF SpuriousWake, ghostVars
  <2> QED
    BY <1>3, <2>1, <2>2, CallAck, ResetAck
<1>4. CASE PowerLoss \/ Kill \/ OpenFails
  <2>1. PICK image \in Fs!Crashes(fs) : Die(image)
    BY <1>4 DEF PowerLoss, Kill, OpenFails, Fault, Calm
  <2> QED
    BY <2>1, CrashAck
<1>5. CASE UNCHANGED vars
  BY <1>5, UntouchedAck DEF vars, ghostVars, groupVars
<1> QED
  BY <1>1, <1>2, <1>3, <1>4, <1>5 DEF Next

\* At the start nothing is promised.
LEMMA InitAck == Init => AckInv
<1> SUFFICES ASSUME Init PROVE AckInv
  OBVIOUS
<1>1. promised = {} /\ writer = WriterOf(1, 0) /\ pc = [t \in Threads |-> "idle"]
  BY DEF Init
<1>2. writer.owner = NoThread
  BY <1>1 DEF WriterOf
<1> QED
  BY <1>1, <1>2, WalAssumption DEF AckInv, CallerAck

-----------------------------------------------------------------------------
\* Nothing damaged comes before a piece that the disk has.
LEMMA BootClean ==
  ASSUME NEW f, FsOK(f), NEW stage \in Boots \ {"up"}, BootDisk(f, stage),
         NEW i \in Ids, NEW j \in Ids, i < j, SegOf(f, j).diskBytes # <<>>
  PROVE  Clean(SegOf(f, i).bytes)
<1>1. Clean(SegOf(f, i).diskBytes)
  BY DEF BootDisk
<1>2. CASE SegOf(f, i).same
  BY <1>1, <1>2, SegShape
<1>3. CASE stage = "dirsync"
  <2>1. SegOf(f, i).bytes = ValidOf(SegOf(f, i).diskBytes)
    BY <1>3 DEF BootDisk
  <2> QED
    BY <2>1, SegTypes, ValidOfFacts
<1>4. CASE stage = "mkdir"
  <2>1. SegOf(f, i).bytes = <<>>
    BY <1>4 DEF BootDisk
  <2> QED
    BY <2>1, EmptyIsClean
<1>5. stage \in {"scan", "activate"} \cup Repairing => SegOf(f, i).same
  BY DEF BootDisk
<1> QED
  BY <1>2, <1>3, <1>4, <1>5 DEF Boots, Repairing

\* What the process and the disk both have is replayed, whatever happens now.
LEMMA PlacedReplays ==
  ASSUME LogInv, DiskInv, NEW image \in Images, NEW id \in Ids, NEW n \in Nat, NEW q,
         At(SegOf(image, id).bytes, n, q), SegOf(image, id).diskBytes # <<>>
  PROVE  Replays(image, id, n)
<1>1. n \in 1 .. Len(SegOf(image, id).bytes) /\ \A k \in 1 .. n : Decodes(SegOf(image, id).bytes[k])
  BY DEF At
<1>2. ASSUME NEW j \in Ids, j < id PROVE Clean(SegOf(image, j).bytes)
  <2>1. CASE image \in Fs!Crashes(fs)
    <3>1. BootDisk(image, "scan") /\ FsOK(image)
      BY <2>1, CrashDisk, CrashSegments DEF LogInv
    <3>2. "scan" \in Boots \ {"up"}
      BY DEF Boots
    <3> QED
      BY <1>2, <3>1, <3>2, BootClean
  <2>2. CASE image = fs
    <3>1. CASE boot = "up"
      BY <1>2, <2>2, <3>1 DEF DiskInv, UpDisk, Sound
    <3>2. CASE boot # "up"
      BY <1>2, <2>2, <3>2, BootClean DEF DiskInv, LogInv, BootOK
    <3> QED
      BY <3>1, <3>2
  <2> QED
    BY <2>1, <2>2 DEF Images
<1> QED
  BY <1>1, <1>2 DEF Replays

\* What is promised is replayed, whatever happens now.
LEMMA AckedIsRecovered ==
  ASSUME LogInv, DiskInv, AckInv
  PROVE  AckedDurable
<1> SUFFICES ASSUME NEW image \in Images, NEW x \in promised
             PROVE  x \in {p.frame : p \in ToSet(Recovered(image))}
  BY DEF AckedDurable
<1>1. FsOK(fs) /\ FsOK(image) /\ FsType(image)
  BY CrashSegments DEF LogInv, Images, FsOK
<1>2. PICK q : Kept(fs, q) /\ q.frame = x
  BY DEF AckInv, Safe
<1>3. Kept(image, q)
  BY <1>1, <1>2, CrashKeeps DEF Images
<1>4. PICK id \in Ids, n \in Nat :
        At(SegOf(image, id).bytes, n, q) /\ At(SegOf(image, id).diskSynced, n, q)
  BY <1>3 DEF Kept
<1>5. SegOf(image, id).diskBytes # <<>>
  <2>1. SegOf(image, id).diskSynced # <<>>
    <3>1. Len(<<>>) = 0 /\ ~(n \in 1 .. 0)
      OBVIOUS
    <3> QED
      BY <1>4, <3>1 DEF At
  <2> QED
    BY <1>1, <2>1, SyncedLeadsDisk
<1>6. Replays(image, id, n)
  BY <1>4, <1>5, PlacedReplays
<1>7. Every(image, Recovered(image))
  BY <1>1, RecoveredFacts
<1>8. PICK i \in DOMAIN Recovered(image) : Recovered(image)[i] = SegOf(image, id).bytes[n].id
  BY <1>6, <1>7 DEF Every
<1>9. Recovered(image)[i] = q
  BY <1>4, <1>8 DEF At
<1> QED
  BY <1>2, <1>8, <1>9 DEF ToSet

(***************************************************************************)
(* Through power losses at any moment, also in a rotation, a reset or a    *)
(* recovery, and errors of any storage operation of append, rotation and   *)
(* reset: a frame whose append() returned Ok behind a barrier is replayed  *)
(* by recovery.  Kills, short writes and errors returned by Wal::open are  *)
(* outside Calm: each of them does lose an acked frame.                    *)
(***************************************************************************)
THEOREM WalAckedDurable == Calm => (Spec => []AckedDurable)
<1> SUFFICES ASSUME Calm PROVE Spec => []AckedDurable
  OBVIOUS

<1>1. Init => DiskInv /\ AckInv
  BY InitDisk, InitAck
<1>2. GroupInv /\ LogInv /\ LogInv' /\ DiskInv /\ AckInv /\ [Next]_vars
        => DiskInv' /\ AckInv'
  BY DiskStep, AckStep
<1>3. LogInv /\ DiskInv /\ AckInv => AckedDurable
  BY AckedIsRecovered
<1> QED
  BY <1>1, <1>2, <1>3, GroupInductive, LogInductive, PTL DEF Spec

-----------------------------------------------------------------------------
\* The pieces are listed in the order they were written.
Climbs(s) == \A i, j \in DOMAIN s : i < j => s[i].nth < s[j].nth

\* The elements of a sequence that are in a set, in their order.
LEMMA FilterFacts ==
  ASSUME NEW s \in Seq(PieceId), NEW S
  PROVE  LET F == Filter(s, S) IN
         /\ F \in Seq(PieceId)
         /\ \A i \in DOMAIN F : F[i] \in S /\ \E k \in DOMAIN s : F[i] = s[k]
         /\ \A k \in DOMAIN s : s[k] \in S => \E i \in DOMAIN F : F[i] = s[k]
         /\ Climbs(s) => Climbs(F)
<1> DEFINE seqs == [i \in DOMAIN s |-> IF s[i] \in S THEN <<s[i]>> ELSE <<>>]
           F == Filter(s, S)
           n == Len(s)
<1>1. n \in Nat /\ DOMAIN s = 1 .. n /\ \A k \in 1 .. n : s[k] \in PieceId
  OBVIOUS
<1>2. ASSUME NEW k \in 1 .. n
      PROVE  /\ seqs[k] \in Seq(PieceId)
             /\ \A m \in 1 .. Len(seqs[k]) : m = 1 /\ s[k] \in S /\ seqs[k][m] = s[k]
             /\ s[k] \in S => 1 \in 1 .. Len(seqs[k]) /\ seqs[k][1] = s[k]
  <2>1. seqs[k] = IF s[k] \in S THEN <<s[k]>> ELSE <<>>
    BY <1>1
  <2> HIDE DEF seqs
  <2>2. CASE s[k] \in S
    <3>1. seqs[k] = <<s[k]>> /\ s[k] \in PieceId
      BY <1>1, <2>1, <2>2
    <3> QED
      BY <2>2, <3>1
  <2>3. CASE s[k] \notin S
    <3>1. seqs[k] = <<>>
      BY <2>1, <2>3
    <3> QED
      BY <2>3, <3>1
  <2> QED
    BY <2>2, <2>3
<1>3. seqs \in Seq(Seq(PieceId)) /\ Len(seqs) = n
  <2>1. seqs = [k \in 1 .. n |-> seqs[k]]
    BY <1>1
  <2> HIDE DEF seqs
  <2> QED
    BY <1>1, <1>2, <2>1
<1>4. F = FlattenSeq(seqs)
  BY DEF Filter
<1> HIDE DEF seqs, F, n
<1>5. /\ F \in Seq(PieceId) /\ InOrder(F, seqs, n) /\ OnlyThose(F, seqs, n)
      /\ AllOfThem(F, seqs, n)
  BY <1>3, <1>4, FlattenType, FlattenElements
<1>6. DOMAIN F = 1 .. Len(F)
  BY <1>5
<1>7. ASSUME NEW i \in 1 .. Len(F) PROVE F[i] \in S /\ \E k \in DOMAIN s : F[i] = s[k]
  <2>1. PICK k \in 1 .. n : \E m \in 1 .. Len(seqs[k]) : F[i] = seqs[k][m]
    BY <1>5 DEF OnlyThose
  <2> QED
    BY <1>1, <1>2, <2>1
<1>8. ASSUME NEW k \in 1 .. n, s[k] \in S PROVE \E i \in 1 .. Len(F) : F[i] = s[k]
  BY <1>2, <1>5, <1>8 DEF AllOfThem
<1>9. ASSUME Climbs(s), NEW i \in 1 .. Len(F), NEW j \in 1 .. Len(F), i < j
      PROVE  F[i].nth < F[j].nth
  <2>1. PICK t \in 1 .. n, u \in 1 .. n :
          \E a \in 1 .. Len(seqs[t]), b \in 1 .. Len(seqs[u]) :
            /\ F[i] = seqs[t][a] /\ F[j] = seqs[u][b]
            /\ t < u \/ (t = u /\ a < b)
    BY <1>5, <1>9 DEF InOrder
  <2>2. PICK a \in 1 .. Len(seqs[t]), b \in 1 .. Len(seqs[u]) :
            /\ F[i] = seqs[t][a] /\ F[j] = seqs[u][b]
            /\ t < u \/ (t = u /\ a < b)
    BY <2>1
  <2>3. a = 1 /\ b = 1 /\ seqs[t][a] = s[t] /\ seqs[u][b] = s[u]
    BY <1>2
  <2>4. F[i] = s[t] /\ F[j] = s[u] /\ t < u
    BY <2>2, <2>3
  <2> QED
    BY <1>1, <1>9, <2>4 DEF Climbs
<1>10. Climbs(s) => Climbs(F)
  BY <1>6, <1>9 DEF Climbs
<1> QED
  BY <1>1, <1>5, <1>6, <1>7, <1>8, <1>10 DEF F

\* Of two lists of pieces in the order they were written, one with every piece of
\* the other up to its last is a prefix of it.
LEMMA ClosedIsPrefix ==
  ASSUME NEW F \in Seq(PieceId), NEW H \in Seq(PieceId), Climbs(F), Climbs(H),
         \A i \in DOMAIN F : \E m \in DOMAIN H : F[i] = H[m],
         \A i, j \in DOMAIN H : i < j /\ (\E k \in DOMAIN F : F[k] = H[j]) =>
           \E k \in DOMAIN F : F[k] = H[i]
  PROVE  IsPrefix(F, H)
<1> DEFINE l == Len(F)
           h == Len(H)
<1>1. l \in Nat /\ h \in Nat /\ DOMAIN F = 1 .. l /\ DOMAIN H = 1 .. h
  OBVIOUS
<1>2. (\A i \in 1 .. l : F[i].nth \in Nat) /\ (\A i \in 1 .. h : H[i].nth \in Nat)
  <2>1. (\A i \in 1 .. l : F[i] \in PieceId) /\ (\A i \in 1 .. h : H[i] \in PieceId)
    OBVIOUS
  <2> QED
    BY <2>1 DEF PieceId
<1> HIDE DEF l, h
<1> DEFINE D == {i \in 1 .. l : i > h \/ F[i] # H[i]}
<1>3. D = {}
  <2> SUFFICES ASSUME D # {} PROVE FALSE
    OBVIOUS
  <2>1. PICK i \in D : \A k \in D : i <= k
    <3>1. D \in SUBSET Nat
      BY <1>1
    <3> HIDE DEF D
    <3> QED
      BY <3>1, LeastNat
  <2>2. i \in 1 .. l /\ (i > h \/ F[i] # H[i])
    OBVIOUS
  <2>3. \A k \in 1 .. l : k < i => k <= h /\ F[k] = H[k]
    <3> TAKE k \in 1 .. l
    <3> HAVE k < i
    <3>1. k \notin D
      BY <1>1, <2>1, <2>2
    <3> QED
      BY <1>1, <3>1
  <2> HIDE DEF D
  <2>4. PICK m \in 1 .. h : F[i] = H[m]
    BY <1>1, <2>2
  <2>5. ~(m < i)
    <3> SUFFICES ASSUME m < i PROVE FALSE
      OBVIOUS
    <3>1. m \in 1 .. l
      BY <1>1, <2>2
    <3>2. F[m] = H[m] /\ F[m].nth < F[i].nth
      BY <1>1, <2>2, <2>3, <3>1 DEF Climbs
    <3> QED
      BY <1>2, <2>2, <2>4, <3>2
  <2>6. m > i /\ i \in 1 .. h
    BY <1>1, <2>2, <2>4, <2>5
  <2>7. H[i].nth < H[m].nth
    BY <1>1, <2>6 DEF Climbs
  <2>8. PICK k \in 1 .. l : F[k] = H[i]
    BY <1>1, <2>2, <2>4, <2>6
  <2>9. CASE k < i
    <3>1. H[k] = H[i] /\ k \in 1 .. h
      BY <1>1, <2>3, <2>8, <2>9
    <3>2. H[k].nth < H[i].nth
      BY <1>1, <2>6, <2>9, <3>1 DEF Climbs
    <3> QED
      BY <1>2, <2>6, <3>1, <3>2
  <2>10. CASE k = i
    BY <1>1, <2>2, <2>6, <2>8, <2>10
  <2>11. CASE k > i
    <3>1. F[i].nth < F[k].nth
      BY <1>1, <2>2, <2>11 DEF Climbs
    <3>2. F[i].nth = H[m].nth /\ F[k].nth = H[i].nth
      BY <2>4, <2>8
    <3> QED
      BY <1>2, <2>6, <2>7, <3>1, <3>2
  <2> QED
    BY <1>1, <2>2, <2>9, <2>10, <2>11
<1>4. \A i \in 1 .. l : i <= h /\ F[i] = H[i]
  <2> TAKE i \in 1 .. l
  <2>1. i \notin D
    BY <1>3
  <2> QED
    BY <1>1, <2>1
<1>5. l <= h
  <2>1. CASE l = 0
    BY <1>1, <2>1
  <2>2. CASE l # 0
    BY <1>1, <1>4, <2>2
  <2> QED
    BY <2>1, <2>2
<1>6. SubSeq(F, 1, l) = SubSeq(H, 1, l)
  <2>1. SubSeq(F, 1, l) = [i \in 1 .. l |-> F[i]] /\ SubSeq(H, 1, l) = [i \in 1 .. l |-> H[i]]
    <3> HIDE DEF D
    <3> QED
      BY <1>1, <1>5 DEF l, h
  <2> QED
    BY <1>4, <2>1
<1> QED
  BY <1>5, <1>6 DEF IsPrefix, l, h

-----------------------------------------------------------------------------
\* The history has its pieces in the order they were written, and each one is
\* where recovery can get at it, in both images.
HistInv ==
  /\ history \in Seq(PieceId)
  /\ \A i \in DOMAIN history : history[i].nth > covered /\ history[i].nth <= writes
  /\ Climbs(history)
  /\ \A i \in DOMAIN history : Placed(fs, history[i])

\* Recovery replays pieces in the order they were written.
LEMMA RecoveredClimbs ==
  ASSUME NEW f, FsOK(f), NEW w, Ordered(Bytes(f), w)
  PROVE  /\ Climbs(Recovered(f))
         /\ \A i \in DOMAIN Recovered(f) : Recovered(f)[i].nth <= w
<1> DEFINE R == Recovered(f)
<1>1. Only(f, R) /\ Orderly(f, R)
  BY RecoveredFacts DEF FsOK
<1>2. \A id, n : Replays(f, id, n) =>
        id \in Ids /\ n \in 1 .. Len(Bytes(f)[id]) /\ Bytes(f)[id] = SegOf(f, id).bytes
  BY DEF Replays, Bytes
<1> HIDE DEF R
<1>3. ASSUME NEW i \in DOMAIN R, NEW j \in DOMAIN R, i < j PROVE R[i].nth < R[j].nth
  <2>1. PICK a, m, b, n :
          /\ Replays(f, a, m) /\ R[i] = SegOf(f, a).bytes[m].id
          /\ Replays(f, b, n) /\ R[j] = SegOf(f, b).bytes[n].id
          /\ Before(a, m, b, n)
    BY <1>1, <1>3 DEF Orderly
  <2>2. /\ a \in Ids /\ m \in 1 .. Len(Bytes(f)[a]) /\ R[i] = Bytes(f)[a][m].id
        /\ b \in Ids /\ n \in 1 .. Len(Bytes(f)[b]) /\ R[j] = Bytes(f)[b][n].id
    BY <1>2, <2>1
  <2>3. Bytes(f)[a][m].id.nth < Bytes(f)[b][n].id.nth
    BY <2>1, <2>2 DEF Ordered
  <2> QED
    BY <2>2, <2>3
<1>4. ASSUME NEW i \in DOMAIN R PROVE R[i].nth <= w
  <2>1. PICK id, n : Replays(f, id, n) /\ R[i] = SegOf(f, id).bytes[n].id
    BY <1>1 DEF Only
  <2>2. id \in Ids /\ n \in 1 .. Len(Bytes(f)[id]) /\ R[i] = Bytes(f)[id][n].id
    BY <1>2, <2>1
  <2> QED
    BY <2>2 DEF Ordered
<1> QED
  BY <1>3, <1>4 DEF Climbs, R

\* The log's contents after a restart are those that recovery will replay.
LEMMA CrashHistory ==
  ASSUME LogInv, LogInv', OrderInv', NEW image \in Fs!Crashes(fs), Die(image)
  PROVE  HistInv'
<1> DEFINE R == Recovered(image)
           S == {p \in ToSet(R) : p.nth > covered}
<1>1. fs' = image /\ history' = Filter(R, S) /\ UNCHANGED <<covered, writes>>
  BY DEF Die
<1>2. FsOK(image) /\ FsType(image) /\ Ordered(Bytes(image), writes)
  BY <1>1 DEF LogInv, OrderInv, FsOK
<1>3. R \in Seq(PieceId) /\ Only(image, R)
  BY <1>2, RecoveredFacts
<1>4. Climbs(R) /\ \A i \in DOMAIN R : R[i].nth <= writes
  BY <1>2, RecoveredClimbs
<1>5. \A p \in S : p.nth > covered
  OBVIOUS
<1> HIDE DEF R, S
<1>6. /\ history' \in Seq(PieceId)
      /\ \A i \in DOMAIN history' : history'[i] \in S /\ \E k \in DOMAIN R : history'[i] = R[k]
      /\ Climbs(history')
  BY <1>1, <1>3, <1>4, FilterFacts
<1>7. ASSUME NEW k \in DOMAIN R PROVE Placed(image, R[k])
  <2>1. PICK id, n : Replays(image, id, n) /\ R[k] = SegOf(image, id).bytes[n].id
    BY <1>3 DEF Only
  <2>2. id \in Ids /\ n \in Nat /\ At(SegOf(image, id).bytes, n, R[k])
    BY <2>1 DEF Replays, At
  <2>3. SegOf(image, id).diskBytes = SegOf(image, id).bytes
    BY <2>2, CrashSegments DEF LogInv
  <2> QED
    BY <2>2, <2>3 DEF Placed
<1>8. \A i \in DOMAIN history' : history'[i].nth > covered' /\ history'[i].nth <= writes'
  BY <1>1, <1>4, <1>5, <1>6
<1>9. \A i \in DOMAIN history' : Placed(fs', history'[i])
  BY <1>1, <1>6, <1>7
<1> QED
  BY <1>6, <1>8, <1>9 DEF HistInv, Climbs

\* A step that loses nothing keeps the history in place.
LEMMA KeptHistory ==
  ASSUME LogInv, LogInv', HistInv, Grows(fs, fs'), UNCHANGED <<history, covered, writes>>
  PROVE  HistInv'
<1>1. FsOK(fs) /\ FsOK(fs')
  BY DEF LogInv
<1>2. \A i \in DOMAIN history' : Placed(fs', history'[i])
  BY <1>1, GrowsKeeps DEF HistInv
<1> QED
  BY <1>2 DEF HistInv, Climbs

\* A reset releases what was logged.
LEMMA EmptyHistory ==
  ASSUME history' = <<>>
  PROVE  HistInv'
  BY EmptyIsClean DEF HistInv, Climbs

\* A frame appended is the history's last.
LEMMA WriteHistory ==
  ASSUME GroupInv, LogInv, LogInv', DiskInv, DiskInv', HistInv, NEW t \in Threads, WriteFrame(t)
  PROVE  HistInv'
<1> DEFINE a == writer.active
           old == SegOf(fs, a).bytes
           new == SegOf(fs', a).bytes
<1>1. PICK p \in Piece :
         /\ a \in Ids /\ p.id.nth = writes + 1 /\ writes' = writes + 1
         /\ history' = Append(history, p.id) /\ UNCHANGED covered
         /\ boot' = "up" /\ writer'.active = a
         /\ new = old \o <<p>> /\ SegOf(fs', a).diskBytes = old \o <<p>>
  BY WriteEffect
<1>2. /\ FsOK(fs) /\ FsOK(fs') /\ Grows(fs, fs') /\ writes \in Nat /\ covered \in Nat
      /\ covered <= writes
  BY GrowsWritten DEF LogInv, Counts
<1>3. Clean(new) /\ new \in Seq(Piece) /\ old \in Seq(Piece)
  BY <1>1, <1>2, SegTypes DEF DiskInv, UpDisk, Sound
<1> HIDE DEF a, old, new
<1>4. Placed(fs', p.id)
  <2> DEFINE n == Len(old) + 1
  <2>1. n \in Nat /\ Len(new) = n /\ new[n] = p /\ n \in 1 .. n
    BY <1>1, <1>3
  <2>2. \A k \in 1 .. n : Decodes(new[k])
    BY <1>3, <2>1 DEF Clean
  <2> HIDE DEF n
  <2>3. At(new, n, p.id)
    BY <2>1, <2>2 DEF At
  <2> QED
    BY <1>1, <2>1, <2>3 DEF Placed, new
<1> DEFINE h == Len(history)
<1>5. /\ p.id \in PieceId /\ history \in Seq(PieceId) /\ h \in Nat /\ DOMAIN history = 1 .. h
      /\ history' \in Seq(PieceId) /\ DOMAIN history' = 1 .. h + 1
      /\ history'[h + 1] = p.id /\ \A i \in 1 .. h : history'[i] = history[i]
      /\ \A i \in 1 .. h : history[i] \in PieceId
  BY <1>1 DEF HistInv, Piece
<1> HIDE DEF h
<1>6. \A i \in 1 .. h : /\ history[i].nth > covered /\ history[i].nth <= writes
                        /\ history[i].nth \in Nat /\ Placed(fs, history[i])
  BY <1>5 DEF HistInv, PieceId
<1>7. \A i \in 1 .. h + 1 : i \in 1 .. h \/ i = h + 1
  BY <1>5
<1>8. \A i \in 1 .. h + 1 : /\ history'[i].nth > covered' /\ history'[i].nth <= writes'
                            /\ Placed(fs', history'[i])
  <2> TAKE i \in 1 .. h + 1
  <2>1. CASE i \in 1 .. h
    <3>1. Placed(fs', history[i])
      BY <1>2, <1>6, <2>1, GrowsKeeps
    <3> QED
      BY <1>1, <1>2, <1>5, <1>6, <2>1, <3>1
  <2>2. CASE i = h + 1
    BY <1>1, <1>2, <1>4, <1>5, <2>2
  <2> QED
    BY <1>7, <2>1, <2>2
<1>9. ASSUME NEW i \in 1 .. h + 1, NEW j \in 1 .. h + 1, i < j
      PROVE  history'[i].nth < history'[j].nth
  <2>1. i \in 1 .. h
    BY <1>5, <1>9
  <2>2. CASE j \in 1 .. h
    <3>1. history[i].nth < history[j].nth
      BY <1>5, <1>9, <2>1, <2>2 DEF HistInv, Climbs
    <3> QED
      BY <1>5, <2>1, <2>2, <3>1
  <2>3. CASE j = h + 1
    BY <1>1, <1>2, <1>5, <1>6, <2>1, <2>3
  <2> QED
    BY <1>7, <2>2, <2>3
<1>10. Climbs(history)'
  BY <1>5, <1>9 DEF Climbs
<1> QED
  BY <1>5, <1>8, <1>10 DEF HistInv

\* Every step keeps HistInv.
LEMMA HistStep ==
  ASSUME Calm, GroupInv, LogInv, LogInv', DiskInv, DiskInv', OrderInv', HistInv, [Next]_vars
  PROVE  HistInv'
<1>1. ASSUME NEW t \in Threads, Progress(t) PROVE HistInv'
  <2>1. CASE WriteFrame(t)
    BY <2>1, WriteHistory
  <2>2. CASE ResetCreate(t) \/ ResetPublish(t) \/ ResetRetire(t) \/ ResetDone(t)
    <3>1. history' = <<>>
      BY <2>2 DEF ResetCreate, ResetPublish, ResetRetire, ResetDone, Owns, DiskInv, UpDisk,
         ResetStages, ghostVars
    <3> QED
      BY <3>1, EmptyHistory
  <2>3. CASE ~WriteFrame(t) /\ ~(ResetCreate(t) \/ ResetPublish(t) \/ ResetRetire(t) \/ ResetDone(t))
    <3>1. UNCHANGED <<history, covered, writes>>
      BY <1>1, <2>3 DEF Progress, Covered, Park, Lead, LockWriter, SyncSegment, NoRoll, Seal,
         CreateNext, SwitchSegment, OpFails, CommitOk, CommitErr, ghostVars
    <3>2. Grows(fs, fs')
      <4>1. CASE fs' = fs
        BY <4>1, GrowsSame DEF SameSegments, LogInv
      <4>2. CASE CreateNext(t)
        BY <4>2, CreateNextEffect, GrowsCreated DEF LogInv
      <4>3. CASE SyncSegment(t) \/ Seal(t) \/ SwitchSegment(t)
        BY <4>3, GrowsSynced, GrowsSwitched
      <4> QED
        BY <1>1, <2>3, <4>1, <4>2, <4>3 DEF Progress, Covered, Park, Lead, LockWriter, NoRoll,
           OpFails, CommitOk, CommitErr
    <3> QED
      BY <3>1, <3>2, KeptHistory
  <2> QED
    BY <2>1, <2>2, <2>3
<1>2. CASE Boot
  <2>1. UNCHANGED <<history, covered, writes>>
    BY <1>2 DEF Boot, Scan, DropTmp, CreateTmp, CopyValid, SyncTmp, RenameTmp, SyncRename,
       Activate, CreateFirst, SyncFirst, Booting, BootTo, ghostVars
  <2> QED
    BY <1>2, <2>1, BootGrows, KeptHistory
<1>3. ASSUME NEW t \in Threads, Call(t) \/ StartReset(t) \/ SpuriousWake(t) \/ ShortWrite(t)
      PROVE  HistInv'
  <2>1. ~ShortWrite(t)
    BY DEF ShortWrite, Fault, Calm
  <2>2. CASE StartReset(t)
    BY <2>2, EmptyHistory DEF StartReset
  <2>3. CASE Call(t) \/ SpuriousWake(t)
    <3>1. UNCHANGED <<fs, history, covered, writes>>
      BY <2>3 DEF Call, SpuriousWake, ghostVars
    <3>2. Grows(fs, fs')
      BY <3>1, GrowsSame DEF SameSegments, LogInv
    <3> QED
      BY <3>1, <3>2, KeptHistory
  <2> QED
    BY <1>3, <2>1, <2>2, <2>3
<1>4. CASE PowerLoss \/ Kill \/ OpenFails
  <2>1. PICK image \in Fs!Crashes(fs) : Die(image)
    BY <1>4 DEF PowerLoss, Kill, OpenFails, Fault, Calm
  <2> QED
    BY <2>1, CrashHistory
<1>5. CASE UNCHANGED vars
  <2>1. UNCHANGED <<fs, history, covered, writes>>
    BY <1>5 DEF vars, ghostVars
  <2>2. Grows(fs, fs')
    BY <2>1, GrowsSame DEF SameSegments, LogInv
  <2> QED
    BY <2>1, <2>2, KeptHistory
<1> QED
  BY <1>1, <1>2, <1>3, <1>4, <1>5 DEF Next

-----------------------------------------------------------------------------
\* At the start the history is empty.
LEMMA InitHist == Init => HistInv
<1> SUFFICES ASSUME Init PROVE HistInv
  OBVIOUS
<1>1. history = <<>>
  BY DEF Init
<1> QED
  BY <1>1, EmptyIsClean DEF HistInv, Climbs

\* A piece written before one that is replayed stands where the replay passes.
LEMMA EarlierStands ==
  ASSUME LogInv, DiskInv, OrderInv, NEW image \in Images,
         NEW p \in PieceId, NEW q \in PieceId, p.nth < q.nth, Placed(fs, p),
         NEW b, NEW m, Replays(image, b, m), SegOf(image, b).bytes[m].id = q
  PROVE  \E id \in Ids, n \in Nat : id <= b /\ At(SegOf(image, id).bytes, n, p)
<1>1. PICK id \in Ids, n \in Nat :
        At(SegOf(fs, id).bytes, n, p) /\ At(SegOf(fs, id).diskBytes, n, p)
  BY DEF Placed
<1>2. /\ b \in Ids /\ m \in 1 .. Len(SegOf(image, b).bytes)
      /\ \A k \in 1 .. m : Decodes(SegOf(image, b).bytes[k])
  BY DEF Replays
<1>3. b \in Nat /\ id \in Nat /\ m \in Nat
  BY <1>2, IdsAre
<1>4. FsOK(fs) /\ p.nth \in Nat /\ q.nth \in Nat
  BY DEF LogInv, PieceId
<1>5. ASSUME NEW F, Ordered(F, writes), n \in 1 .. Len(F[id]), F[id][n].id = p,
             m \in 1 .. Len(F[b]), F[b][m].id = q
      PROVE  id < b \/ (id = b /\ n < m)
  <2> SUFFICES ASSUME ~(id < b \/ (id = b /\ n < m)) PROVE FALSE
    OBVIOUS
  <2>1. CASE id = b /\ n = m
    BY <1>4, <1>5, <2>1
  <2>2. CASE ~(id = b /\ n = m)
    <3>1. Before(b, m, id, n)
      BY <1>1, <1>3, <2>2 DEF Before
    <3>2. q.nth < p.nth
      BY <1>1, <1>2, <1>5, <3>1 DEF Ordered
    <3> QED
      BY <1>4, <3>2
  <2> QED
    BY <2>1, <2>2
<1>6. CASE image = fs
  <2> DEFINE F == Bytes(fs)
  <2>1. Ordered(F, writes) /\ F[id] = SegOf(fs, id).bytes /\ F[b] = SegOf(fs, b).bytes
    BY <1>2 DEF OrderInv, Bytes
  <2> HIDE DEF F
  <2>2. id < b \/ (id = b /\ n < m)
    BY <1>1, <1>2, <1>5, <1>6, <2>1 DEF At
  <2>3. id <= b
    BY <1>3, <2>2
  <2> QED
    BY <1>1, <1>6, <2>3
<1>7. CASE image \in Fs!Crashes(fs)
  <2> DEFINE F == DiskBytes(fs)
  <2>1. Ordered(F, writes) /\ F[id] = SegOf(fs, id).diskBytes /\ F[b] = SegOf(fs, b).diskBytes
    BY <1>2 DEF OrderInv, DiskBytes
  <2> HIDE DEF F
  <2>2. Torn(SegOf(image, id).bytes, SegOf(fs, id)) /\ Torn(SegOf(image, b).bytes, SegOf(fs, b))
    BY <1>2, <1>4, <1>7, CrashSegments
  <2>3. /\ SegOf(fs, b).diskBytes \in Seq(Piece) /\ SegOf(image, b).bytes \in Seq(Piece)
        /\ Len(SegOf(image, b).bytes) \in Nat /\ Len(SegOf(fs, b).diskBytes) \in Nat
    BY <1>2, <1>4, <2>2, SegTypes DEF Torn
  <2>4. /\ m \in 1 .. Len(SegOf(fs, b).diskBytes) /\ SegOf(fs, b).diskBytes[m].id = q
        /\ \A k \in 1 .. Len(SegOf(image, b).bytes) :
             SegOf(image, b).bytes[k].id = SegOf(fs, b).diskBytes[k].id
    BY <1>2, <2>2, <2>3 DEF Torn
  <2>5. id < b \/ (id = b /\ n < m)
    BY <1>1, <1>5, <2>1, <2>4 DEF At
  <2>6. CASE id < b
    <3>1. SegOf(fs, b).diskBytes # <<>>
      BY <2>3, <2>4
    <3>2. SegOf(fs, id).diskSynced = SegOf(fs, id).diskBytes
      BY <1>2, <2>6, <3>1, AtRisk DEF LastAtRisk
    <3>3. SegOf(image, id).bytes = SegOf(fs, id).diskBytes
      BY <1>4, <2>2, <3>2, TornSynced
    <3> QED
      BY <1>1, <1>3, <2>6, <3>3
  <2>7. CASE id = b /\ n < m
    <3>1. n \in 1 .. Len(SegOf(image, b).bytes) /\ \A k \in 1 .. n : k \in 1 .. m
      BY <1>1, <1>2, <1>3, <2>3, <2>7 DEF At
    <3>2. SegOf(image, b).bytes[n].id = p
      BY <1>1, <2>4, <2>7, <3>1 DEF At
    <3>3. At(SegOf(image, id).bytes, n, p)
      BY <1>2, <2>7, <3>1, <3>2 DEF At
    <3> QED
      BY <1>3, <2>7, <3>3
  <2> QED
    BY <2>5, <2>6, <2>7
<1> QED
  BY <1>6, <1>7 DEF Images

\* Recovery replays a prefix of the history.
LEMMA PrefixIs ==
  ASSUME LogInv, DiskInv, OrderInv, HistInv
  PROVE  PrefixRecovered
<1> SUFFICES ASSUME NEW image \in Images
             PROVE  IsPrefix(Filter(Recovered(image), ToSet(history)), history)
  BY DEF PrefixRecovered
<1> DEFINE R == Recovered(image)
           F == Filter(R, ToSet(history))
<1>1. FsOK(fs) /\ FsOK(image) /\ FsType(image)
  BY CrashSegments DEF LogInv, Images, FsOK
<1>2. Ordered(Bytes(image), writes)
  <2>1. CASE image = fs
    BY <2>1 DEF OrderInv
  <2>2. CASE image \in Fs!Crashes(fs)
    <3>1. Shrinks(fs, image)
      BY <1>1, <2>2, ShrinksCrashed
    <3> QED
      BY <1>1, <3>1, NothingNew DEF OrderInv, Shrinks
  <2> QED
    BY <2>1, <2>2 DEF Images
<1>3. R \in Seq(PieceId) /\ Only(image, R) /\ Every(image, R)
  BY <1>1, RecoveredFacts
<1>4. Climbs(R)
  BY <1>1, <1>2, RecoveredClimbs
<1> HIDE DEF R
<1>5. /\ F \in Seq(PieceId) /\ Climbs(F)
      /\ \A i \in DOMAIN F : F[i] \in ToSet(history) /\ \E k \in DOMAIN R : F[i] = R[k]
      /\ \A k \in DOMAIN R : R[k] \in ToSet(history) => \E i \in DOMAIN F : F[i] = R[k]
  BY <1>3, <1>4, FilterFacts
<1> HIDE DEF F
<1>6. history \in Seq(PieceId) /\ Climbs(history) /\ \A i \in DOMAIN history : Placed(fs, history[i])
  BY DEF HistInv
<1>7. \A i \in DOMAIN history : history[i] \in PieceId
  BY <1>6
<1>8. \A i \in DOMAIN F : \E m \in DOMAIN history : F[i] = history[m]
  BY <1>5 DEF ToSet
<1>9. ASSUME NEW i \in DOMAIN history, NEW j \in DOMAIN history, i < j,
             \E k \in DOMAIN F : F[k] = history[j]
      PROVE  \E k \in DOMAIN F : F[k] = history[i]
  <2>1. history[i].nth < history[j].nth
    BY <1>6, <1>9 DEF Climbs
  <2>2. PICK k \in DOMAIN R : R[k] = history[j]
    BY <1>5, <1>9
  <2>3. PICK b, m : Replays(image, b, m) /\ R[k] = SegOf(image, b).bytes[m].id
    BY <1>3 DEF Only
  <2>4. PICK id \in Ids, n \in Nat : id <= b /\ At(SegOf(image, id).bytes, n, history[i])
    BY <1>6, <1>7, <2>1, <2>2, <2>3, EarlierStands
  <2>5. b \in Ids /\ \A l \in Ids : l < b => Clean(SegOf(image, l).bytes)
    BY <2>3 DEF Replays
  <2>6. \A l \in Ids : l < id => l < b
    BY <2>4, <2>5, IdsAre
  <2>7. Replays(image, id, n)
    BY <2>4, <2>5, <2>6 DEF Replays, At
  <2>8. PICK l \in DOMAIN R : R[l] = SegOf(image, id).bytes[n].id
    BY <1>3, <2>7 DEF Every
  <2>9. R[l] = history[i]
    BY <2>4, <2>8 DEF At
  <2> QED
    BY <1>5, <2>9 DEF ToSet
<1>10. IsPrefix(F, history)
  BY <1>5, <1>6, <1>8, <1>9, ClosedIsPrefix
<1> QED
  BY <1>10 DEF F, R

(***************************************************************************)
(* Under the same faults, power losses and errors of append, rotation and  *)
(* reset: what recovery replays of the frames since the last reset is a    *)
(* prefix of them (maybe_rotate, recover, truncate_tail).                  *)
(***************************************************************************)
THEOREM WalPrefixRecovered == Calm => (Spec => []PrefixRecovered)
<1> SUFFICES ASSUME Calm PROVE Spec => []PrefixRecovered
  OBVIOUS
<1>1. Init => DiskInv /\ OrderInv /\ HistInv
  BY InitDisk, InitOrder, InitHist
<1>2. GroupInv /\ LogInv /\ LogInv' /\ DiskInv /\ OrderInv /\ HistInv /\ [Next]_vars
        => DiskInv' /\ OrderInv' /\ HistInv'
  BY DiskStep, OrderStep, HistStep
<1>3. LogInv /\ DiskInv /\ OrderInv /\ HistInv => PrefixRecovered
  BY PrefixIs
<1> QED
  BY <1>1, <1>2, <1>3, GroupInductive, LogInductive, PTL DEF Spec
==============================================================================
