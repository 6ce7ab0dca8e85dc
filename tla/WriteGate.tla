------------------------------ MODULE WriteGate ------------------------------
(***************************************************************************)
(* The write path's monitor in src/src/db.rs: the mutex `write` around     *)
(* WriteState, its condition variable `quiesced`, the count `in_flight` of *)
(* writers that hold a sequence number but have not finished, and the flag *)
(* `flush_pending` a flusher raises to keep new writers out while it waits *)
(* for that count to reach zero.                                           *)
(*                                                                         *)
(* The module has no data: what a write logs and what a flush body does is *)
(* in module Db, whose actions conjoin the ones below.  A critical section *)
(* that runs from lock to unlock without a wait is one step; the flush     *)
(* body keeps the mutex over many steps of Db, so here it is the interval  *)
(* between entering program point "body" and FlushDone.                    *)
(***************************************************************************)
EXTENDS Integers, FiniteSets

CONSTANTS Threads,  \* the threads that share the Db handle
          NoThread  \* the mutex has no owner

ASSUME ThreadsAssumption == IsFiniteSet(Threads) /\ NoThread \notin Threads

VARIABLES
  pc,            \* where each thread is in write() or flush()
  mutex,         \* owner of Db.write across steps: the flusher in its body
  parked,        \* threads waiting on the condvar Db.quiesced
  inFlight,      \* WriteState.in_flight
  flushPending   \* WriteState.flush_pending

gateVars == <<pc, mutex, parked, inFlight, flushPending>>

(***************************************************************************)
(* idle     no call in progress                                            *)
(* claim    write(), before or inside the wait for flush_pending           *)
(* append   write(), a seq is claimed, wal.append is running               *)
(* abort    write(), wal.append failed, the in-flight mark is still set    *)
(* apply    write(), the record is durable, not yet in the memtable        *)
(* finish   write(), in the memtable, the in-flight mark is still set      *)
(* quiesce  flush_locked(), inside the wait for in_flight == 0             *)
(* body     flush_quiesced(), with the mutex held                          *)
(***************************************************************************)
PCs == {"idle", "claim", "append", "abort", "apply", "finish", "quiesce", "body"}

TypeOK ==
  /\ pc \in [Threads -> PCs]
  /\ mutex \in Threads \cup {NoThread}
  /\ parked \subseteq Threads
  /\ inFlight \in Nat
  /\ flushPending \in BOOLEAN

\* A freshly opened Db.
Init ==
  /\ pc = [t \in Threads |-> "idle"]
  /\ mutex = NoThread
  /\ parked = {}
  /\ inFlight = 0
  /\ flushPending = FALSE

\* Thread t takes the mutex: it is free and t is not asleep on the condvar.
Locks(t) == mutex = NoThread /\ t \notin parked

Goto(t, from, to) == pc[t] = from /\ pc' = [pc EXCEPT ![t] = to]

-----------------------------------------------------------------------------
\* put() or delete() is called.
StartWrite(t) ==
  /\ Goto(t, "idle", "claim")
  /\ UNCHANGED <<mutex, parked, inFlight, flushPending>>

\* Phase 1 of write() with the gate shut: `while flush_pending { wait }`.
WaitForGate(t) ==
  /\ pc[t] = "claim"
  /\ Locks(t)
  /\ flushPending
  /\ parked' = parked \cup {t}
  /\ UNCHANGED <<pc, mutex, inFlight, flushPending>>

\* Phase 1 of write() with the gate open: claim a seq, count it in flight.
Claim(t) ==
  /\ Locks(t)
  /\ ~flushPending
  /\ Goto(t, "claim", "append")
  /\ inFlight' = inFlight + 1
  /\ UNCHANGED <<mutex, parked, flushPending>>

\* Phase 2: wal.append returned, without the mutex.
AppendOk(t) ==
  /\ Goto(t, "append", "apply")
  /\ UNCHANGED <<mutex, parked, inFlight, flushPending>>

AppendErr(t) ==
  /\ Goto(t, "append", "abort")
  /\ UNCHANGED <<mutex, parked, inFlight, flushPending>>

\* Mutants of Abort: no notify_all; the mark left set; the mark undone twice;
\* the write tried again instead of returning.
AbortSilently(t) ==
  /\ Locks(t)
  /\ Goto(t, "abort", "idle")
  /\ inFlight' = inFlight - 1
  /\ UNCHANGED <<mutex, parked, flushPending>>

AbortKeepsMark(t) ==
  /\ Locks(t)
  /\ Goto(t, "abort", "idle")
  /\ parked' = {}
  /\ UNCHANGED <<mutex, inFlight, flushPending>>

AbortTwice(t) ==
  /\ Locks(t)
  /\ Goto(t, "abort", "idle")
  /\ inFlight' = inFlight - 2
  /\ parked' = {}
  /\ UNCHANGED <<mutex, flushPending>>

AbortRetries(t) ==
  /\ Locks(t)
  /\ Goto(t, "abort", "claim")
  /\ inFlight' = inFlight - 1
  /\ parked' = {}
  /\ UNCHANGED <<mutex, flushPending>>

\* The error path of phase 2: undo the mark, notify_all, return Err.
Abort(t) ==
  /\ Locks(t)
  /\ Goto(t, "abort", "idle")
  /\ inFlight' = inFlight - 1
  /\ parked' = {}
  /\ UNCHANGED <<mutex, flushPending>>

\* Phase 3, first half: memtables.insert_if_newer, without the mutex.
Apply(t) ==
  /\ Goto(t, "apply", "finish")
  /\ UNCHANGED <<mutex, parked, inFlight, flushPending>>

(***************************************************************************)
(* flush_locked() from its first line to its first wait or its body: the   *)
(* caller holds the mutex, `count` is in_flight and `asleep` the threads   *)
(* that are parked at that point.                                          *)
(***************************************************************************)
EnterFlush(t, from, count, asleep) ==
  /\ flushPending' = TRUE
  /\ \/ /\ count > 0
        /\ Goto(t, from, "quiesce")
        /\ parked' = asleep \cup {t}
        /\ UNCHANGED mutex
     \/ /\ count = 0
        /\ Goto(t, from, "body")
        /\ parked' = asleep
        /\ mutex' = t

\* Phase 3, second half: clear the mark, notify_all, and return ...
Finish(t) ==
  /\ Locks(t)
  /\ Goto(t, "finish", "idle")
  /\ inFlight' = inFlight - 1
  /\ parked' = {}
  /\ UNCHANGED <<mutex, flushPending>>

\* ... or, when the memtable is full, go on to flush under the same lock.
FinishFull(t) ==
  /\ Locks(t)
  /\ inFlight' = inFlight - 1
  /\ EnterFlush(t, "finish", inFlight - 1, {})

\* flush() is called.
StartFlush(t) ==
  /\ Locks(t)
  /\ EnterFlush(t, "idle", inFlight, parked)
  /\ UNCHANGED inFlight

\* The wait loop of flush_locked(): still busy, sleep again.
WaitAgain(t) ==
  /\ pc[t] = "quiesce"
  /\ Locks(t)
  /\ inFlight > 0
  /\ parked' = parked \cup {t}
  /\ UNCHANGED <<pc, mutex, inFlight, flushPending>>

\* Mutant of EnterBody: the wait is an `if`, its condition is not re-checked.
EnterBodyUnchecked(t) ==
  /\ Locks(t)
  /\ Goto(t, "quiesce", "body")
  /\ mutex' = t
  /\ UNCHANGED <<parked, inFlight, flushPending>>

\* The wait loop of flush_locked(): quiet, run the body with the mutex held.
EnterBody(t) ==
  /\ Locks(t)
  /\ inFlight = 0
  /\ Goto(t, "quiesce", "body")
  /\ mutex' = t
  /\ UNCHANGED <<parked, inFlight, flushPending>>

\* Mutant of FlushDone: the error return of the body skips the reset.
FlushDoneKeepsGate(t) ==
  /\ Goto(t, "body", "idle")
  /\ parked' = {}
  /\ mutex' = NoThread
  /\ UNCHANGED <<inFlight, flushPending>>

\* flush_quiesced() returned, Ok or Err: reopen the gate and notify_all.
FlushDone(t) ==
  /\ Goto(t, "body", "idle")
  /\ flushPending' = FALSE
  /\ parked' = {}
  /\ mutex' = NoThread
  /\ UNCHANGED inFlight

\* std::sync::Condvar may wake a waiter that nobody notified.
SpuriousWake(t) ==
  /\ t \in parked
  /\ parked' = parked \ {t}
  /\ UNCHANGED <<pc, mutex, inFlight, flushPending>>

\* The process dies and a new one opens the directory: a fresh WriteState.
Restart ==
  /\ pc' = [t \in Threads |-> "idle"]
  /\ mutex' = NoThread
  /\ parked' = {}
  /\ inFlight' = 0
  /\ flushPending' = FALSE

\* The steps a running call takes by itself: all but the calls' own starts.
Progress(t) ==
  \/ WaitForGate(t) \/ Claim(t)
  \/ AppendOk(t) \/ AppendErr(t) \/ Abort(t)
  \/ Apply(t) \/ Finish(t) \/ FinishFull(t)
  \/ WaitAgain(t) \/ EnterBody(t) \/ FlushDone(t)

Next ==
  \/ \E t \in Threads : StartWrite(t) \/ StartFlush(t) \/ Progress(t) \/ SpuriousWake(t)
  \/ Restart

Spec == Init /\ [][Next]_gateVars

-----------------------------------------------------------------------------
\* Threads between claiming a seq and clearing their in-flight mark.
Claimed == {t \in Threads : pc[t] \in {"append", "abort", "apply", "finish"}}

(***************************************************************************)
(* While a flush body runs, no write stands between its seq and its        *)
(* memtable insert: the body may freeze the memtable, persist next_seq and *)
(* drop the whole WAL without losing a record that is on its way           *)
(* (flush_locked and flush_quiesced, db.rs).                               *)
(***************************************************************************)
QuiescedBody ==
  \A t \in Threads : pc[t] = "body" => Claimed = {}

(***************************************************************************)
(* No wake-up is lost: a writer sleeps only while the gate is shut, and a  *)
(* flusher sleeps only while some write is in flight, so whoever changes   *)
(* that condition is still to call notify_all.                             *)
(***************************************************************************)
NoLostWakeup ==
  \A t \in parked :
    \/ pc[t] = "claim" /\ flushPending
    \/ pc[t] = "quiesce" /\ Claimed # {}

(***************************************************************************)
(* The gate is never left shut: when flush_pending is set, some thread is  *)
(* in the wait loop or the body of a flush and will clear it.              *)
(***************************************************************************)
GateHasOwner ==
  flushPending => \E t \in Threads : pc[t] \in {"quiesce", "body"}

(***************************************************************************)
(* The inductive invariant behind the others: in_flight counts exactly the *)
(* threads between phase 1 and the end of phase 3 (the error path          *)
(* included), Db.write is held across steps by the one flusher in its      *)
(* body, and it is held there only at count zero.                          *)
(***************************************************************************)
GateInv ==
  /\ inFlight = Cardinality(Claimed)
  /\ \A t \in Threads : pc[t] = "body" <=> mutex = t
  /\ mutex # NoThread => inFlight = 0
  /\ NoLostWakeup
  /\ GateHasOwner
==============================================================================
