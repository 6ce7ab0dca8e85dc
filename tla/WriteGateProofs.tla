--------------------------- MODULE WriteGateProofs ---------------------------
(***************************************************************************)
(* Proofs about WriteGate for every finite set of threads.                 *)
(***************************************************************************)
EXTENDS WriteGate, FiniteSetTheorems, TLAPS

\* What a step does to the set of claimed threads determines the count.
LEMMA ClaimedFinite ==
  IsFiniteSet(Claimed) /\ Cardinality(Claimed) \in Nat
<1>1. Claimed \subseteq Threads
  BY DEF Claimed
<1>2. IsFiniteSet(Claimed)
  BY <1>1, FS_Subset, ThreadsAssumption
<1> QED
  BY <1>2, FS_CardinalityType

\* Claiming a seq adds one thread to the claimed ones.
LEMMA ClaimedAdd ==
  ASSUME TypeOK, NEW t \in Threads, pc[t] \in {"idle", "claim"},
         pc' = [pc EXCEPT ![t] = "append"]
  PROVE  Cardinality(Claimed') = Cardinality(Claimed) + 1
<1>1. Claimed' = Claimed \cup {t} /\ t \notin Claimed
  BY DEF Claimed, TypeOK
<1> QED
  BY <1>1, ClaimedFinite, FS_AddElement

\* Clearing the in-flight mark removes one thread from the claimed ones.
LEMMA ClaimedRemove ==
  ASSUME TypeOK, NEW t \in Threads, pc[t] \in {"abort", "finish"},
         NEW to \in {"idle", "quiesce", "body"},
         pc' = [pc EXCEPT ![t] = to]
  PROVE  /\ Cardinality(Claimed') = Cardinality(Claimed) - 1
         /\ Cardinality(Claimed) > 0
         /\ Cardinality(Claimed') \in Nat
<1>1. Claimed' = Claimed \ {t} /\ t \in Claimed
  BY DEF Claimed, TypeOK
<1>2. Cardinality(Claimed') = Cardinality(Claimed) - 1
  BY <1>1, ClaimedFinite, FS_RemoveElement
<1>3. IsFiniteSet(Claimed \ {t})
  BY ClaimedFinite, FS_Subset
<1>4. Cardinality(Claimed') \in Nat
  BY <1>1, <1>3, FS_CardinalityType
<1> QED
  BY <1>2, <1>4, ClaimedFinite

\* A set of threads is empty exactly when it counts zero threads.
LEMMA CountZero ==
  ASSUME NEW S \in SUBSET Threads
  PROVE  Cardinality(S) = 0 <=> S = {}
  BY ThreadsAssumption, FS_Subset, FS_EmptySet

-----------------------------------------------------------------------------
IInv == TypeOK /\ GateInv

\* Every step of a call that starts, runs or is woken preserves the invariant.
LEMMA StepInv ==
  ASSUME IInv, NEW t \in Threads,
         StartWrite(t) \/ StartFlush(t) \/ Progress(t) \/ SpuriousWake(t)
  PROVE  IInv'
<1> USE DEF IInv, TypeOK, PCs, GateInv, NoLostWakeup, GateHasOwner, Goto, Locks
<1>a. inFlight = Cardinality(Claimed) /\ inFlight \in Nat
  OBVIOUS
<1>e. inFlight = 0 <=> Claimed = {}
  BY <1>a, CountZero DEF Claimed
<1>f. Cardinality(Claimed') = 0 <=> Claimed' = {}
  BY CountZero DEF Claimed
<1>n. NoThread \notin Threads
  BY ThreadsAssumption
<1>1. CASE StartWrite(t)
  <2>1. Claimed' = Claimed
    BY <1>1 DEF StartWrite, Claimed
  <2> QED
    BY <1>1, <2>1 DEF StartWrite
<1>2. CASE StartFlush(t)
  <2>1. Claimed' = Claimed
    BY <1>2 DEF StartFlush, EnterFlush, Claimed
  <2> QED
    BY <1>2, <2>1, <1>e, <1>n DEF StartFlush, EnterFlush
<1>3. CASE WaitForGate(t)
  <2>1. Claimed' = Claimed
    BY <1>3 DEF WaitForGate, Claimed
  <2> QED
    BY <1>3, <2>1 DEF WaitForGate
<1>4. CASE Claim(t)
  <2>1. Cardinality(Claimed') = Cardinality(Claimed) + 1
    BY <1>4, ClaimedAdd DEF Claim
  <2>2. Claimed' # {}
    BY <1>4 DEF Claim, Claimed
  <2> QED
    BY <1>4, <2>1, <2>2 DEF Claim
<1>5. CASE AppendOk(t) \/ AppendErr(t) \/ Apply(t)
  <2>1. Claimed' = Claimed
    BY <1>5 DEF AppendOk, AppendErr, Apply, Claimed
  <2> QED
    BY <1>5, <2>1 DEF AppendOk, AppendErr, Apply
<1>6. CASE Abort(t) \/ Finish(t)
  <2>1. /\ Cardinality(Claimed') = Cardinality(Claimed) - 1
        /\ Cardinality(Claimed) > 0
        /\ Cardinality(Claimed') \in Nat
    BY <1>6, ClaimedRemove DEF Abort, Finish
  <2> QED
    BY <1>6, <2>1 DEF Abort, Finish
<1>7. CASE FinishFull(t)
  <2>1. /\ Cardinality(Claimed') = Cardinality(Claimed) - 1
        /\ Cardinality(Claimed) > 0
        /\ Cardinality(Claimed') \in Nat
    BY <1>7, ClaimedRemove DEF FinishFull, EnterFlush
  <2> QED
    BY <1>7, <2>1, <1>f, <1>n DEF FinishFull, EnterFlush
<1>8. CASE WaitAgain(t)
  <2>1. Claimed' = Claimed
    BY <1>8 DEF WaitAgain, Claimed
  <2> QED
    BY <1>8, <2>1, <1>e DEF WaitAgain
<1>9. CASE EnterBody(t)
  <2>1. Claimed' = Claimed
    BY <1>9 DEF EnterBody, Claimed
  <2> QED
    BY <1>9, <2>1, <1>e, <1>n DEF EnterBody
<1>10. CASE FlushDone(t)
  <2>1. Claimed' = Claimed
    BY <1>10 DEF FlushDone, Claimed
  <2> QED
    BY <1>10, <2>1, <1>n DEF FlushDone
<1>11. CASE SpuriousWake(t)
  <2>1. Claimed' = Claimed
    BY <1>11 DEF SpuriousWake, Claimed
  <2> QED
    BY <1>11, <2>1 DEF SpuriousWake
<1> QED
  BY <1>1, <1>2, <1>3, <1>4, <1>5, <1>6, <1>7, <1>8, <1>9, <1>10, <1>11 DEF Progress

(***************************************************************************)
(* The invariant holds in every behaviour of the monitor, whatever the     *)
(* number of threads, and across restarts of the process.                  *)
(***************************************************************************)
THEOREM GateInductive == Spec => []IInv
<1>1. Init => IInv
  <2> SUFFICES ASSUME Init PROVE IInv
    OBVIOUS
  <2>1. Claimed = {}
    BY DEF Init, Claimed
  <2>2. inFlight = Cardinality(Claimed)
    BY <2>1, FS_EmptySet DEF Init
  <2>3. TypeOK
    BY DEF Init, TypeOK, PCs
  <2>4. \A t \in Threads : (pc[t] = "body") <=> (mutex = t)
    BY ThreadsAssumption DEF Init
  <2>5. NoLostWakeup /\ GateHasOwner /\ (mutex = NoThread)
    BY DEF Init, NoLostWakeup, GateHasOwner
  <2> QED
    BY <2>2, <2>3, <2>4, <2>5 DEF IInv, GateInv
<1>2. IInv /\ [Next]_gateVars => IInv'
  <2> SUFFICES ASSUME IInv, [Next]_gateVars PROVE IInv'
    OBVIOUS
  <2>1. ASSUME NEW t \in Threads,
               StartWrite(t) \/ StartFlush(t) \/ Progress(t) \/ SpuriousWake(t)
        PROVE  IInv'
    BY <2>1, StepInv
  <2>2. CASE Restart
    <3>1. Claimed' = {}
      BY <2>2 DEF Restart, Claimed
    <3>2. inFlight' = Cardinality(Claimed')
      BY <2>2, <3>1, FS_EmptySet DEF Restart
    <3>3. TypeOK'
      BY <2>2 DEF Restart, TypeOK, PCs
    <3>4. \A t \in Threads : (pc[t] = "body")' <=> (mutex = t)'
      BY <2>2, ThreadsAssumption DEF Restart
    <3>5. NoLostWakeup' /\ GateHasOwner' /\ (mutex = NoThread)'
      BY <2>2 DEF Restart, NoLostWakeup, GateHasOwner
    <3> QED
      BY <3>2, <3>3, <3>4, <3>5 DEF IInv, GateInv
  <2>3. CASE UNCHANGED gateVars
    BY <2>3 DEF gateVars, IInv, TypeOK, GateInv, NoLostWakeup, GateHasOwner, Claimed
  <2> QED
    BY <2>1, <2>2, <2>3 DEF Next
<1> QED
  BY <1>1, <1>2, PTL DEF Spec

\* Type correctness of the monitor's state, in_flight never negative included.
THEOREM GateTypeOK == Spec => []TypeOK
  BY GateInductive, PTL DEF IInv

(***************************************************************************)
(* A flush body never runs while a write is between its seq and its        *)
(* memtable insert (flush_quiesced, db.rs), for any number of threads.     *)
(***************************************************************************)
THEOREM GateQuiesced == Spec => []QuiescedBody
<1>1. IInv => QuiescedBody
  BY CountZero, ThreadsAssumption DEF IInv, GateInv, QuiescedBody, Claimed
<1> QED
  BY <1>1, GateInductive, PTL

(***************************************************************************)
(* No thread sleeps on `quiesced` after its condition came true without a  *)
(* notify_all still to come, and the gate is never left shut with nobody   *)
(* to open it (write and flush_locked, db.rs).                             *)
(***************************************************************************)
THEOREM GateNoLostWakeup == Spec => [](NoLostWakeup /\ GateHasOwner)
<1>1. IInv => NoLostWakeup /\ GateHasOwner
  BY DEF IInv, GateInv
<1> QED
  BY <1>1, GateInductive, PTL

(***************************************************************************)
(* in_flight is the number of threads between phase 1 and the end of phase *)
(* 3, error path included, and the mutex is held across steps by the one   *)
(* thread in its flush body, at count zero (write and flush_locked).       *)
(***************************************************************************)
THEOREM GateCounts == Spec => []GateInv
  BY GateInductive, PTL DEF IInv

\* The gate is never left shut with nobody to open it, error returns included.
THEOREM GateOwned == Spec => []GateHasOwner
<1>1. IInv => GateHasOwner
  BY DEF IInv, GateInv
<1> QED
  BY <1>1, GateInductive, PTL
==============================================================================
