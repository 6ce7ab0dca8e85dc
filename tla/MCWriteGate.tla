----------------------------- MODULE MCWriteGate -----------------------------
(***************************************************************************)
(* WriteGate with a budget of calls and of restarts, so that "every call   *)
(* returns" can be asked: with an endless stream of calls from others, no  *)
(* thread is guaranteed its turn at a std::sync::Mutex.                    *)
(***************************************************************************)
EXTENDS WriteGate

CONSTANTS MaxCalls,    \* calls of put, delete and flush in a behaviour
          MaxRestarts  \* restarts of the process in a behaviour

VARIABLES calls, restarts

mcVars == <<gateVars, calls, restarts>>

MCInit == Init /\ calls = 0 /\ restarts = 0

Call(t) ==
  /\ calls < MaxCalls
  /\ StartWrite(t) \/ StartFlush(t)
  /\ calls' = calls + 1
  /\ UNCHANGED restarts

Run(t) == Progress(t) /\ UNCHANGED <<calls, restarts>>

Wake(t) == SpuriousWake(t) /\ UNCHANGED <<calls, restarts>>

Reopen ==
  /\ restarts < MaxRestarts
  /\ Restart
  /\ restarts' = restarts + 1
  /\ UNCHANGED calls

MCNext == (\E t \in Threads : Call(t) \/ Run(t) \/ Wake(t)) \/ Reopen

\* Every thread that can take a step of its call eventually does: the scheduler
\* runs it, the mutex is released by its owner, and wal.append returns.
MCSpec ==
  /\ MCInit
  /\ [][MCNext]_mcVars
  /\ \A t \in Threads : WF_mcVars(Run(t))

(***************************************************************************)
(* Every put, delete and flush returns: the writers waiting for the gate,  *)
(* the flushers waiting for in-flight writers and the mutex they share     *)
(* never end up waiting for each other (write and flush_locked, db.rs).    *)
(***************************************************************************)
EveryCallReturns ==
  \A t \in Threads : pc[t] # "idle" ~> pc[t] = "idle"

==============================================================================
