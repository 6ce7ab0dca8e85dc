------------------------------- MODULE KvStore -------------------------------
(***************************************************************************)
(* What the engine promises its callers, without logs, tables or locks: a  *)
(* map from keys to values in which every write takes effect at one moment *)
(* between its call and its return, and which a crash may change only by   *)
(* completing or dropping writes that have not returned.  Value 0 is "no   *)
(* value": what a delete stores.                                           *)
(***************************************************************************)
EXTENDS Integers

CONSTANTS Keys, Threads, Values

VARIABLES store,   \* the value of each key
          call,    \* the write each thread has in progress
          lapped   \* writes in progress whose key another write has set

storeVars == <<store, call, lapped>>

NoCall == [key |-> CHOOSE k \in Keys : TRUE, value |-> -1]

Pending == {t \in Threads : call[t] # NoCall}

Init ==
  /\ store = [k \in Keys |-> 0]
  /\ call = [t \in Threads |-> NoCall]
  /\ lapped = {}

\* A put (value # 0) or a delete (value = 0) of key k begins.
Begin(t, k, v) ==
  /\ call[t] = NoCall
  /\ call' = [call EXCEPT ![t] = [key |-> k, value |-> v]]
  /\ UNCHANGED <<store, lapped>>

\* It takes effect; every other write to its key in progress is lapped.
TakeEffect(t) ==
  LET k == call[t].key IN
  /\ t \in Pending
  /\ store' = [store EXCEPT ![k] = call[t].value]
  /\ call' = [call EXCEPT ![t] = NoCall]
  /\ lapped' = (lapped \cup {u \in Pending : call[u].key = k}) \ {t}

\* Or it took effect just before a write that lapped it, and leaves no trace.
Overtaken(t) ==
  /\ t \in Pending \cap lapped
  /\ call' = [call EXCEPT ![t] = NoCall]
  /\ lapped' = lapped \ {t}
  /\ UNCHANGED store

\* A crash completes some writes in progress and drops the rest; nothing that
\* took effect before, acknowledged or not, is undone.
Crash ==
  /\ call' = [t \in Threads |-> NoCall]
  /\ lapped' = {}
  /\ store' \in [Keys -> Values]
  /\ \A k \in Keys : \/ store'[k] = store[k]
                     \/ \E t \in Pending : call[t] = [key |-> k, value |-> store'[k]]

Next ==
  \/ \E t \in Threads :
       \/ \E k \in Keys, v \in Values : Begin(t, k, v)
       \/ TakeEffect(t)
       \/ Overtaken(t)
  \/ Crash

Spec == Init /\ [][Next]_storeVars
==============================================================================
