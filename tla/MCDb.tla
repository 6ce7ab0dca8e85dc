-------------------------------- MODULE MCDb --------------------------------
(***************************************************************************)
(* The engine for TLC.  Nothing in Db tells one thread from another, so    *)
(* states that differ only by a renaming of the threads are one state.     *)
(* FairSpec adds that a flush body, once begun, goes on.                   *)
(***************************************************************************)
EXTENDS Db, TLC

Symmetry == Permutations(Threads)

\* The thread in the flush body holds the write mutex, waits for nobody, and is
\* scheduled.
FairSpec == Spec /\ WF_vars(FlushStep \/ \E t \in Threads : FlushDone(t))

(***************************************************************************)
(* Every flush body ends and gives the write mutex back: `while            *)
(* maybe_compact` runs out of tiers that are due, through compactions that *)
(* make the next tier due and those that leave no entry, before and after  *)
(* a crash (flush_quiesced, db.rs, and compact_tier).                      *)
(***************************************************************************)
FlushReturns == mutex # NoThread ~> mutex = NoThread

=============================================================================
