----------------------------- MODULE MCMergeIter -----------------------------
(***************************************************************************)
(* A small instance of MergeIter: an old value and a newer tombstone, so   *)
(* that in three sources of up to three keys an entry shadows others, is   *)
(* shadowed, and ties with another source's.                               *)
(***************************************************************************)
EXTENDS MergeIter

MCEntries == {[seq |-> 1, kind |-> "Value"],
              [seq |-> 2, kind |-> "Tombstone"]}

Upto(at, k) == [at |-> at, key |-> k]
Open == [at |-> "Unbounded"]

\* Every kind of bound at either end, and a range whose ends are both cut off.
MCRanges == {[start |-> Open, end |-> Open],
             [start |-> Upto("Excluded", 1), end |-> Upto("Included", 3)],
             [start |-> Upto("Included", 1), end |-> Upto("Excluded", 3)],
             [start |-> Upto("Included", 2), end |-> Upto("Included", 2)]}
==============================================================================
