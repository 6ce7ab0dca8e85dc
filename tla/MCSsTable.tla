------------------------------ MODULE MCSsTable ------------------------------
(***************************************************************************)
(* A small instance of SsTable.  Sized for seven keys the filter has 72    *)
(* bits and seven probes, for none 64 and as many as 30.  Key 4's probes   *)
(* are covered by those of keys 1 and 2 together, a table of which answers *)
(* "maybe" for it, and key 3's wrap around the end of a u64.               *)
(***************************************************************************)
EXTENDS SsTable

MCEntries == {[seq |-> 1, kind |-> "Value"], [seq |-> 2, kind |-> "Tombstone"]}

MCLowHash == [k \in Keys |-> CASE k = 1 -> 0 [] k = 2 -> 7 [] k = 3 -> 4090 [] OTHER -> 2]
MCHighHash == [k \in Keys |-> CASE k = 1 -> 0 [] k = 2 -> 0 [] k = 3 -> 10 [] OTHER -> 0]
==============================================================================
