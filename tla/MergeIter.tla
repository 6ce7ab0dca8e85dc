------------------------------ MODULE MergeIter ------------------------------
(***************************************************************************)
(* The k-way merge of src/src/iter/mod.rs: a heap that holds the head of   *)
(* every source, from which next() pops the winner of the smallest key and *)
(* then every older version of that key, refilling the heap from the       *)
(* source of each head it pops.  scan() reads a range of every source      *)
(* through it, compact_tier() all of them; module Lsm states what they     *)
(* expect of it, Merge.                                                    *)
(*                                                                         *)
(* The sources are any tables: "Each source must yield entries in          *)
(* ascending key order and hold at most one version per key; nothing else  *)
(* is assumed".                                                            *)
(***************************************************************************)
EXTENDS Lsm

CONSTANTS NumSources,  \* how many sources are merged
          Entries,     \* the entries a source may hold
          Ranges       \* the ranges scanned

\* An end of a RangeBounds.
Bounds == [at : {"Included", "Excluded"}, key : Keys] \cup {[at |-> "Unbounded"]}

\* The ranges BTreeMap::range accepts; it panics on the others.
Proper(range) ==
  LET lo == range.start hi == range.end IN
  \/ "Unbounded" \in {lo.at, hi.at}
  \/ lo.key < hi.key
  \/ lo.key = hi.key /\ {lo.at, hi.at} # {"Excluded"}

ASSUME MergeAssumption ==
  /\ Keys \subseteq Int /\ IsFiniteSet(Keys)
  /\ NumSources \in Nat
  /\ Entries \subseteq Entry
  /\ \A range \in Ranges : {range.start, range.end} \subseteq Bounds /\ Proper(range)

VARIABLES
  tables,  \* what each source holds; never changes
  range,   \* the range asked for; never changes
  rest,    \* MergeIterator.sources: what each iterator has still to yield
  heap,    \* MergeIterator.heap, a set of heads
  winner,  \* next()'s local: the set of the popped winner, or {}
  out,     \* history: the entries next() has yielded
  shown    \* history: those of them that LiveIter lets through

vars == <<tables, range, rest, heap, winner, out, shown>>

\* scan_iters' memtables, then the tables of the version, by position.
Sources == 1 .. NumSources

\* Mutant of RangeContains: an excluded end is taken for an included one.
RangeContainsEnd(r, k) ==
  /\ CASE r.start.at = "Unbounded" -> TRUE
       [] r.start.at = "Included"  -> k >= r.start.key
       [] r.start.at = "Excluded"  -> k > r.start.key
  /\ r.end.at # "Unbounded" => k <= r.end.key

\* range_contains for the tables, range_snapshot for the memtables.
RangeContains(r, k) ==
  /\ CASE r.start.at = "Unbounded" -> TRUE
       [] r.start.at = "Included"  -> k >= r.start.key
       [] r.start.at = "Excluded"  -> k > r.start.key
  /\ CASE r.end.at = "Unbounded" -> TRUE
       [] r.end.at = "Included"  -> k <= r.end.key
       [] r.end.at = "Excluded"  -> k < r.end.key

\* The keys of a source that scan() copies out.
InRange(table) == {k \in Keys : table[k] # Absent /\ RangeContains(range, k)}

\* The order of a BTreeMap, or of a table: the i-th key has i - 1 keys before it.
Ascending(S) ==
  [i \in 1 .. Cardinality(S) |-> CHOOSE k \in S : Cardinality({j \in S : j < k}) = i - 1]

\* A source's iterator: its entries in the range, ascending, as heap heads.
Yields(table, s) ==
  LET keys == Ascending(InRange(table))
  IN  [i \in DOMAIN keys |-> [key |-> keys[i], entry |-> table[keys[i]], source |-> s]]

\* The item an iterator yields next, as a set that is empty at its end.
Peek(items) == IF items = <<>> THEN {} ELSE {Head(items)}
Drop(items) == IF items = <<>> THEN <<>> ELSE Tail(items)

\* HeapHead::cmp: the smallest key, its largest seq, the lowest source.
PopsBefore(a, b) ==
  \/ a.key < b.key
  \/ a.key = b.key /\ a.entry.seq > b.entry.seq
  \/ a.key = b.key /\ a.entry.seq = b.entry.seq /\ a.source < b.source

Top == CHOOSE h \in heap : \A g \in heap \ {h} : PopsBefore(h, g)

\* heap.pop() and refill() of the source it came from.
PopAndRefill ==
  /\ heap' = (heap \ {Top}) \cup Peek(rest[Top.source])
  /\ rest' = [rest EXCEPT ![Top.source] = Drop(@)]

\* scan() collects the range of every source, and MergeIterator::new primes
\* the heap with each one's first entry.
Init ==
  /\ tables \in [Sources -> [Keys -> Entries \cup {Absent}]]
  /\ range \in Ranges
  /\ heap = UNION {Peek(Yields(tables[s], s)) : s \in Sources}
  /\ rest = [s \in Sources |-> Drop(Yields(tables[s], s))]
  /\ winner = {}
  /\ out = <<>>
  /\ shown = <<>>

\* next(): take the winner ...
PopWinner ==
  /\ winner = {} /\ heap # {}
  /\ winner' = {Top}
  /\ PopAndRefill
  /\ UNCHANGED <<tables, range, out, shown>>

Duplicate(h) == h.key \in {w.key : w \in winner}

\* Mutants of PopDuplicate: the loser's source is not advanced; only values make
\* way for the winner.
PopDuplicateNoRefill ==
  /\ winner # {} /\ heap # {} /\ Duplicate(Top)
  /\ heap' = heap \ {Top}
  /\ UNCHANGED <<tables, range, rest, winner, out, shown>>

PopDuplicateValues ==
  /\ winner # {} /\ heap # {} /\ Duplicate(Top)
  /\ Top.entry.kind = "Value"
  /\ PopAndRefill
  /\ UNCHANGED <<tables, range, winner, out, shown>>

\* ... discard the heads with its key ...
PopDuplicate ==
  /\ winner # {} /\ heap # {} /\ Duplicate(Top)
  /\ PopAndRefill
  /\ UNCHANGED <<tables, range, winner, out, shown>>

\* Mutant of Yield: LiveIter ends at the first tombstone instead of going on.
YieldUntilTombstone ==
  /\ winner # {} /\ (heap # {} => ~Duplicate(Top))
  /\ \E w \in winner :
       /\ out' = Append(out, [key |-> w.key, entry |-> w.entry])
       /\ shown' = IF w.entry.kind = "Value" /\ Len(shown) = Len(out)
                   THEN Append(shown, w.key) ELSE shown
  /\ winner' = {}
  /\ UNCHANGED <<tables, range, rest, heap>>

\* ... and return it; LiveIter passes it on unless it is a tombstone.
Yield ==
  /\ winner # {} /\ (heap # {} => ~Duplicate(Top))
  /\ \E w \in winner :
       /\ out' = Append(out, [key |-> w.key, entry |-> w.entry])
       /\ shown' = IF w.entry.kind = "Value" THEN Append(shown, w.key) ELSE shown
  /\ winner' = {}
  /\ UNCHANGED <<tables, range, rest, heap>>

Next == PopWinner \/ PopDuplicate \/ Yield

\* scan and compact_tier call next() until it returns None.
Spec == Init /\ [][Next]_vars /\ WF_vars(Next)

-----------------------------------------------------------------------------
Exhausted == winner = {} /\ heap = {}

\* The range as an interval of keys.
Interval ==
  {k \in Keys :
     k \in (IF range.start.at = "Unbounded" THEN k
            ELSE range.start.key + (IF range.start.at = "Excluded" THEN 1 ELSE 0)) ..
           (IF range.end.at = "Unbounded" THEN k
            ELSE range.end.key - (IF range.end.at = "Excluded" THEN 1 ELSE 0))}

\* The merge as a whole: the keys of the range that some source mentions,
\* ascending, each with its newest entry.
Reference ==
  LET merged == Merge(tables)
      keys == Ascending({k \in Interval : merged[k] # Absent})
  IN  [i \in DOMAIN keys |-> [key |-> keys[i], entry |-> merged[keys[i]]]]

(***************************************************************************)
(* What next() has yielded so far is the beginning of the merge over the   *)
(* range, and all of it at the end: ascending, one entry per key, the      *)
(* newest, with ties going to the earlier source, the bounds exact, and    *)
(* nothing skipped when a popped head's source is advanced (scan, next,    *)
(* refill, HeapHead::cmp, range_contains).                                 *)
(***************************************************************************)
MergesNewest ==
  /\ IsPrefix(out, Reference)
  /\ Exhausted => Len(out) = Len(Reference)

(***************************************************************************)
(* A scan shows a key of its range exactly when its newest entry is a      *)
(* value: a tombstone is dropped only after it has swallowed the older     *)
(* versions it shadows (LiveIter::next above MergeIterator::next).         *)
(***************************************************************************)
LiveShowsNewest ==
  Exhausted => ToSet(shown) = {k \in Interval : Value(Newest(tables, k)) # 0}

(***************************************************************************)
(* The merge ends: next() reaches None however the sources overlap, its    *)
(* inner loop included (next).                                             *)
(***************************************************************************)
Drains == <>Exhausted
==============================================================================
