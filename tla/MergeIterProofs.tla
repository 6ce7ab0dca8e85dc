--------------------------- MODULE MergeIterProofs ---------------------------
(***************************************************************************)
(* The k-way merge yields the newest entry of every key of the range once, *)
(* in ascending order, for any keys, number of sources, entries in them    *)
(* and ranges: what compact_tier and scan take for granted.                *)
(***************************************************************************)
EXTENDS MergeIter, SeqLemmas

-----------------------------------------------------------------------------
\* The keys of a set in ascending order: each one once.
LEMMA AscendingSorts ==
  ASSUME NEW S \in SUBSET Int, IsFiniteSet(S)
  PROVE  /\ Ascending(S) \in Seq(S)
         /\ ToSet(Ascending(S)) = S
         /\ \A i, j \in DOMAIN Ascending(S) : i < j => Ascending(S)[i] < Ascending(S)[j]
<1> DEFINE n == Cardinality(S)
           Before(k) == {j \in S : j < k}
           rank == [k \in S |-> Cardinality(Before(k)) + 1]
           q == Ascending(S)
<1>1. n \in Nat /\ Cardinality(1 .. n) = n /\ IsFiniteSet(1 .. n)
  <2>1. n \in Nat
    BY FS_CardinalityType
  <2> QED
    BY <2>1, FS_Interval
<1>2. ASSUME NEW k \in S
      PROVE  IsFiniteSet(Before(k)) /\ Cardinality(Before(k)) \in Nat /\ Cardinality(Before(k)) < n
  <2>1. /\ IsFiniteSet(Before(k)) /\ Cardinality(Before(k)) <= n
        /\ Cardinality(S) = Cardinality(Before(k)) => S = Before(k)
    BY FS_Subset
  <2>2. S # Before(k)
    OBVIOUS
  <2>3. Cardinality(Before(k)) \in Nat
    BY <2>1, FS_CardinalityType
  <2>4. Cardinality(Before(k)) # n
    BY <2>1, <2>2
  <2>5. Cardinality(Before(k)) <= n
    BY <2>1
  <2>6. Cardinality(Before(k)) < n
    <3> HIDE DEF Before, n
    <3> QED
      BY <1>1, <2>3, <2>4, <2>5
  <2>7. IsFiniteSet(Before(k))
    BY <2>1
  <2> QED
    BY <2>3, <2>6, <2>7
<1>3. ASSUME NEW j \in S, NEW k \in S, j < k PROVE rank[j] < rank[k]
  <2>1. Before(j) \in SUBSET Before(k)
    <3> SUFFICES ASSUME NEW i \in S, i < j PROVE i < k
      OBVIOUS
    <3>1. i \in Int /\ j \in Int /\ k \in Int
      OBVIOUS
    <3> QED
      BY <1>3, <3>1
  <2>2. j \in Before(k) /\ j \notin Before(j)
    BY <1>3
  <2>3. IsFiniteSet(Before(k)) /\ IsFiniteSet(Before(j))
    BY <1>2
  <2>4. /\ Cardinality(Before(j)) <= Cardinality(Before(k))
        /\ Cardinality(Before(k)) = Cardinality(Before(j)) => Before(k) = Before(j)
    <3> HIDE DEF Before
    <3> QED
      BY <2>1, <2>3, FS_Subset
  <2>5. Cardinality(Before(j)) \in Nat /\ Cardinality(Before(k)) \in Nat
    BY <1>2
  <2>6. Cardinality(Before(j)) # Cardinality(Before(k))
    BY <2>2, <2>4
  <2> HIDE DEF Before
  <2> QED
    BY <2>4, <2>5, <2>6
<1>4. rank \in [S -> 1 .. n]
  <2> SUFFICES ASSUME NEW k \in S PROVE Cardinality(Before(k)) + 1 \in 1 .. n
    OBVIOUS
  <2> HIDE DEF Before
  <2> QED
    BY <1>1, <1>2
<1>5. \A j, k \in S : rank[j] = rank[k] => j = k
  <2> SUFFICES ASSUME NEW j \in S, NEW k \in S, rank[j] = rank[k] PROVE j = k
    OBVIOUS
  <2> HIDE DEF rank
  <2>1. rank[j] \in Nat /\ rank[k] \in Nat
    BY <1>1, <1>4
  <2>2. j < k \/ k < j \/ j = k
    OBVIOUS
  <2> QED
    BY <1>3, <2>1, <2>2
<1>6. rank \in Surjection(S, 1 .. n)
  <2> HIDE DEF rank
  <2>1. rank \in Injection(S, 1 .. n)
    BY <1>4, <1>5 DEF Injection, IsInjective
  <2> QED
    BY <1>1, <2>1, FS_Injection
<1>7. ASSUME NEW i \in 1 .. n PROVE q[i] \in S /\ rank[q[i]] = i
  <2>1. PICK k \in S : rank[k] = i
    <3> HIDE DEF rank
    <3> QED
      BY <1>6 DEF Surjection
  <2>2. i \in Nat
    BY <1>1
  <2>3. Cardinality(Before(k)) = i - 1
    <3>1. Cardinality(Before(k)) + 1 = i
      BY <2>1
    <3> HIDE DEF Before
    <3> QED
      BY <1>2, <2>2, <3>1
  <2>4. q[i] = CHOOSE m \in S : Cardinality(Before(m)) = i - 1
    BY DEF Ascending
  <2>5. q[i] \in S /\ Cardinality(Before(q[i])) = i - 1
    <3> HIDE DEF Before, q
    <3> QED
      BY <2>3, <2>4
  <2>6. rank[q[i]] = Cardinality(Before(q[i])) + 1
    <3> HIDE DEF q
    <3> QED
      BY <2>5
  <2> HIDE DEF Before, q, rank
  <2> QED
    BY <2>2, <2>5, <2>6
<1>8. q \in [1 .. n -> S]
  <2> DEFINE ith(i) == CHOOSE m \in S : Cardinality(Before(m)) = i - 1
  <2>1. q = [i \in 1 .. n |-> ith(i)]
    BY DEF Ascending
  <2> HIDE DEF q, ith, n
  <2>2. q = [i \in 1 .. n |-> q[i]]
    BY <2>1
  <2> QED
    BY <1>7, <2>2
<1> HIDE DEF q, rank
<1>9. q \in Seq(S) /\ DOMAIN q = 1 .. n
  BY <1>1, <1>8
<1>10. \A k \in S : rank[k] \in 1 .. n /\ q[rank[k]] = k
  BY <1>4, <1>5, <1>7
<1>11. ToSet(q) = S
  BY <1>8, <1>9, <1>10 DEF ToSet
<1>12. ASSUME NEW i \in 1 .. n, NEW j \in 1 .. n, i < j PROVE q[i] < q[j]
  <2>1. q[i] \in S /\ q[j] \in S /\ rank[q[i]] = i /\ rank[q[j]] = j /\ i \in Nat /\ j \in Nat
    BY <1>1, <1>7
  <2>2. ~(q[j] < q[i])
    <3>1. q[j] < q[i] => rank[q[j]] < rank[q[i]]
      BY <1>3, <2>1
    <3> QED
      BY <1>12, <2>1, <3>1
  <2>4. q[i] # q[j]
    BY <1>12, <2>1
  <2>3. q[i] \in Int /\ q[j] \in Int
    BY <2>1
  <2> QED
    BY <2>2, <2>3, <2>4
<1> QED
  BY <1>9, <1>11, <1>12 DEF q

-----------------------------------------------------------------------------
\* Among finitely many numbered values there is a largest one, with the lowest number.
LEMMA LargestFirst ==
  ASSUME NEW D \in SUBSET Nat, IsFiniteSet(D), D # {}, NEW f \in [D -> Int]
  PROVE  \E j \in D : \A i \in D : f[i] < f[j] \/ (f[i] = f[j] /\ j <= i)
<1> DEFINE R == {f[i] : i \in D}
           q == Ascending(R)
<1>1. R \in SUBSET Int /\ R # {}
  OBVIOUS
<1>2. IsFiniteSet(R)
  <2>1. f \in Surjection(D, R)
    BY DEF Surjection
  <2> HIDE DEF R
  <2> QED
    BY <2>1, FS_Surjection
<1>3. /\ q \in Seq(R) /\ ToSet(q) = R
      /\ \A i, j \in DOMAIN q : i < j => q[i] < q[j]
  <2> HIDE DEF R
  <2> QED
    BY <1>1, <1>2, AscendingSorts
<1> HIDE DEF q
<1> DEFINE n == Len(q)
<1>4. n \in Nat /\ DOMAIN q = 1 .. n
  BY <1>3
<1>5. n \in DOMAIN q
  <2>1. DOMAIN q # {}
    BY <1>1, <1>3 DEF ToSet
  <2> HIDE DEF n
  <2> QED
    BY <1>4, <2>1
<1> HIDE DEF n
<1>6. \A x \in R : x <= q[n]
  <2> SUFFICES ASSUME NEW x \in R PROVE x <= q[n]
    OBVIOUS
  <2>1. PICK i \in DOMAIN q : x = q[i]
    BY <1>3 DEF ToSet
  <2>2. i < n \/ i = n
    BY <1>4
  <2>3. q[i] \in Int /\ q[n] \in Int
    <3> HIDE DEF R
    <3>1. q[i] \in R /\ q[n] \in R
      BY <1>3, <1>5
    <3> QED
      BY <1>1, <3>1
  <2> HIDE DEF R
  <2>4. i < n => q[i] < q[n]
    BY <1>3, <1>5
  <2> QED
    BY <2>1, <2>2, <2>3, <2>4
<1> DEFINE T == {i \in D : f[i] = q[n]}
<1>7. q[n] \in R
  <2> HIDE DEF R
  <2> QED
    BY <1>3, <1>5
<1>8. T \in SUBSET Nat /\ T # {}
  BY <1>7
<1>9. PICK j \in T : \A i \in T : j <= i
  BY <1>8, LeastNat
<1>10. ASSUME NEW i \in D PROVE f[i] < f[j] \/ (f[i] = f[j] /\ j <= i)
  <2>1. f[i] <= q[n] /\ f[i] \in Int /\ f[j] = q[n]
    BY <1>6
  <2>2. f[i] = q[n] => j <= i
    BY <1>9
  <2> QED
    BY <2>1, <2>2
<1> QED
  BY <1>10

\* What the sources hold is typed.
TablesOK == tables \in [Sources -> Table] /\ range \in Ranges

\* The sources are finitely many numbers.
LEMMA SourcesFinite == Sources \subseteq Nat /\ IsFiniteSet(Sources)
BY MergeAssumption, FS_Interval DEF Sources

\* The entry of a source for a key, or none.
LEMMA EntryTyped ==
  ASSUME TablesOK, NEW s \in Sources, NEW k \in Keys
  PROVE  /\ tables[s][k].seq \in Nat
         /\ tables[s][k] # Absent => tables[s][k] \in Entry /\ tables[s][k].seq # 0
         /\ tables[s][k] = Absent => tables[s][k].seq = 0
<1>1. tables[s][k] \in Entry \cup {Absent}
  BY DEF TablesOK, Table
<1> QED
  BY <1>1 DEF Entry, Absent

\* The source whose entry for k wins: the newest, the first of them.
Wins(j, k) ==
  /\ j \in Sources /\ tables[j][k] # Absent
  /\ \A i \in Sources :
       \/ tables[i][k].seq < tables[j][k].seq
       \/ tables[i][k].seq = tables[j][k].seq /\ j <= i

\* The winning entry is the one that Lsm calls the newest.
LEMMA WinnerNewest ==
  ASSUME TablesOK, NEW k \in Keys, NEW j, Wins(j, k)
  PROVE  Newest(tables, k) = tables[j][k]
<1> DEFINE seqs == {tables[i][k].seq : i \in DOMAIN tables} \ {0}
           tops == {i \in DOMAIN tables : tables[i][k].seq \in seqs
                                          /\ \A s \in seqs : tables[i][k].seq >= s}
<1>1. DOMAIN tables = Sources
  BY DEF TablesOK
<1>2. \A i \in Sources : tables[i][k].seq \in Nat
  BY EntryTyped
<1>3. tables[j][k].seq \in seqs
  BY <1>1, EntryTyped DEF Wins
<1>4. \A s \in seqs : tables[j][k].seq >= s
  <2> SUFFICES ASSUME NEW i \in Sources PROVE tables[j][k].seq >= tables[i][k].seq
    BY <1>1
  <2> QED
    BY <1>2 DEF Wins
<1>5. j \in tops /\ tops \in SUBSET Nat
  BY <1>1, <1>3, <1>4, SourcesFinite DEF Wins
<1>6. \A i \in tops : j <= i
  <2> SUFFICES ASSUME NEW i \in tops PROVE j <= i
    OBVIOUS
  <2>1. i \in Sources /\ tables[i][k].seq >= tables[j][k].seq
    BY <1>1, <1>3
  <2> QED
    BY <1>2, <2>1 DEF Wins
<1>7. Min(tops) \in tops /\ Min(tops) <= j
  <2> HIDE DEF tops
  <2> QED
    BY <1>5, MinOfNats
<1>8. Min(tops) = j
  <2> HIDE DEF tops
  <2>1. Min(tops) \in Nat /\ j \in Nat /\ j <= Min(tops)
    BY <1>5, <1>6, <1>7
  <2> QED
    BY <1>7, <2>1
<1>9. Newest(tables, k) = tables[Min(tops)][k]
  BY <1>3 DEF Newest
<1> QED
  BY <1>8, <1>9

\* A key that some source mentions has a winner; of the others the merge has nothing.
LEMMA WinnerExists ==
  ASSUME TablesOK, NEW k \in Keys
  PROVE  /\ (\E s \in Sources : tables[s][k] # Absent) => \E j \in Sources : Wins(j, k)
         /\ (\A s \in Sources : tables[s][k] = Absent) => Newest(tables, k) = Absent
<1>1. ASSUME NEW s \in Sources, tables[s][k] # Absent PROVE \E j \in Sources : Wins(j, k)
  <2> DEFINE f == [i \in Sources |-> tables[i][k].seq]
  <2>1. f \in [Sources -> Int]
    BY EntryTyped
  <2>2. PICK j \in Sources : \A i \in Sources : f[i] < f[j] \/ (f[i] = f[j] /\ j <= i)
    <3> HIDE DEF f
    <3> QED
      BY <2>1, SourcesFinite, LargestFirst
  <2>3. \A i \in Sources : \/ tables[i][k].seq < tables[j][k].seq
                           \/ tables[i][k].seq = tables[j][k].seq /\ j <= i
    BY <2>2
  <2>4. tables[j][k] # Absent
    <3>1. /\ tables[s][k].seq \in Nat /\ tables[s][k].seq # 0 /\ tables[j][k].seq \in Nat
          /\ tables[j][k] = Absent => tables[j][k].seq = 0
      BY <1>1, EntryTyped
    <3> QED
      BY <2>3, <3>1
  <2> QED
    BY <2>3, <2>4 DEF Wins
<1>2. ASSUME \A s \in Sources : tables[s][k] = Absent PROVE Newest(tables, k) = Absent
  <2> DEFINE seqs == {tables[i][k].seq : i \in DOMAIN tables} \ {0}
  <2>1. \A i \in DOMAIN tables : tables[i][k].seq = 0
    BY <1>2, EntryTyped DEF TablesOK
  <2>2. seqs = {}
    BY <2>1
  <2> QED
    BY <2>2 DEF Newest
<1> QED
  BY <1>1, <1>2

-----------------------------------------------------------------------------
\* The keys the merge has to yield, from the sources and from the reference.
Mentioned == UNION {InRange(tables[s]) : s \in Sources}
Merged == {k \in Interval : Merge(tables)[k] # Absent}

\* The ends of a range.
LEMMA EndTyped ==
  ASSUME NEW b \in Bounds
  PROVE  \/ b.at = "Unbounded"
         \/ b.at = "Included" /\ b.key \in Int
         \/ b.at = "Excluded" /\ b.key \in Int
<1>1. CASE b \in [at : {"Included", "Excluded"}, key : Keys]
  <2>1. b.at \in {"Included", "Excluded"} /\ b.key \in Keys
    BY <1>1
  <2> QED
    BY <2>1, MergeAssumption
<1>2. CASE b = [at |-> "Unbounded"]
  BY <1>2
<1> QED
  BY <1>1, <1>2 DEF Bounds

\* The range as range_contains sees it is an interval.
LEMMA IntervalRange ==
  ASSUME TablesOK, NEW k \in Keys
  PROVE  k \in Interval <=> RangeContains(range, k)
<1> DEFINE lo == range.start
           hi == range.end
<1>1. lo \in Bounds /\ hi \in Bounds /\ k \in Int
  BY MergeAssumption DEF TablesOK
<1>2. /\ \/ lo.at = "Unbounded"
         \/ lo.at = "Included" /\ lo.key \in Int
         \/ lo.at = "Excluded" /\ lo.key \in Int
      /\ \/ hi.at = "Unbounded"
         \/ hi.at = "Included" /\ hi.key \in Int
         \/ hi.at = "Excluded" /\ hi.key \in Int
  <2> HIDE DEF lo, hi
  <2> QED
    BY <1>1, EndTyped
<1> DEFINE low == IF lo.at = "Unbounded" THEN k
                  ELSE lo.key + (IF lo.at = "Excluded" THEN 1 ELSE 0)
           high == IF hi.at = "Unbounded" THEN k
                   ELSE hi.key - (IF hi.at = "Excluded" THEN 1 ELSE 0)
<1>3. k \in Interval <=> k \in low .. high
  BY DEF Interval
<1>4. low \in Int /\ high \in Int
  BY <1>1, <1>2
<1>5. low <= k <=> CASE lo.at = "Unbounded" -> TRUE
                     [] lo.at = "Included"  -> k >= lo.key
                     [] lo.at = "Excluded"  -> k > lo.key
  <2>1. CASE lo.at = "Unbounded"
    BY <1>1, <2>1
  <2>2. CASE lo.at = "Included" /\ lo.key \in Int
    BY <1>1, <2>2
  <2>3. CASE lo.at = "Excluded" /\ lo.key \in Int
    BY <1>1, <2>3
  <2> QED
    BY <1>2, <2>1, <2>2, <2>3
<1>6. k <= high <=> CASE hi.at = "Unbounded" -> TRUE
                      [] hi.at = "Included"  -> k <= hi.key
                      [] hi.at = "Excluded"  -> k < hi.key
  <2>1. CASE hi.at = "Unbounded"
    BY <1>1, <2>1
  <2>2. CASE hi.at = "Included" /\ hi.key \in Int
    BY <1>1, <2>2
  <2>3. CASE hi.at = "Excluded" /\ hi.key \in Int
    BY <1>1, <2>3
  <2> QED
    BY <1>2, <2>1, <2>2, <2>3
<1>7. k \in low .. high <=> low <= k /\ k <= high
  <2> HIDE DEF low, high
  <2> QED
    BY <1>1, <1>4
<1> QED
  BY <1>3, <1>5, <1>6, <1>7 DEF RangeContains

\* The reference: every key that a source mentions in the range, ascending, with the
\* entry of its winner.
LEMMA ReferenceFacts ==
  ASSUME TablesOK
  PROVE  /\ Mentioned = Merged
         /\ Len(Reference) \in Nat /\ DOMAIN Reference = 1 .. Len(Reference)
         /\ \A i \in DOMAIN Reference :
              /\ Reference[i].key \in Mentioned /\ Reference[i].key \in Int
              /\ Reference[i] = [key |-> Reference[i].key,
                                 entry |-> Newest(tables, Reference[i].key)]
         /\ \A k \in Mentioned : \E i \in DOMAIN Reference : Reference[i].key = k
         /\ \A i, j \in DOMAIN Reference : i < j => Reference[i].key < Reference[j].key
<1> DEFINE q == Ascending(Merged)
           n == Len(q)
<1>1. Merged = Mentioned
  <2>1. \A k \in Keys : /\ Merge(tables)[k] = Newest(tables, k)
                        /\ k \in Interval <=> RangeContains(range, k)
    BY IntervalRange DEF Merge
  <2>2. ASSUME NEW k \in Keys PROVE Newest(tables, k) # Absent <=> \E s \in Sources : tables[s][k] # Absent
    BY WinnerExists, WinnerNewest DEF Wins
  <2>3. \A k : k \in Merged <=> k \in Keys /\ RangeContains(range, k) /\ Newest(tables, k) # Absent
    BY <2>1 DEF Merged, Interval
  <2>4. \A k : k \in Mentioned
               <=> k \in Keys /\ RangeContains(range, k) /\ \E s \in Sources : tables[s][k] # Absent
    BY DEF Mentioned, InRange
  <2>5. \A k : k \in Merged <=> k \in Mentioned
    BY <2>2, <2>3, <2>4
  <2> QED
    BY <2>5
<1>2. Merged \subseteq Keys /\ Merged \in SUBSET Int /\ IsFiniteSet(Merged)
  <2>1. Merged \subseteq Keys
    BY DEF Merged, Interval
  <2>2. IsFiniteSet(Merged)
    BY <2>1, MergeAssumption, FS_Subset
  <2> QED
    BY <2>1, <2>2, MergeAssumption
<1>3. /\ q \in Seq(Merged) /\ ToSet(q) = Merged
      /\ \A i, j \in DOMAIN q : i < j => q[i] < q[j]
  BY <1>2, AscendingSorts
<1>4. Reference = [i \in DOMAIN q |-> [key |-> q[i], entry |-> Merge(tables)[q[i]]]]
  BY DEF Reference, Merged
<1> HIDE DEF q
<1>5. n \in Nat /\ DOMAIN q = 1 .. n /\ \A i \in 1 .. n : q[i] \in Merged /\ q[i] \in Keys
  <2>1. n \in Nat /\ DOMAIN q = 1 .. n
    BY <1>3
  <2>2. \A i \in DOMAIN q : q[i] \in Merged
    BY <1>3 DEF ToSet
  <2> QED
    BY <1>2, <2>1, <2>2
<1> HIDE DEF n
<1>6. \A i \in 1 .. n : Reference[i] = [key |-> q[i], entry |-> Newest(tables, q[i])]
  BY <1>4, <1>5 DEF Merge
<1>7. DOMAIN Reference = 1 .. n /\ Len(Reference) = n
  <2> DEFINE E == {Reference[i] : i \in 1 .. n}
  <2>1. Reference \in Seq(E)
    <3>1. Reference = [i \in 1 .. n |-> Reference[i]]
      BY <1>4, <1>5
    <3>2. \A i \in 1 .. n : Reference[i] \in E
      OBVIOUS
    <3> HIDE DEF E
    <3> QED
      BY <1>5, <3>1, <3>2
  <2>2. DOMAIN Reference = 1 .. n
    BY <1>4, <1>5
  <2> QED
    BY <1>5, <2>1, <2>2
<1>8. \A i \in 1 .. n : Reference[i].key = q[i]
  <2> SUFFICES ASSUME NEW i \in 1 .. n PROVE Reference[i].key = q[i]
    OBVIOUS
  <2>1. Reference[i] = [key |-> q[i], entry |-> Newest(tables, q[i])]
    BY <1>6
  <2> QED
    BY <2>1
<1>9. \A k \in Mentioned : \E i \in 1 .. n : q[i] = k
  BY <1>1, <1>3, <1>5 DEF ToSet
<1>10. \A i \in 1 .. n : q[i] \in Int
  BY <1>2, <1>5
<1>11. \A i \in 1 .. n :
         /\ Reference[i].key \in Mentioned /\ Reference[i].key \in Int
         /\ Reference[i] = [key |-> Reference[i].key, entry |-> Newest(tables, Reference[i].key)]
  BY <1>1, <1>5, <1>6, <1>8, <1>10
<1>12. \A k \in Mentioned : \E i \in 1 .. n : Reference[i].key = k
  BY <1>8, <1>9
<1>13. \A i, j \in 1 .. n : i < j => Reference[i].key < Reference[j].key
  BY <1>3, <1>5, <1>8
<1> QED
  BY <1>1, <1>5, <1>7, <1>11, <1>12, <1>13

-----------------------------------------------------------------------------
(***************************************************************************)
(* What is left of a source is the head it has in the heap, if any, then   *)
(* the rest of its iterator: entries of the source, in ascending order.    *)
(***************************************************************************)
HeadOf(k, s) == [key |-> k, entry |-> tables[s][k], source |-> s]
Left(s) == {h \in heap : h.source = s} \cup ToSet(rest[s])

HeadsOK ==
  /\ \A h \in heap : h.source \in Sources
  /\ \A s \in Sources : \A h \in Left(s) : h.key \in InRange(tables[s]) /\ h = HeadOf(h.key, s)

OneHead == \A g, h \in heap : g.source = h.source => g = h

Heads == [key : Keys, entry : Entry, source : Sources]

RestOK ==
  /\ rest \in [Sources -> Seq(Heads)]
  /\ \A s \in Sources :
       /\ \A i, j \in DOMAIN rest[s] : i < j => rest[s][i].key < rest[s][j].key
       /\ \A h \in heap : h.source = s => \A i \in DOMAIN rest[s] : h.key < rest[s][i].key
       /\ rest[s] # <<>> => \E h \in heap : h.source = s

SourcesOK == HeadsOK /\ OneHead /\ RestOK

\* The heads are typed.
LEMMA HeadTyped ==
  ASSUME TablesOK, SourcesOK, NEW s \in Sources, NEW h \in Left(s)
  PROVE  /\ h.source = s /\ h.key \in Keys /\ h.key \in Int /\ h.key \in InRange(tables[s])
         /\ h.entry = tables[s][h.key] /\ h.entry.seq \in Nat /\ h.entry # Absent
<1>1. h.key \in InRange(tables[s]) /\ h = HeadOf(h.key, s)
  BY DEF SourcesOK, HeadsOK
<1>2. h.key \in Keys /\ tables[s][h.key] # Absent
  BY <1>1 DEF InRange
<1> DEFINE k == h.key
<1>3. h.source = s /\ h.entry = tables[s][k]
  <2> HIDE DEF k
  <2>1. h = HeadOf(k, s)
    BY <1>1 DEF k
  <2> QED
    BY <2>1 DEF HeadOf
<1> QED
  BY <1>1, <1>2, <1>3, EntryTyped, MergeAssumption

\* The heap has a top: the smallest key, its newest entry, the first source.
LEMMA TopExists ==
  ASSUME TablesOK, SourcesOK, heap # {}
  PROVE  Top \in heap /\ \A h \in heap \ {Top} : PopsBefore(Top, h)
<1> DEFINE D == {h.source : h \in heap}
           hd(s) == CHOOSE h \in heap : h.source = s
           f == [s \in D |-> -hd(s).key]
<1>1. D \subseteq Sources /\ D \in SUBSET Nat /\ IsFiniteSet(D) /\ D # {}
  <2>1. D \subseteq Sources
    BY DEF SourcesOK, HeadsOK
  <2>2. D # {}
    OBVIOUS
  <2> HIDE DEF D
  <2> QED
    BY <2>1, <2>2, SourcesFinite, FS_Subset
<1>2. ASSUME NEW h \in heap PROVE h.source \in D /\ hd(h.source) = h
  <2>1. hd(h.source) \in heap /\ hd(h.source).source = h.source
    OBVIOUS
  <2> HIDE DEF hd
  <2> QED
    BY <2>1 DEF SourcesOK, OneHead
<1>3. ASSUME NEW s \in D
      PROVE  /\ hd(s) \in heap /\ hd(s).source = s /\ hd(s).key \in Int
             /\ hd(s).entry.seq \in Int
  <2>1. PICK h \in heap : s = h.source
    OBVIOUS
  <2>2. hd(s) = h
    BY <1>2, <2>1
  <2>3. h \in Left(s) /\ s \in Sources
    BY <1>1, <2>1 DEF Left
  <2> HIDE DEF hd
  <2> QED
    BY <2>1, <2>2, <2>3, HeadTyped
<1> HIDE DEF hd, D
<1>4. f \in [D -> Int]
  BY <1>3
<1>5. PICK a \in D : \A i \in D : f[i] < f[a] \/ (f[i] = f[a] /\ a <= i)
  <2> HIDE DEF f
  <2> QED
    BY <1>1, <1>4, LargestFirst
<1> DEFINE k == hd(a).key
           E == {s \in D : hd(s).key = k}
           g == [s \in E |-> hd(s).entry.seq]
<1>6. \A s \in D : k <= hd(s).key
  <2> SUFFICES ASSUME NEW s \in D PROVE k <= hd(s).key
    OBVIOUS
  <2>1. -hd(s).key <= -hd(a).key
    BY <1>3, <1>5
  <2> QED
    BY <1>3, <2>1
<1>7. E \in SUBSET Nat /\ IsFiniteSet(E) /\ E # {} /\ E \subseteq D
  <2>1. E \subseteq D /\ a \in E
    OBVIOUS
  <2> HIDE DEF E
  <2> QED
    BY <1>1, <2>1, FS_Subset
<1>8. g \in [E -> Int]
  BY <1>3
<1>9. PICK b \in E : \A i \in E : g[i] < g[b] \/ (g[i] = g[b] /\ b <= i)
  <2> HIDE DEF g, E
  <2> QED
    BY <1>7, <1>8, LargestFirst
<1> DEFINE t == hd(b)
<1>10. t \in heap /\ t.key = k /\ t.source = b
  BY <1>3
<1>11. ASSUME NEW h \in heap \ {t} PROVE PopsBefore(t, h)
  <2> DEFINE s == h.source
  <2>1. s \in D /\ hd(s) = h /\ s # b
    BY <1>2, <1>10
  <2>2. k <= h.key /\ k \in Int /\ h.key \in Int
    BY <1>3, <1>6, <2>1
  <2>3. CASE k < h.key
    BY <1>10, <2>3 DEF PopsBefore
  <2>4. CASE k = h.key
    <3>1. s \in E /\ g[s] = h.entry.seq /\ g[b] = t.entry.seq
      BY <2>1, <2>4
    <3>2. g[s] < g[b] \/ (g[s] = g[b] /\ b <= s)
      BY <1>9, <3>1
    <3>3. b \in Nat /\ s \in Nat /\ g[s] \in Int /\ g[b] \in Int
      BY <1>1, <1>7, <1>8, <2>1, <3>1
    <3> HIDE DEF g, t, s, k
    <3>4. g[b] > g[s] \/ (g[b] = g[s] /\ b < s)
      BY <2>1, <3>2, <3>3
    <3> QED
      BY <1>10, <2>4, <3>1, <3>4 DEF PopsBefore, s
  <2> QED
    BY <2>2, <2>3, <2>4
<1> HIDE DEF t
<1> QED
  BY <1>10, <1>11 DEF Top
-----------------------------------------------------------------------------
(***************************************************************************)
(* How far the merge has come: what it has yielded begins the reference;   *)
(* the keys still to be yielded are those of the heads left and of the     *)
(* winner; every entry of a source is left there or its key is yielded or  *)
(* about to be; the winner is the newest entry of its key, and no key left *)
(* is smaller.                                                             *)
(***************************************************************************)
LeftHeads == UNION {Left(s) : s \in Sources}
Popped == {w.key : w \in winner}
Taken == {Reference[i].key : i \in 1 .. Len(out)}
Pending == {Reference[i].key : i \in Len(out) + 1 .. Len(Reference)}
OutValues == {i \in 1 .. Len(out) : out[i].entry.kind = "Value"}

OutOK ==
  /\ out \in Seq(ToSet(Reference)) /\ Len(out) <= Len(Reference)
  /\ \A i \in 1 .. Len(out) : out[i] = Reference[i]

PendingOK == Pending = {h.key : h \in LeftHeads} \cup Popped

KeptOK ==
  \A s \in Sources : \A k \in InRange(tables[s]) :
    HeadOf(k, s) \in Left(s) \/ k \in Taken \/ k \in Popped

WinnerOK ==
  /\ \A v, w \in winner : v = w
  /\ \A w \in winner : /\ w.key \in Keys /\ w.entry = Newest(tables, w.key)
                       /\ \A h \in LeftHeads : w.key <= h.key

ShownOK == shown \in Seq(Keys) /\ ToSet(shown) = {out[i].key : i \in OutValues}

MergeInv ==
  TablesOK /\ SourcesOK /\ OutOK /\ PendingOK /\ KeptOK /\ WinnerOK /\ ShownOK

-----------------------------------------------------------------------------
\* What waits in a source's iterator comes after the head it has in the heap.
LEMMA RestBehind ==
  ASSUME TablesOK, SourcesOK, NEW s \in Sources, NEW h \in ToSet(rest[s])
  PROVE  /\ h \in Left(s) /\ rest[s] # <<>>
         /\ \E g \in heap : g.source = s /\ g \in Left(s) /\ g.key < h.key
<1>1. PICK i \in DOMAIN rest[s] : h = rest[s][i]
  BY DEF ToSet
<1>2. rest[s] # <<>>
  BY <1>1
<1>3. PICK g \in heap : g.source = s
  BY <1>2 DEF SourcesOK, RestOK
<1>4. g.key < h.key
  BY <1>1, <1>3 DEF SourcesOK, RestOK
<1> QED
  BY <1>2, <1>3, <1>4 DEF Left

\* The top of the heap is the smallest key of all that is left.
LEMMA TopLeast ==
  ASSUME TablesOK, SourcesOK, heap # {}
  PROVE  /\ Top \in heap /\ Top.source \in Sources /\ Top \in Left(Top.source)
         /\ \A h \in LeftHeads : Top.key <= h.key
         /\ \A s \in Sources : \A h \in ToSet(rest[s]) : Top.key < h.key
<1>1. Top \in heap /\ \A h \in heap \ {Top} : PopsBefore(Top, h)
  BY TopExists
<1> DEFINE top == Top
<1>2. top.source \in Sources /\ top \in Left(top.source)
  BY <1>1 DEF SourcesOK, HeadsOK, Left
<1>3. top.key \in Int
  BY <1>2, HeadTyped
<1> HIDE DEF top
<1>4. ASSUME NEW g \in heap PROVE top.key <= g.key /\ g.key \in Int
  <2>1. g.source \in Sources /\ g \in Left(g.source)
    BY DEF SourcesOK, HeadsOK, Left
  <2>2. g.key \in Int
    BY <2>1, HeadTyped
  <2> QED
    BY <1>1, <1>3, <2>2 DEF PopsBefore, top
<1>5. ASSUME NEW s \in Sources, NEW h \in ToSet(rest[s]) PROVE top.key < h.key
  <2>1. PICK g \in heap : g.source = s /\ g \in Left(s) /\ g.key < h.key
    BY RestBehind
  <2>2. h.key \in Int
    BY RestBehind, HeadTyped
  <2> QED
    BY <1>3, <1>4, <2>1, <2>2
<1>6. ASSUME NEW h \in LeftHeads PROVE top.key <= h.key
  <2>1. PICK s \in Sources : h \in Left(s)
    BY DEF LeftHeads
  <2>2. CASE h \in heap
    BY <1>4, <2>2
  <2>3. CASE h \in ToSet(rest[s])
    <3>1. top.key < h.key
      BY <1>5, <2>3
    <3>2. h.key \in Int
      BY <2>1, HeadTyped
    <3> QED
      BY <1>3, <3>1, <3>2
  <2> QED
    BY <2>1, <2>2, <2>3 DEF Left
<1> QED
  BY <1>1, <1>2, <1>5, <1>6 DEF top

\* A pop takes the top from what is left of its source and leaves the other sources.
LEMMA PopTakes ==
  ASSUME TablesOK, SourcesOK, heap # {}, PopAndRefill
  PROVE  \A s \in Sources : Left(s)' = Left(s) \ {Top}
<1> DEFINE t == Top
           src == t.source
<1>1. /\ t \in heap /\ src \in Sources
      /\ \A s \in Sources : \A h \in ToSet(rest[s]) : t.key < h.key
  BY TopLeast
<1>2. t.key \in Int
  BY TopLeast, HeadTyped
<1>3. /\ heap' = (heap \ {t}) \cup Peek(rest[src])
      /\ rest' = [rest EXCEPT ![src] = Drop(rest[src])]
  BY DEF PopAndRefill
<1> HIDE DEF t
<1>4. rest \in [Sources -> Seq(Heads)]
  BY DEF SourcesOK, RestOK
<1>5. Peek(rest[src]) \cup ToSet(Drop(rest[src])) = ToSet(rest[src])
  <2>1. CASE rest[src] = <<>>
    BY <2>1 DEF Peek, Drop, ToSet
  <2>2. CASE rest[src] # <<>>
    <3>1. rest[src] \in Seq(Heads)
      BY <1>1, <1>4
    <3>2. ToSet(rest[src]) = {Head(rest[src])} \cup ToSet(Tail(rest[src]))
      BY <2>2, <3>1, TailSet
    <3> QED
      BY <2>2, <3>2 DEF Peek, Drop
  <2> QED
    BY <2>1, <2>2
<1>6. \A h \in ToSet(rest[src]) : h.source = src
  BY <1>1, RestBehind, HeadTyped
<1>7. \A h \in Peek(rest[src]) : h.source = src
  BY <1>5, <1>6
<1>8. \A s \in Sources : t \notin ToSet(rest[s])
  BY <1>1, <1>2
<1> SUFFICES ASSUME NEW s \in Sources
             PROVE {h \in heap' : h.source = s} \cup ToSet(rest'[s]) = Left(s) \ {t}
  BY DEF Left, t
<1>9. CASE s = src
  <2>1. {h \in heap : h.source = s} = {t}
    BY <1>1, <1>9 DEF SourcesOK, OneHead
  <2>2. {h \in heap' : h.source = s} = Peek(rest[src])
    BY <1>3, <1>7, <1>9, <2>1
  <2>3. rest'[s] = Drop(rest[src])
    BY <1>3, <1>4, <1>9
  <2> QED
    BY <1>5, <1>8, <1>9, <2>1, <2>2, <2>3 DEF Left
<1>10. CASE s # src
  <2>1. {h \in heap' : h.source = s} = {h \in heap : h.source = s}
    BY <1>3, <1>7, <1>10
  <2>2. rest'[s] = rest[s]
    BY <1>3, <1>4, <1>10
  <2>3. t \notin {h \in heap : h.source = s}
    BY <1>10
  <2> QED
    BY <1>8, <2>1, <2>2, <2>3 DEF Left
<1> QED
  BY <1>9, <1>10

\* A pop keeps the heads, one for each source that is not drained, and the order.
LEMMA PopKeeps ==
  ASSUME TablesOK, SourcesOK, heap # {}, PopAndRefill, UNCHANGED <<tables, range>>
  PROVE  SourcesOK'
<1> DEFINE t == Top
           src == t.source
<1>1. t \in heap /\ src \in Sources
  BY TopLeast
<1>2. /\ heap' = (heap \ {t}) \cup Peek(rest[src])
      /\ rest' = [rest EXCEPT ![src] = Drop(rest[src])]
  BY DEF PopAndRefill
<1>3. \A s \in Sources : Left(s)' = Left(s) \ {t}
  BY PopTakes
<1> HIDE DEF t
<1>4. rest \in [Sources -> Seq(Heads)]
  BY DEF SourcesOK, RestOK
<1>5. ASSUME NEW h \in Peek(rest[src])
      PROVE  /\ rest[src] # <<>> /\ h = rest[src][1] /\ h \in ToSet(rest[src])
             /\ h.source = src
  <2>1. rest[src] # <<>> /\ h = Head(rest[src])
    BY DEF Peek
  <2>2. rest[src] \in Seq(Heads)
    BY <1>1, <1>4
  <2>3. 1 \in DOMAIN rest[src] /\ h = rest[src][1]
    BY <2>1, <2>2
  <2>4. h \in ToSet(rest[src])
    BY <2>3 DEF ToSet
  <2> QED
    BY <1>1, <2>1, <2>3, <2>4, RestBehind, HeadTyped
<1>6. /\ \A s \in Sources : s # src => rest'[s] = rest[s]
      /\ rest'[src] = Drop(rest[src])
  BY <1>1, <1>2, <1>4
<1>7. \A h \in heap' : h.source # src => h \in heap
  BY <1>2, <1>5
<1>8. \A h \in heap' : h.source = src => h \in Peek(rest[src])
  <2> SUFFICES ASSUME NEW h \in heap', h.source = src, h \notin Peek(rest[src]) PROVE FALSE
    OBVIOUS
  <2>1. h \in heap /\ h # t
    BY <1>2
  <2> QED
    BY <1>1, <2>1 DEF SourcesOK, OneHead
<1>9. HeadsOK'
  <2>1. \A h \in heap' : h.source \in Sources
    BY <1>1, <1>7, <1>8, <1>5 DEF SourcesOK, HeadsOK
  <2>2. ASSUME NEW s \in Sources, NEW h \in Left(s)'
        PROVE  h.key \in InRange(tables[s]) /\ h = HeadOf(h.key, s)
    BY <1>3 DEF SourcesOK, HeadsOK
  <2>3. \A s \in Sources : InRange(tables[s])' = InRange(tables[s])
    BY DEF InRange
  <2>4. \A s \in Sources : \A k : HeadOf(k, s)' = HeadOf(k, s)
    BY DEF HeadOf
  <2> QED
    BY <2>1, <2>2, <2>3, <2>4 DEF HeadsOK
<1>10. OneHead'
  <2> SUFFICES ASSUME NEW g \in heap', NEW h \in heap', g.source = h.source PROVE g = h
    BY DEF OneHead
  <2>1. CASE g.source = src
    BY <1>5, <1>8, <2>1
  <2>2. CASE g.source # src
    BY <1>7, <2>2 DEF SourcesOK, OneHead
  <2> QED
    BY <2>1, <2>2
<1>11. Drop(rest[src]) \in Seq(Heads)
  <2>1. rest[src] \in Seq(Heads)
    BY <1>1, <1>4
  <2> QED
    BY <2>1 DEF Drop
<1>12. rest' \in [Sources -> Seq(Heads)]
  BY <1>1, <1>2, <1>4, <1>11
<1>13. ASSUME NEW i \in DOMAIN Drop(rest[src])
       PROVE  /\ rest[src] # <<>> /\ i \in Nat \ {0} /\ i + 1 \in DOMAIN rest[src]
              /\ Drop(rest[src])[i] = rest[src][i + 1]
  <2>1. rest[src] \in Seq(Heads)
    BY <1>1, <1>4
  <2>2. rest[src] # <<>> /\ Drop(rest[src]) = Tail(rest[src])
    BY DEF Drop
  <2> QED
    BY <2>1, <2>2
<1>14. /\ \A i, j \in DOMAIN rest[src] : i < j => rest[src][i].key < rest[src][j].key
       /\ rest[src] # <<>> => 1 \in DOMAIN rest[src]
  <2>1. rest[src] \in Seq(Heads)
    BY <1>1, <1>4
  <2>2. rest[src] # <<>> => 1 \in DOMAIN rest[src]
    BY <2>1
  <2> QED
    BY <1>1, <2>2 DEF SourcesOK, RestOK
<1>15. ASSUME NEW s \in Sources
       PROVE  /\ \A i, j \in DOMAIN rest'[s] : i < j => rest'[s][i].key < rest'[s][j].key
              /\ \A h \in heap' : h.source = s => \A i \in DOMAIN rest'[s] : h.key < rest'[s][i].key
              /\ rest'[s] # <<>> => \E h \in heap' : h.source = s
  <2>1. CASE s # src
    <3>1. /\ \A i, j \in DOMAIN rest[s] : i < j => rest[s][i].key < rest[s][j].key
          /\ \A h \in heap : h.source = s => \A i \in DOMAIN rest[s] : h.key < rest[s][i].key
          /\ rest[s] # <<>> => \E h \in heap : h.source = s
      BY DEF SourcesOK, RestOK
    <3>2. rest'[s] = rest[s]
      BY <1>6, <2>1
    <3>3. \A h \in heap : h.source = s => h \in heap'
      BY <1>2, <2>1
    <3> QED
      BY <1>7, <2>1, <3>1, <3>2, <3>3
  <2>2. CASE s = src
    <3> DEFINE q == rest[src]
               d == Drop(q)
    <3>1. rest'[s] = d
      BY <1>6, <2>2
    <3>2. ASSUME NEW i \in DOMAIN d, NEW j \in DOMAIN d, i < j PROVE d[i].key < d[j].key
      <4>1. /\ i + 1 \in DOMAIN q /\ d[i] = q[i + 1] /\ i \in Nat
            /\ j + 1 \in DOMAIN q /\ d[j] = q[j + 1] /\ j \in Nat
        BY <1>13
      <4>2. i + 1 < j + 1
        BY <3>2, <4>1
      <4> QED
        BY <1>14, <4>1, <4>2
    <3>3. ASSUME NEW h \in heap', h.source = s, NEW i \in DOMAIN d PROVE h.key < d[i].key
      <4>1. h = q[1]
        BY <1>5, <1>8, <2>2, <3>3
      <4>2. /\ q # <<>> /\ i + 1 \in DOMAIN q /\ d[i] = q[i + 1] /\ i \in Nat \ {0}
        BY <1>13
      <4>3. 1 \in DOMAIN q /\ 1 < i + 1
        BY <1>14, <4>2
      <4> QED
        BY <1>14, <4>1, <4>2, <4>3
    <3>4. ASSUME d # <<>> PROVE \E h \in heap' : h.source = s
      <4>1. q # <<>>
        BY <3>4 DEF Drop
      <4>2. Head(q) \in Peek(q)
        BY <4>1 DEF Peek
      <4> QED
        BY <1>2, <1>5, <2>2, <4>2
    <3> HIDE DEF d
    <3> QED
      BY <3>1, <3>2, <3>3, <3>4
  <2> QED
    BY <2>1, <2>2
<1> QED
  BY <1>9, <1>10, <1>12, <1>15 DEF SourcesOK, RestOK

-----------------------------------------------------------------------------
\* A key yet to be yielded is not among those yielded.
LEMMA PendingNotTaken ==
  ASSUME TablesOK, OutOK, NEW k \in Pending
  PROVE  k \notin Taken /\ k \in Int /\ Len(out) < Len(Reference)
<1> DEFINE n == Len(out)
           m == Len(Reference)
<1>1. n \in Nat /\ n <= m /\ m \in Nat /\ DOMAIN Reference = 1 .. m
  BY ReferenceFacts DEF OutOK
<1>2. PICK j \in n + 1 .. m : k = Reference[j].key
  BY DEF Pending
<1> HIDE DEF n, m
<1>3. j \in 1 .. m /\ n < j /\ j \in Nat
  BY <1>1, <1>2
<1>4. Reference[j].key \in Int
  BY <1>1, <1>3, ReferenceFacts
<1>5. ASSUME NEW i \in 1 .. n PROVE Reference[i].key # k
  <2>1. i \in 1 .. m /\ i < j
    BY <1>1, <1>3
  <2>2. Reference[i].key < Reference[j].key /\ Reference[i].key \in Int
    BY <1>1, <1>3, <2>1, ReferenceFacts
  <2> QED
    BY <1>2, <1>4, <2>2
<1>6. n < m
  BY <1>1, <1>3
<1> QED
  BY <1>2, <1>4, <1>5, <1>6 DEF Taken, n, m

\* The head that next() pops as the winner is the newest entry of its key: every
\* other source that mentions the key has its head in the heap by now.
LEMMA TopNewest ==
  ASSUME MergeInv, winner = {}, heap # {}
  PROVE  Top.key \in Keys /\ Top.entry = Newest(tables, Top.key)
<1> USE DEF MergeInv
<1> DEFINE t == Top
           k == t.key
           j == t.source
<1>1. /\ t \in heap /\ j \in Sources /\ t \in Left(j)
      /\ \A s \in Sources : \A h \in ToSet(rest[s]) : k < h.key
  BY TopLeast
<1>2. \A h \in heap \ {t} : PopsBefore(t, h)
  BY TopExists
<1>3. /\ k \in Keys /\ k \in Int /\ k \in InRange(tables[j]) /\ t.entry = tables[j][k]
      /\ t.entry # Absent /\ t.entry.seq \in Nat
  BY <1>1, HeadTyped
<1> HIDE DEF t
<1>4. k \notin Taken /\ Popped = {}
  <2>1. k \in Pending
    BY <1>1 DEF PendingOK, LeftHeads
  <2> QED
    BY <2>1, PendingNotTaken DEF Popped
<1>5. ASSUME NEW i \in Sources
      PROVE  \/ tables[i][k].seq < tables[j][k].seq
             \/ tables[i][k].seq = tables[j][k].seq /\ j <= i
  <2>1. tables[i][k].seq \in Nat /\ tables[j][k].seq \in Nat /\ tables[j][k].seq # 0
    BY <1>1, <1>3, EntryTyped
  <2>2. CASE tables[i][k] = Absent
    <3>1. tables[i][k].seq = 0
      BY <1>3, <2>2, EntryTyped
    <3> QED
      BY <2>1, <3>1
  <2>3. CASE tables[i][k] # Absent
    <3> DEFINE h == HeadOf(k, i)
    <3>1. h.key = k /\ h.source = i /\ h.entry = tables[i][k]
      BY DEF HeadOf
    <3> HIDE DEF h
    <3>2. k \in InRange(tables[i])
      BY <1>3, <2>3 DEF InRange
    <3>3. h \in Left(i)
      BY <1>4, <3>2 DEF KeptOK, h
    <3>4. h \in heap
      <4>1. ~(k < h.key)
        BY <1>3, <3>1
      <4> QED
        BY <1>1, <3>3, <4>1 DEF Left
    <3>5. CASE h = t
      <4>1. i = j
        BY <3>1, <3>5
      <4> QED
        BY <2>1, <4>1, SourcesFinite
    <3>6. CASE h # t
      <4>1. PopsBefore(t, h)
        BY <1>2, <3>4, <3>6
      <4>2. ~(t.key < h.key)
        BY <1>3, <3>1
      <4>3. t.entry.seq > h.entry.seq \/ (t.entry.seq = h.entry.seq /\ t.source < h.source)
        BY <4>1, <4>2 DEF PopsBefore
      <4>4. i \in Nat /\ j \in Nat
        BY <1>1, SourcesFinite
      <4> HIDE DEF j, k
      <4>5. \/ tables[j][k].seq > tables[i][k].seq
            \/ tables[j][k].seq = tables[i][k].seq /\ j < i
        BY <1>3, <3>1, <4>3 DEF j
      <4> QED
        BY <2>1, <4>4, <4>5
    <3> QED
      BY <3>5, <3>6
  <2> QED
    BY <2>2, <2>3
<1>6. Wins(j, k)
  BY <1>1, <1>3, <1>5 DEF Wins
<1>7. Newest(tables, k) = tables[j][k]
  <2> HIDE DEF j, k
  <2> QED
    BY <1>3, <1>6, WinnerNewest
<1> QED
  BY <1>3, <1>7 DEF t

\* What the tables alone determine does not change.
LEMMA SameReference ==
  ASSUME TablesOK, UNCHANGED <<tables, range>>
  PROVE  /\ Reference' = Reference /\ TablesOK'
         /\ \A s \in Sources : InRange(tables[s])' = InRange(tables[s])
         /\ \A s, k : HeadOf(k, s)' = HeadOf(k, s)
<1>1. Interval' = Interval
  BY DEF Interval
<1>2. Merge(tables)' = Merge(tables)
  BY DEF Merge, Newest
<1>3. Reference' = Reference
  BY <1>1, <1>2 DEF Reference, Ascending
<1> QED
  BY <1>3 DEF TablesOK, InRange, RangeContains, HeadOf

\* What a pop does to the keys left: the top's may be gone, the others stay.
LEMMA PopLeft ==
  ASSUME TablesOK, SourcesOK, heap # {}, PopAndRefill
  PROVE  /\ LeftHeads' = LeftHeads \ {Top} /\ Top \in LeftHeads
         /\ {h.key : h \in LeftHeads} = {h.key : h \in LeftHeads'} \cup {Top.key}
<1>1. LeftHeads' = LeftHeads \ {Top}
  BY PopTakes DEF LeftHeads
<1>2. Top \in LeftHeads
  BY TopLeast DEF LeftHeads
<1> QED
  BY <1>1, <1>2

\* next() takes the winner.
LEMMA PopWinnerKeeps == MergeInv /\ PopWinner => MergeInv'
<1> SUFFICES ASSUME MergeInv, PopWinner PROVE MergeInv'
  OBVIOUS
<1> USE DEF MergeInv
<1>1. /\ winner = {} /\ heap # {} /\ winner' = {Top} /\ PopAndRefill
      /\ UNCHANGED <<tables, range, out, shown>>
  BY DEF PopWinner
<1>2. /\ Reference' = Reference /\ TablesOK'
      /\ \A s \in Sources : InRange(tables[s])' = InRange(tables[s])
      /\ \A s, k : HeadOf(k, s)' = HeadOf(k, s)
  BY <1>1, SameReference
<1>3. SourcesOK'
  BY <1>1, PopKeeps
<1>4. /\ LeftHeads' = LeftHeads \ {Top} /\ Top \in LeftHeads
      /\ {h.key : h \in LeftHeads} = {h.key : h \in LeftHeads'} \cup {Top.key}
  BY <1>1, PopLeft
<1>5. Popped = {} /\ Popped' = {Top.key}
  BY <1>1 DEF Popped
<1>6. Taken' = Taken /\ Pending' = Pending /\ OutValues' = OutValues
  BY <1>1, <1>2 DEF Taken, Pending, OutValues
<1>7. OutOK'
  BY <1>1, <1>2 DEF OutOK
<1>8. PendingOK'
  BY <1>4, <1>5, <1>6 DEF PendingOK
<1>9. KeptOK'
  <2> SUFFICES ASSUME NEW s \in Sources, NEW k \in InRange(tables[s])
               PROVE HeadOf(k, s) \in Left(s)' \/ k \in Taken \/ k \in Popped'
    BY <1>2, <1>6 DEF KeptOK
  <2>1. HeadOf(k, s) \in Left(s) \/ k \in Taken
    BY <1>5 DEF KeptOK
  <2>2. Left(s)' = Left(s) \ {Top}
    BY <1>1, PopTakes
  <2>3. HeadOf(k, s).key = k
    BY DEF HeadOf
  <2> QED
    BY <1>5, <2>1, <2>2, <2>3
<1>10. WinnerOK'
  <2>1. Top.key \in Keys /\ Top.entry = Newest(tables, Top.key)
    BY <1>1, TopNewest
  <2>2. \A h \in LeftHeads : Top.key <= h.key
    BY <1>1, TopLeast
  <2>3. Newest(tables, Top.key) = Newest(tables', Top.key)
    BY <1>1
  <2> DEFINE t == Top
  <2>4. winner' = {t} /\ t.key \in Keys /\ t.entry = Newest(tables', t.key)
    BY <1>1, <2>1, <2>3
  <2>5. \A h \in LeftHeads' : t.key <= h.key
    BY <1>4, <2>2
  <2> HIDE DEF t
  <2> QED
    BY <2>4, <2>5 DEF WinnerOK
<1>11. ShownOK'
  BY <1>1, <1>6 DEF ShownOK
<1> QED
  BY <1>2, <1>3, <1>7, <1>8, <1>9, <1>10, <1>11

\* next() discards an older version of the winner's key.
LEMMA PopDuplicateKeeps == MergeInv /\ PopDuplicate => MergeInv'
<1> SUFFICES ASSUME MergeInv, PopDuplicate PROVE MergeInv'
  OBVIOUS
<1> USE DEF MergeInv
<1>1. /\ heap # {} /\ Top.key \in Popped /\ PopAndRefill
      /\ UNCHANGED <<tables, range, winner, out, shown>>
  BY DEF PopDuplicate, Duplicate, Popped
<1>2. /\ Reference' = Reference /\ TablesOK'
      /\ \A s \in Sources : InRange(tables[s])' = InRange(tables[s])
      /\ \A s, k : HeadOf(k, s)' = HeadOf(k, s)
  BY <1>1, SameReference
<1>3. SourcesOK'
  BY <1>1, PopKeeps
<1>4. /\ LeftHeads' = LeftHeads \ {Top} /\ Top \in LeftHeads
      /\ {h.key : h \in LeftHeads} = {h.key : h \in LeftHeads'} \cup {Top.key}
  BY <1>1, PopLeft
<1>5. Popped' = Popped
  BY <1>1 DEF Popped
<1>6. Taken' = Taken /\ Pending' = Pending /\ OutValues' = OutValues
  BY <1>1, <1>2 DEF Taken, Pending, OutValues
<1>7. OutOK'
  BY <1>1, <1>2 DEF OutOK
<1>8. PendingOK'
  BY <1>1, <1>4, <1>5, <1>6 DEF PendingOK
<1>9. KeptOK'
  <2> SUFFICES ASSUME NEW s \in Sources, NEW k \in InRange(tables[s])
               PROVE HeadOf(k, s) \in Left(s)' \/ k \in Taken \/ k \in Popped
    BY <1>2, <1>5, <1>6 DEF KeptOK
  <2>1. HeadOf(k, s) \in Left(s) \/ k \in Taken \/ k \in Popped
    BY DEF KeptOK
  <2>2. Left(s)' = Left(s) \ {Top}
    BY <1>1, PopTakes
  <2>3. HeadOf(k, s).key = k
    BY DEF HeadOf
  <2> QED
    BY <1>1, <2>1, <2>2, <2>3
<1>10. WinnerOK'
  <2>1. \A w \in winner : Newest(tables, w.key)' = Newest(tables, w.key)
    BY <1>1 DEF Newest
  <2> QED
    BY <1>1, <1>4, <2>1 DEF WinnerOK
<1>11. ShownOK'
  BY <1>1, <1>6 DEF ShownOK
<1> QED
  BY <1>2, <1>3, <1>7, <1>8, <1>9, <1>10, <1>11

\* When the winner's key is popped no head has it any more: it is the next key of
\* the reference.
LEMMA WinnerNext ==
  ASSUME MergeInv, NEW w \in winner, heap # {} => ~Duplicate(Top)
  PROVE  /\ Len(out) + 1 \in DOMAIN Reference
         /\ Reference[Len(out) + 1] = [key |-> w.key, entry |-> w.entry]
         /\ \A h \in LeftHeads : w.key < h.key
<1> USE DEF MergeInv
<1> DEFINE n == Len(out)
           m == Len(Reference)
           k == w.key
<1>1. /\ k \in Keys /\ k \in Int /\ w.entry = Newest(tables, k) /\ Popped = {k}
      /\ \A h \in LeftHeads : k <= h.key
  BY MergeAssumption DEF WinnerOK, Popped
<1>2. \A h \in LeftHeads : h.key \in Int
  BY HeadTyped DEF LeftHeads
<1>3. ASSUME NEW h \in LeftHeads PROVE k < h.key
  <2>1. heap # {}
    <3>1. PICK s \in Sources : h \in Left(s)
      BY DEF LeftHeads
    <3> QED
      BY <3>1, RestBehind DEF Left
  <2>2. Top.key # k
    BY <2>1 DEF Duplicate
  <2>3. Top \in LeftHeads /\ Top.key <= h.key
    BY <2>1, TopLeast DEF LeftHeads
  <2>4. k <= Top.key /\ Top.key \in Int
    BY <1>1, <1>2, <2>3
  <2>5. h.key \in Int
    BY <1>2
  <2> QED
    BY <1>1, <2>2, <2>3, <2>4, <2>5
<1>4. n \in Nat /\ n <= m /\ m \in Nat /\ DOMAIN Reference = 1 .. m
  BY ReferenceFacts DEF OutOK
<1>5. k \in Pending
  BY <1>1 DEF PendingOK
<1>6. PICK j \in n + 1 .. m : k = Reference[j].key
  BY <1>5 DEF Pending
<1> DEFINE r == Reference[n + 1].key
<1> HIDE DEF m
<1>7. n + 1 \in DOMAIN Reference /\ j \in DOMAIN Reference /\ n + 1 \in n + 1 .. m
  BY <1>4, <1>6
<1>8. r \in Int /\ (n + 1 < j => r < Reference[j].key)
  BY <1>7, ReferenceFacts
<1>9. r \in Pending
  BY <1>7 DEF Pending, m
<1>10. r = k \/ k < r
  <2>1. r \in {h.key : h \in LeftHeads} \cup {k}
    BY <1>1, <1>9 DEF PendingOK
  <2> QED
    BY <1>3, <2>1
<1>11. r = k
  <2>1. n + 1 = j \/ n + 1 < j
    BY <1>4, <1>6
  <2> HIDE DEF r, k
  <2>2. n + 1 = j => r = k
    BY <1>6 DEF r
  <2>3. n + 1 < j => r < k
    BY <1>6, <1>8
  <2> QED
    BY <1>1, <1>8, <1>10, <2>1, <2>2, <2>3
<1>12. Reference[n + 1] = [key |-> r, entry |-> Newest(tables, r)]
  BY <1>7, ReferenceFacts
<1> QED
  BY <1>1, <1>3, <1>7, <1>11, <1>12

\* next() returns the winner, and LiveIter passes it on if it is a value.
LEMMA YieldKeeps == MergeInv /\ Yield => MergeInv'
<1> SUFFICES ASSUME MergeInv, Yield PROVE MergeInv'
  OBVIOUS
<1> USE DEF MergeInv
<1>1. PICK w \in winner :
        /\ out' = Append(out, [key |-> w.key, entry |-> w.entry])
        /\ shown' = IF w.entry.kind = "Value" THEN Append(shown, w.key) ELSE shown
  BY DEF Yield
<1>2. /\ winner' = {} /\ UNCHANGED <<tables, range, rest, heap>>
      /\ (heap # {} => ~Duplicate(Top))
  BY DEF Yield
<1> DEFINE n == Len(out)
           m == Len(Reference)
           item == [key |-> w.key, entry |-> w.entry]
<1>3. /\ n + 1 \in DOMAIN Reference /\ Reference[n + 1] = item
      /\ \A h \in LeftHeads : w.key < h.key
  BY <1>2, WinnerNext
<1>4. /\ Reference' = Reference /\ TablesOK'
      /\ \A s \in Sources : InRange(tables[s])' = InRange(tables[s])
      /\ \A s, k : HeadOf(k, s)' = HeadOf(k, s)
  BY <1>2, SameReference
<1>5. SourcesOK'
  BY <1>2, <1>4 DEF SourcesOK, HeadsOK, OneHead, RestOK, Left
<1>6. (\A s \in Sources : Left(s)' = Left(s)) /\ LeftHeads' = LeftHeads
  BY <1>2 DEF LeftHeads, Left
<1>7. Popped' = {} /\ Popped = {w.key} /\ w.key \in Keys /\ w.key \in Int
  BY <1>2, MergeAssumption DEF Popped, WinnerOK
<1>8. n \in Nat /\ n <= m /\ m \in Nat /\ DOMAIN Reference = 1 .. m
  BY ReferenceFacts DEF OutOK
<1> HIDE DEF m
<1>9. /\ out' \in Seq(ToSet(Reference)) /\ Len(out)' = n + 1
      /\ out'[n + 1] = item /\ \A i \in 1 .. n : out'[i] = out[i]
  <2>1. item \in ToSet(Reference)
    BY <1>3 DEF ToSet
  <2>2. out \in Seq(ToSet(Reference)) /\ out' = Append(out, item)
    BY <1>1 DEF OutOK
  <2> HIDE DEF item
  <2> QED
    BY <2>1, <2>2
<1> HIDE DEF item
<1>10. n + 1 <= m /\ 1 .. n + 1 = (1 .. n) \cup {n + 1}
       /\ n + 1 .. m = {n + 1} \cup (n + 2 .. m) /\ n + 1 + 1 = n + 2
  BY <1>3, <1>8
<1>11. item.key = w.key /\ item.entry = w.entry
  BY DEF item
<1>12. OutOK'
  <2>1. \A i \in 1 .. n : out[i] = Reference[i]
    BY DEF OutOK
  <2>2. \A i \in 1 .. n + 1 : out'[i] = Reference[i]
    BY <1>3, <1>9, <1>10, <2>1
  <2>3. Len(out)' <= Len(Reference)
    BY <1>9, <1>10 DEF m
  <2> QED
    BY <1>4, <1>9, <2>2, <2>3 DEF OutOK
<1>13. Taken' = Taken \cup {w.key}
  <2>1. Taken' = {Reference[i].key : i \in 1 .. n + 1}
    BY <1>4, <1>9 DEF Taken
  <2> QED
    BY <1>3, <1>10, <1>11, <2>1 DEF Taken
<1>14. Pending = Pending' \cup {w.key} /\ w.key \notin Pending'
  <2>1. Pending' = {Reference[i].key : i \in n + 2 .. m}
    BY <1>4, <1>9, <1>10 DEF Pending, m
  <2>2. Pending = {Reference[i].key : i \in {n + 1} \cup (n + 2 .. m)}
    BY <1>10 DEF Pending, m
  <2>3. ASSUME NEW i \in n + 2 .. m PROVE Reference[i].key # w.key
    <3>1. i \in DOMAIN Reference /\ n + 1 < i
      BY <1>8
    <3>2. Reference[n + 1].key < Reference[i].key
      BY <1>3, <3>1, ReferenceFacts
    <3>3. Reference[n + 1].key = w.key
      BY <1>3, <1>11
    <3> QED
      BY <1>7, <3>2, <3>3
  <2> QED
    BY <1>3, <1>11, <2>1, <2>2, <2>3
<1>15. PendingOK'
  <2>1. w.key \notin {h.key : h \in LeftHeads}
    BY <1>3, <1>7
  <2>2. Pending = {h.key : h \in LeftHeads} \cup {w.key}
    BY <1>7 DEF PendingOK
  <2>3. Pending' = {h.key : h \in LeftHeads}
    BY <1>14, <2>1, <2>2
  <2> QED
    BY <1>6, <1>7, <2>3 DEF PendingOK
<1>16. KeptOK'
  <2> SUFFICES ASSUME NEW s \in Sources, NEW k \in InRange(tables[s])
               PROVE HeadOf(k, s) \in Left(s) \/ k \in Taken'
    BY <1>4, <1>6 DEF KeptOK
  <2>1. HeadOf(k, s) \in Left(s) \/ k \in Taken \/ k \in Popped
    BY DEF KeptOK
  <2> QED
    BY <1>7, <1>13, <2>1
<1>17. WinnerOK'
  BY <1>2 DEF WinnerOK
<1>18. ShownOK'
  <2> DEFINE value == w.entry.kind = "Value"
  <2>1. OutValues' = OutValues \cup (IF value THEN {n + 1} ELSE {})
    <3>1. OutValues' = {i \in (1 .. n) \cup {n + 1} : out'[i].entry.kind = "Value"}
      BY <1>9, <1>10 DEF OutValues
    <3>2. out'[n + 1].entry.kind = "Value" <=> value
      BY <1>9, <1>11
    <3>3. \A i \in 1 .. n : out'[i].entry.kind = "Value" <=> out[i].entry.kind = "Value"
      BY <1>9
    <3>4. OutValues = {i \in 1 .. n : out[i].entry.kind = "Value"}
      BY DEF OutValues
    <3> HIDE DEF value
    <3> QED
      BY <3>1, <3>2, <3>3, <3>4
  <2>2. \A i \in OutValues : i \in 1 .. n /\ out'[i] = out[i]
    BY <1>9 DEF OutValues
  <2>3. out'[n + 1].key = w.key
    BY <1>9, <1>11
  <2>4. {out'[i].key : i \in OutValues'} =
          {out[i].key : i \in OutValues} \cup (IF value THEN {w.key} ELSE {})
    <3> HIDE DEF value
    <3> QED
      BY <2>1, <2>2, <2>3
  <2>5. CASE value
    <3>1. shown' = Append(shown, w.key)
      BY <1>1, <2>5
    <3>2. shown' \in Seq(Keys) /\ ToSet(shown') = ToSet(shown) \cup {w.key}
      BY <1>7, <3>1, AppendSet DEF ShownOK
    <3> QED
      BY <2>4, <2>5, <3>2 DEF ShownOK
  <2>6. CASE ~value
    <3>1. shown' = shown
      BY <1>1, <2>6
    <3> QED
      BY <2>4, <2>6, <3>1 DEF ShownOK
  <2> QED
    BY <2>5, <2>6
<1> QED
  BY <1>4, <1>5, <1>12, <1>15, <1>16, <1>17, <1>18

-----------------------------------------------------------------------------
\* The iterator of a source: its entries in the range, in ascending order.
LEMMA YieldsFacts ==
  ASSUME TablesOK, NEW s \in Sources
  PROVE  LET q == Yields(tables[s], s) IN
         /\ q \in Seq(Heads)
         /\ ToSet(q) = {HeadOf(k, s) : k \in InRange(tables[s])}
         /\ \A i, j \in DOMAIN q : i < j => q[i].key < q[j].key
<1> DEFINE S == InRange(tables[s])
           keys == Ascending(S)
           n == Len(keys)
           q == Yields(tables[s], s)
<1>1. S \subseteq Keys /\ S \in SUBSET Int /\ IsFiniteSet(S)
  <2>1. S \subseteq Keys
    BY DEF InRange
  <2> HIDE DEF S
  <2> QED
    BY <2>1, MergeAssumption, FS_Subset
<1>2. /\ keys \in Seq(S) /\ ToSet(keys) = S
      /\ \A i, j \in DOMAIN keys : i < j => keys[i] < keys[j]
  <2> HIDE DEF S
  <2> QED
    BY <1>1, AscendingSorts
<1>3. q = [i \in DOMAIN keys |-> [key |-> keys[i], entry |-> tables[s][keys[i]], source |-> s]]
  BY DEF Yields
<1>4. \A k \in S : HeadOf(k, s) \in Heads
  <2> SUFFICES ASSUME NEW k \in S PROVE tables[s][k] \in Entry
    BY <1>1 DEF HeadOf, Heads
  <2> QED
    BY <1>1, EntryTyped DEF InRange
<1> HIDE DEF keys, q
<1>5. n \in Nat /\ DOMAIN keys = 1 .. n /\ \A i \in 1 .. n : keys[i] \in S
  <2>1. n \in Nat /\ DOMAIN keys = 1 .. n
    BY <1>2
  <2> HIDE DEF n, S
  <2> QED
    BY <1>2, <2>1
<1> HIDE DEF n, S
<1>6. DOMAIN q = 1 .. n /\ \A i \in 1 .. n : q[i] = HeadOf(keys[i], s)
  BY <1>3, <1>5 DEF HeadOf
<1>7. q \in Seq(Heads)
  <2>1. q = [i \in 1 .. n |-> HeadOf(keys[i], s)]
    BY <1>3, <1>5 DEF HeadOf
  <2>2. \A i \in 1 .. n : HeadOf(keys[i], s) \in Heads
    BY <1>4, <1>5
  <2> QED
    BY <1>5, <2>1, <2>2
<1>8. ToSet(q) = {HeadOf(k, s) : k \in S}
  <2>1. ToSet(q) = {HeadOf(keys[i], s) : i \in 1 .. n}
    BY <1>6 DEF ToSet
  <2>2. S = {keys[i] : i \in 1 .. n}
    BY <1>2, <1>5 DEF ToSet
  <2> QED
    BY <2>1, <2>2
<1>9. \A i \in 1 .. n : q[i].key = keys[i]
  BY <1>6 DEF HeadOf
<1>10. \A i, j \in DOMAIN q : i < j => q[i].key < q[j].key
  BY <1>2, <1>5, <1>6, <1>9
<1> QED
  BY <1>7, <1>8, <1>10 DEF q, S

\* MergeIterator::new primes the heap with the first entry of every source.
LEMMA MergeInit == Init => MergeInv
<1> SUFFICES ASSUME Init PROVE MergeInv
  OBVIOUS
<1> DEFINE Y(s) == Yields(tables[s], s)
<1>1. /\ heap = UNION {Peek(Y(s)) : s \in Sources}
      /\ rest = [s \in Sources |-> Drop(Y(s))]
      /\ winner = {} /\ out = <<>> /\ shown = <<>>
  BY DEF Init
<1>2. TablesOK
  BY MergeAssumption DEF Init, TablesOK, Table
<1>3. ASSUME NEW s \in Sources
      PROVE  /\ Y(s) \in Seq(Heads)
             /\ ToSet(Y(s)) = {HeadOf(k, s) : k \in InRange(tables[s])}
             /\ \A i, j \in DOMAIN Y(s) : i < j => Y(s)[i].key < Y(s)[j].key
  BY <1>2, YieldsFacts
<1> HIDE DEF Y
<1>4. ASSUME NEW s \in Sources
      PROVE  /\ Peek(Y(s)) \cup ToSet(Drop(Y(s))) = ToSet(Y(s))
             /\ \A h \in ToSet(Y(s)) : h.source = s
  <2>1. Peek(Y(s)) \cup ToSet(Drop(Y(s))) = ToSet(Y(s))
    <3>1. CASE Y(s) = <<>>
      BY <3>1 DEF Peek, Drop, ToSet
    <3>2. CASE Y(s) # <<>>
      BY <1>3, <3>2, TailSet DEF Peek, Drop
    <3> QED
      BY <3>1, <3>2
  <2>2. \A h \in ToSet(Y(s)) : h.source = s
    BY <1>3 DEF HeadOf
  <2> QED
    BY <2>1, <2>2
<1>5. ASSUME NEW s \in Sources PROVE {h \in heap : h.source = s} = Peek(Y(s))
  BY <1>1, <1>4
<1>6. ASSUME NEW s \in Sources PROVE Left(s) = ToSet(Y(s))
  <2>1. rest[s] = Drop(Y(s))
    BY <1>1
  <2> QED
    BY <1>4, <1>5, <2>1 DEF Left
<1>7. HeadsOK
  <2>1. \A h \in heap : h.source \in Sources
    BY <1>1, <1>4
  <2>2. ASSUME NEW s \in Sources, NEW h \in Left(s)
        PROVE  h.key \in InRange(tables[s]) /\ h = HeadOf(h.key, s)
    <3>1. PICK k \in InRange(tables[s]) : h = HeadOf(k, s)
      BY <1>3, <1>6
    <3>2. h.key = k
      BY <3>1 DEF HeadOf
    <3> QED
      BY <3>1, <3>2
  <2> QED
    BY <2>1, <2>2 DEF HeadsOK
<1>8. OneHead
  <2> SUFFICES ASSUME NEW g \in heap, NEW h \in heap, g.source = h.source PROVE g = h
    BY DEF OneHead
  <2>1. PICK s \in Sources : h \in Peek(Y(s))
    BY <1>1
  <2>2. g \in Peek(Y(s))
    BY <1>4, <1>5, <2>1
  <2> QED
    BY <2>1, <2>2 DEF Peek
<1>9. RestOK
  <2>1. rest \in [Sources -> Seq(Heads)]
    <3>1. ASSUME NEW s \in Sources PROVE Drop(Y(s)) \in Seq(Heads)
      BY <1>3 DEF Drop
    <3> QED
      BY <1>1, <3>1
  <2>2. ASSUME NEW s \in Sources
        PROVE  /\ \A i, j \in DOMAIN rest[s] : i < j => rest[s][i].key < rest[s][j].key
               /\ \A h \in heap : h.source = s => \A i \in DOMAIN rest[s] : h.key < rest[s][i].key
               /\ rest[s] # <<>> => \E h \in heap : h.source = s
    <3> DEFINE q == Y(s)
               d == Drop(q)
    <3>1. rest[s] = d
      BY <1>1
    <3>2. /\ q \in Seq(Heads)
          /\ \A i, j \in DOMAIN q : i < j => q[i].key < q[j].key
      BY <1>3
    <3>3. {h \in heap : h.source = s} = Peek(q)
      BY <1>5
    <3> HIDE DEF q
    <3>4. ASSUME NEW i \in DOMAIN d
          PROVE  /\ q # <<>> /\ i \in Nat \ {0} /\ i + 1 \in DOMAIN q /\ d[i] = q[i + 1]
                 /\ 1 \in DOMAIN q /\ Head(q) = q[1]
      <4>1. q # <<>> /\ d = Tail(q)
        BY DEF Drop
      <4> QED
        BY <3>2, <4>1
    <3>5. d # <<>> => Head(q) \in Peek(q)
      BY DEF Drop, Peek
    <3>6. \A h \in Peek(q) : h = Head(q)
      BY DEF Peek
    <3> HIDE DEF d
    <3>7. ASSUME NEW i \in DOMAIN d, NEW j \in DOMAIN d, i < j PROVE d[i].key < d[j].key
      <4>1. i + 1 < j + 1
        BY <3>4, <3>7
      <4> QED
        BY <3>2, <3>4, <4>1
    <3>8. ASSUME NEW h \in heap, h.source = s, NEW i \in DOMAIN d PROVE h.key < d[i].key
      <4>1. h = q[1]
        BY <3>3, <3>4, <3>6, <3>8
      <4>2. 1 < i + 1
        BY <3>4
      <4> QED
        BY <3>2, <3>4, <4>1, <4>2
    <3> QED
      BY <3>1, <3>3, <3>5, <3>7, <3>8
  <2> QED
    BY <2>1, <2>2 DEF RestOK
<1>10. Popped = {} /\ Len(out) = 0 /\ 1 .. Len(out) = {} /\ Taken = {} /\ OutValues = {}
  BY <1>1 DEF Popped, Taken, OutValues
<1>11. /\ Len(Reference) \in Nat /\ DOMAIN Reference = 1 .. Len(Reference)
       /\ \A i \in DOMAIN Reference : Reference[i].key \in Mentioned
       /\ \A k \in Mentioned : \E i \in DOMAIN Reference : Reference[i].key = k
  BY <1>2, ReferenceFacts
<1>12. OutOK
  BY <1>1, <1>10, <1>11 DEF OutOK
<1>13. PendingOK
  <2>1. Len(out) + 1 = 1
    BY <1>10
  <2>2. Pending = Mentioned
    BY <1>11, <2>1 DEF Pending
  <2>3. ASSUME NEW s \in Sources PROVE {h.key : h \in Left(s)} = InRange(tables[s])
    <3>1. Left(s) = {HeadOf(k, s) : k \in InRange(tables[s])}
      BY <1>3, <1>6
    <3>2. \A k : HeadOf(k, s).key = k
      BY DEF HeadOf
    <3>3. \A x : x \in {h.key : h \in Left(s)} <=> \E k \in InRange(tables[s]) : x = HeadOf(k, s).key
      BY <3>1
    <3>4. \A x : x \in {h.key : h \in Left(s)} <=> x \in InRange(tables[s])
      BY <3>2, <3>3
    <3> QED
      BY <3>4
  <2>4. {h.key : h \in LeftHeads} = Mentioned
    BY <2>3 DEF LeftHeads, Mentioned
  <2> QED
    BY <1>10, <2>2, <2>4 DEF PendingOK
<1>14. KeptOK
  BY <1>3, <1>6 DEF KeptOK
<1>15. WinnerOK /\ ShownOK
  <2>1. ToSet(<<>>) = {}
    BY DEF ToSet
  <2> QED
    BY <1>1, <1>10, <2>1 DEF WinnerOK, ShownOK
<1> QED
  BY <1>2, <1>7, <1>8, <1>9, <1>12, <1>13, <1>14, <1>15 DEF MergeInv, SourcesOK

-----------------------------------------------------------------------------
(***************************************************************************)
(* The invariant of next(): how far the merge has come is what the heads   *)
(* left and the iterators behind them say it is.                           *)
(***************************************************************************)
THEOREM MergeInductive == Spec => []MergeInv
<1>1. MergeInv /\ [Next]_vars => MergeInv'
  <2> SUFFICES ASSUME MergeInv, [Next]_vars PROVE MergeInv'
    OBVIOUS
  <2>1. CASE PopWinner
    BY <2>1, PopWinnerKeeps
  <2>2. CASE PopDuplicate
    BY <2>2, PopDuplicateKeeps
  <2>3. CASE Yield
    BY <2>3, YieldKeeps
  <2>4. CASE UNCHANGED vars
    <3>1. UNCHANGED <<tables, range, rest, heap, winner, out, shown>>
      BY <2>4 DEF vars
    <3>2. /\ Reference' = Reference /\ TablesOK'
          /\ \A s \in Sources : InRange(tables[s])' = InRange(tables[s])
          /\ \A s, k : HeadOf(k, s)' = HeadOf(k, s)
      BY <3>1, SameReference DEF MergeInv
    <3>3. /\ (\A s \in Sources : Left(s)' = Left(s)) /\ LeftHeads' = LeftHeads
          /\ Popped' = Popped /\ Taken' = Taken /\ Pending' = Pending /\ OutValues' = OutValues
      BY <3>1, <3>2 DEF LeftHeads, Left, Popped, Taken, Pending, OutValues
    <3>4. SourcesOK'
      BY <3>1, <3>2, <3>3 DEF MergeInv, SourcesOK, HeadsOK, OneHead, RestOK
    <3>5. OutOK' /\ PendingOK' /\ ShownOK'
      BY <3>1, <3>2, <3>3 DEF MergeInv, OutOK, PendingOK, ShownOK
    <3>6. KeptOK'
      BY <3>2, <3>3 DEF MergeInv, KeptOK
    <3>7. WinnerOK'
      <4>1. \A w \in winner : Newest(tables, w.key)' = Newest(tables, w.key)
        BY <3>1 DEF Newest
      <4> QED
        BY <3>1, <3>3, <4>1 DEF MergeInv, WinnerOK
    <3> QED
      BY <3>2, <3>4, <3>5, <3>6, <3>7 DEF MergeInv
  <2> QED
    BY <2>1, <2>2, <2>3, <2>4 DEF Next
<1> QED
  BY MergeInit, <1>1, PTL DEF Spec

\* At the end of the merge nothing is left of the reference.
LEMMA ExhaustedAll ==
  ASSUME MergeInv, Exhausted
  PROVE  Len(out) = Len(Reference)
<1> USE DEF MergeInv
<1> DEFINE n == Len(out)
           m == Len(Reference)
<1>1. n \in Nat /\ n <= m /\ m \in Nat
  BY ReferenceFacts DEF OutOK
<1>2. LeftHeads = {} /\ Popped = {}
  <2>1. ASSUME NEW s \in Sources, NEW h \in Left(s) PROVE FALSE
    BY RestBehind DEF Exhausted, Left
  <2> QED
    BY <2>1 DEF LeftHeads, Exhausted, Popped
<1>3. Pending = {}
  BY <1>2 DEF PendingOK
<1>4. ~(n < m)
  <2>1. n < m => Reference[n + 1].key \in Pending
    <3>1. n < m => n + 1 \in n + 1 .. m
      BY <1>1
    <3> HIDE DEF n, m
    <3> QED
      BY <3>1 DEF Pending, n, m
  <2> QED
    BY <1>3, <2>1
<1> QED
  BY <1>1, <1>4

(***************************************************************************)
(* The iterator yields the merge over the range: every key once, in        *)
(* ascending order, with the newest entry, whatever the sources hold and   *)
(* however they overlap (scan, next, refill, HeapHead::cmp,                *)
(* range_contains).                                                        *)
(***************************************************************************)
THEOREM MergeYieldsNewest == Spec => []MergesNewest
<1>1. MergeInv => MergesNewest
  <2> SUFFICES ASSUME MergeInv PROVE MergesNewest
    OBVIOUS
  <2> USE DEF MergeInv
  <2> DEFINE n == Len(out)
             m == Len(Reference)
  <2>1. n \in Nat /\ n <= m /\ m \in Nat /\ DOMAIN Reference = 1 .. m
    BY ReferenceFacts DEF OutOK
  <2>2. SubSeq(out, 1, n) = SubSeq(Reference, 1, n)
    <3>1. \A i \in 1 .. n : out[i] = Reference[i]
      BY DEF OutOK
    <3>2. /\ SubSeq(out, 1, n) = [i \in 1 .. n |-> out[i]]
          /\ SubSeq(Reference, 1, n) = [i \in 1 .. n |-> Reference[i]]
      <4>1. \A q : SubSeq(q, 1, n) = [i \in 1 .. (1 + n - 1) |-> q[i + 1 - 1]]
        OBVIOUS
      <4> QED
        BY <2>1, <4>1
    <3> QED
      BY <3>1, <3>2
  <2>3. IsPrefix(out, Reference)
    BY <2>1, <2>2 DEF IsPrefix
  <2> QED
    BY <2>3, ExhaustedAll DEF MergesNewest
<1> QED
  BY MergeInductive, <1>1, PTL

(***************************************************************************)
(* A scan that has run to its end has shown the keys of its range whose    *)
(* newest entry is a value, and no others: LiveIter drops a tombstone only *)
(* after it has swallowed what it shadows (LiveIter::next).                *)
(***************************************************************************)
THEOREM ScanShowsLive == Spec => []LiveShowsNewest
<1>1. MergeInv => LiveShowsNewest
  <2> SUFFICES ASSUME MergeInv, Exhausted
               PROVE  ToSet(shown) = {k \in Interval : Value(Newest(tables, k)) # 0}
    BY DEF LiveShowsNewest
  <2> USE DEF MergeInv
  <2>1. Len(out) = Len(Reference) /\ \A i \in 1 .. Len(Reference) : out[i] = Reference[i]
    BY ExhaustedAll DEF OutOK
  <2>2. /\ Mentioned = Merged
        /\ DOMAIN Reference = 1 .. Len(Reference)
        /\ \A i \in DOMAIN Reference :
             /\ Reference[i].key \in Mentioned
             /\ Reference[i] = [key |-> Reference[i].key,
                                entry |-> Newest(tables, Reference[i].key)]
        /\ \A k \in Mentioned : \E i \in DOMAIN Reference : Reference[i].key = k
    BY ReferenceFacts
  <2>3. \A i \in DOMAIN Reference : Reference[i].entry = Newest(tables, Reference[i].key)
    BY <2>2
  <2>4. ToSet(shown) = {k \in Mentioned : Newest(tables, k).kind = "Value"}
    <3>1. ToSet(shown) = {Reference[i].key : i \in OutValues}
      BY <2>1 DEF ShownOK, OutValues
    <3>2. OutValues = {i \in DOMAIN Reference : Newest(tables, Reference[i].key).kind = "Value"}
      BY <2>1, <2>2, <2>3 DEF OutValues
    <3> QED
      BY <2>2, <3>1, <3>2
  <2>5. ASSUME NEW k \in Interval
        PROVE  Value(Newest(tables, k)) # 0
               <=> Newest(tables, k) # Absent /\ Newest(tables, k).kind = "Value"
    <3>1. k \in Keys
      BY DEF Interval
    <3>2. Newest(tables, k) \in Entry \cup {Absent}
      BY <3>1, WinnerExists, WinnerNewest, EntryTyped DEF Wins
    <3>3. CASE Newest(tables, k) = Absent
      BY <3>3 DEF Value, Absent
    <3>4. CASE Newest(tables, k) \in Entry /\ Newest(tables, k) # Absent
      BY <3>4 DEF Value, Entry
    <3> QED
      BY <3>2, <3>3, <3>4
  <2>6. \A k : k \in Mentioned <=> k \in Interval /\ Newest(tables, k) # Absent
    BY <2>2 DEF Merged, Merge, Interval
  <2> QED
    BY <2>4, <2>5, <2>6
<1> QED
  BY MergeInductive, <1>1, PTL
=============================================================================
