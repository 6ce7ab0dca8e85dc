------------------------------ MODULE SeqLemmas ------------------------------
(***************************************************************************)
(* Facts about numbers and sequences that the proofs of the engine's data  *)
(* rest on.  Induction is stated over sets of numbers, so that a proof     *)
(* instantiates it with the set of those that have the property.           *)
(***************************************************************************)
EXTENDS Integers, Sequences, SequencesExt, FiniteSetsExt, FiniteSetTheorems,
        WellFoundedInduction, TLAPS

\* A nonempty set of natural numbers has a least element.
LEMMA LeastNat ==
  ASSUME NEW S \in SUBSET Nat, S # {}
  PROVE  \E n \in S : \A m \in S : n <= m
<1> DEFINE T == {1 .. n : n \in S}
<1>1. T \subseteq FiniteSubsetsOf(Nat)
  <2> SUFFICES ASSUME NEW n \in S PROVE 1 .. n \in FiniteSubsetsOf(Nat)
    OBVIOUS
  <2>1. IsFiniteSet(1 .. n)
    BY FS_Interval
  <2> QED
    BY <2>1 DEF FiniteSubsetsOf
<1>2. T # {}
  OBVIOUS
<1>3. IsWellFoundedOn(StrictSubsetOrdering(Nat), FiniteSubsetsOf(Nat))
  BY FS_StrictSubsetOrderingWellFounded
<1>4. PICK x \in T : \A y \in T : ~(<<y, x>> \in StrictSubsetOrdering(Nat))
  <2> HIDE DEF T
  <2> QED
    BY <1>1, <1>2, <1>3, WFMin
<1>5. PICK n \in S : x = 1 .. n
  OBVIOUS
<1>6. ASSUME NEW m \in S, m < n PROVE FALSE
  <2>1. 1 .. m \in T /\ ~(<<1 .. m, 1 .. n>> \in StrictSubsetOrdering(Nat))
    BY <1>4, <1>5
  <2>2. 1 .. m \subseteq 1 .. n /\ n \in 1 .. n /\ n \notin 1 .. m
    BY <1>6
  <2>3. 1 .. m # 1 .. n
    BY <2>2
  <2>4. 1 .. m \in SUBSET Nat /\ 1 .. n \in SUBSET Nat
    OBVIOUS
  <2> QED
    BY <2>1, <2>2, <2>3, <2>4 DEF StrictSubsetOrdering
<1> QED
  BY <1>6

\* Induction: a set of numbers with 0 and the successor of each of its members.
LEMMA InductionOverNat ==
  ASSUME NEW S, 0 \in S, \A n \in Nat : n \in S => n + 1 \in S
  PROVE  Nat \subseteq S
<1> SUFFICES ASSUME Nat \ S # {} PROVE FALSE
  OBVIOUS
<1>1. PICK n \in Nat \ S : \A m \in Nat \ S : n <= m
  BY LeastNat
<1>2. n # 0 /\ n - 1 \in Nat
  OBVIOUS
<1>3. n - 1 \in S
  BY <1>1, <1>2
<1> QED
  BY <1>2, <1>3

\* Max and Min of a nonempty finite set of numbers are its bounds.
LEMMA MinOfNats ==
  ASSUME NEW S \in SUBSET Nat, S # {}
  PROVE  Min(S) \in S /\ \A m \in S : Min(S) <= m
  BY LeastNat DEF Min

\* The maximum of a bounded set of numbers.
LEMMA MaxOfNats ==
  ASSUME NEW S \in SUBSET Nat, S # {}, NEW bound \in Nat, \A m \in S : m <= bound
  PROVE  Max(S) \in S /\ \A m \in S : m <= Max(S)
<1> DEFINE T == {bound - m : m \in S}
<1>1. T \in SUBSET Nat /\ T # {}
  <2>1. \A m \in S : bound - m \in Nat
    OBVIOUS
  <2> QED
    BY <2>1
<1>2. PICK d \in T : \A e \in T : d <= e
  BY <1>1, LeastNat
<1>3. PICK x \in S : d = bound - x
  OBVIOUS
<1>4. \A y \in S : x >= y
  BY <1>2, <1>3
<1>5. \E z \in S : \A y \in S : z >= y
  BY <1>4
<1>6. Max(S) \in S /\ \A y \in S : Max(S) >= y
  BY <1>5 DEF Max
<1> QED
  BY <1>6

-----------------------------------------------------------------------------
\* Reverse keeps the elements.
LEMMA ReverseType ==
  ASSUME NEW S, NEW s \in Seq(S)
  PROVE  Reverse(s) \in Seq(S) /\ Len(Reverse(s)) = Len(s)
  BY DEF Reverse

\* The type and length of a concatenation.
LEMMA ConcatType ==
  ASSUME NEW S, NEW s \in Seq(S), NEW t \in Seq(S)
  PROVE  s \o t \in Seq(S) /\ Len(s \o t) = Len(s) + Len(t)
  OBVIOUS

\* FlattenSeq is well defined: it satisfies its own recursive equation.
LEMMA FlattenDef ==
  ASSUME NEW S, NEW seqs \in Seq(Seq(S)), Len(seqs) # 0
  PROVE  \E f : /\ \A i \in 1 .. Len(seqs) :
                     f[i] = IF i = 1 THEN seqs[i] ELSE f[i - 1] \o seqs[i]
                /\ FlattenSeq(seqs) = f[Len(seqs)]
<1> DEFINE n == Len(seqs)
           Eq(f, m) == f = [i \in 1 .. m |-> IF i = 1 THEN seqs[i] ELSE f[i - 1] \o seqs[i]]
           P == {m \in Nat : \E f : Eq(f, m)}
<1>1. 0 \in P
  <2>1. Eq(<<>>, 0)
    OBVIOUS
  <2> QED
    BY <2>1
<1>2. ASSUME NEW m \in Nat, m \in P PROVE m + 1 \in P
  <2>1. PICK f : Eq(f, m)
    BY <1>2
  <2> DEFINE g == [i \in 1 .. m + 1 |-> IF i = m + 1 THEN
                     (IF i = 1 THEN seqs[i] ELSE f[i - 1] \o seqs[i]) ELSE f[i]]
  <2>2. \A i \in 1 .. m + 1 : g[i] = IF i = 1 THEN seqs[i] ELSE g[i - 1] \o seqs[i]
    <3> SUFFICES ASSUME NEW i \in 1 .. m + 1
                 PROVE  g[i] = IF i = 1 THEN seqs[i] ELSE g[i - 1] \o seqs[i]
      OBVIOUS
    <3>1. i # 1 => i - 1 \in 1 .. m /\ g[i - 1] = f[i - 1]
      OBVIOUS
    <3>2. CASE i = m + 1
      BY <3>1, <3>2
    <3>3. CASE i \in 1 .. m
      <4>1. f[i] = IF i = 1 THEN seqs[i] ELSE f[i - 1] \o seqs[i]
        BY <2>1, <3>3
      <4> QED
        BY <3>1, <3>3, <4>1
    <3> QED
      BY <3>2, <3>3
  <2>3. Eq(g, m + 1)
    <3>1. g = [i \in 1 .. m + 1 |-> g[i]]
      OBVIOUS
    <3> HIDE DEF g
    <3> QED
      BY <2>2, <3>1
  <2> HIDE DEF g, Eq
  <2>4. \E h : Eq(h, m + 1)
    BY <2>3
  <2> QED
    BY <2>4
<1> HIDE DEF P
<1>3. n \in P
  BY <1>1, <1>2, InductionOverNat, SMTT(30)
<1>4. \E h : Eq(h, n)
  BY <1>3 DEF P
<1>5. PICK h : Eq(h, n) /\ FlattenSeq(seqs) = h[n]
  BY <1>4 DEF FlattenSeq
<1>6. \A i \in 1 .. n : h[i] = IF i = 1 THEN seqs[i] ELSE h[i - 1] \o seqs[i]
  BY <1>5
<1> QED
  BY <1>5, <1>6

\* Flattening sequences over S gives a sequence over S.
LEMMA FlattenType ==
  ASSUME NEW S, NEW seqs \in Seq(Seq(S))
  PROVE  FlattenSeq(seqs) \in Seq(S)
<1>1. CASE Len(seqs) = 0
  BY <1>1 DEF FlattenSeq
<1>2. CASE Len(seqs) # 0
  <2> DEFINE n == Len(seqs)
  <2>1. PICK f : /\ \A i \in 1 .. n : f[i] = IF i = 1 THEN seqs[i] ELSE f[i - 1] \o seqs[i]
                 /\ FlattenSeq(seqs) = f[n]
    BY <1>2, FlattenDef
  <2> DEFINE P == {m \in Nat : m \in 1 .. n => f[m] \in Seq(S)}
  <2>2. 0 \in P
    OBVIOUS
  <2>3. ASSUME NEW m \in Nat, m \in P PROVE m + 1 \in P
    <3> SUFFICES ASSUME m + 1 \in 1 .. n PROVE f[m + 1] \in Seq(S)
      OBVIOUS
    <3>1. seqs[m + 1] \in Seq(S)
      OBVIOUS
    <3>2. f[m + 1] = IF m + 1 = 1 THEN seqs[m + 1] ELSE f[m] \o seqs[m + 1]
      BY <2>1
    <3>3. CASE m = 0
      BY <3>1, <3>2, <3>3
    <3>4. CASE m # 0
      <4>1. f[m] \in Seq(S)
        BY <2>3, <3>4
      <4> QED
        BY <3>1, <3>2, <3>4, <4>1
    <3> QED
      BY <3>3, <3>4
  <2> HIDE DEF P
  <2>4. n \in P
    BY <2>2, <2>3, InductionOverNat, SMTT(30)
  <2>5. n \in 1 .. n
    BY <1>2
  <2> QED
    BY <2>1, <2>4, <2>5 DEF P
<1> QED
  BY <1>1, <1>2

\* The elements of a concatenation.
LEMMA ConcatIndex ==
  ASSUME NEW S, NEW s \in Seq(S), NEW t \in Seq(S)
  PROVE  /\ \A i \in 1 .. Len(s) : (s \o t)[i] = s[i]
         /\ \A i \in 1 .. Len(t) : (s \o t)[Len(s) + i] = t[i]
         /\ \A i \in 1 .. Len(s \o t) : i > Len(s) =>
              i - Len(s) \in 1 .. Len(t) /\ (s \o t)[i] = t[i - Len(s)]
  OBVIOUS

\* `all` lists the elements of the first m sequences, each of them, in order.
InOrder(all, seqs, m) ==
  \A i, j \in 1 .. Len(all) : i < j =>
    \E t, u \in 1 .. m : \E a \in 1 .. Len(seqs[t]), b \in 1 .. Len(seqs[u]) :
      /\ all[i] = seqs[t][a] /\ all[j] = seqs[u][b]
      /\ t < u \/ (t = u /\ a < b)
OnlyThose(all, seqs, m) ==
  \A i \in 1 .. Len(all) : \E t \in 1 .. m : \E a \in 1 .. Len(seqs[t]) : all[i] = seqs[t][a]
AllOfThem(all, seqs, m) ==
  \A t \in 1 .. m : \A a \in 1 .. Len(seqs[t]) : \E i \in 1 .. Len(all) : all[i] = seqs[t][a]

\* One more sequence at the end keeps that so.
LEMMA FlattenGrows ==
  ASSUME NEW S, NEW all \in Seq(S), NEW seqs, NEW m \in Nat, seqs[m + 1] \in Seq(S),
         InOrder(all, seqs, m), OnlyThose(all, seqs, m), AllOfThem(all, seqs, m)
  PROVE  /\ InOrder(all \o seqs[m + 1], seqs, m + 1)
         /\ OnlyThose(all \o seqs[m + 1], seqs, m + 1)
         /\ AllOfThem(all \o seqs[m + 1], seqs, m + 1)
<1> DEFINE last == seqs[m + 1]
           new == all \o last
           n == Len(all)
           l == Len(last)
<1>1. n \in Nat /\ l \in Nat /\ Len(new) = n + l
  BY ConcatType
<1>2. /\ \A i \in 1 .. n : new[i] = all[i]
      /\ \A i \in 1 .. l : new[n + i] = last[i]
      /\ \A i \in 1 .. Len(new) : i > n => i - n \in 1 .. l /\ new[i] = last[i - n]
  BY ConcatIndex
<1>3. m + 1 \in 1 .. m + 1 /\ \A t \in 1 .. m : t \in 1 .. m + 1 /\ t < m + 1
  OBVIOUS
<1>4. \A i \in 1 .. Len(new) : i \in 1 .. n \/ i > n
  BY <1>1
<1>5. last = seqs[m + 1] /\ l = Len(seqs[m + 1]) /\ n = Len(all)
  OBVIOUS
<1> HIDE DEF last, new, n, l
<1>6. OnlyThose(new, seqs, m + 1)
  <2> SUFFICES ASSUME NEW i \in 1 .. Len(new)
               PROVE  \E t \in 1 .. m + 1 : \E a \in 1 .. Len(seqs[t]) : new[i] = seqs[t][a]
    BY DEF OnlyThose
  <2>1. CASE i \in 1 .. n
    <3>1. PICK t \in 1 .. m : \E a \in 1 .. Len(seqs[t]) : all[i] = seqs[t][a]
      BY <1>5, <2>1 DEF OnlyThose
    <3>2. new[i] = all[i] /\ t \in 1 .. m + 1
      BY <1>2, <1>3, <2>1
    <3> QED
      BY <3>1, <3>2
  <2>2. CASE i > n
    <3>1. i - n \in 1 .. Len(seqs[m + 1]) /\ new[i] = seqs[m + 1][i - n]
      BY <1>2, <1>5, <2>2
    <3> QED
      BY <1>3, <3>1
  <2> QED
    BY <1>4, <2>1, <2>2
<1>7. AllOfThem(new, seqs, m + 1)
  <2> SUFFICES ASSUME NEW t \in 1 .. m + 1, NEW a \in 1 .. Len(seqs[t])
               PROVE  \E i \in 1 .. Len(new) : new[i] = seqs[t][a]
    BY DEF AllOfThem
  <2>1. CASE t \in 1 .. m
    <3>1. PICK i \in 1 .. n : all[i] = seqs[t][a]
      BY <1>5, <2>1 DEF AllOfThem
    <3>2. i \in 1 .. Len(new)
      BY <1>1
    <3> QED
      BY <1>2, <3>1, <3>2
  <2>2. CASE t = m + 1
    <3>1. a \in 1 .. l
      BY <1>5, <2>2
    <3>2. n + a \in 1 .. Len(new)
      BY <1>1, <3>1
    <3> QED
      BY <1>2, <1>5, <2>2, <3>1, <3>2
  <2> QED
    BY <2>1, <2>2
<1>8. InOrder(new, seqs, m + 1)
  <2> SUFFICES ASSUME NEW i \in 1 .. Len(new), NEW j \in 1 .. Len(new), i < j
               PROVE  \E t, u \in 1 .. m + 1 :
                        \E a \in 1 .. Len(seqs[t]), b \in 1 .. Len(seqs[u]) :
                          /\ new[i] = seqs[t][a] /\ new[j] = seqs[u][b]
                          /\ t < u \/ (t = u /\ a < b)
    BY DEF InOrder
  <2>1. CASE j \in 1 .. n
    <3>1. i \in 1 .. n
      BY <1>1, <2>1
    <3>2. PICK t \in 1 .. m, u \in 1 .. m :
            \E a \in 1 .. Len(seqs[t]), b \in 1 .. Len(seqs[u]) :
              /\ all[i] = seqs[t][a] /\ all[j] = seqs[u][b]
              /\ t < u \/ (t = u /\ a < b)
      BY <1>5, <2>1, <3>1 DEF InOrder
    <3> QED
      BY <1>2, <1>3, <2>1, <3>1, <3>2
  <2>2. CASE i \in 1 .. n /\ j > n
    <3>1. PICK t \in 1 .. m : \E a \in 1 .. Len(seqs[t]) : all[i] = seqs[t][a]
      BY <1>5, <2>2 DEF OnlyThose
    <3>2. j - n \in 1 .. Len(seqs[m + 1]) /\ new[j] = seqs[m + 1][j - n]
      BY <1>2, <1>5, <2>2
    <3>3. new[i] = all[i] /\ t \in 1 .. m + 1 /\ t < m + 1
      BY <1>2, <1>3, <2>2
    <3> QED
      BY <1>3, <3>1, <3>2, <3>3
  <2>3. CASE i > n /\ j > n
    <3>1. /\ i - n \in 1 .. Len(seqs[m + 1]) /\ new[i] = seqs[m + 1][i - n]
          /\ j - n \in 1 .. Len(seqs[m + 1]) /\ new[j] = seqs[m + 1][j - n]
      BY <1>2, <1>5, <2>3
    <3>2. i - n < j - n
      BY <1>1
    <3> QED
      BY <1>3, <3>1, <3>2
  <2>4. i > n => j > n
    BY <1>1
  <2> QED
    BY <1>4, <2>1, <2>2, <2>3, <2>4
<1> QED
  BY <1>6, <1>7, <1>8 DEF new, last

\* FlattenSeq lists the elements of all its sequences, in order.
LEMMA FlattenElements ==
  ASSUME NEW S, NEW seqs \in Seq(Seq(S))
  PROVE  /\ InOrder(FlattenSeq(seqs), seqs, Len(seqs))
         /\ OnlyThose(FlattenSeq(seqs), seqs, Len(seqs))
         /\ AllOfThem(FlattenSeq(seqs), seqs, Len(seqs))
<1> DEFINE Good(all, m) == /\ all \in Seq(S) /\ InOrder(all, seqs, m)
                           /\ OnlyThose(all, seqs, m) /\ AllOfThem(all, seqs, m)
           n == Len(seqs)
<1>1. n \in Nat /\ \A m \in 1 .. n : seqs[m] \in Seq(S)
  OBVIOUS
<1>2. Good(<<>>, 0)
  BY DEF InOrder, OnlyThose, AllOfThem
<1>3. ASSUME NEW m \in Nat, m + 1 \in 1 .. n, NEW all, Good(all, m)
      PROVE  Good(all \o seqs[m + 1], m + 1)
  <2>1. seqs[m + 1] \in Seq(S) /\ all \in Seq(S)
    BY <1>1, <1>3
  <2>2. all \o seqs[m + 1] \in Seq(S)
    BY <2>1, ConcatType
  <2> QED
    BY <1>3, <2>1, <2>2, FlattenGrows
<1>4. CASE n = 0
  <2>1. FlattenSeq(seqs) = <<>>
    BY <1>4 DEF FlattenSeq
  <2> QED
    BY <1>2, <1>4, <2>1
<1>5. CASE n # 0
  <2>1. PICK f : /\ \A i \in 1 .. n : f[i] = IF i = 1 THEN seqs[i] ELSE f[i - 1] \o seqs[i]
                 /\ FlattenSeq(seqs) = f[n]
    BY <1>5, FlattenDef
  <2> HIDE DEF Good
  <2> DEFINE P == {m \in Nat : m \in 1 .. n => Good(f[m], m)}
  <2>2. 0 \in P
    OBVIOUS
  <2>3. ASSUME NEW m \in Nat, m \in P PROVE m + 1 \in P
    <3> SUFFICES ASSUME m + 1 \in 1 .. n PROVE Good(f[m + 1], m + 1)
      OBVIOUS
    <3>1. f[m + 1] = IF m + 1 = 1 THEN seqs[m + 1] ELSE f[m] \o seqs[m + 1]
      BY <2>1
    <3>2. CASE m = 0
      <4>1. seqs[1] \in Seq(S) /\ <<>> \o seqs[1] = seqs[1]
        BY <1>1, <3>2
      <4>2. Good(<<>> \o seqs[0 + 1], 0 + 1)
        BY <1>2, <1>3, <3>2
      <4>3. 0 + 1 = 1 /\ m + 1 = 1
        BY <3>2
      <4> QED
        BY <3>1, <4>1, <4>2, <4>3
    <3>3. CASE m # 0
      <4>1. Good(f[m], m)
        BY <2>3, <3>3
      <4> QED
        BY <1>3, <3>1, <3>3, <4>1
    <3> QED
      BY <3>2, <3>3
  <2> HIDE DEF P
  <2>4. n \in P
    BY <1>1, <2>2, <2>3, InductionOverNat
  <2>5. Good(f[n], n)
    BY <1>1, <1>5, <2>4 DEF P
  <2> QED
    BY <2>1, <2>5 DEF Good
<1> QED
  BY <1>4, <1>5

\* What a concatenation and a reversal list.
LEMMA ConcatSet ==
  ASSUME NEW S, NEW a \in Seq(S), NEW b \in Seq(S)
  PROVE  ToSet(a \o b) = ToSet(a) \cup ToSet(b)
<1> DEFINE c == a \o b
<1>1. c \in Seq(S) /\ Len(c) = Len(a) + Len(b)
  BY ConcatType
<1>2. /\ \A i \in 1 .. Len(a) : c[i] = a[i]
      /\ \A i \in 1 .. Len(b) : c[Len(a) + i] = b[i]
      /\ \A i \in 1 .. Len(c) : i > Len(a) => i - Len(a) \in 1 .. Len(b) /\ c[i] = b[i - Len(a)]
  BY ConcatIndex
<1> HIDE DEF c
<1>3. /\ DOMAIN a = 1 .. Len(a) /\ DOMAIN b = 1 .. Len(b) /\ DOMAIN c = 1 .. Len(c)
      /\ Len(a) \in Nat /\ Len(b) \in Nat
  BY <1>1
<1>4. ASSUME NEW i \in DOMAIN c PROVE c[i] \in ToSet(a) \cup ToSet(b)
  <2>1. i \in 1 .. Len(a) \/ i > Len(a)
    BY <1>1, <1>3
  <2> QED
    BY <1>2, <1>3, <2>1 DEF ToSet
<1>5. ASSUME NEW i \in DOMAIN a PROVE a[i] \in ToSet(c)
  <2>1. i \in DOMAIN c
    BY <1>1, <1>3
  <2> QED
    BY <1>2, <1>3, <2>1 DEF ToSet
<1>6. ASSUME NEW i \in DOMAIN b PROVE b[i] \in ToSet(c)
  <2>1. Len(a) + i \in DOMAIN c
    BY <1>1, <1>3
  <2> QED
    BY <1>2, <1>3, <2>1 DEF ToSet
<1> QED
  BY <1>4, <1>5, <1>6 DEF ToSet, c

\* A reversal lists what the sequence does.
LEMMA ReverseSet ==
  ASSUME NEW S, NEW s \in Seq(S)
  PROVE  ToSet(Reverse(s)) = ToSet(s)
<1> DEFINE n == Len(s)
<1>1. n \in Nat /\ DOMAIN s = 1 .. n
  OBVIOUS
<1>2. Reverse(s) \in Seq(S) /\ Len(Reverse(s)) = n
  BY ReverseType
<1>3. DOMAIN Reverse(s) = 1 .. n
  BY <1>2
<1>4. \A i \in 1 .. n : (n - i) + 1 \in 1 .. n /\ Reverse(s)[i] = s[(n - i) + 1]
  BY <1>1 DEF Reverse
<1>5. ASSUME NEW i \in 1 .. n PROVE \E j \in 1 .. n : Reverse(s)[j] = s[i]
  <2>1. (n - i) + 1 \in 1 .. n /\ (n - ((n - i) + 1)) + 1 = i
    BY <1>1
  <2> QED
    BY <1>4, <2>1
<1> HIDE DEF n
<1>6. \A x \in ToSet(Reverse(s)) : x \in ToSet(s)
  BY <1>1, <1>3, <1>4 DEF ToSet
<1>7. \A x \in ToSet(s) : x \in ToSet(Reverse(s))
  BY <1>1, <1>3, <1>5 DEF ToSet
<1> QED
  BY <1>6, <1>7

\* What a sequence holds when an element is put behind it ...
LEMMA AppendSet ==
  ASSUME NEW S, NEW s \in Seq(S), NEW x
  PROVE  ToSet(Append(s, x)) = ToSet(s) \cup {x}
<1> DEFINE n == Len(s)
           new == Append(s, x)
<1>1. /\ n \in Nat /\ DOMAIN s = 1 .. n /\ DOMAIN new = 1 .. n + 1
      /\ new[n + 1] = x /\ \A i \in 1 .. n : new[i] = s[i]
  OBVIOUS
<1>2. /\ \A i \in 1 .. n + 1 : i \in 1 .. n \/ i = n + 1
      /\ n + 1 \in 1 .. n + 1 /\ \A i \in 1 .. n : i \in 1 .. n + 1
  BY <1>1
<1> HIDE DEF n, new
<1> QED
  BY <1>1, <1>2 DEF ToSet, new

\* ... and when its first one is taken away.
LEMMA TailSet ==
  ASSUME NEW S, NEW s \in Seq(S), s # <<>>
  PROVE  ToSet(s) = {Head(s)} \cup ToSet(Tail(s))
<1> DEFINE n == Len(s)
           rest == Tail(s)
           first == Head(s)
<1>1. /\ n \in Nat \ {0} /\ DOMAIN s = 1 .. n /\ first = s[1] /\ DOMAIN rest = 1 .. n - 1
      /\ \A i \in 1 .. n - 1 : rest[i] = s[i + 1]
  OBVIOUS
<1>2. /\ 1 \in 1 .. n /\ \A i \in 1 .. n - 1 : i + 1 \in 1 .. n
      /\ \A i \in 1 .. n : i = 1 \/ (i - 1 \in 1 .. n - 1 /\ (i - 1) + 1 = i)
  BY <1>1
<1> HIDE DEF n, rest, first
<1>3. ASSUME NEW i \in 1 .. n PROVE s[i] \in {first} \cup ToSet(rest)
  <2>1. CASE i = 1
    BY <1>1, <2>1
  <2>2. CASE i # 1
    <3>1. i - 1 \in 1 .. n - 1 /\ rest[i - 1] = s[i]
      BY <1>1, <1>2, <2>2
    <3> QED
      BY <1>1, <3>1 DEF ToSet
  <2> QED
    BY <2>1, <2>2
<1>4. \A i \in 1 .. n - 1 : rest[i] \in ToSet(s)
  BY <1>1, <1>2 DEF ToSet
<1>5. first \in ToSet(s)
  BY <1>1, <1>2 DEF ToSet
<1> QED
  BY <1>1, <1>3, <1>4, <1>5 DEF ToSet, first, rest
==============================================================================
