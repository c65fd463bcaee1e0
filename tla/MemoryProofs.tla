---------------------------- MODULE MemoryProofs ----------------------------
(***************************************************************************)
(* What sorting and deleting do to the list of files and to the workset,   *)
(* for lists of any length.                                                *)
(***************************************************************************)
EXTENDS Memory, FiniteSetTheorems, SequenceTheorems, TLAPS

-----------------------------------------------------------------------------
(* What is left after one deletion: what was above moves down.             *)

\* The step of the loop over sorted positions.
DeleteStep(sorted, m, i) == IF i > 1 /\ sorted[i] = sorted[i - 1] THEN m
                            ELSE RemoveAt(m, sorted[i])

Deleting == INSTANCE Folding WITH op <- DeleteStep

LEMMA RemoveAtIs ==
  ASSUME NEW S, NEW s \in Seq(S), NEW i \in 1..Len(s)
  PROVE  /\ RemoveAt(s, i) \in Seq(S)
         /\ Len(RemoveAt(s, i)) = Len(s) - 1
         /\ \A j \in 1..(Len(s) - 1) : RemoveAt(s, i)[j] = IF j < i THEN s[j] ELSE s[j + 1]
<1> DEFINE low == SubSeq(s, 1, i - 1)
           high == SubSeq(s, i + 1, Len(s))
<1>1. /\ low \in Seq(S) /\ Len(low) = i - 1
      /\ \A j \in 1..(i - 1) : low[j] = s[j]
  <2>1. \A j \in 1..(i - 1) : s[j] \in S
    OBVIOUS
  <2>2. i - 1 \in Int
    OBVIOUS
  <2>3. QED
    BY <2>1, <2>2, SubSeqProperties
<1>2. /\ high \in Seq(S) /\ Len(high) = Len(s) - i
      /\ \A j \in 1..(Len(s) - i) : high[j] = s[i + j]
  <2>1. \A j \in (i + 1)..Len(s) : s[j] \in S
    OBVIOUS
  <2>2. i + 1 \in Int /\ Len(s) \in Int
    OBVIOUS
  <2>3. /\ high \in Seq(S)
        /\ Len(high) = IF i + 1 <= Len(s) THEN Len(s) - (i + 1) + 1 ELSE 0
        /\ \A j \in 1..(Len(s) - (i + 1) + 1) : high[j] = s[i + 1 + j - 1]
    BY <2>1, <2>2, SubSeqProperties
  <2>4. QED
    BY <2>3
<1> HIDE DEF low, high
<1>3. /\ low \o high \in Seq(S)
      /\ Len(low \o high) = Len(low) + Len(high)
      /\ \A j \in 1..(Len(low) + Len(high)) :
           (low \o high)[j] = IF j <= Len(low) THEN low[j] ELSE high[j - Len(low)]
  BY <1>1, <1>2, ConcatProperties
<1>4. Len(low) + Len(high) = Len(s) - 1
  BY <1>1, <1>2
<1>5. ASSUME NEW j \in 1..(Len(s) - 1)
      PROVE  (low \o high)[j] = IF j < i THEN s[j] ELSE s[j + 1]
  <2>1. CASE j < i
    BY <1>1, <1>3, <1>4, <2>1
  <2>2. CASE ~(j < i)
    <3>1. j - (i - 1) \in 1..(Len(s) - i)
      BY <2>2
    <3>2. high[j - (i - 1)] = s[j + 1]
      BY <1>2, <3>1
    <3>3. QED
      BY <1>1, <1>3, <1>4, <2>2, <3>2
  <2>3. QED
    BY <2>1, <2>2
<1>6. RemoveAt(s, i) = low \o high
  BY DEF RemoveAt, low, high
<1>7. QED
  BY <1>3, <1>4, <1>5, <1>6

-----------------------------------------------------------------------------
(* Sorting.                                                                *)

\* A sequence whose last element is not larger than any other.
LEMMA HasSmallest ==
  ASSUME NEW n \in Nat, NEW s \in [1..(n + 1) -> Nat]
  PROVE  \E k \in 1..(n + 1) : \A j \in 1..(n + 1) : s[k] <= s[j]
<1> DEFINE T == {s[j] : j \in 1..(n + 1)}
<1>1. T \subseteq Nat /\ s[1] \in T
  OBVIOUS
<1>2. PICK t \in T : \A u \in T : t <= u
  <2> HIDE DEF T
  <2> QED BY <1>1, Deleting!LeastNat
<1>3. QED
  BY <1>2

\* Every order of n positions whose elements are in decreasing order.
Sorts(p, s, n) ==
  /\ p \in Bijection(1..n, 1..n)
  /\ \A i, j \in 1..n : i < j => s[p[i]] >= s[p[j]]

\* The smallest comes last, its place is taken by the last, and the others
\* are sorted.
LEMMA SortGrows ==
  ASSUME NEW n \in Nat, \A s \in [1..n -> Nat] : \E p : Sorts(p, s, n),
         NEW s \in [1..(n + 1) -> Nat]
  PROVE  \E p : Sorts(p, s, n + 1)
<1>1. PICK k \in 1..(n + 1) : \A j \in 1..(n + 1) : s[k] <= s[j]
  BY HasSmallest
<1> DEFINE t == [i \in 1..n |-> IF i = k THEN s[n + 1] ELSE s[i]]
<1>2. t \in [1..n -> Nat]
  OBVIOUS
<1>3. PICK q : Sorts(q, t, n)
  BY <1>2
<1>4. /\ q \in [1..n -> 1..n]
      /\ \A i, j \in 1..n : q[i] = q[j] => i = j
      /\ \A m \in 1..n : \E i \in 1..n : q[i] = m
      /\ \A i, j \in 1..n : i < j => t[q[i]] >= t[q[j]]
  BY <1>3 DEF Sorts, Bijection, Injection, Surjection, IsInjective
<1> DEFINE p == [i \in 1..(n + 1) |-> IF i = n + 1 THEN k
                                     ELSE IF q[i] = k THEN n + 1 ELSE q[i]]
<1>5. /\ p[n + 1] = k
      /\ \A i \in 1..n : q[i] \in 1..n
      /\ \A i \in 1..n : p[i] = IF q[i] = k THEN n + 1 ELSE q[i]
  <2>1. n + 1 \in 1..(n + 1) /\ \A i \in 1..n : i \in 1..(n + 1) /\ i # n + 1
    OBVIOUS
  <2>2. \A i \in 1..n : q[i] \in 1..n
    BY <1>4
  <2>3. QED
    BY <2>1, <2>2
<1>6. \A i \in 1..(n + 1) : i # n + 1 => i \in 1..n
  OBVIOUS
<1>7. p \in [1..(n + 1) -> 1..(n + 1)]
  <2>1. \A i \in 1..(n + 1) : p[i] \in 1..(n + 1)
    <3> HIDE DEF p
    <3>1. ASSUME NEW i \in 1..n PROVE p[i] \in 1..(n + 1)
      <4>1. q[i] \in 1..(n + 1) /\ n + 1 \in 1..(n + 1)
        BY <1>5
      <4>2. p[i] = n + 1 \/ p[i] = q[i]
        BY <1>5
      <4>3. QED
        BY <4>1, <4>2
    <3>2. k \in 1..(n + 1)
      OBVIOUS
    <3>3. QED
      BY <1>5, <1>6, <3>1, <3>2
  <2>2. QED
    BY <2>1
<1>8. ASSUME NEW i \in 1..(n + 1), NEW j \in 1..(n + 1), p[i] = p[j] PROVE i = j
  <2> HIDE DEF p
  <2>1. \A m \in 1..n : p[m] # k
    BY <1>5
  <2>2. CASE i = n + 1 \/ j = n + 1
    BY <1>8, <1>5, <1>6, <2>1, <2>2
  <2>3. CASE i \in 1..n /\ j \in 1..n
    <3>1. q[i] = q[j]
      BY <1>8, <1>5, <2>3
    <3>2. QED
      BY <1>4, <2>3, <3>1
  <2>4. QED
    BY <1>6, <2>2, <2>3
<1>9. ASSUME NEW m \in 1..(n + 1) PROVE \E i \in 1..(n + 1) : p[i] = m
  <2>1. CASE m = k
    BY <2>1
  <2>2. CASE m # k /\ m = n + 1
    <3>1. k \in 1..n
      BY <2>2
    <3>2. PICK i \in 1..n : q[i] = k
      BY <1>4, <3>1
    <3>3. QED
      BY <2>2, <3>2
  <2>3. CASE m # k /\ m # n + 1
    <3>1. PICK i \in 1..n : q[i] = m
      BY <1>4, <2>3
    <3>2. QED
      BY <2>3, <3>1
  <2>4. QED
    BY <2>1, <2>2, <2>3
<1>10. ASSUME NEW i \in 1..n PROVE s[p[i]] = t[q[i]]
  <2>1. t[q[i]] = IF q[i] = k THEN s[n + 1] ELSE s[q[i]]
    BY <1>5
  <2>2. QED
    BY <1>5, <2>1
<1>11. ASSUME NEW i \in 1..(n + 1), NEW j \in 1..(n + 1), i < j
      PROVE  s[p[i]] >= s[p[j]]
  <2>1. CASE j = n + 1
    <3>1. s[p[i]] \in Nat /\ s[k] <= s[p[i]]
      BY <1>1, <1>7
    <3>2. QED
      BY <2>1, <3>1
  <2>2. CASE j # n + 1
    <3>1. i \in 1..n /\ j \in 1..n
      BY <1>11, <2>2
    <3>2. QED
      BY <1>4, <1>10, <1>11, <3>1
  <2>3. QED
    BY <2>1, <2>2
<1> HIDE DEF p, t
<1>12. p \in Bijection(1..(n + 1), 1..(n + 1))
  BY <1>7, <1>8, <1>9 DEF Bijection, Injection, Surjection, IsInjective
<1>13. QED
  BY <1>11, <1>12 DEF Sorts

\* Every sequence can be sorted.
LEMMA CanBeSorted ==
  ASSUME NEW n \in Nat, NEW s \in [1..n -> Nat]
  PROVE  \E p : Sorts(p, s, n)
<1> DEFINE S == {m \in Nat : \A t \in [1..m -> Nat] : \E p : Sorts(p, t, m)}
<1>1. 0 \in S
  <2>1. ASSUME NEW t \in [1..0 -> Nat] PROVE \E p : Sorts(p, t, 0)
    <3>1. Sorts([i \in 1..0 |-> i], t, 0)
      BY DEF Sorts, Bijection, Injection, Surjection, IsInjective
    <3>2. QED
      BY <3>1
  <2>2. QED
    BY <2>1
<1>2. ASSUME NEW m \in Nat, m \in S PROVE m + 1 \in S
  <2>1. \A t \in [1..m -> Nat] : \E p : Sorts(p, t, m)
    BY <1>2
  <2>2. \A t \in [1..(m + 1) -> Nat] : \E p : Sorts(p, t, m + 1)
    BY <2>1, SortGrows
  <2>3. QED
    BY <2>2
<1>3. n \in S
  <2> HIDE DEF S
  <2> QED BY <1>1, <1>2, Deleting!Induction
<1>4. QED
  BY <1>3
\* A function on 1..n is a sequence of length n.
LEMMA IsSequence ==
  ASSUME NEW S, NEW n \in Nat, NEW s \in [1..n -> S]
  PROVE  s \in Seq(S) /\ Len(s) = n
<1>1. s \in Seq(S)
  BY SeqDef
<1>2. Len(s) \in Nat /\ DOMAIN s = 1..Len(s)
  BY <1>1, LenProperties
<1>3. 1..Len(s) = 1..n
  BY <1>2
<1>4. Len(s) = n
  BY <1>2, <1>3
<1>5. QED
  BY <1>1, <1>4

LEMMA ReorderingIs ==
  ASSUME NEW S, NEW s \in Seq(S), NEW t \in Reorderings(s)
  PROVE  /\ t \in Seq(S) /\ Len(t) = Len(s)
         /\ ToSet(t) = ToSet(s)
         /\ IsInjective(s) => IsInjective(t)
<1> DEFINE n == Len(s)
<1>1. n \in Nat /\ DOMAIN s = 1..n /\ s \in [1..n -> S]
  BY LenProperties
<1> HIDE DEF n
<1>2. PICK p \in Bijection(1..n, 1..n) : t = [i \in 1..n |-> s[p[i]]]
  BY <1>1 DEF Reorderings
<1>3. /\ p \in [1..n -> 1..n]
      /\ \A i, j \in 1..n : p[i] = p[j] => i = j
      /\ \A m \in 1..n : \E i \in 1..n : p[i] = m
  BY <1>2 DEF Bijection, Injection, Surjection, IsInjective
<1>4. t \in [1..n -> S]
  BY <1>1, <1>2, <1>3
<1>5. t \in Seq(S) /\ Len(t) = n
  BY <1>1, <1>4, IsSequence
<1>6. ToSet(t) = ToSet(s)
  <2>1. \A i \in 1..n : t[i] \in ToSet(s)
    BY <1>1, <1>2, <1>3 DEF ToSet
  <2>2. \A m \in 1..n : s[m] \in ToSet(t)
    BY <1>1, <1>2, <1>3 DEF ToSet
  <2>3. DOMAIN t = 1..n
    BY <1>4
  <2>4. QED
    BY <1>1, <2>1, <2>2, <2>3 DEF ToSet
<1>7. ASSUME IsInjective(s) PROVE IsInjective(t)
  <2>1. ASSUME NEW i \in 1..n, NEW j \in 1..n, t[i] = t[j] PROVE i = j
    <3>1. s[p[i]] = s[p[j]] /\ p[i] \in 1..n /\ p[j] \in 1..n
      BY <1>2, <1>3, <2>1
    <3>2. p[i] = p[j]
      BY <1>1, <1>7, <3>1 DEF IsInjective
    <3>3. QED
      BY <1>3, <3>2
  <2>2. DOMAIN t = 1..n
    BY <1>4
  <2>3. QED
    BY <2>1, <2>2 DEF IsInjective
<1>8. QED
  BY <1>5, <1>6, <1>7 DEF n

\* What qsort returns, for all positions.
LEMMA DecreasingOrderIs ==
  ASSUME NEW s \in Seq(Nat)
  PROVE  LET d == InDecreasingOrder(s)
         IN  /\ d \in Seq(Nat) /\ Len(d) = Len(s)
             /\ ToSet(d) = ToSet(s)
             /\ IsInjective(s) => IsInjective(d)
             /\ \A i, j \in 1..Len(s) : i < j => d[i] >= d[j]
<1> DEFINE n == Len(s)
<1>1. n \in Nat /\ DOMAIN s = 1..n /\ s \in [1..n -> Nat]
  BY LenProperties
<1> HIDE DEF n
<1>2. PICK p : Sorts(p, s, n)
  BY <1>1, CanBeSorted
<1> DEFINE t == [i \in 1..n |-> s[p[i]]]
<1>3. t \in Reorderings(s)
  BY <1>1, <1>2 DEF Reorderings, Sorts
<1>4. IsSorted(t, >=)
  <2>1. Len(t) = n
    BY <1>3, ReorderingIs DEF n
  <2>2. QED
    BY <1>2, <2>1 DEF IsSorted, Sorts
<1> DEFINE d == InDecreasingOrder(s)
<1>5. d \in Reorderings(s) /\ IsSorted(d, >=)
  <2> HIDE DEF t
  <2> QED BY <1>3, <1>4, Zenon DEF InDecreasingOrder
<1> HIDE DEF d, t
<1>6. d \in Reorderings(s)
  BY <1>5, Zenon
<1>7. /\ d \in Seq(Nat) /\ Len(d) = n
      /\ ToSet(d) = ToSet(s)
      /\ IsInjective(s) => IsInjective(d)
  BY <1>6, ReorderingIs DEF n
<1>8. \A i, j \in 1..n : i < j => d[i] >= d[j]
  BY <1>5, <1>7 DEF IsSorted
<1>9. QED
  BY <1>7, <1>8 DEF d, n
-----------------------------------------------------------------------------
(* The elements of a list that are not named, gathered one after the       *)
(* other: what a deletion is to leave.                                     *)

KeepStep(list, s, i) == IF i \in list.named THEN s ELSE Append(s, list.m[i])

Keeping == INSTANCE Folding WITH op <- KeepStep

\* k[i] is what is kept of the first i elements.
IsKept(k, m, named) ==
  /\ k[0] = <<>>
  /\ \A i \in 1..Len(m) : k[i] = IF i \in named THEN k[i - 1] ELSE Append(k[i - 1], m[i])

LEMMA KeptExists ==
  ASSUME NEW S, NEW m \in Seq(S), NEW named
  PROVE  \E k : IsKept(k, m, named)
<1> DEFINE n == Len(m)
           list == [m |-> m, named |-> named]
           q == [i \in 1..n |-> i]
<1>1. n \in Nat
  BY LenProperties
<1>2. \A i \in 1..n : q[i] = i
  OBVIOUS
<1>3. list.m = m /\ list.named = named
  OBVIOUS
<1> HIDE DEF n, list, q
<1>4. PICK k : Keeping!Iterates(k, list, n, q, <<>>)
  BY <1>1, Keeping!FoldLeftIs
<1>5. QED
  BY <1>2, <1>3, <1>4 DEF Keeping!Iterates, KeepStep, IsKept, n

\* What is kept of the first j elements are some of them, each once.
KeptOf(s, m, j, named, S) ==
  /\ s \in Seq(S) /\ Len(s) <= j
  /\ \A i \in 1..Len(s) : \E e \in 1..j : e \notin named /\ s[i] = m[e]
  /\ \A e \in 1..j : e \notin named => \E i \in 1..Len(s) : s[i] = m[e]
  /\ IsInjective(m) => IsInjective(s)

LEMMA KeptGrows ==
  ASSUME NEW S, NEW m \in Seq(S), NEW named, NEW j \in Nat, j + 1 <= Len(m),
         NEW s, KeptOf(s, m, j, named, S), j + 1 \notin named
  PROVE  KeptOf(Append(s, m[j + 1]), m, j + 1, named, S)
<1> DEFINE t == Append(s, m[j + 1])
<1>1. Len(m) \in Nat /\ DOMAIN m = 1..Len(m) /\ m[j + 1] \in S
  BY LenProperties, ElementOfSeq
<1>2. s \in Seq(S) /\ Len(s) \in Nat /\ DOMAIN s = 1..Len(s) /\ Len(s) <= j
  BY LenProperties DEF KeptOf
<1>3. /\ t \in Seq(S) /\ Len(t) = Len(s) + 1
      /\ \A i \in 1..Len(s) : t[i] = s[i]
      /\ t[Len(s) + 1] = m[j + 1]
  BY <1>1, <1>2, AppendProperties
<1> HIDE DEF t
<1>4. DOMAIN t = 1..(Len(s) + 1)
  BY <1>3, LenProperties
<1>5. \A i \in 1..(Len(s) + 1) : i \in 1..Len(s) \/ i = Len(s) + 1
  BY <1>2
<1>6. \A e \in 1..(j + 1) : e \in 1..j \/ e = j + 1
  OBVIOUS
<1>7. \A e \in 1..j : e \in 1..(j + 1)
  OBVIOUS
<1>8. ASSUME NEW i \in 1..Len(t) PROVE \E e \in 1..(j + 1) : e \notin named /\ t[i] = m[e]
  <2>1. CASE i \in 1..Len(s)
    BY <1>3, <1>7, <2>1 DEF KeptOf
  <2>2. CASE i = Len(s) + 1
    <3>1. j + 1 \in 1..(j + 1)
      OBVIOUS
    <3>2. QED
      BY <1>3, <2>2, <3>1
  <2>3. QED
    BY <1>3, <1>5, <2>1, <2>2
<1>9. ASSUME NEW e \in 1..(j + 1), e \notin named PROVE \E i \in 1..Len(t) : t[i] = m[e]
  <2>1. CASE e \in 1..j
    <3>1. PICK i \in 1..Len(s) : s[i] = m[e]
      BY <1>9, <2>1 DEF KeptOf
    <3>2. i \in 1..Len(t)
      BY <1>2, <1>3
    <3>3. QED
      BY <1>3, <3>1, <3>2
  <2>2. CASE e = j + 1
    <3>1. Len(s) + 1 \in 1..Len(t)
      BY <1>2, <1>3
    <3>2. QED
      BY <1>3, <2>2, <3>1
  <2>3. QED
    BY <1>6, <2>1, <2>2
<1>10. ASSUME IsInjective(m) PROVE IsInjective(t)
  <2>1. IsInjective(s)
    BY <1>10 DEF KeptOf
  <2>2. ASSUME NEW i \in 1..Len(s) PROVE t[i] # m[j + 1]
    <3>1. PICK e \in 1..j : s[i] = m[e]
      BY DEF KeptOf
    <3>2. e \in DOMAIN m /\ j + 1 \in DOMAIN m /\ e # j + 1
      BY <1>1
    <3>3. QED
      BY <1>3, <1>10, <3>1, <3>2 DEF IsInjective
  <2>3. QED
    BY <1>2, <1>3, <1>4, <1>5, <2>1, <2>2 DEF IsInjective
<1>11. Len(t) <= j + 1
  BY <1>2, <1>3
<1>12. QED
  BY <1>3, <1>8, <1>9, <1>10, <1>11 DEF KeptOf, t

LEMMA KeptIs ==
  ASSUME NEW S, NEW m \in Seq(S), NEW named, NEW k, IsKept(k, m, named),
         NEW j \in 0..Len(m)
  PROVE  KeptOf(k[j], m, j, named, S)
<1>1. Len(m) \in Nat
  BY LenProperties
<1> DEFINE T == {i \in Nat : i <= Len(m) => KeptOf(k[i], m, i, named, S)}
<1>2. 0 \in T
  <2>1. k[0] = <<>>
    BY DEF IsKept
  <2>2. <<>> \in Seq(S) /\ Len(<<>>) = 0 /\ DOMAIN <<>> = {}
    BY EmptySeq
  <2>3. 1..0 = {}
    OBVIOUS
  <2>4. KeptOf(<<>>, m, 0, named, S)
    BY <2>2, <2>3, SMT DEF KeptOf, IsInjective
  <2>5. QED
    BY <2>1, <2>4
<1>3. ASSUME NEW i \in Nat, i \in T PROVE i + 1 \in T
  <2> SUFFICES ASSUME i + 1 <= Len(m) PROVE KeptOf(k[i + 1], m, i + 1, named, S)
    OBVIOUS
  <2>1. KeptOf(k[i], m, i, named, S)
    BY <1>1, <1>3
  <2>2. i + 1 \in 1..Len(m) /\ (i + 1) - 1 = i
    BY <1>1
  <2>3. CASE i + 1 \in named
    <3>1. k[i + 1] = k[i]
      BY <2>2, <2>3 DEF IsKept
    <3>2. \A e \in 1..(i + 1) : e \notin named => e \in 1..i
      BY <2>3
    <3>3. \A e \in 1..i : e \in 1..(i + 1)
      OBVIOUS
    <3>4. k[i] \in Seq(S) /\ Len(k[i]) <= i + 1
      <4>1. k[i] \in Seq(S) /\ Len(k[i]) <= i
        BY <2>1 DEF KeptOf
      <4>2. Len(k[i]) \in Nat
        BY <4>1, LenProperties
      <4>3. QED
        BY <4>1, <4>2
    <3>5. QED
      BY <2>1, <3>1, <3>2, <3>3, <3>4 DEF KeptOf
  <2>4. CASE i + 1 \notin named
    <3>1. k[i + 1] = Append(k[i], m[i + 1])
      BY <2>2, <2>4 DEF IsKept
    <3>2. QED
      BY <2>1, <2>4, <3>1, KeptGrows
  <2>5. QED
    BY <2>3, <2>4
<1>4. Nat \subseteq T
  <2> HIDE DEF T
  <2> QED BY <1>2, <1>3, Keeping!Induction
<1>5. QED
  BY <1>1, <1>4
-----------------------------------------------------------------------------
(* Deleting from the highest position down leaves what is kept.            *)

(* RemoveAt and Append.                                                    *)
LEMMA RemoveBelowLast ==
  ASSUME NEW S, NEW s \in Seq(S), NEW e \in S, NEW p \in 1..Len(s)
  PROVE  RemoveAt(Append(s, e), p) = Append(RemoveAt(s, p), e)
<1> DEFINE n == Len(s)
           u == Append(s, e)
           r == RemoveAt(s, p)
           v == RemoveAt(u, p)
           w == Append(r, e)
<1>1. n \in Nat /\ p \in 1..n /\ 1..n = DOMAIN s
  BY LenProperties
<1>2. /\ u \in Seq(S) /\ Len(u) = n + 1
      /\ \A i \in 1..n : u[i] = s[i]
      /\ u[n + 1] = e
  BY <1>1, AppendProperties
<1>3. /\ r \in Seq(S) /\ Len(r) = n - 1
      /\ \A j \in 1..(n - 1) : r[j] = IF j < p THEN s[j] ELSE s[j + 1]
  BY RemoveAtIs
<1>4. /\ w \in Seq(S) /\ Len(w) = n
      /\ \A i \in 1..(n - 1) : w[i] = r[i]
      /\ w[n] = e
  <2> HIDE DEF r, n
  <2>1. Len(r) + 1 = n
    BY <1>1, <1>3
  <2>2. QED
    BY <1>3, <2>1, AppendProperties
<1>5. /\ v \in Seq(S) /\ Len(v) = n
      /\ \A j \in 1..n : v[j] = IF j < p THEN u[j] ELSE u[j + 1]
  <2> HIDE DEF u, n
  <2>1. p \in 1..Len(u) /\ Len(u) - 1 = n
    BY <1>1, <1>2
  <2>2. QED
    BY <1>2, <2>1, RemoveAtIs
<1> HIDE DEF n, u, r, v, w
<1>6. ASSUME NEW i \in 1..n PROVE v[i] = w[i]
  <2>1. CASE i < p
    <3>1. i \in 1..(n - 1)
      BY <1>1, <2>1
    <3>2. QED
      BY <1>2, <1>3, <1>4, <1>5, <2>1, <3>1
  <2>2. CASE ~(i < p) /\ i # n
    <3>1. i \in 1..(n - 1) /\ i + 1 \in 1..n
      BY <1>1, <2>2
    <3>2. QED
      BY <1>2, <1>3, <1>4, <1>5, <2>2, <3>1
  <2>3. CASE i = n
    <3>1. ~(n < p)
      BY <1>1
    <3>2. QED
      BY <1>2, <1>4, <1>5, <2>3, <3>1
  <2>4. QED
    BY <2>1, <2>2, <2>3
<1>7. v = w
  BY <1>4, <1>5, <1>6, SeqEqual
<1>8. QED
  BY <1>7 DEF v, w, u, r

LEMMA RemoveLast ==
  ASSUME NEW S, NEW s \in Seq(S), NEW e \in S
  PROVE  RemoveAt(Append(s, e), Len(s) + 1) = s
<1> DEFINE n == Len(s)
           u == Append(s, e)
           v == RemoveAt(u, n + 1)
<1>1. n \in Nat
  BY LenProperties
<1>2. /\ u \in Seq(S) /\ Len(u) = n + 1
      /\ \A i \in 1..n : u[i] = s[i]
  BY <1>1, AppendProperties
<1>3. /\ v \in Seq(S) /\ Len(v) = n
      /\ \A j \in 1..n : v[j] = IF j < n + 1 THEN u[j] ELSE u[j + 1]
  <2> HIDE DEF u, n
  <2>1. n + 1 \in 1..Len(u) /\ Len(u) - 1 = n
    BY <1>1, <1>2
  <2>2. QED
    BY <1>2, <2>1, RemoveAtIs
<1> HIDE DEF u, v
<1>4. \A j \in 1..n : v[j] = s[j]
  BY <1>1, <1>2, <1>3
<1>5. v = s
  BY <1>3, <1>4, SeqEqual
<1>6. QED
  BY <1>5 DEF v, u, n

Above(named, p) == \A d \in named : d \in Nat /\ d > p

\* Where all that are named are above p: k and k2 are the same before p, and p
\* is at place p of what k keeps.
LEMMA KeptBelow ==
  ASSUME NEW S, NEW m \in Seq(S), NEW named, NEW p \in 1..Len(m),
         Above(named, p),
         NEW k, IsKept(k, m, named), NEW k2, IsKept(k2, m, named \cup {p})
  PROVE  \A j \in 0..(p - 1) : k2[j] = k[j] /\ Len(k[j]) = j
<1>1. Len(m) \in Nat /\ p \in Nat /\ p <= Len(m)
  BY LenProperties
<1> DEFINE T == {i \in Nat : i < p => k2[i] = k[i] /\ Len(k[i]) = i}
<1>2. 0 \in T
  BY EmptySeq DEF IsKept
<1>3. ASSUME NEW i \in Nat, i \in T PROVE i + 1 \in T
  <2> SUFFICES ASSUME i + 1 < p PROVE k2[i + 1] = k[i + 1] /\ Len(k[i + 1]) = i + 1
    OBVIOUS
  <2>1. k2[i] = k[i] /\ Len(k[i]) = i
    BY <1>1, <1>3
  <2>2. i + 1 \in 1..Len(m) /\ (i + 1) - 1 = i /\ i \in 0..Len(m)
    BY <1>1
  <2>3. i + 1 \notin named \cup {p}
    BY <1>1 DEF Above
  <2>4. k2[i + 1] = Append(k2[i], m[i + 1]) /\ k[i + 1] = Append(k[i], m[i + 1])
    BY <2>2, <2>3 DEF IsKept
  <2>5. k[i] \in Seq(S) /\ m[i + 1] \in S
    BY <2>2, KeptIs, ElementOfSeq DEF KeptOf
  <2>6. Len(Append(k[i], m[i + 1])) = i + 1
    BY <2>1, <2>5, AppendProperties
  <2>7. QED
    BY <2>1, <2>4, <2>6
<1>4. Nat \subseteq T
  <2> HIDE DEF T
  <2> QED BY <1>2, <1>3, Keeping!Induction
<1>5. QED
  BY <1>1, <1>4

\* ... and from p on, k2 is k without it.
LEMMA KeptWithout ==
  ASSUME NEW S, NEW m \in Seq(S), NEW named, NEW p \in 1..Len(m),
         Above(named, p),
         NEW k, IsKept(k, m, named), NEW k2, IsKept(k2, m, named \cup {p})
  PROVE  \A j \in p..Len(m) : Len(k[j]) >= p /\ k2[j] = RemoveAt(k[j], p)
<1>1. Len(m) \in Nat /\ p \in Nat /\ p >= 1 /\ p <= Len(m)
  BY LenProperties
<1>0. \A j \in 0..(p - 1) : k2[j] = k[j] /\ Len(k[j]) = j
  BY KeptBelow
<1> DEFINE T == {i \in Nat : p + i <= Len(m) =>
                     Len(k[p + i]) >= p /\ k2[p + i] = RemoveAt(k[p + i], p)}
<1>2. 0 \in T
  <2>1. k2[p - 1] = k[p - 1] /\ Len(k[p - 1]) = p - 1
    <3>1. p - 1 \in 0..(p - 1)
      BY <1>1
    <3>2. QED
      BY <1>0, <3>1
  <2>2. p \notin named
    BY <1>1 DEF Above
  <2>3. k[p] = Append(k[p - 1], m[p]) /\ k2[p] = k2[p - 1]
    BY <1>1, <2>2 DEF IsKept
  <2>4. k[p - 1] \in Seq(S) /\ m[p] \in S
    <3>1. p - 1 \in 0..Len(m)
      BY <1>1
    <3>2. QED
      BY <3>1, KeptIs, ElementOfSeq DEF KeptOf
  <2>5. RemoveAt(Append(k[p - 1], m[p]), Len(k[p - 1]) + 1) = k[p - 1]
    BY <2>4, RemoveLast
  <2>6. Len(Append(k[p - 1], m[p])) = Len(k[p - 1]) + 1
    BY <2>4, AppendProperties
  <2>7. Len(k[p - 1]) + 1 = p /\ p + 0 = p
    BY <1>1, <2>1
  <2>8. Len(k[p]) >= p
    BY <1>1, <2>3, <2>6, <2>7
  <2>9. k2[p] = RemoveAt(k[p], p)
    BY <2>1, <2>3, <2>5, <2>7
  <2>10. QED
    BY <2>7, <2>8, <2>9
<1>3. ASSUME NEW i \in Nat, i \in T PROVE i + 1 \in T
  <2> DEFINE j == p + i
  <2>0. p + (i + 1) = j + 1 /\ j \in Nat
    BY <1>1
  <2> SUFFICES ASSUME j + 1 <= Len(m)
               PROVE  Len(k[j + 1]) >= p /\ k2[j + 1] = RemoveAt(k[j + 1], p)
    BY <2>0
  <2>1. Len(k[j]) >= p /\ k2[j] = RemoveAt(k[j], p)
    BY <1>1, <1>3
  <2>2. j + 1 \in 1..Len(m) /\ (j + 1) - 1 = j /\ j \in 0..Len(m) /\ j + 1 # p
    BY <1>1
  <2> HIDE DEF j
  <2>3. CASE j + 1 \in named
    <3>1. k[j + 1] = k[j] /\ k2[j + 1] = k2[j]
      BY <2>2, <2>3 DEF IsKept
    <3>2. QED
      BY <2>1, <3>1
  <2>4. CASE j + 1 \notin named
    <3>1. k[j + 1] = Append(k[j], m[j + 1]) /\ k2[j + 1] = Append(k2[j], m[j + 1])
      BY <2>2, <2>4 DEF IsKept
    <3>2. k[j] \in Seq(S) /\ m[j + 1] \in S
      BY <2>2, KeptIs, ElementOfSeq DEF KeptOf
    <3>3. Len(k[j]) \in Nat /\ Len(Append(k[j], m[j + 1])) = Len(k[j]) + 1
      BY <3>2, LenProperties, AppendProperties
    <3>4. p \in 1..Len(k[j])
      BY <1>1, <2>1, <3>3
    <3>5. RemoveAt(Append(k[j], m[j + 1]), p) = Append(RemoveAt(k[j], p), m[j + 1])
      BY <3>2, <3>4, RemoveBelowLast
    <3>6. Len(k[j]) + 1 >= p
      BY <1>1, <2>1, <3>3
    <3>7. QED
      BY <2>1, <3>1, <3>3, <3>5, <3>6
  <2>5. QED
    BY <2>3, <2>4
<1>4. Nat \subseteq T
  <2> HIDE DEF T
  <2> QED BY <1>2, <1>3, Keeping!Induction
<1>5. ASSUME NEW j \in p..Len(m)
      PROVE  Len(k[j]) >= p /\ k2[j] = RemoveAt(k[j], p)
  <2>1. j - p \in Nat /\ p + (j - p) = j /\ j <= Len(m)
    BY <1>1
  <2>2. j - p \in T
    BY <1>4, <2>1
  <2>3. QED
    BY <2>1, <2>2
<1>6. QED
  BY <1>5
\* With nothing named, all is kept.
LEMMA KeptAll ==
  ASSUME NEW S, NEW m \in Seq(S), NEW k, IsKept(k, m, {})
  PROVE  k[Len(m)] = m
<1>1. Len(m) \in Nat
  BY LenProperties
<1> DEFINE T == {i \in Nat : i <= Len(m) => /\ Len(k[i]) = i
                                           /\ \A e \in 1..i : k[i][e] = m[e]}
<1>2. 0 \in T
  <2>1. k[0] = <<>> /\ Len(k[0]) = 0
    BY EmptySeq DEF IsKept
  <2>2. \A e \in 1..0 : FALSE
    OBVIOUS
  <2>3. QED
    BY <2>1, <2>2
<1>3. ASSUME NEW i \in Nat, i \in T PROVE i + 1 \in T
  <2> SUFFICES ASSUME i + 1 <= Len(m)
               PROVE  Len(k[i + 1]) = i + 1 /\ \A e \in 1..(i + 1) : k[i + 1][e] = m[e]
    OBVIOUS
  <2>1. Len(k[i]) = i /\ \A e \in 1..i : k[i][e] = m[e]
    BY <1>1, <1>3
  <2>2. i + 1 \in 1..Len(m) /\ (i + 1) - 1 = i /\ i \in 0..Len(m)
    BY <1>1
  <2>3. k[i + 1] = Append(k[i], m[i + 1])
    BY <2>2 DEF IsKept
  <2>4. k[i] \in Seq(S) /\ m[i + 1] \in S
    BY <2>2, KeptIs, ElementOfSeq DEF KeptOf
  <2>5. /\ Len(k[i + 1]) = i + 1
        /\ \A e \in 1..i : k[i + 1][e] = k[i][e]
        /\ k[i + 1][i + 1] = m[i + 1]
    BY <2>1, <2>3, <2>4, AppendProperties
  <2>6. \A e \in 1..(i + 1) : e \in 1..i \/ e = i + 1
    OBVIOUS
  <2>7. QED
    BY <2>1, <2>5, <2>6
<1>4. Nat \subseteq T
  <2> HIDE DEF T
  <2> QED BY <1>2, <1>3, Keeping!Induction
<1>5. Len(k[Len(m)]) = Len(m) /\ \A e \in 1..Len(m) : k[Len(m)][e] = m[e]
  BY <1>1, <1>4
<1>6. k[Len(m)] \in Seq(S)
  <2>1. Len(m) \in 0..Len(m)
    BY <1>1
  <2>2. QED
    BY <2>1, KeptIs DEF KeptOf
<1>7. QED
  BY <1>5, <1>6, SeqEqual

\* The loop of sacdel over sorted positions.
RemainingOf(sorted) ==
  LET delete(m, i) == IF i > 1 /\ sorted[i] = sorted[i - 1] THEN m
                      ELSE RemoveAt(m, sorted[i])
  IN  FoldLeft(delete, mem, [i \in DOMAIN sorted |-> i])

LEMMA RemainingOfIs ==
  ASSUME NEW n \in Nat, NEW sorted, DOMAIN sorted = 1..n
  PROVE  \E g : /\ g[0] = mem
                /\ \A i \in 1..n : g[i] = DeleteStep(sorted, g[i - 1], i)
                /\ RemainingOf(sorted) = g[n]
<1> DEFINE q == [i \in 1..n |-> i]
<1>1. q = [i \in DOMAIN sorted |-> i] /\ DOMAIN q = 1..n
  OBVIOUS
<1>2. RemainingOf(sorted) = Deleting!Fold(sorted, n, q, mem)
  BY <1>1 DEF RemainingOf, DeleteStep, FoldLeft, MapThenFoldSet, Max, Deleting!Fold
<1>3. \A i \in 1..n : q[i] = i
  OBVIOUS
<1> HIDE DEF q
<1>4. PICK g : Deleting!Iterates(g, sorted, n, q, mem) /\ g[n] = Deleting!Fold(sorted, n, q, mem)
  BY Deleting!FoldLeftIs
<1>5. \A i \in 1..n : g[i] = DeleteStep(sorted, g[i - 1], i)
  BY <1>3, <1>4 DEF Deleting!Iterates
<1>6. g[0] = mem
  BY <1>4 DEF Deleting!Iterates
<1>7. QED
  BY <1>2, <1>4, <1>5, <1>6

LEMMA RemainingIs ==
  ASSUME NEW positions \in Seq(Nat)
  PROVE  LET d == InDecreasingOrder(positions)
         IN  \E g : /\ g[0] = mem
                    /\ \A i \in 1..Len(positions) : g[i] = DeleteStep(d, g[i - 1], i)
                    /\ Remaining(positions) = g[Len(positions)]
<1> DEFINE d == InDecreasingOrder(positions)
<1>1. Len(positions) \in Nat /\ d \in Seq(Nat) /\ Len(d) = Len(positions)
  BY LenProperties, DecreasingOrderIs
<1>2. Remaining(positions) = RemainingOf(d)
  BY DEF Remaining, RemainingOf
<1> HIDE DEF d
<1>3. DOMAIN d = 1..Len(positions)
  BY <1>1, LenProperties
<1>4. QED
  BY <1>1, <1>2, <1>3, RemainingOfIs DEF d

\* One deletion, of a file below all that are gone.
LEMMA OneLess ==
  ASSUME NEW S, NEW m \in Seq(S), NEW named, NEW p \in 1..Len(m), Above(named, p),
         NEW both, both = named \cup {p},
         NEW k, IsKept(k, m, named), NEW k2, IsKept(k2, m, both)
  PROVE  k2[Len(m)] = RemoveAt(k[Len(m)], p)
<1>1. \A j \in p..Len(m) : Len(k[j]) >= p /\ k2[j] = RemoveAt(k[j], p)
  BY KeptWithout
<1>2. Len(m) \in p..Len(m)
  BY LenProperties
<1>3. QED
  BY <1>1, <1>2

(* DELETECHANNEL and DELETESTACK of files by number, in any order and      *)
(* however often one is given: what is left are the files that were not    *)
(* named, in their order.                                                  *)
THEOREM DeletionLeavesTheOthers ==
  ASSUME NEW S, mem \in Seq(S), NEW positions \in Seq(Nat),
         ToSet(positions) \subseteq DOMAIN mem,
         NEW k, IsKept(k, mem, ToSet(positions))
  PROVE  Remaining(positions) = k[Len(mem)]
<1> DEFINE n == Len(positions)
           d == InDecreasingOrder(positions)
           Named(i) == {d[j] : j \in 1..i}
<1>1. /\ n \in Nat /\ d \in Seq(Nat) /\ Len(d) = n
      /\ ToSet(d) = ToSet(positions)
      /\ \A i, j \in 1..n : i < j => d[i] >= d[j]
  BY LenProperties, DecreasingOrderIs
<1>2. PICK g : /\ g[0] = mem
               /\ \A i \in 1..n : g[i] = DeleteStep(d, g[i - 1], i)
               /\ Remaining(positions) = g[n]
  <2> HIDE DEF Named
  <2> QED BY RemainingIs
<1> HIDE DEF n, d
<1>3. DOMAIN mem = 1..Len(mem) /\ Len(mem) \in Nat
  BY LenProperties
<1>4. \A i \in 1..n : d[i] \in Nat /\ d[i] \in 1..Len(mem)
  <2>1. DOMAIN d = 1..n
    BY <1>1, LenProperties
  <2>2. \A i \in 1..n : d[i] \in ToSet(d)
    BY <2>1 DEF ToSet
  <2>3. QED
    BY <1>1, <1>3, <2>2
<1> DEFINE T == {i \in Nat : i <= n =>
                   \A kk : IsKept(kk, mem, Named(i)) => g[i] = kk[Len(mem)]}
<1>5. 0 \in T
  <2>1. Named(0) = {}
    OBVIOUS
  <2>2. \A kk : IsKept(kk, mem, {}) => mem = kk[Len(mem)]
    BY KeptAll
  <2>3. QED
    BY <1>2, <2>1, <2>2
<1>6. ASSUME NEW i \in Nat, i \in T PROVE i + 1 \in T
  <2> SUFFICES ASSUME i + 1 <= n, NEW kk, IsKept(kk, mem, Named(i + 1))
               PROVE  g[i + 1] = kk[Len(mem)]
    OBVIOUS
  <2>1. \A kp : IsKept(kp, mem, Named(i)) => g[i] = kp[Len(mem)]
    BY <1>1, <1>6
  <2>2. i + 1 \in 1..n /\ (i + 1) - 1 = i
    BY <1>1
  <2>3. g[i + 1] = DeleteStep(d, g[i], i + 1)
    BY <1>2, <2>2
  <2>4. \A j \in 1..(i + 1) : j \in 1..i \/ j = i + 1
    OBVIOUS
  <2>5. \A j \in 1..i : j \in 1..(i + 1) /\ j \in 1..n
    BY <1>1
  <2>6. Named(i + 1) = Named(i) \cup {d[i + 1]}
    <3>1. i + 1 \in 1..(i + 1)
      OBVIOUS
    <3>2. QED
      BY <2>4, <2>5, <3>1
  <2>7. CASE i + 1 > 1 /\ d[i + 1] = d[i]
    <3>1. i \in 1..i
      BY <2>7
    <3>2. Named(i + 1) = Named(i)
      BY <2>6, <2>7, <3>1
    <3>3. g[i + 1] = g[i]
      BY <2>2, <2>3, <2>7 DEF DeleteStep
    <3> HIDE DEF Named
    <3>4. QED
      BY <2>1, <3>2, <3>3
  <2>8. CASE ~(i + 1 > 1 /\ d[i + 1] = d[i])
    <3> DEFINE p == d[i + 1]
    <3>1. g[i + 1] = RemoveAt(g[i], p)
      BY <2>2, <2>3, <2>8 DEF DeleteStep
    <3>2. ASSUME NEW j \in 1..i PROVE d[j] > p
      <4>1. i \in 1..i /\ i \in 1..n /\ i + 1 > 1 /\ j \in 1..n
        BY <2>5
      <4>2. d[i] # p /\ d[i] >= p
        BY <1>1, <2>2, <2>8, <4>1
      <4>3. d[j] >= d[i]
        BY <1>1, <1>4, <4>1
      <4>4. d[i] \in Nat /\ d[j] \in Nat /\ p \in Nat
        BY <1>4, <2>2, <4>1
      <4>5. QED
        BY <4>2, <4>3, <4>4
    <3>3. Above(Named(i), p)
      BY <1>4, <2>5, <3>2 DEF Above
    <3>4. p \in 1..Len(mem)
      BY <1>4, <2>2
    <3>5. Named(i + 1) = Named(i) \cup {p}
      BY <2>6
    <3> HIDE DEF Named, p
    <3>6. PICK kp : IsKept(kp, mem, Named(i))
      BY KeptExists
    <3>7. kk[Len(mem)] = RemoveAt(kp[Len(mem)], p)
      BY <3>3, <3>4, <3>5, <3>6, OneLess
    <3>8. QED
      BY <2>1, <3>1, <3>6, <3>7
  <2>9. QED
    BY <2>7, <2>8
<1>7. Nat \subseteq T
  <2> HIDE DEF T
  <2> QED BY <1>5, <1>6, Keeping!Induction
<1>8. Named(n) = ToSet(positions)
  <2>1. DOMAIN d = 1..n
    BY <1>1, LenProperties
  <2>2. QED
    BY <1>1, <2>1 DEF ToSet
<1>9. n \in T /\ n <= n
  BY <1>1, <1>7
<1>10. QED
  BY <1>2, <1>8, <1>9
-----------------------------------------------------------------------------
(* The workset's rows.                                                     *)

RowStep(ctx, state, i) == IF state.stopped \/ i > Len(state.r)
                          THEN [state EXCEPT !.stopped = TRUE]
                          ELSE [state EXCEPT !.r = RemoveAt(@, i)]

DeletingRows == INSTANCE Folding WITH op <- RowStep

AllRows(r) == [r |-> r, stopped |-> FALSE]

IsState(X, state) == state \in [r : Seq(X), stopped : BOOLEAN]

RowsLeft(r, positions) ==
  LET delete(state, i) == IF state.stopped \/ i > Len(state.r)
                          THEN [state EXCEPT !.stopped = TRUE]
                          ELSE [state EXCEPT !.r = RemoveAt(@, i)]
  IN  FoldLeft(delete, [r |-> r, stopped |-> FALSE], positions)

\* The loop of dblDeleteWfdiscs.
LEMMA RowsLeftIs ==
  ASSUME NEW r, NEW positions \in Seq(Nat)
  PROVE  \E g : /\ g[0] = AllRows(r)
                /\ \A i \in 1..Len(positions) : g[i] = RowStep(0, g[i - 1], positions[i])
                /\ RowsLeft(r, positions) = g[Len(positions)]
<1>0. Len(positions) \in Nat /\ DOMAIN positions = 1..Len(positions)
  BY LenProperties
<1>1. RowsLeft(r, positions) = DeletingRows!Fold(0, Len(positions), positions, AllRows(r))
  BY <1>0 DEF RowsLeft, RowStep, FoldLeft, MapThenFoldSet, Max, DeletingRows!Fold, AllRows
<1>2. PICK g : /\ DeletingRows!Iterates(g, 0, Len(positions), positions, AllRows(r))
               /\ g[Len(positions)] = DeletingRows!Fold(0, Len(positions), positions, AllRows(r))
  BY <1>0, DeletingRows!FoldLeftIs
<1>3. g[0] = AllRows(r) /\ \A i \in 1..Len(positions) : g[i] = RowStep(0, g[i - 1], positions[i])
  BY <1>2 DEF DeletingRows!Iterates
<1>4. QED
  BY <1>1, <1>2, <1>3

\* Rows stay rows.
LEMMA RowStepTyped ==
  ASSUME NEW X, NEW state, IsState(X, state), NEW i \in Nat \ {0}
  PROVE  IsState(X, RowStep(0, state, i))
<1>1. state.r \in Seq(X) /\ Len(state.r) \in Nat
  BY LenProperties DEF IsState
<1>2. CASE state.stopped \/ i > Len(state.r)
  BY <1>2 DEF RowStep, IsState
<1>3. CASE ~(state.stopped \/ i > Len(state.r))
  <2>1. i \in 1..Len(state.r)
    BY <1>1, <1>3
  <2>2. RemoveAt(state.r, i) \in Seq(X)
    BY <1>1, <2>1, RemoveAtIs
  <2> DEFINE s == RemoveAt(state.r, i)
  <2>3. RowStep(0, state, i) = [state EXCEPT !.r = s]
    BY <1>3 DEF RowStep
  <2> HIDE DEF s
  <2>4. QED
    BY <2>2, <2>3 DEF s, IsState
<1>4. QED
  BY <1>2, <1>3

LEMMA RowsDeletedTyped ==
  ASSUME NEW X, NEW r, r = NoRows \/ r \in Seq(X), NEW positions \in Seq(Nat \ {0})
  PROVE  RowsDeleted(r, positions) = NoRows \/ RowsDeleted(r, positions) \in Seq(X)
<1>1. CASE r = NoRows
  BY <1>1 DEF RowsDeleted
<1>2. CASE r # NoRows
  <2>1. RowsDeleted(r, positions) = RowsLeft(r, positions).r
    BY <1>2 DEF RowsDeleted, RowsLeft
  <2>2. /\ Len(positions) \in Nat /\ DOMAIN positions = 1..Len(positions)
        /\ \A i \in 1..Len(positions) : positions[i] \in Nat \ {0}
    BY LenProperties, ElementOfSeq
  <2>3. PICK g : /\ g[0] = AllRows(r)
                 /\ \A i \in 1..Len(positions) : g[i] = RowStep(0, g[i - 1], positions[i])
                 /\ RowsLeft(r, positions) = g[Len(positions)]
    <3>1. positions \in Seq(Nat)
      BY SeqMonotonic
    <3>2. QED
      BY <3>1, RowsLeftIs
  <2> DEFINE T == {i \in Nat : i <= Len(positions) => IsState(X, g[i])}
  <2>4. 0 \in T
    <3>1. IsState(X, AllRows(r))
      BY <1>2 DEF IsState, AllRows
    <3>2. QED
      BY <2>3, <3>1
  <2>5. ASSUME NEW i \in Nat, i \in T PROVE i + 1 \in T
    <3> SUFFICES ASSUME i + 1 <= Len(positions) PROVE IsState(X, g[i + 1])
      OBVIOUS
    <3>1. i + 1 \in 1..Len(positions) /\ (i + 1) - 1 = i /\ i <= Len(positions)
      BY <2>2
    <3>2. IsState(X, g[i])
      BY <2>5, <3>1
    <3>3. g[i + 1] = RowStep(0, g[i], positions[i + 1])
      BY <2>3, <3>1
    <3>4. positions[i + 1] \in Nat \ {0}
      BY <2>2, <3>1
    <3>5. QED
      BY <3>2, <3>3, <3>4, RowStepTyped
  <2>6. Nat \subseteq T
    <3> HIDE DEF T
    <3> QED BY <2>4, <2>5, DeletingRows!Induction
  <2>7. IsState(X, g[Len(positions)])
    BY <2>2, <2>6
  <2>8. QED
    BY <2>1, <2>3, <2>7 DEF IsState
<1>3. QED
  BY <1>1, <1>2

\* One file is deleted: its row goes, if it has one.
LEMMA OneRowDeleted ==
  ASSUME NEW X, NEW r \in Seq(X), r # NoRows,
         NEW positions \in Seq(Nat \ {0}), Len(positions) = 1
  PROVE  /\ RowsDeleted(r, positions) \in Seq(X)
         /\ Len(RowsDeleted(r, positions)) =
              IF positions[1] <= Len(r) THEN Len(r) - 1 ELSE Len(r)
<1>1. RowsDeleted(r, positions) = RowsLeft(r, positions).r
  BY DEF RowsDeleted, RowsLeft
<1> DEFINE p == positions[1]
<1>2. DOMAIN positions = 1..1 /\ p \in Nat \ {0}
  BY LenProperties, ElementOfSeq
<1>3. PICK g : /\ g[0] = AllRows(r)
               /\ \A i \in 1..1 : g[i] = RowStep(0, g[i - 1], positions[i])
               /\ RowsLeft(r, positions) = g[1]
  <2>1. positions \in Seq(Nat)
    BY SeqMonotonic
  <2>2. QED
    BY <2>1, RowsLeftIs
<1>4. g[1] = RowStep(0, AllRows(r), p)
  <2>1. 1 \in 1..1 /\ 1 - 1 = 0
    OBVIOUS
  <2>2. QED
    BY <1>3, <2>1
<1>5. Len(r) \in Nat
  BY LenProperties
<1> HIDE DEF p
<1>6. CASE p > Len(r)
  <2>1. g[1].r = r
    BY <1>4, <1>6 DEF RowStep, AllRows
  <2>2. QED
    BY <1>1, <1>2, <1>3, <1>5, <1>6, <2>1 DEF p
<1>7. CASE ~(p > Len(r))
  <2>1. p \in 1..Len(r)
    BY <1>2, <1>5, <1>7
  <2>2. g[1].r = RemoveAt(r, p)
    BY <1>4, <1>7 DEF RowStep, AllRows
  <2>3. RemoveAt(r, p) \in Seq(X) /\ Len(RemoveAt(r, p)) = Len(r) - 1
    BY <2>1, RemoveAtIs
  <2>4. p <= Len(r)
    BY <2>1
  <2>5. QED
    BY <1>1, <1>3, <2>2, <2>3, <2>4 DEF p
<1>8. QED
  BY <1>6, <1>7
-----------------------------------------------------------------------------
(* The parts of the type invariant, and what keeps them.                   *)

IsFiles(m) == m \in Seq(Files) /\ Len(m) <= MaxFiles /\ IsInjective(m)

IsRows(r) == r = NoRows \/ r \in Seq(Files \cup {Elsewhere})

\* There are not more rows than files.
Fits(m, r) == r = NoRows \/ Len(r) <= Len(m)

MemoryOK == IsFiles(mem) /\ current \in Pointers /\ IsRows(rows)

LEMMA TypeIsMemoryOK == MemoryTypeOK <=> MemoryOK /\ nerr \in {0, 1}
BY DEF MemoryTypeOK, MemoryOK, IsFiles, IsRows

LEMMA ToSetIs ==
  ASSUME NEW S, NEW s \in Seq(S)
  PROVE  /\ ToSet(s) = {s[i] : i \in 1..Len(s)}
         /\ ToSet(s) \subseteq S
<1>1. DOMAIN s = 1..Len(s) /\ \A i \in 1..Len(s) : s[i] \in S
  BY LenProperties, ElementOfSeq
<1>2. QED
  BY <1>1 DEF ToSet

LEMMA SettleTyped ==
  ASSUME NEW m, IsFiles(m), NEW c, NEW r, IsRows(r), Settle(m, c, r)
  PROVE  MemoryOK'
<1>1. mem' = m
  BY DEF Settle
<1>2. ToSet(m) \subseteq Files
  BY ToSetIs DEF IsFiles
<1>3. current' \in Pointers
  BY <1>2 DEF Settle, Pointer, Pointers
<1>4. IsRows(rows')
  <2>1. CASE r = NoRows
    BY <2>1 DEF Settle, IsRows
  <2>2. CASE r # NoRows
    <3>1. r \in Seq(Files \cup {Elsewhere})
      BY <2>2 DEF IsRows
    <3>2. Len(r) \in Nat /\ DOMAIN r = 1..Len(r)
      BY <3>1, LenProperties
    <3>3. rows' = [i \in 1..Len(r) |-> IF r[i] \in ToSet(m) THEN r[i] ELSE Elsewhere]
      BY <2>2, <3>2 DEF Settle
    <3>4. rows' \in [1..Len(r) -> Files \cup {Elsewhere}]
      BY <1>2, <3>3
    <3>5. rows' \in Seq(Files \cup {Elsewhere})
      BY <3>2, <3>4, IsSequence
    <3>6. QED
      BY <3>5 DEF IsRows
  <2>3. QED
    BY <2>1, <2>2
<1>5. IsFiles(mem')
  BY <1>1
<1>6. QED
  BY <1>3, <1>4, <1>5 DEF MemoryOK, IsFiles, IsRows, Pointers

LEMMA SettleFits ==
  ASSUME NEW m, NEW c, NEW r, IsRows(r), Settle(m, c, r), Fits(m, r)
  PROVE  Fits(mem', rows')
<1>1. CASE r = NoRows
  BY <1>1 DEF Settle, Fits
<1>2. CASE r # NoRows
  <2>1. r \in Seq(Files \cup {Elsewhere}) /\ Len(r) <= Len(m) /\ mem' = m
    BY <1>2 DEF IsRows, Fits, Settle
  <2>2. Len(r) \in Nat /\ DOMAIN r = 1..Len(r)
    BY <2>1, LenProperties
  <2>3. rows' = [i \in 1..Len(r) |-> IF r[i] \in ToSet(m) THEN r[i] ELSE Elsewhere]
    BY <1>2, <2>2 DEF Settle
  <2> DEFINE X == ToSet(m) \cup {Elsewhere}
  <2>4. rows' \in [1..Len(r) -> X]
    BY <2>3
  <2> HIDE DEF X
  <2>5. Len(rows') = Len(r)
    BY <2>2, <2>4, IsSequence
  <2>6. QED
    BY <2>1, <2>5 DEF Fits
<1>3. QED
  BY <1>1, <1>2

LEMMA CommittedTyped ==
  ASSUME NEW m, IsFiles(m), NEW r, IsRows(r)
  PROVE  /\ IsRows(Committed(m, r))
         /\ Fits(m, r) => Committed(m, r) = m
<1> DEFINE X == Files \cup {Elsewhere}
<1>1. m \in Seq(X)
  <2>1. Files \subseteq X
    OBVIOUS
  <2> HIDE DEF X
  <2>2. QED
    BY <2>1, SeqMonotonic DEF IsFiles
<1>2. CASE r = NoRows \/ Len(r) <= Len(m)
  BY <1>1, <1>2 DEF Committed, IsRows
<1>3. CASE ~(r = NoRows \/ Len(r) <= Len(m))
  <2>1. r \in Seq(X) /\ Len(r) \in Nat /\ Len(m) \in Nat
    BY <1>1, <1>3, LenProperties DEF IsRows
  <2> HIDE DEF X
  <2>2. \A i \in (Len(m) + 1)..Len(r) : r[i] \in X
    BY <2>1, ElementOfSeq
  <2>3. SubSeq(r, Len(m) + 1, Len(r)) \in Seq(X)
    BY <2>1, <2>2, SubSeqProperties
  <2>4. m \o SubSeq(r, Len(m) + 1, Len(r)) \in Seq(X)
    BY <1>1, <2>3, ConcatProperties
  <2>5. Committed(m, r) \in Seq(X) /\ ~Fits(m, r)
    BY <1>3, <2>4 DEF Committed, Fits
  <2>6. QED
    BY <2>5 DEF IsRows, X
<1>4. QED
  BY <1>2, <1>3

\* The files in memory are rows.
LEMMA FilesAreRows ==
  ASSUME NEW m, IsFiles(m) PROVE IsRows(m) /\ Fits(m, m)
<1>1. m \in Seq(Files) /\ Files \subseteq Files \cup {Elsewhere} /\ Len(m) \in Nat
  BY LenProperties DEF IsFiles
<1>2. m \in Seq(Files \cup {Elsewhere})
  BY <1>1, SeqMonotonic
<1>3. QED
  BY <1>1, <1>2 DEF IsRows, Fits

(* The same list after a deletion.                                         *)
LEMMA RemainingTyped ==
  ASSUME IsFiles(mem), NEW positions \in Seq(Nat), ToSet(positions) \subseteq DOMAIN mem
  PROVE  /\ IsFiles(Remaining(positions))
         /\ ToSet(Remaining(positions)) \subseteq ToSet(mem)
<1> DEFINE n == Len(mem)
           named == ToSet(positions)
<1>1. mem \in Seq(Files) /\ n \in Nat /\ n <= MaxFiles /\ IsInjective(mem)
  BY LenProperties DEF IsFiles
<1> HIDE DEF n, named
<1>2. PICK k : IsKept(k, mem, named)
  BY <1>1, KeptExists
<1>3. Remaining(positions) = k[n]
  BY <1>1, <1>2, DeletionLeavesTheOthers DEF n, named
<1>4. n \in 0..n
  BY <1>1
<1>5. KeptOf(k[n], mem, n, named, Files)
  BY <1>1, <1>2, <1>4, KeptIs DEF n
<1>6. k[n] \in Seq(Files) /\ Len(k[n]) <= n /\ IsInjective(k[n])
  BY <1>1, <1>5 DEF KeptOf
<1>7. ToSet(k[n]) \subseteq ToSet(mem)
  <2>1. ToSet(k[n]) = {k[n][i] : i \in 1..Len(k[n])} /\ ToSet(mem) = {mem[i] : i \in 1..n}
    BY <1>1, <1>6, ToSetIs DEF n
  <2>2. QED
    BY <1>5, <2>1 DEF KeptOf
<1>8. Len(k[n]) \in Nat /\ MaxFiles \in Nat
  BY <1>6, LenProperties, MaxFilesAssumption
<1>9. QED
  BY <1>1, <1>3, <1>6, <1>7, <1>8 DEF IsFiles
\* The positions that files and rows are deleted at.
LEMMA SortedPositions ==
  ASSUME NEW positions \in Seq(Nat \ {0})
  PROVE  LET d == InDecreasingOrder(positions)
         IN  /\ positions \in Seq(Nat)
             /\ d \in Seq(Nat \ {0}) /\ Len(d) = Len(positions)
             /\ ToSet(d) = ToSet(positions)
<1> DEFINE d == InDecreasingOrder(positions)
<1>1. positions \in Seq(Nat)
  BY SeqMonotonic
<1>2. d \in Seq(Nat) /\ Len(d) = Len(positions) /\ ToSet(d) = ToSet(positions)
  BY <1>1, DecreasingOrderIs
<1> HIDE DEF d
<1>3. ToSet(positions) \subseteq Nat \ {0}
  BY ToSetIs
<1>4. Len(d) \in Nat /\ DOMAIN d = 1..Len(d) /\ d \in [1..Len(d) -> Nat]
  BY <1>2, LenProperties
<1>5. ToSet(d) = {d[i] : i \in 1..Len(d)}
  BY <1>2, ToSetIs
<1>6. \A i \in 1..Len(d) : d[i] \in Nat \ {0}
  BY <1>2, <1>3, <1>5
<1>7. d \in [1..Len(d) -> Nat \ {0}]
  BY <1>4, <1>6
<1>8. d \in Seq(Nat \ {0})
  BY <1>4, <1>7, IsSequence
<1>9. QED
  BY <1>1, <1>2, <1>8 DEF d

LEMMA RowsRemainingTyped ==
  ASSUME IsRows(rows), NEW positions \in Seq(Nat \ {0})
  PROVE  IsRows(RowsRemaining(positions))
<1> DEFINE d == InDecreasingOrder(positions)
           X == Files \cup {Elsewhere}
<1>1. d \in Seq(Nat \ {0})
  BY SortedPositions
<1> HIDE DEF d
<1>2. rows = NoRows \/ rows \in Seq(X)
  BY DEF IsRows
<1> HIDE DEF X
<1>3. RowsDeleted(rows, d) = NoRows \/ RowsDeleted(rows, d) \in Seq(X)
  BY <1>1, <1>2, RowsDeletedTyped
<1>4. QED
  BY <1>3 DEF RowsRemaining, IsRows, d, X

(* Where one file is deleted there are not more rows than files after it   *)
(* if there were not before.                                               *)
LEMMA OneFileDeleted ==
  ASSUME IsFiles(mem), IsRows(rows), Fits(mem, rows),
         NEW positions \in Seq(Nat \ {0}), Len(positions) = 1,
         ToSet(positions) \subseteq DOMAIN mem
  PROVE  Fits(Remaining(positions), RowsRemaining(positions))
<1> DEFINE d == InDecreasingOrder(positions)
<1>1. positions \in Seq(Nat) /\ d \in Seq(Nat \ {0}) /\ Len(d) = 1
       /\ ToSet(d) = ToSet(positions)
  BY SortedPositions
<1>2. PICK g : /\ g[0] = mem
               /\ \A i \in 1..Len(positions) : g[i] = DeleteStep(d, g[i - 1], i)
               /\ Remaining(positions) = g[Len(positions)]
  BY <1>1, RemainingIs
<1> HIDE DEF d
<1>3. mem \in Seq(Files) /\ Len(mem) \in Nat /\ DOMAIN mem = 1..Len(mem)
  BY LenProperties DEF IsFiles
<1>4. d[1] \in 1..Len(mem)
  <2>1. ToSet(d) = {d[i] : i \in 1..1}
    BY <1>1, ToSetIs
  <2>2. d[1] \in ToSet(d)
    BY <2>1
  <2>3. QED
    BY <1>1, <1>3, <2>2
<1>5. Remaining(positions) = RemoveAt(mem, d[1])
  <2>1. g[1] = DeleteStep(d, g[0], 1)
    <3>1. 1 \in 1..Len(positions) /\ 1 - 1 = 0
      OBVIOUS
    <3>2. QED
      BY <1>2, <3>1
  <2>2. QED
    BY <1>2, <2>1 DEF DeleteStep
<1>6. Len(Remaining(positions)) = Len(mem) - 1
  BY <1>3, <1>4, <1>5, RemoveAtIs
<1>7. CASE rows = NoRows
  BY <1>7 DEF RowsRemaining, RowsDeleted, Fits
<1>8. CASE rows # NoRows
  <2> DEFINE X == Files \cup {Elsewhere}
  <2>1. rows \in Seq(X) /\ Len(rows) <= Len(mem)
    BY <1>8 DEF IsRows, Fits
  <2> HIDE DEF X
  <2>2. Len(rows) \in Nat
    BY <2>1, LenProperties
  <2>3. Len(RowsDeleted(rows, d)) = IF d[1] <= Len(rows) THEN Len(rows) - 1 ELSE Len(rows)
    BY <1>1, <1>8, <2>1, OneRowDeleted
  <2>4. Len(RowsDeleted(rows, d)) <= Len(mem) - 1
    BY <1>3, <1>4, <2>1, <2>2, <2>3
  <2>5. QED
    BY <1>6, <2>4 DEF RowsRemaining, Fits, d
<1>9. QED
  BY <1>7, <1>8

(* Sorting.                                                                *)
LEMMA ReorderingTyped ==
  ASSUME IsFiles(mem), NEW m \in Reorderings(mem)
  PROVE  IsFiles(m) /\ Len(m) = Len(mem) /\ ToSet(m) = ToSet(mem)
BY ReorderingIs DEF IsFiles

(* Files that memory is allocated for, behind others.                      *)
LEMMA AllocatedTyped ==
  ASSUME IsFiles(mem), NEW kept, kept = mem \/ kept = <<>>, NEW n \in Nat,
         NEW new \in Allocated(n), Len(kept) + n <= MaxFiles
  PROVE  /\ IsFiles(kept \o new) /\ Len(kept \o new) = Len(kept) + n
         /\ new \in Seq(Files) /\ Len(new) = n /\ IsInjective(new)
<1>1. new \in [1..n -> Files \ ToSet(mem)] /\ IsInjective(new)
  BY DEF Allocated
<1>2. new \in Seq(Files \ ToSet(mem)) /\ Len(new) = n
  BY <1>1, IsSequence
<1>3. new \in Seq(Files)
  BY <1>2, SeqMonotonic
<1>4. kept \in Seq(Files) /\ Len(kept) \in Nat /\ IsInjective(kept)
  <2>1. CASE kept = mem
    BY <2>1, LenProperties DEF IsFiles
  <2>2. CASE kept = <<>>
    <3>1. <<>> \in Seq(Files) /\ Len(<<>>) = 0 /\ DOMAIN <<>> = {}
      BY EmptySeq
    <3>2. IsInjective(<<>>)
      BY <3>1, SMT DEF IsInjective
    <3>3. QED
      BY <2>2, <3>1, <3>2
  <2>3. QED
    BY <2>1, <2>2
<1> DEFINE t == kept \o new
<1>5. /\ t \in Seq(Files) /\ Len(t) = Len(kept) + n
      /\ \A i \in 1..(Len(kept) + n) :
           t[i] = IF i <= Len(kept) THEN kept[i] ELSE new[i - Len(kept)]
  <2>1. /\ t \in Seq(Files) /\ Len(t) = Len(kept) + Len(new)
        /\ \A i \in 1..(Len(kept) + Len(new)) :
             t[i] = IF i <= Len(kept) THEN kept[i] ELSE new[i - Len(kept)]
    BY <1>3, <1>4, ConcatProperties
  <2> HIDE DEF t
  <2>2. QED
    BY <1>2, <2>1
<1> HIDE DEF t
<1>6. DOMAIN t = 1..(Len(kept) + n) /\ DOMAIN kept = 1..Len(kept) /\ DOMAIN new = 1..n
  BY <1>2, <1>3, <1>4, <1>5, LenProperties
<1>7. \A i \in 1..Len(kept), j \in 1..n : kept[i] # new[j]
  <2>1. CASE kept = mem
    BY <1>1, <1>6, <2>1 DEF ToSet
  <2>2. CASE kept = <<>>
    BY <2>2, EmptySeq
  <2>3. QED
    BY <2>1, <2>2
<1>8. ASSUME NEW i \in 1..(Len(kept) + n), NEW j \in 1..(Len(kept) + n), t[i] = t[j]
      PROVE  i = j
  <2>1. \A e \in 1..(Len(kept) + n) : ~(e <= Len(kept)) => e - Len(kept) \in 1..n
    BY <1>4
  <2>2. \A e \in 1..(Len(kept) + n) : e <= Len(kept) => e \in 1..Len(kept)
    BY <1>4
  <2>3. CASE i <= Len(kept) /\ j <= Len(kept)
    BY <1>4, <1>5, <1>6, <1>8, <2>2, <2>3 DEF IsInjective
  <2>4. CASE ~(i <= Len(kept)) /\ ~(j <= Len(kept))
    <3>1. i - Len(kept) = j - Len(kept)
      BY <1>1, <1>5, <1>6, <1>8, <2>1, <2>4 DEF IsInjective
    <3>2. QED
      BY <1>4, <3>1
  <2>5. CASE i <= Len(kept) /\ ~(j <= Len(kept))
    BY <1>5, <1>7, <1>8, <2>1, <2>2, <2>5
  <2>6. CASE ~(i <= Len(kept)) /\ j <= Len(kept)
    BY <1>5, <1>7, <1>8, <2>1, <2>2, <2>6
  <2>7. QED
    BY <2>3, <2>4, <2>5, <2>6
<1>9. IsInjective(t)
  BY <1>6, <1>8 DEF IsInjective
<1>10. QED
  BY <1>1, <1>2, <1>3, <1>5, <1>9 DEF IsFiles, t

(* A file that is not there, behind those that are.                        *)
LEMMA AppendTyped ==
  ASSUME IsFiles(mem), NEW f \in Files, f \notin ToSet(mem), Len(mem) + 1 <= MaxFiles
  PROVE  /\ IsFiles(Append(mem, f)) /\ Len(Append(mem, f)) = Len(mem) + 1
         /\ f \in ToSet(Append(mem, f))
<1> DEFINE t == Append(mem, f)
           n == Len(mem)
<1>1. mem \in Seq(Files) /\ n \in Nat /\ DOMAIN mem = 1..n /\ IsInjective(mem)
  BY LenProperties DEF IsFiles
<1>2. /\ t \in Seq(Files) /\ Len(t) = n + 1
      /\ \A i \in 1..n : t[i] = mem[i]
      /\ t[n + 1] = f
  BY <1>1, AppendProperties
<1> HIDE DEF t, n
<1>3. DOMAIN t = 1..(n + 1)
  BY <1>2, LenProperties
<1>4. \A i \in 1..(n + 1) : i \in 1..n \/ i = n + 1
  BY <1>1
<1>5. \A i \in 1..n : t[i] # f
  BY <1>1, <1>2 DEF ToSet
<1>6. IsInjective(t)
  BY <1>1, <1>2, <1>3, <1>4, <1>5 DEF IsInjective
<1>7. n + 1 \in DOMAIN t
  BY <1>1, <1>3
<1>8. f \in ToSet(t)
  BY <1>2, <1>7 DEF ToSet
<1>9. QED
  BY <1>2, <1>6, <1>8 DEF IsFiles, t, n
\* The first and the last are elements.
LEMMA EndsAreElements ==
  ASSUME NEW S, NEW s \in Seq(S), s # <<>>
  PROVE  Head(s) \in ToSet(s) /\ Last(s) \in ToSet(s) /\ Len(s) >= 1
<1>1. Len(s) \in Nat /\ Len(s) # 0
  BY EmptySeq
<1>2. DOMAIN s = 1..Len(s) /\ 1 \in 1..Len(s) /\ Len(s) \in 1..Len(s)
  BY <1>1, LenProperties
<1>3. Head(s) = s[1] /\ Last(s) = s[Len(s)]
  BY DEF Last
<1>4. QED
  BY <1>1, <1>2, <1>3 DEF ToSet

(* The first file that a name matches.                                     *)
LEMMA PositionIs ==
  ASSUME NEW name, NEW S, mem \in Seq(S), Matching(name) # {}
  PROVE  Position(name) \in DOMAIN mem
<1>1. Matching(name) \subseteq DOMAIN mem
  BY DEF Matching
<1>2. DOMAIN mem \subseteq Nat
  BY LenProperties
<1>3. Matching(name) \subseteq Nat
  BY <1>1, <1>2
<1>4. \E i \in Matching(name) : \A j \in Matching(name) : i <= j
  BY <1>3, Deleting!LeastNat
<1>5. Position(name) \in Matching(name)
  BY <1>4 DEF Position
<1>6. QED
  BY <1>1, <1>5

-----------------------------------------------------------------------------
(* Gathering what is not named.                                            *)

KeptFrom(list) ==
  LET keep(s, i) == IF i \in list.named THEN s ELSE Append(s, list.m[i])
  IN  FoldLeft(keep, <<>>, [i \in DOMAIN list.m |-> i])

LEMMA KeptFromIs ==
  ASSUME NEW n \in Nat, NEW list, DOMAIN list.m = 1..n
  PROVE  \E k : /\ k[0] = <<>>
                /\ \A i \in 1..n : k[i] = KeepStep(list, k[i - 1], i)
                /\ KeptFrom(list) = k[n]
<1> DEFINE q == [i \in 1..n |-> i]
<1>1. q = [i \in DOMAIN list.m |-> i] /\ DOMAIN q = 1..n
  OBVIOUS
<1>2. KeptFrom(list) = Keeping!Fold(list, n, q, <<>>)
  BY <1>1 DEF KeptFrom, KeepStep, FoldLeft, MapThenFoldSet, Max, Keeping!Fold
<1>3. \A i \in 1..n : q[i] = i
  OBVIOUS
<1> HIDE DEF q
<1>4. PICK k : Keeping!Iterates(k, list, n, q, <<>>) /\ k[n] = Keeping!Fold(list, n, q, <<>>)
  BY Keeping!FoldLeftIs
<1>5. k[0] = <<>> /\ \A i \in 1..n : k[i] = KeepStep(list, k[i - 1], i)
  BY <1>3, <1>4 DEF Keeping!Iterates
<1>6. QED
  BY <1>2, <1>4, <1>5
=============================================================================
