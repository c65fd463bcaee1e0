------------------------------ MODULE Folding -------------------------------
(***************************************************************************)
(* What FoldLeft computes, for an operator op that may depend on a context *)
(* as well.  Theorems cannot be given an operator, but a module can: a     *)
(* module of proofs takes an instance of this one for each operation that  *)
(* it has a FoldLeft of.                                                   *)
(*                                                                         *)
(* FoldLeft is defined by a recursion over subsets of the indices.  That   *)
(* there is a function which satisfies it is shown by induction.           *)
(***************************************************************************)
EXTENDS Integers, WellFoundedInduction, TLAPS

CONSTANT op(_, _, _)

-----------------------------------------------------------------------------
(* Induction, for sets in place of predicates.                             *)

\* A set of naturals that is not empty has a least element.
LEMMA LeastNat ==
  ASSUME NEW T, T \subseteq Nat, T # {}
  PROVE  \E n \in T : \A m \in T : n <= m
<1> DEFINE R == OpToRel(<, Nat)
<1>1. IsWellFoundedOn(R, Nat)
  BY NatLessThanWellFounded, Zenon
<1>2. \A m, k \in Nat : m < k => <<m, k>> \in R
  BY DEF OpToRel
<1> HIDE DEF R
<1>3. PICK n \in T : \A m \in T : ~(<<m, n>> \in R)
  BY <1>1, WFMin
<1>4. \A m \in T : ~(m < n)
  BY <1>2, <1>3
<1>5. QED
  BY <1>4

\* A set that has 0 and the successors of its elements has all naturals.
LEMMA Induction ==
  ASSUME NEW S, 0 \in S, \A n \in Nat : n \in S => n + 1 \in S
  PROVE  Nat \subseteq S
<1> SUFFICES ASSUME Nat \ S # {} PROVE FALSE
  OBVIOUS
<1>1. PICK n \in Nat \ S : \A m \in Nat \ S : n <= m
  BY LeastNat
<1>2. n # 0 /\ n - 1 \in Nat
  BY <1>1
<1>3. n - 1 \in S
  BY <1>1, <1>2
<1>4. QED
  BY <1>2, <1>3

-----------------------------------------------------------------------------
(* The index that FoldLeft takes last.                                     *)

Largest(s) == CHOOSE x \in s : \A y \in s : x >= y

\* An element that no other exceeds is it.
LEMMA LargestIs ==
  ASSUME NEW n \in Nat, NEW s \in SUBSET (1..n), NEW m \in s, \A y \in s : m >= y
  PROVE  Largest(s) = m
<1>1. Largest(s) \in s /\ \A y \in s : Largest(s) >= y
  BY DEF Largest
<1>2. Largest(s) >= m /\ m >= Largest(s)
  BY <1>1
<1> HIDE DEF Largest
<1>3. m \in Int /\ Largest(s) \in Int
  <2>1. \A y \in s : y \in Int
    OBVIOUS
  <2>2. QED
    BY <1>1, <2>1
<1>4. QED
  BY <1>2, <1>3

-----------------------------------------------------------------------------
(* The recursion has a solution.                                           *)

Unfolds(f, ctx, n, q, base) ==
  f = [s \in SUBSET (1..n) |-> IF s = {} THEN base
         ELSE op(ctx, f[s \ {Largest(s)}], q[Largest(s)])]

\* A solution for k indices is extended by one.
LEMMA FoldGrows ==
  ASSUME NEW ctx, NEW q, NEW base, NEW k \in Nat, NEW f, Unfolds(f, ctx, k, q, base)
  PROVE  \E h : Unfolds(h, ctx, k + 1, q, base)
<1> DEFINE h == [s \in SUBSET (1..(k+1)) |-> IF k + 1 \notin s THEN f[s]
                       ELSE op(ctx, f[s \ {k+1}], q[k+1])]
<1>2. ASSUME NEW s \in SUBSET (1..(k+1))
      PROVE  h[s] = IF s = {} THEN base ELSE op(ctx, h[s \ {Largest(s)}], q[Largest(s)])
  <2>1. CASE s = {}
    <3>1. s \in SUBSET (1..k)
      BY <2>1
    <3>2. QED
      BY <2>1, <3>1 DEF Unfolds
  <2>2. CASE k + 1 \in s
    <3>0. \A y \in s : k + 1 >= y
      OBVIOUS
    <3>1. Largest(s) = k + 1
      BY <2>2, <3>0, LargestIs
    <3>2. s \ {k + 1} \in SUBSET (1..(k+1)) /\ k + 1 \notin s \ {k + 1}
      OBVIOUS
    <3>3. h[s \ {k + 1}] = f[s \ {k + 1}]
      BY <3>2
    <3>4. s # {}
      BY <2>2
    <3>5. QED
      BY <2>2, <3>1, <3>3, <3>4
  <2>3. CASE s # {} /\ k + 1 \notin s
    <3>1. s \in SUBSET (1..k)
      BY <2>3
    <3>2. s \ {Largest(s)} \in SUBSET (1..k)
      BY <3>1
    <3>3. h[s] = f[s] /\ h[s \ {Largest(s)}] = f[s \ {Largest(s)}]
      BY <2>3, <3>2
    <3>4. f[s] = op(ctx, f[s \ {Largest(s)}], q[Largest(s)])
      BY <2>3, <3>1 DEF Unfolds
    <3>5. QED
      BY <2>3, <3>3, <3>4
  <2>4. QED
    BY <2>1, <2>2, <2>3
<1>3. h = [s \in SUBSET (1..(k+1)) |-> h[s]]
  OBVIOUS
<1> HIDE DEF h
<1>4. QED
  BY <1>2, <1>3, Zenon DEF Unfolds

\* There is a solution for any number of indices.
LEMMA FoldExists ==
  ASSUME NEW ctx, NEW n \in Nat, NEW q, NEW base
  PROVE  \E f : Unfolds(f, ctx, n, q, base)
<1> DEFINE S == {k \in Nat : \E f : Unfolds(f, ctx, k, q, base)}
<1>1. 0 \in S
  <2> DEFINE f == [s \in SUBSET (1..0) |-> base]
  <2>1. \A s \in SUBSET (1..0) : s = {}
    OBVIOUS
  <2>2. Unfolds(f, ctx, 0, q, base)
    BY <2>1 DEF Unfolds
  <2> HIDE DEF f
  <2>3. QED
    BY <2>2
<1>2. ASSUME NEW k \in Nat, k \in S PROVE k + 1 \in S
  BY <1>2, FoldGrows
<1>3. n \in S
  <2> HIDE DEF S
  <2> QED BY <1>1, <1>2, Induction
<1>4. QED
  BY <1>3

-----------------------------------------------------------------------------
(* FoldLeft is iteration.                                                  *)

\* FoldLeft over q, whose length is n, with its definition expanded.
Fold(ctx, n, q, base) ==
  LET iter[s \in SUBSET (1..n)] ==
        IF s = {} THEN base
        ELSE LET x == CHOOSE x \in s : \A y \in s : x >= y
             IN  op(ctx, iter[s \ {x}], q[x])
  IN  iter[1..n]

\* g[i] is what the first i elements make of the base.
Iterates(g, ctx, n, q, base) ==
  /\ g[0] = base
  /\ \A i \in 1..n : g[i] = op(ctx, g[i - 1], q[i])

(* For every operation, sequence and base: FoldLeft is the last of the     *)
(* results of applying the operation to one element after the other.       *)
THEOREM FoldLeftIs ==
  ASSUME NEW ctx, NEW n \in Nat, NEW q, NEW base
  PROVE  \E g : Iterates(g, ctx, n, q, base) /\ g[n] = Fold(ctx, n, q, base)
<1> DEFINE iter == CHOOSE f : Unfolds(f, ctx, n, q, base)
           g == [i \in 0..n |-> iter[1..i]]
<1>1. iter = [s \in SUBSET (1..n) |-> IF s = {} THEN base
                ELSE op(ctx, iter[s \ {Largest(s)}], q[Largest(s)])]
  <2>1. Unfolds(iter, ctx, n, q, base)
    BY FoldExists
  <2> HIDE DEF iter
  <2> QED BY <2>1 DEF Unfolds
<1>2. g[n] = Fold(ctx, n, q, base)
  BY DEF Unfolds, Largest, Fold
<1> HIDE DEF iter
<1>3. g[0] = base
  <2>1. 1..0 = {} /\ {} \in SUBSET (1..n)
    OBVIOUS
  <2>2. iter[{}] = base
    BY <1>1
  <2>3. QED
    BY <2>1, <2>2
<1>4. ASSUME NEW i \in 1..n PROVE g[i] = op(ctx, g[i - 1], q[i])
  <2>1. Largest(1..i) = i
    <3>1. i \in Nat /\ i \in 1..i /\ \A y \in 1..i : i >= y
      OBVIOUS
    <3>2. QED
      BY <3>1, LargestIs
  <2>2. (1..i) \ {i} = 1..(i - 1)
    OBVIOUS
  <2>3. 1..i \in SUBSET (1..n) /\ 1..i # {}
    OBVIOUS
  <2>4. iter[1..i] = op(ctx, iter[1..(i - 1)], q[i])
    BY <1>1, <2>1, <2>2, <2>3
  <2>5. QED
    BY <2>4
<1> HIDE DEF g
<1>5. Iterates(g, ctx, n, q, base)
  BY <1>3, <1>4 DEF Iterates
<1>6. QED
  BY <1>2, <1>5
=============================================================================
