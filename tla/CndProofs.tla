----------------------------- MODULE CndProofs ------------------------------
(***************************************************************************)
(* Facts about macro texts and the searches in them, and what the handlers *)
(* of the conditional commands do to the types of their state, for all     *)
(* texts and limits: lemmas for the theorems of MacroRun and of MacroExec. *)
(***************************************************************************)
EXTENDS Cnd, Structure, FiniteSetTheorems, WellFoundedInduction, TLAPS

-----------------------------------------------------------------------------
(* Least elements.  They stand in for induction over line numbers. *)

\* A set of naturals that is not empty has a least element.
LEMMA LeastExists ==
  ASSUME NEW T \in SUBSET Nat, T # {}
  PROVE  \E m \in T : \A k \in T : m =< k
<1> DEFINE Below(k) == {i \in Nat : i < k}
           Cuts == {Below(k) : k \in T}
<1>1. Cuts \subseteq FiniteSubsetsOf(Nat) /\ Cuts # {}
  <2>1. ASSUME NEW k \in T PROVE Below(k) \in FiniteSubsetsOf(Nat)
    <3>1. Below(k) \in SUBSET Nat /\ \A i \in Below(k) : i =< k
      OBVIOUS
    <3>2. IsFiniteSet(Below(k))
      BY <3>1, FS_BoundedSetOfNaturals
    <3> QED BY <3>1, <3>2 DEF FiniteSubsetsOf
  <2> QED BY <2>1
<1>2. PICK c \in Cuts : \A d \in Cuts : <<d, c>> \notin StrictSubsetOrdering(Nat)
  BY <1>1, FS_StrictSubsetOrderingWellFounded, WFMin, Zenon
<1>3. PICK m \in T : c = Below(m)
  OBVIOUS
<1>4. ASSUME NEW k \in T, k < m PROVE FALSE
  <2>1. k \in Below(m) /\ k \notin Below(k)
    BY <1>4
  <2>2. Below(k) \subseteq Below(m) /\ Below(k) # Below(m)
    BY <2>1, <1>4
  <2>3. Below(k) \in SUBSET Nat /\ Below(m) \in SUBSET Nat
    OBVIOUS
  <2>4. <<Below(k), Below(m)>> \in StrictSubsetOrdering(Nat)
    BY <2>2, <2>3 DEF StrictSubsetOrdering
  <2> QED BY <2>4, <1>2, <1>3
<1> QED
  BY <1>4

\* Least finds it.
LEMMA LeastIsLeast ==
  ASSUME NEW T \in SUBSET Nat, T # {}
  PROVE  Least(T) \in T /\ \A k \in T : Least(T) =< k
BY LeastExists DEF Least

-----------------------------------------------------------------------------
(* The searches. *)

\* The lines a search counts are finite in number.
LEMMA SeenType ==
  ASSUME NEW t, NEW i \in Int, NEW j \in Int, NEW words
  PROVE  /\ IsFiniteSet(Seen(t, i, j, words))
         /\ Cardinality(Seen(t, i, j, words)) \in Nat
<1>1. IsFiniteSet((i + 1)..j)
  BY FS_Interval
<1>2. Seen(t, i, j, words) \in SUBSET ((i + 1)..j)
  BY DEF Seen
<1> QED
  BY <1>1, <1>2, FS_Subset, FS_CardinalityType

\* The searches' counters are integers.
LEMMA NumType ==
  ASSUME NEW t, NEW i \in Int, NEW j \in Int
  PROVE  NumDos(t, i, j) \in Int /\ NumIfs(t, i, j) \in Int
BY SeenType DEF NumDos, NumIfs

\* A search for ENDDO (getdolen, skipdo) that finds an end stops at the first
\* one there is, after the line it began at.
LEMMA EndDoType ==
  ASSUME NEW t, Len(t) \in Nat, NEW i \in Nat, DoEnds(t, i) # {}
  PROVE  /\ EndDo(t, i) \in DoEnds(t, i) /\ EndDo(t, i) \in (i + 1)..Len(t)
         /\ \A k \in DoEnds(t, i) : EndDo(t, i) =< k
<1>1. DoEnds(t, i) \in SUBSET ((i + 1)..Len(t))
  BY DEF DoEnds
<1>2. DoEnds(t, i) \in SUBSET Nat
  BY <1>1
<1> QED
  BY <1>1, <1>2, LeastIsLeast DEF EndDo

\* So does a search for the next branch or ENDIF (skipif).
LEMMA EndIfType ==
  ASSUME NEW t, Len(t) \in Nat, NEW i \in Nat, IfEnds(t, i) # {}
  PROVE  /\ EndIf(t, i) \in IfEnds(t, i) /\ EndIf(t, i) \in (i + 1)..Len(t)
         /\ \A k \in IfEnds(t, i) : EndIf(t, i) =< k
<1>1. IfEnds(t, i) \in SUBSET ((i + 1)..Len(t))
  BY DEF IfEnds
<1>2. IfEnds(t, i) \in SUBSET Nat
  BY <1>1
<1> QED
  BY <1>1, <1>2, LeastIsLeast DEF EndIf

-----------------------------------------------------------------------------
(* Nesting depths. *)

\* The lines among the first n that hold a word: what one more line adds.
LEMMA LinesType ==
  ASSUME NEW t, NEW n \in Nat, NEW words
  PROVE  /\ IsFiniteSet(Lines(t, n, words))
         /\ Cardinality(Lines(t, n, words)) \in Nat
<1>1. IsFiniteSet(1..n)
  BY FS_Interval
<1>2. Lines(t, n, words) \in SUBSET (1..n)
  BY DEF Lines
<1> QED BY <1>1, <1>2, FS_Subset, FS_CardinalityType

LEMMA LinesStep ==
  ASSUME NEW t, NEW n \in Nat \ {0}, NEW words
  PROVE  Cardinality(Lines(t, n, words)) =
           Cardinality(Lines(t, n - 1, words)) + IF Is(t, n, words) THEN 1 ELSE 0
<1>1. n - 1 \in Nat /\ IsFiniteSet(Lines(t, n - 1, words))
  BY LinesType
<1>2. n \notin Lines(t, n - 1, words)
  BY DEF Lines
<1>3. CASE Is(t, n, words)
  <2>1. Lines(t, n, words) = Lines(t, n - 1, words) \cup {n}
    BY <1>3 DEF Lines
  <2> QED BY <1>1, <1>2, <1>3, <2>1, FS_AddElement
<1>4. CASE ~Is(t, n, words)
  <2>1. Lines(t, n, words) = Lines(t, n - 1, words)
    BY <1>4 DEF Lines
  <2>2. Cardinality(Lines(t, n - 1, words)) \in Nat
    BY <1>1, LinesType
  <2> QED BY <1>4, <2>1, <2>2
<1> QED BY <1>3, <1>4

\* A depth is a number; it is zero at the top of the text, and a line changes
\* it by one at most.
LEMMA DepthType ==
  ASSUME NEW t, NEW n \in Nat
  PROVE  IfDepth(t, n) \in Int /\ DoDepth(t, n) \in Int
BY LinesType DEF IfDepth, DoDepth

\* Nothing is open before the first line.
LEMMA DepthAtTop ==
  ASSUME NEW t
  PROVE  IfDepth(t, 0) = 0 /\ DoDepth(t, 0) = 0
<1>1. \A words : Lines(t, 0, words) = {}
  BY DEF Lines
<1> QED BY <1>1, FS_EmptySet DEF IfDepth, DoDepth

LEMMA DepthStep ==
  ASSUME NEW t, NEW n \in Nat \ {0}
  PROVE  /\ IfDepth(t, n) = IfDepth(t, n - 1)
                              + (IF Is(t, n, IfWords) THEN 1
                                 ELSE IF Is(t, n, {"ENDIF"}) THEN -1 ELSE 0)
         /\ DoDepth(t, n) = DoDepth(t, n - 1)
                              + (IF Is(t, n, DoWords) THEN 1
                                 ELSE IF Is(t, n, {"ENDDO"}) THEN -1 ELSE 0)
<1>1. n - 1 \in Nat
  OBVIOUS
<1>2. \A words : /\ Cardinality(Lines(t, n - 1, words)) \in Nat
                 /\ Cardinality(Lines(t, n, words)) =
                      Cardinality(Lines(t, n - 1, words))
                        + IF Is(t, n, words) THEN 1 ELSE 0
  BY <1>1, LinesType, LinesStep
<1>3. /\ ~(Is(t, n, IfWords) /\ Is(t, n, {"ENDIF"}))
      /\ ~(Is(t, n, DoWords) /\ Is(t, n, {"ENDDO"}))
  BY DEF Is, IfWords, DoWords
<1> QED BY <1>2, <1>3 DEF IfDepth, DoDepth

\* Where a number that falls by one at most at a time first gets below where it
\* was.
LEMMA FirstFall ==
  ASSUME NEW f \in [Nat -> Int], NEW i \in Nat, NEW n \in Nat, i < n,
         \A k \in (i + 1)..n : f[k] >= f[k - 1] - 1,
         f[n] < f[i]
  PROVE  \E e \in (i + 1)..n : /\ f[e] = f[i] - 1 /\ f[e - 1] = f[i]
                               /\ \A k \in i..(e - 1) : f[k] >= f[i]
<1> DEFINE T == {k \in (i + 1)..n : f[k] < f[i]}
<1>1. T \in SUBSET Nat /\ n \in T
  OBVIOUS
<1>2. PICK e \in T : \A k \in T : e =< k
  BY <1>1, LeastExists
<1>3. e \in (i + 1)..n /\ f[e] < f[i] /\ e - 1 \in Nat
  OBVIOUS
<1>4. ASSUME NEW k \in i..(e - 1) PROVE f[k] >= f[i]
  <2>1. k = i \/ k \in (i + 1)..n
    BY <1>3
  <2>2. k \in Nat /\ ~(e =< k)
    BY <1>3
  <2>3. k \notin T
    BY <1>2, <2>2
  <2> QED BY <2>1, <2>2, <2>3
<1>5. f[e - 1] >= f[i] /\ f[e] >= f[e - 1] - 1 /\ f[e] \in Int /\ f[e - 1] \in Int
  BY <1>3, <1>4
<1> QED BY <1>3, <1>4, <1>5

-----------------------------------------------------------------------------
(* The searches in texts without misleading lines. *)

\* The scanners take every line for what it is.
LEMMA ScansPlain ==
  ASSUME NEW t, Plain(t), Len(t) \in Nat, NEW i \in Nat, NEW j \in (i + 1)..Len(t)
  PROVE  ScansAs(t, i, j) = First(t[j])
<1>1. First(t[j]) # "IFFT"
  BY DEF Plain, Is
<1>2. ASSUME First(t[j]) = "W", NEW k \in (i + 1)..(j - 1), First(t[k]) = "WHILE",
             \A m \in (k + 1)..(j - 1) : First(t[m]) = "W"
      PROVE  FALSE
  <2>1. First(t[j - 1]) \in {"W", "WHILE"}
    <3>1. CASE k = j - 1
      BY <1>2, <3>1
    <3>2. CASE k # j - 1
      <4>1. j - 1 \in (k + 1)..(j - 1)
        BY <3>2
      <4> QED BY <1>2, <4>1
    <3> QED BY <3>1, <3>2
  <2>2. j \in 1..Len(t) /\ j # 1
    OBVIOUS
  <2> QED BY <1>2, <2>1, <2>2 DEF Plain, Is
<1> QED BY <1>1, <1>2 DEF ScansAs

\* So their counters say by how much the depth has changed.
LEMMA SeenAdds ==
  ASSUME NEW t, Plain(t), Len(t) \in Nat, NEW i \in Nat, NEW j \in i..Len(t), NEW words
  PROVE  Cardinality(Seen(t, i, j, words)) =
           Cardinality(Lines(t, j, words)) - Cardinality(Lines(t, i, words))
<1> DEFINE S == Seen(t, i, j, words)
           L == Lines(t, i, words)
<1>1. \A k \in (i + 1)..j : ScansAs(t, i, k) = First(t[k])
  BY ScansPlain
<1>2. S = {k \in (i + 1)..j : Is(t, k, words)}
  BY <1>1 DEF Seen, Is
<1>3. Lines(t, j, words) = L \cup S /\ L \cap S = {}
  BY <1>2 DEF Lines
<1>4. IsFiniteSet(S) /\ IsFiniteSet(L)
  BY SeenType, LinesType
<1>5. Cardinality(L \cup S) = Cardinality(L) + Cardinality(S) - Cardinality(L \cap S)
  BY <1>4, FS_Union
<1>6. Cardinality(L) \in Nat /\ Cardinality(S) \in Nat /\ Cardinality({}) = 0
  BY SeenType, LinesType, FS_EmptySet
<1>7. Cardinality(Lines(t, j, words)) = Cardinality(L) + Cardinality(S) - Cardinality({})
  BY <1>3, <1>5, Zenon
<1> QED BY <1>6, <1>7

\* The counters are differences of depths.
LEMMA NumIsDepth ==
  ASSUME NEW t, Plain(t), Len(t) \in Nat, NEW i \in Nat, NEW j \in i..Len(t)
  PROVE  /\ NumDos(t, i, j) = DoDepth(t, j) - DoDepth(t, i)
         /\ NumIfs(t, i, j) = IfDepth(t, j) - IfDepth(t, i)
<1>1. j \in Nat /\ i \in Int /\ j \in Int
  OBVIOUS
<1>2. \A words : /\ Cardinality(Lines(t, j, words)) \in Nat
                 /\ Cardinality(Lines(t, i, words)) \in Nat
                 /\ Cardinality(Seen(t, i, j, words)) =
                      Cardinality(Lines(t, j, words)) - Cardinality(Lines(t, i, words))
  BY <1>1, LinesType, SeenAdds
<1> QED BY <1>2 DEF NumDos, NumIfs, DoDepth, IfDepth

\* Where depths are searched: the first line at which one of them falls.
LEMMA DepthFalls ==
  ASSUME NEW t, NEW i \in Nat, NEW n \in Nat, i < n, DoDepth(t, n) < DoDepth(t, i)
  PROVE  \E e \in (i + 1)..n : /\ DoDepth(t, e) = DoDepth(t, i) - 1
                               /\ Is(t, e, {"ENDDO"})
                               /\ \A k \in i..(e - 1) : DoDepth(t, k) >= DoDepth(t, i)
<1> DEFINE f == [k \in Nat |-> DoDepth(t, k)]
<1>1. f \in [Nat -> Int]
  BY DepthType
<1>2. \A k \in (i + 1)..n : f[k] >= f[k - 1] - 1
  <2> SUFFICES ASSUME NEW k \in (i + 1)..n PROVE f[k] >= f[k - 1] - 1
    OBVIOUS
  <2>1. k \in Nat \ {0} /\ k - 1 \in Nat
    OBVIOUS
  <2> QED BY <2>1, DepthStep, DepthType
<1>3. f[n] < f[i]
  OBVIOUS
<1> HIDE DEF f
<1>4. PICK e \in (i + 1)..n : /\ f[e] = f[i] - 1 /\ f[e - 1] = f[i]
                              /\ \A k \in i..(e - 1) : f[k] >= f[i]
  BY <1>1, <1>2, <1>3, FirstFall
<1>5. e \in Nat \ {0} /\ e - 1 \in Nat
  OBVIOUS
<1>6. DoDepth(t, e) = DoDepth(t, i) - 1 /\ DoDepth(t, e - 1) = DoDepth(t, i)
  BY <1>4, <1>5 DEF f
<1>7. Is(t, e, {"ENDDO"})
  BY <1>5, <1>6, DepthStep, DepthType
<1>8. \A k \in i..(e - 1) : DoDepth(t, k) >= DoDepth(t, i)
  <2>1. \A k \in i..(e - 1) : k \in Nat
    OBVIOUS
  <2> QED BY <1>4, <2>1 DEF f
<1> QED BY <1>6, <1>7, <1>8

\* A search for ENDDO (getdolen, skipdo) stops where the depth of loops first
\* gets below what it was.
LEMMA SearchForEnddo ==
  ASSUME NEW t, Plain(t), Len(t) \in Nat, NEW i \in Nat, NEW n \in (i + 1)..Len(t),
         DoDepth(t, n) < DoDepth(t, i)
  PROVE  /\ DoEnds(t, i) # {}
         /\ EndDo(t, i) \in (i + 1)..n
         /\ DoDepth(t, EndDo(t, i)) = DoDepth(t, i) - 1
         /\ \A k \in i..(EndDo(t, i) - 1) : DoDepth(t, k) >= DoDepth(t, i)
<1>1. n \in Nat /\ i < n
  OBVIOUS
<1>2. PICK e \in (i + 1)..n : /\ DoDepth(t, e) = DoDepth(t, i) - 1
                              /\ Is(t, e, {"ENDDO"})
                              /\ \A k \in i..(e - 1) : DoDepth(t, k) >= DoDepth(t, i)
  BY <1>1, DepthFalls
<1>3. \A k \in (i + 1)..Len(t) : /\ NumDos(t, i, k) = DoDepth(t, k) - DoDepth(t, i)
                                 /\ ScansAs(t, i, k) = First(t[k])
                                 /\ DoDepth(t, k) \in Int /\ DoDepth(t, i) \in Int
  <2> SUFFICES ASSUME NEW k \in (i + 1)..Len(t)
               PROVE  /\ NumDos(t, i, k) = DoDepth(t, k) - DoDepth(t, i)
                      /\ ScansAs(t, i, k) = First(t[k])
                      /\ DoDepth(t, k) \in Int /\ DoDepth(t, i) \in Int
    OBVIOUS
  <2>1. k \in i..Len(t) /\ k \in Nat
    OBVIOUS
  <2> QED BY <2>1, NumIsDepth, ScansPlain, DepthType
<1>4. e \in DoEnds(t, i)
  BY <1>2, <1>3 DEF DoEnds, Is
<1>5. \A k \in DoEnds(t, i) : e =< k
  <2> SUFFICES ASSUME NEW k \in (i + 1)..Len(t), k < e, NumDos(t, i, k) < 0 PROVE FALSE
    BY DEF DoEnds
  <2>1. k \in i..(e - 1)
    OBVIOUS
  <2> QED BY <1>2, <1>3, <2>1
<1>6. EndDo(t, i) = e
  <2>1. EndDo(t, i) \in DoEnds(t, i) /\ EndDo(t, i) =< e /\ EndDo(t, i) \in (i + 1)..Len(t)
    BY <1>4, EndDoType
  <2> QED BY <1>5, <2>1
<1> QED BY <1>2, <1>4, <1>6
-----------------------------------------------------------------------------
(* Clauses and loops of well-formed texts. *)

\* Line i begins a branch of the IF clause from line a to line b.
Begins(t, i, a, b) == MatchIf(t, a, b) /\ (i = a \/ BranchOf(t, i, a, b))

\* The depths in a clause, or in a loop, are those of its first line at least,
\* and where the next of its lines stands they are just that.
LEMMA BalancedDepths ==
  ASSUME NEW t, NEW a \in Nat, NEW b \in Nat, a =< b, Balanced(t, a + 1, b)
  PROVE  /\ \A k \in a..b : /\ IfDepth(t, k) >= IfDepth(t, a)
                            /\ DoDepth(t, k) >= DoDepth(t, a)
         /\ IfDepth(t, b) = IfDepth(t, a) /\ DoDepth(t, b) = DoDepth(t, a)
<1>1. (a + 1) - 1 = a
  OBVIOUS
<1>2. \A k \in a..b : k = a \/ k \in (a + 1)..b
  OBVIOUS
<1>3. IfDepth(t, a) \in Int /\ DoDepth(t, a) \in Int
  BY DepthType
<1> QED BY <1>1, <1>2, <1>3 DEF Balanced

LEMMA ClauseDepths ==
  ASSUME NEW t, NEW a \in Nat, NEW b \in Nat, MatchIf(t, a, b)
  PROVE  /\ a < b /\ b - 1 \in Nat
         /\ \A k \in a..(b - 1) : /\ IfDepth(t, k) >= IfDepth(t, a)
                                  /\ DoDepth(t, k) >= DoDepth(t, a)
         /\ IfDepth(t, b - 1) = IfDepth(t, a) /\ DoDepth(t, b - 1) = DoDepth(t, a)
         /\ IfDepth(t, b) = IfDepth(t, a) - 1
<1>1. a < b /\ b - 1 \in Nat /\ a =< b - 1 /\ b \in Nat \ {0} /\ Balanced(t, a + 1, b - 1)
      /\ Is(t, b, {"ENDIF"}) /\ ~Is(t, b, IfWords)
  BY DEF MatchIf, Is, IfWords
<1>2. IfDepth(t, b) = IfDepth(t, b - 1) - 1
  BY <1>1, DepthStep, DepthType
<1> QED BY <1>1, <1>2, BalancedDepths

LEMMA BranchDepths ==
  ASSUME NEW t, NEW a \in Nat, NEW b \in Nat, NEW i \in Nat, Begins(t, i, a, b)
  PROVE  /\ i \in a..(b - 1)
         /\ IfDepth(t, i) = IfDepth(t, a) /\ DoDepth(t, i) = DoDepth(t, a)
<1>1. CASE i = a
  BY <1>1, ClauseDepths DEF Begins
<1>2. CASE BranchOf(t, i, a, b)
  <2>1. i \in (a + 1)..(b - 1) /\ Is(t, i, Branches) /\ Balanced(t, a + 1, i - 1)
    BY <1>2 DEF BranchOf
  <2>2. i \in Nat \ {0} /\ i - 1 \in Nat /\ a =< i - 1
    BY <2>1
  <2>3. IfDepth(t, i - 1) = IfDepth(t, a) /\ DoDepth(t, i - 1) = DoDepth(t, a)
    BY <2>1, <2>2, BalancedDepths
  <2>4. ~Is(t, i, IfWords) /\ ~Is(t, i, {"ENDIF"}) /\ ~Is(t, i, DoWords) /\ ~Is(t, i, {"ENDDO"})
    BY <2>1 DEF Is, Branches, IfWords, DoWords
  <2> QED BY <2>1, <2>2, <2>3, <2>4, DepthStep, DepthType
<1> QED BY <1>1, <1>2 DEF Begins

\* A line of the clause's depth inside of it that is a branch is one of its
\* branches, and has no other clause.
LEMMA BranchHasClause ==
  ASSUME NEW t, WellFormed(t), Len(t) \in Nat, NEW a \in 1..Len(t), NEW b \in 1..Len(t),
         MatchIf(t, a, b), NEW m \in (a + 1)..(b - 1), Is(t, m, Branches),
         IfDepth(t, m) = IfDepth(t, a)
  PROVE  BranchOf(t, m, a, b)
<1> DEFINE D == IfDepth(t, a)
<1>1. PICK c \in 1..Len(t), d \in 1..Len(t) : BranchOf(t, m, c, d)
  BY DEF WellFormed
<1>2. /\ MatchIf(t, c, d) /\ m \in (c + 1)..(d - 1) /\ Balanced(t, c + 1, m - 1)
      /\ Is(t, c, IfWords) /\ Is(t, a, IfWords) /\ a \in Nat /\ b \in Nat /\ c \in Nat /\ d \in Nat
      /\ m \in Nat
  BY <1>1 DEF BranchOf, MatchIf
<1>3. Begins(t, m, c, d)
  BY <1>1, <1>2 DEF Begins
<1>4. IfDepth(t, c) = D /\ D \in Int
  BY <1>2, <1>3, BranchDepths, DepthType
<1>5. /\ a - 1 \in Nat /\ c - 1 \in Nat /\ a \in Nat \ {0} /\ c \in Nat \ {0}
      /\ IfDepth(t, a - 1) = D - 1 /\ IfDepth(t, c - 1) = D - 1
  <2>1. a - 1 \in Nat /\ c - 1 \in Nat /\ a \in Nat \ {0} /\ c \in Nat \ {0}
    OBVIOUS
  <2>2. IfDepth(t, a) = IfDepth(t, a - 1) + 1 /\ IfDepth(t, c) = IfDepth(t, c - 1) + 1
    BY <1>2, <2>1, DepthStep
  <2> QED BY <1>4, <2>1, <2>2, DepthType
<1>6. /\ \A k \in a..(b - 1) : IfDepth(t, k) >= D
      /\ \A k \in c..(d - 1) : IfDepth(t, k) >= D
      /\ IfDepth(t, b) = D - 1 /\ IfDepth(t, d) = D - 1
  BY <1>2, <1>4, ClauseDepths
<1>7. c = a
  <2>1. CASE c > a
    <3>1. c - 1 \in a..(b - 1)
      BY <1>2, <2>1
    <3> QED BY <1>4, <1>5, <1>6, <3>1
  <2>2. CASE c < a
    <3>1. a - 1 \in c..(d - 1)
      BY <1>2, <2>2
    <3> QED BY <1>4, <1>5, <1>6, <3>1
  <2> QED BY <1>2, <2>1, <2>2
<1>8. d = b
  <2>1. CASE d < b
    <3>1. d \in a..(b - 1)
      BY <1>2, <1>7, <2>1
    <3> QED BY <1>4, <1>6, <3>1
  <2>2. CASE b < d
    <3>1. b \in c..(d - 1)
      BY <1>2, <1>7, <2>2
    <3> QED BY <1>4, <1>6, <3>1
  <2> QED BY <1>2, <2>1, <2>2
<1> QED BY <1>1, <1>7, <1>8

\* From a line that begins a branch, skipif stops before the next branch of the
\* same clause or its ENDIF, at the depths that it set out from.
LEMMA SearchForBranch ==
  ASSUME NEW t, WellFormed(t), Plain(t), Len(t) \in Nat,
         NEW a \in 1..Len(t), NEW b \in 1..Len(t), NEW i \in 1..Len(t), Begins(t, i, a, b)
  PROVE  /\ IfEnds(t, i) # {}
         /\ EndIf(t, i) \in (i + 1)..b
         /\ EndIf(t, i) = b \/ BranchOf(t, EndIf(t, i), a, b)
         /\ \A k \in (i + 1)..(EndIf(t, i) - 1) : ~BranchOf(t, k, a, b)
         /\ IfDepth(t, EndIf(t, i) - 1) = IfDepth(t, i)
         /\ DoDepth(t, EndIf(t, i) - 1) = DoDepth(t, i)
         /\ \A k \in i..(EndIf(t, i) - 1) : DoDepth(t, k) >= DoDepth(t, i)
<1> DEFINE D == IfDepth(t, a)
           m == EndIf(t, i)
<1>1. MatchIf(t, a, b) /\ a \in Nat /\ b \in Nat /\ i \in Nat /\ D \in Int
  BY DepthType DEF Begins
<1>2. /\ i \in a..(b - 1) /\ IfDepth(t, i) = D /\ DoDepth(t, i) = DoDepth(t, a)
  BY <1>1, BranchDepths
<1>3. /\ \A k \in a..(b - 1) : IfDepth(t, k) >= D /\ DoDepth(t, k) >= DoDepth(t, a)
      /\ IfDepth(t, b) = D - 1
      /\ IfDepth(t, b - 1) = D /\ DoDepth(t, b - 1) = DoDepth(t, a)
  BY <1>1, ClauseDepths
<1>4. \A k \in (i + 1)..Len(t) : /\ NumIfs(t, i, k) = IfDepth(t, k) - D
                                 /\ ScansAs(t, i, k) = First(t[k])
                                 /\ IfDepth(t, k) \in Int
  <2> SUFFICES ASSUME NEW k \in (i + 1)..Len(t)
               PROVE  /\ NumIfs(t, i, k) = IfDepth(t, k) - D
                      /\ ScansAs(t, i, k) = First(t[k])
                      /\ IfDepth(t, k) \in Int
    OBVIOUS
  <2>1. k \in i..Len(t) /\ k \in Nat
    BY <1>1
  <2> QED BY <1>1, <1>2, <2>1, NumIsDepth, ScansPlain, DepthType
<1>5. b \in IfEnds(t, i)
  <2>1. b \in (i + 1)..Len(t) /\ First(t[b]) = "ENDIF"
    BY <1>1, <1>2 DEF MatchIf, Is
  <2> QED BY <1>1, <1>3, <1>4, <2>1 DEF IfEnds
<1>6. m \in IfEnds(t, i) /\ m \in (i + 1)..Len(t) /\ m =< b /\ \A k \in IfEnds(t, i) : m =< k
  BY <1>1, <1>5, EndIfType
<1> HIDE DEF m
<1>7. m = b \/ BranchOf(t, m, a, b)
  <2>1. CASE m # b
    <3>1. m \in a..(b - 1) /\ m \in (a + 1)..(b - 1)
      BY <1>1, <1>2, <1>6, <2>1
    <3>2. IfDepth(t, m) >= D
      BY <1>3, <3>1
    <3>3. First(t[m]) \in Branches /\ IfDepth(t, m) - D < 1
      BY <1>1, <1>4, <1>6, <3>2 DEF IfEnds
    <3>4. IfDepth(t, m) = D
      BY <1>1, <1>4, <1>6, <3>2, <3>3
    <3> QED BY <1>1, <3>1, <3>3, <3>4, BranchHasClause DEF Is
  <2> QED BY <2>1
<1>8. IfDepth(t, m - 1) = D /\ DoDepth(t, m - 1) = DoDepth(t, a)
  <2>1. CASE BranchOf(t, m, a, b)
    <3>1. m - 1 \in Nat /\ a =< m - 1 /\ Balanced(t, a + 1, m - 1)
      BY <1>1, <2>1 DEF BranchOf
    <3> QED BY <1>1, <3>1, BalancedDepths
  <2> QED BY <1>3, <1>7, <2>1
<1>9. \A k \in i..(m - 1) : DoDepth(t, k) >= DoDepth(t, i)
  <2>1. \A k \in i..(m - 1) : k \in a..(b - 1)
    BY <1>1, <1>2, <1>6
  <2> QED BY <1>2, <1>3, <2>1
<1>10. ASSUME NEW k \in (i + 1)..(m - 1), BranchOf(t, k, a, b) PROVE FALSE
  <2>1. k \in Nat /\ k \in (i + 1)..Len(t) /\ ~(m =< k) /\ First(t[k]) \in Branches
    BY <1>1, <1>6, <1>10 DEF BranchOf, Is
  <2>2. IfDepth(t, k) = D
    BY <1>1, <1>10, <2>1, BranchDepths DEF Begins
  <2>3. k \in IfEnds(t, i)
    BY <1>1, <1>4, <2>1, <2>2 DEF IfEnds
  <2> QED BY <1>6, <2>1, <2>3
<1> QED BY <1>1, <1>2, <1>5, <1>6, <1>7, <1>8, <1>9, <1>10 DEF m
LEMMA LoopDepths ==
  ASSUME NEW t, NEW a \in Nat, NEW b \in Nat, MatchDo(t, a, b)
  PROVE  /\ a < b /\ b - 1 \in Nat
         /\ \A k \in a..(b - 1) : /\ IfDepth(t, k) >= IfDepth(t, a)
                                  /\ DoDepth(t, k) >= DoDepth(t, a)
         /\ IfDepth(t, b - 1) = IfDepth(t, a) /\ DoDepth(t, b - 1) = DoDepth(t, a)
         /\ DoDepth(t, b) = DoDepth(t, a) - 1
<1>1. a < b /\ b - 1 \in Nat /\ a =< b - 1 /\ b \in Nat \ {0} /\ Balanced(t, a + 1, b - 1)
      /\ Is(t, b, {"ENDDO"}) /\ ~Is(t, b, DoWords)
  BY DEF MatchDo, Is, DoWords
<1>2. DoDepth(t, b) = DoDepth(t, b - 1) - 1
  BY <1>1, DepthStep, DepthType
<1> QED BY <1>1, <1>2, BalancedDepths

\* A loop has one ENDDO: the one at which a search from its line stops.
LEMMA LoopEnds ==
  ASSUME NEW t, WellFormed(t), Plain(t), Len(t) \in Nat,
         NEW a \in 1..Len(t), NEW b \in 1..Len(t), MatchDo(t, a, b)
  PROVE  DoEnds(t, a) # {} /\ EndDo(t, a) = b /\ EndOf(t, a) = b
<1>1. \A c \in 1..Len(t) : MatchDo(t, a, c) => EndDo(t, a) = c /\ DoEnds(t, a) # {}
  <2> SUFFICES ASSUME NEW c \in 1..Len(t), MatchDo(t, a, c)
               PROVE  EndDo(t, a) = c /\ DoEnds(t, a) # {}
    OBVIOUS
  <2> DEFINE e == EndDo(t, a)
  <2>1. a \in Nat /\ c \in Nat /\ DoDepth(t, a) \in Int
    BY DepthType
  <2>2. /\ c \in (a + 1)..Len(t) /\ DoDepth(t, c) = DoDepth(t, a) - 1
        /\ \A k \in a..(c - 1) : DoDepth(t, k) >= DoDepth(t, a)
    BY <2>1, LoopDepths
  <2>3. DoDepth(t, c) < DoDepth(t, a)
    BY <2>1, <2>2
  <2>4. DoEnds(t, a) # {} /\ e \in (a + 1)..c /\ DoDepth(t, e) = DoDepth(t, a) - 1
    BY <2>1, <2>2, <2>3, SearchForEnddo
  <2>5. e \notin a..(c - 1)
    BY <2>1, <2>2, <2>4
  <2> QED BY <2>1, <2>4, <2>5
<1>2. ~\E c \in 1..Len(t) : MatchIf(t, a, c)
  BY DEF MatchIf, MatchDo, Is, IfWords, DoWords
<1>3. EndOf(t, a) \in 1..Len(t) /\ MatchDo(t, a, EndOf(t, a))
  BY <1>2 DEF EndOf
<1> QED BY <1>1, <1>3

\* The lines of a well-formed text are nowhere outside of all clauses, and at
\* its end none is open: from inside of a loop the search for ENDDO finds one.
LEMMA DepthsNatural ==
  ASSUME NEW t, WellFormed(t), Len(t) \in Nat, NEW k \in 0..Len(t)
  PROVE  IfDepth(t, k) \in Nat /\ DoDepth(t, k) \in Nat
<1>1. Balanced(t, 0 + 1, Len(t)) /\ 0 \in Nat /\ 0 =< Len(t)
  BY DEF WellFormed
<1>2. IfDepth(t, k) >= IfDepth(t, 0) /\ DoDepth(t, k) >= DoDepth(t, 0) /\ k \in Nat
  BY <1>1, BalancedDepths
<1> QED BY <1>2, DepthAtTop, DepthType

\* A line in a loop is followed by the end of that loop.
LEMMA OpenLoopEnds ==
  ASSUME NEW t, WellFormed(t), Plain(t), Len(t) \in Nat, NEW i \in 0..Len(t), DoDepth(t, i) > 0
  PROVE  /\ DoEnds(t, i) # {}
         /\ EndDo(t, i) \in (i + 1)..Len(t)
         /\ DoDepth(t, EndDo(t, i)) = DoDepth(t, i) - 1
         /\ \A k \in i..(EndDo(t, i) - 1) : DoDepth(t, k) >= DoDepth(t, i)
<1>1. Balanced(t, 0 + 1, Len(t)) /\ 0 \in Nat /\ 0 =< Len(t)
  BY DEF WellFormed
<1>2. DoDepth(t, Len(t)) = 0
  BY <1>1, BalancedDepths, DepthAtTop
<1>3. i \in Nat /\ Len(t) \in (i + 1)..Len(t) /\ DoDepth(t, Len(t)) < DoDepth(t, i)
  BY <1>2
<1> QED BY <1>3, SearchForEnddo

-----------------------------------------------------------------------------
(* Heights: the numbers of the lines where a number rises that stays up.   *)

\* The places where f has risen above what it was and not come down again by p.
Rises(f, p) == {k \in 1..p : f[k] > f[k - 1] /\ \A m \in k..p : f[m] >= f[k]}

\* A number that goes up or down by one at most at a time.
Steps(f, n) == f \in [Nat -> Int] /\ \A k \in 1..n : f[k] \in {f[k - 1] - 1, f[k - 1], f[k - 1] + 1}

\* A set that has 0 and the successors of its elements has all naturals.
LEMMA NaturalNumbers ==
  ASSUME NEW S, 0 \in S, \A n \in Nat : n \in S => n + 1 \in S
  PROVE  Nat \subseteq S
<1> SUFFICES ASSUME Nat \ S # {} PROVE FALSE
  OBVIOUS
<1>1. PICK n \in Nat \ S : \A k \in Nat \ S : n =< k
  BY LeastExists
<1>2. n - 1 \in Nat /\ (n - 1) + 1 = n /\ n - 1 < n
  OBVIOUS
<1>3. n - 1 \in S
  BY <1>1, <1>2
<1> QED BY <1>1, <1>2, <1>3

\* Where a number is above what it was, it has risen to there and stayed up.
LEMMA LastRise ==
  ASSUME NEW n \in Nat, NEW f, Steps(f, n), NEW d \in 0..n, NEW p \in d..n, f[p] > f[d]
  PROVE  \E k \in (d + 1)..p : k \in Rises(f, p) /\ f[k] = f[p]
<1> DEFINE T == {e \in Nat : p - e \in d..p /\ f[p - e] < f[p]}
<1>0. f \in [Nat -> Int] /\ p \in Nat /\ d \in Nat /\ f[p] \in Int /\ f[d] \in Int
  BY DEF Steps
<1>1. p - d \in T
  <2>1. p - d \in Nat /\ p - (p - d) = d
    BY <1>0
  <2>2. QED BY <1>0, <2>1
<1>2. T \in SUBSET Nat /\ T # {}
  BY <1>1
<1>3. PICK e \in T : \A x \in T : e =< x
  <2> HIDE DEF T
  <2> QED BY <1>2, LeastExists
<1>4. PICK j \in d..p : j = p - e /\ f[j] < f[p]
  OBVIOUS
<1>5. j \in Nat /\ f[j] \in Int /\ j # p /\ j < p
  BY <1>0, <1>4
<1>6. ASSUME NEW m \in (j + 1)..p PROVE f[m] >= f[p]
  <2>1. p - m \in Nat /\ p - (p - m) = m /\ p - m < e /\ m \in d..p /\ m \in Nat /\ e \in Nat
    BY <1>0, <1>4, <1>5
  <2>2. ~(p - m \in T)
    <3> HIDE DEF T
    <3> QED BY <1>3, <2>1
  <2>3. ~(f[p - (p - m)] < f[p])
    BY <2>1, <2>2
  <2>4. f[m] \in Int
    BY <1>0, <2>1
  <2> QED BY <1>0, <2>1, <2>3, <2>4
<1> DEFINE k == j + 1
<1>7. k \in (d + 1)..p /\ k \in 1..n /\ k - 1 = j /\ k \in Nat /\ f[k] \in Int
  BY <1>0, <1>5
<1>8. f[k] >= f[p] /\ f[k] =< f[j] + 1
  BY <1>6, <1>7, <1>5 DEF Steps
<1>9. f[k] = f[p] /\ f[k] > f[k - 1]
  BY <1>0, <1>4, <1>5, <1>7, <1>8
<1>10. k \in 1..p /\ \A m \in k..p : m \in (j + 1)..p
  BY <1>0, <1>5
<1>11. k \in Rises(f, p)
  BY <1>6, <1>9, <1>10 DEF Rises
<1> HIDE DEF k
<1> QED BY <1>7, <1>9, <1>11

\* There are as many rises above a place as the number is higher.
LEMMA RisesAbove ==
  ASSUME NEW n \in Nat, NEW f, Steps(f, n), NEW d \in 0..n, NEW p \in d..n,
         \A k \in d..p : f[k] >= f[d]
  PROVE  /\ IsFiniteSet({k \in Rises(f, p) : k > d})
         /\ Cardinality({k \in Rises(f, p) : k > d}) = f[p] - f[d]
<1> DEFINE S(q) == {k \in Rises(f, q) : k > d}
           Good(q) == /\ IsFiniteSet(S(q))
                      /\ Cardinality(S(q)) = f[q] - f[d]
           T == {q \in Nat : d + q =< p => Good(d + q)}
<1>0. f \in [Nat -> Int] /\ d \in Nat /\ p \in Nat /\ p =< n
  BY DEF Steps
<1>1. 0 \in T
  <2>1. S(d) = {}
    BY <1>0 DEF Rises
  <2>2. Good(d)
    <3> HIDE DEF S
    <3> QED BY <1>0, <2>1, FS_EmptySet
  <2>3. d + 0 = d
    BY <1>0
  <2> HIDE DEF Good
  <2> QED BY <2>2, <2>3
<1>2. ASSUME NEW q \in Nat, q \in T PROVE q + 1 \in T
  <2> SUFFICES ASSUME d + (q + 1) =< p PROVE Good(d + (q + 1))
    OBVIOUS
  <2>1. PICK e \in Nat : e = d + q
    BY <1>0
  <2>2. e + 1 = d + (q + 1) /\ e + 1 =< p /\ e =< p /\ d =< e /\ e + 1 \in Nat
    BY <1>0, <2>1
  <2>3. Good(e)
    BY <1>2, <2>1, <2>2
  <2>4. /\ f[e] \in Int /\ f[e + 1] \in Int /\ f[d] \in Int
        /\ f[e + 1] \in {f[e] - 1, f[e], f[e] + 1}
        /\ f[e + 1] >= f[d]
    <3>1. e + 1 \in 1..n /\ (e + 1) - 1 = e /\ e + 1 \in d..p
      BY <1>0, <2>2
    <3> QED BY <1>0, <2>2, <3>1 DEF Steps
  <2>5. \A k : k \in S(e) <=> k \in (d + 1)..e /\ f[k] > f[k - 1] /\ \A m \in k..e : f[m] >= f[k]
    BY <1>0, <2>2 DEF Rises
  <2>6. \A k : k \in S(e + 1) <=> k \in (d + 1)..(e + 1) /\ f[k] > f[k - 1] /\ \A m \in k..(e + 1) : f[m] >= f[k]
    BY <1>0, <2>2 DEF Rises
  <2>7. \A k \in (d + 1)..(e + 1) : k \in (d + 1)..e \/ k = e + 1
    BY <1>0, <2>2
  <2>8. \A k \in (d + 1)..e : \A m \in k..(e + 1) : m \in k..e \/ m = e + 1
    BY <1>0, <2>2
  <2>9. \A k \in (d + 1)..e : k \in (d + 1)..(e + 1) /\ e + 1 \in k..(e + 1) /\ k \in Nat /\ f[k] \in Int
    BY <1>0, <2>2
  <2>10. \A k \in (d + 1)..e : \A m \in k..e : m \in k..(e + 1)
    BY <1>0, <2>2
  <2>11. \A k \in (d + 1)..e : k \in S(e + 1) <=> k \in S(e) /\ f[e + 1] >= f[k]
    <3> HIDE DEF S
    <3> QED BY <2>5, <2>6, <2>8, <2>9, <2>10
  <2>12. S(e) \subseteq (d + 1)..e
    BY <2>5
  <2>13. S(e + 1) \subseteq (d + 1)..(e + 1)
    BY <2>6
  <2>14. \A k \in S(e) : f[e] >= f[k]
    <3>1. \A k \in (d + 1)..e : e \in k..e
      BY <1>0, <2>2
    <3> HIDE DEF S
    <3> QED BY <2>5, <2>12, <3>1
  <2>15. e + 1 \in S(e + 1) <=> f[e + 1] > f[e]
    <3>1. e + 1 \in (d + 1)..(e + 1) /\ (e + 1) - 1 = e
      BY <1>0, <2>2
    <3>2. \A m \in (e + 1)..(e + 1) : m = e + 1
      BY <2>2
    <3> HIDE DEF S
    <3> QED BY <2>4, <2>6, <3>1, <3>2
  <2>16. e + 1 \notin S(e)
    <3>1. e + 1 \notin (d + 1)..e
      BY <1>0, <2>2
    <3> QED BY <2>12, <3>1
  <2>17. Good(e + 1)
    <3>1. CASE f[e + 1] = f[e] + 1
      <4>1. S(e + 1) = S(e) \cup {e + 1}
        <5> HIDE DEF S
        <5> QED BY <2>4, <2>7, <2>9, <2>11, <2>12, <2>13, <2>14, <2>15, <3>1
      <4>2. IsFiniteSet(S(e)) /\ Cardinality(S(e)) = f[e] - f[d]
        BY <2>3
      <4> HIDE DEF S
      <4>3. IsFiniteSet(S(e + 1)) /\ Cardinality(S(e + 1)) = Cardinality(S(e)) + 1
        BY <2>16, <4>1, <4>2, FS_AddElement
      <4> QED BY <2>4, <3>1, <4>2, <4>3
    <3>2. CASE f[e + 1] = f[e]
      <4>1. S(e + 1) = S(e)
        <5> HIDE DEF S
        <5> QED BY <2>4, <2>7, <2>9, <2>11, <2>12, <2>13, <2>14, <2>15, <3>2
      <4> HIDE DEF S
      <4> QED BY <2>3, <3>2, <4>1
    <3>3. CASE f[e + 1] = f[e] - 1
      <4>1. PICK j \in (d + 1)..e : j \in Rises(f, e) /\ f[j] = f[e]
        <5>1. e \in d..n /\ f[e] > f[d]
          BY <1>0, <2>2, <2>4, <3>3
        <5> QED BY <5>1, LastRise
      <4>2. j \in S(e)
        BY <1>0, <4>1
      <4>3. ASSUME NEW k \in S(e), f[k] > f[e] - 1 PROVE k = j
        <5> HIDE DEF S
        <5>1. k \in (d + 1)..e /\ k \in Nat /\ f[k] \in Int /\ f[k] = f[e]
          BY <1>0, <2>4, <2>9, <2>12, <2>14, <4>3
        <5>2. j \in Nat /\ f[j] \in Int /\ f[j] = f[e]
          BY <2>4, <2>9, <4>1
        <5>3. k - 1 \in Nat /\ j - 1 \in Nat /\ f[k - 1] \in Int /\ f[j - 1] \in Int
          BY <1>0, <4>1, <5>1
        <5>4. f[k - 1] < f[k] /\ f[j - 1] < f[j]
          BY <2>5, <4>2, <5>1, <5>2, <5>3
        <5>5. CASE k < j
          <6>1. j - 1 \in k..e
            BY <1>0, <4>1, <5>1, <5>5
          <6>2. f[j - 1] >= f[k]
            BY <2>5, <6>1
          <6> QED BY <5>1, <5>2, <5>3, <5>4, <6>2
        <5>6. CASE j < k
          <6>1. k - 1 \in j..e
            BY <1>0, <4>1, <5>1, <5>6
          <6>2. f[k - 1] >= f[j]
            BY <2>5, <4>2, <6>1
          <6> QED BY <5>1, <5>2, <5>3, <5>4, <6>2
        <5> QED BY <5>1, <5>2, <5>5, <5>6
      <4>4. \A k \in S(e) : f[k] \in Int
        <5> HIDE DEF S
        <5> QED BY <2>9, <2>12
      <4>5. S(e + 1) = S(e) \ {j}
        <5> HIDE DEF S
        <5>1. ASSUME NEW k \in S(e + 1) PROVE k \in S(e) \ {j}
          <6>1. k # e + 1
            BY <2>4, <2>15, <3>3, <5>1
          <6>2. k \in (d + 1)..e
            BY <2>7, <2>13, <5>1, <6>1
          <6>3. k \in S(e) /\ f[e + 1] >= f[k]
            BY <2>11, <5>1, <6>2
          <6> QED BY <2>4, <3>3, <4>1, <6>3
        <5>2. ASSUME NEW k \in S(e) \ {j} PROVE k \in S(e + 1)
          <6>1. ~(f[k] > f[e] - 1) /\ f[k] \in Int
            BY <4>3, <4>4, <5>2
          <6> QED BY <2>4, <2>11, <2>12, <3>3, <5>2, <6>1
        <5> QED BY <5>1, <5>2
      <4>6. IsFiniteSet(S(e)) /\ Cardinality(S(e)) = f[e] - f[d]
        BY <2>3
      <4> HIDE DEF S
      <4>7. IsFiniteSet(S(e + 1)) /\ Cardinality(S(e + 1)) = Cardinality(S(e)) - 1
        BY <4>2, <4>5, <4>6, FS_RemoveElement
      <4> QED BY <2>4, <3>3, <4>6, <4>7
    <3> HIDE DEF Good
    <3> QED BY <2>4, <3>1, <3>2, <3>3
  <2> HIDE DEF Good
  <2> QED BY <2>2, <2>17
<1>3. Nat \subseteq T
  <2> HIDE DEF T
  <2> QED BY <1>1, <1>2, NaturalNumbers
<1>4. p - d \in Nat /\ d + (p - d) = p
  BY <1>0
<1>5. Good(p)
  <2> HIDE DEF Good
  <2> QED BY <1>3, <1>4
<1> QED BY <1>5

\* Of two rises the later one is higher.
LEMMA RiseOrder ==
  ASSUME NEW f \in [Nat -> Int], NEW p \in Nat,
         NEW j \in Rises(f, p), NEW k \in Rises(f, p), j < k
  PROVE  f[j] < f[k]
<1>1. j \in 1..p /\ k \in 1..p /\ j \in Nat /\ k \in Nat /\ k - 1 \in Nat
  BY DEF Rises
<1>2. k - 1 \in j..p
  BY <1>1
<1>3. f[k] > f[k - 1] /\ f[k - 1] >= f[j]
  BY <1>2 DEF Rises
<1>4. f[j] \in Int /\ f[k] \in Int /\ f[k - 1] \in Int
  BY <1>1
<1> QED BY <1>3, <1>4

\* One as high as the number is the last.
LEMMA LastOfRises ==
  ASSUME NEW f \in [Nat -> Int], NEW p \in Nat, NEW d \in Rises(f, p), f[d] = f[p]
  PROVE  Innermost(Rises(f, p)) = d
<1> DEFINE Max(m) == m \in Rises(f, p) /\ \A k \in Rises(f, p) : k =< m
<1>1. \A k \in Rises(f, p) : k \in 1..p /\ k \in Nat /\ f[k] \in Int /\ f[p] \in Int /\ f[p] >= f[k]
  <2>1. \A k \in 1..p : p \in k..p /\ k \in Nat
    OBVIOUS
  <2> QED BY <2>1 DEF Rises
<1>2. ASSUME NEW k \in Rises(f, p) PROVE k =< d
  <2> SUFFICES ASSUME d < k PROVE FALSE
    BY <1>1
  <2>1. f[d] < f[k]
    BY RiseOrder
  <2> QED BY <1>1, <2>1
<1>3. Max(d)
  BY <1>2
<1>4. \A m : Max(m) => m = d
  BY <1>1, <1>2
<1>5. Innermost(Rises(f, p)) = CHOOSE m \in Rises(f, p) : \A k \in Rises(f, p) : k =< m
  BY DEF Innermost
<1> QED BY <1>3, <1>4, <1>5

\* Going on to where the number is no higher than it ever was on the way.
LEMMA RisesForward ==
  ASSUME NEW f \in [Nat -> Int], NEW i \in Nat \ {0}, NEW p \in Nat, i =< p,
         \A k \in i..p : f[k] >= f[p], NEW d \in Rises(f, p)
  PROVE  d \in Rises(f, i - 1) \/ (d = i /\ f[i] > f[i - 1] /\ f[p] = f[i])
<1>1. d \in 1..p /\ d \in Nat /\ f[d] > f[d - 1] /\ \A m \in d..p : f[m] >= f[d]
  BY DEF Rises
<1>2. f[p] >= f[d] /\ f[d] \in Int /\ f[p] \in Int /\ f[i] \in Int /\ d - 1 \in Nat /\ f[d - 1] \in Int
  <2>1. p \in d..p
    BY <1>1
  <2> QED BY <1>1, <2>1
<1>3. CASE d > i
  <2>1. d - 1 \in i..p
    BY <1>1, <1>3
  <2>2. f[d - 1] >= f[p]
    BY <2>1
  <2> QED BY <1>1, <1>2, <2>2
<1>4. CASE d = i
  <2>1. i \in i..p
    BY <1>1, <1>4
  <2>2. f[i] >= f[p]
    BY <2>1
  <2> QED BY <1>1, <1>2, <1>4, <2>2
<1>5. CASE d < i
  <2>1. d \in 1..(i - 1) /\ \A m \in d..(i - 1) : m \in d..p
    BY <1>1, <1>5
  <2> QED BY <1>1, <2>1 DEF Rises
<1> QED BY <1>1, <1>3, <1>4, <1>5

\* Going back to where it was no higher than ever since.
LEMMA RisesBack ==
  ASSUME NEW f \in [Nat -> Int], NEW q \in Nat, NEW p \in Nat, q =< p,
         \A k \in q..p : f[k] >= f[q], NEW d \in Rises(f, q)
  PROVE  d \in Rises(f, p)
<1>1. d \in 1..q /\ d \in Nat /\ f[d] > f[d - 1] /\ \A m \in d..q : f[m] >= f[d]
  BY DEF Rises
<1>2. f[q] >= f[d] /\ f[d] \in Int /\ f[q] \in Int
  <2>1. q \in d..q
    BY <1>1
  <2> QED BY <1>1, <2>1
<1>3. ASSUME NEW m \in d..p PROVE f[m] >= f[d]
  <2>1. m \in Nat /\ f[m] \in Int
    BY <1>1
  <2>2. CASE m =< q
    <3>1. m \in d..q
      BY <2>1, <2>2, <1>1
    <3> QED BY <1>1, <3>1
  <2>3. CASE m > q
    <3>1. m \in q..p
      BY <1>1, <2>1, <2>3
    <3>2. f[m] >= f[q]
      BY <3>1
    <3> QED BY <1>2, <2>1, <3>2
  <2> QED BY <1>1, <2>1, <2>2, <2>3
<1>4. d \in 1..p
  BY <1>1
<1> QED BY <1>1, <1>3, <1>4 DEF Rises

-----------------------------------------------------------------------------
(* The clauses and loops that are open.                                    *)

\* The depths of a text as functions of the line.
Dos(t) == [n \in Nat |-> DoDepth(t, n)]
Ifs(t) == [n \in Nat |-> IfDepth(t, n)]

\* One line opens or closes one loop, and one clause, at most.
LEMMA DepthsAreSteps ==
  ASSUME NEW t, NEW n \in Nat
  PROVE  /\ Steps(Dos(t), n) /\ Steps(Ifs(t), n)
         /\ Dos(t) \in [Nat -> Int] /\ Ifs(t) \in [Nat -> Int]
         /\ \A k \in Nat : Dos(t)[k] = DoDepth(t, k) /\ Ifs(t)[k] = IfDepth(t, k)
<1>1. \A k \in Nat : IfDepth(t, k) \in Int /\ DoDepth(t, k) \in Int
  BY DepthType
<1>2. Dos(t) \in [Nat -> Int] /\ Ifs(t) \in [Nat -> Int]
  BY <1>1 DEF Dos, Ifs
<1>3. ASSUME NEW k \in 1..n
      PROVE  /\ Dos(t)[k] \in {Dos(t)[k - 1] - 1, Dos(t)[k - 1], Dos(t)[k - 1] + 1}
             /\ Ifs(t)[k] \in {Ifs(t)[k - 1] - 1, Ifs(t)[k - 1], Ifs(t)[k - 1] + 1}
  <2>1. k \in Nat \ {0} /\ k - 1 \in Nat
    OBVIOUS
  <2>2. /\ IfDepth(t, k) \in {IfDepth(t, k - 1) - 1, IfDepth(t, k - 1), IfDepth(t, k - 1) + 1}
        /\ DoDepth(t, k) \in {DoDepth(t, k - 1) - 1, DoDepth(t, k - 1), DoDepth(t, k - 1) + 1}
    BY <1>1, <2>1, DepthStep
  <2> QED BY <2>1, <2>2 DEF Dos, Ifs
<1> QED BY <1>2, <1>3 DEF Steps, Dos, Ifs

\* A clause has one ENDIF.
LEMMA ClauseEnds ==
  ASSUME NEW t, Len(t) \in Nat, NEW a \in 1..Len(t), NEW b \in 1..Len(t), MatchIf(t, a, b)
  PROVE  EndOf(t, a) = b
<1>1. ASSUME NEW c \in 1..Len(t), MatchIf(t, a, c) \/ MatchDo(t, a, c) PROVE c = b
  <2>1. MatchIf(t, a, c)
    BY <1>1 DEF MatchIf, MatchDo, Is, IfWords, DoWords
  <2>2. a \in Nat /\ b \in Nat /\ c \in Nat /\ a < b /\ a < c
    BY <2>1 DEF MatchIf
  <2>3. \A k \in Nat : IfDepth(t, k) \in Int
    BY DepthType
  <2>4. CASE b < c
    <3>1. b \in a..(c - 1)
      BY <2>1, <2>2, <2>4, ClauseDepths
    <3>2. IfDepth(t, b) >= IfDepth(t, a) /\ IfDepth(t, b) = IfDepth(t, a) - 1
      BY <2>1, <2>2, <3>1, ClauseDepths
    <3> QED BY <2>2, <2>3, <3>2
  <2>5. CASE c < b
    <3>1. c \in a..(b - 1)
      BY <2>1, <2>2, <2>5, ClauseDepths
    <3>2. IfDepth(t, c) >= IfDepth(t, a) /\ IfDepth(t, c) = IfDepth(t, a) - 1
      BY <2>1, <2>2, <3>1, ClauseDepths
    <3> QED BY <2>2, <2>3, <3>2
  <2> QED BY <2>2, <2>4, <2>5
<1> QED BY <1>1 DEF EndOf

\* The open loops, and clauses, are those at which the depth has risen for good:
\* what the text's structure says of them, its depths say too.
LEMMA OpenDosRise ==
  ASSUME NEW t, WellFormed(t), Plain(t), Len(t) \in Nat, NEW p \in 0..Len(t)
  PROVE  OpenDos(t, p) = Rises(Dos(t), p)
<1>0. p \in Nat /\ \A d \in 1..p : d \in Nat /\ d \in 1..Len(t) /\ d \in Nat \ {0} /\ d - 1 \in Nat
  OBVIOUS
<1>1. \A k \in Nat : Dos(t)[k] = DoDepth(t, k) /\ DoDepth(t, k) \in Int
  BY DepthsAreSteps, DepthType
<1>2. ASSUME NEW d \in 1..p PROVE Is(t, d, DoWords) <=> Dos(t)[d] > Dos(t)[d - 1]
  <2>1. DoDepth(t, d) = DoDepth(t, d - 1)
          + (IF Is(t, d, DoWords) THEN 1 ELSE IF Is(t, d, {"ENDDO"}) THEN -1 ELSE 0)
    BY <1>0, DepthStep
  <2> QED BY <1>0, <1>1, <2>1
<1>3. ASSUME NEW d \in 1..p, Is(t, d, DoWords)
      PROVE  EndOf(t, d) > p <=> \A m \in d..p : Dos(t)[m] >= Dos(t)[d]
  <2>1. PICK b \in 1..Len(t) : MatchDo(t, d, b)
    BY <1>0, <1>3 DEF WellFormed
  <2>2. EndOf(t, d) = b
    BY <1>0, <2>1, LoopEnds
  <2>3. /\ d < b /\ b \in Nat /\ DoDepth(t, b) = DoDepth(t, d) - 1
        /\ \A k \in d..(b - 1) : DoDepth(t, k) >= DoDepth(t, d)
    BY <1>0, <2>1, LoopDepths
  <2>4. CASE b > p
    <3>1. \A m \in d..p : m \in d..(b - 1) /\ m \in Nat
      BY <1>0, <2>3, <2>4
    <3> QED BY <1>0, <1>1, <2>2, <2>3, <2>4, <3>1
  <2>5. CASE b =< p
    <3>1. b \in d..p
      BY <1>0, <2>3, <2>5
    <3>2. ~(Dos(t)[b] >= Dos(t)[d])
      BY <1>0, <1>1, <2>3
    <3> QED BY <1>0, <2>2, <2>5, <3>1, <3>2
  <2> QED BY <1>0, <2>3, <2>4, <2>5
<1>4. \A d : d \in OpenDos(t, p) <=> d \in 1..p /\ Is(t, d, DoWords) /\ EndOf(t, d) > p
  BY DEF OpenDos, Lines
<1>5. \A d : d \in Rises(Dos(t), p) <=> d \in 1..p /\ Dos(t)[d] > Dos(t)[d - 1]
                                         /\ \A m \in d..p : Dos(t)[m] >= Dos(t)[d]
  BY DEF Rises
<1>6. \A d : d \in OpenDos(t, p) <=> d \in Rises(Dos(t), p)
  BY <1>2, <1>3, <1>4, <1>5
<1> QED BY <1>6

LEMMA OpenIfsRise ==
  ASSUME NEW t, WellFormed(t), Plain(t), Len(t) \in Nat, NEW p \in 0..Len(t)
  PROVE  OpenIfs(t, p) = Rises(Ifs(t), p)
<1>0. p \in Nat /\ \A d \in 1..p : d \in Nat /\ d \in 1..Len(t) /\ d \in Nat \ {0} /\ d - 1 \in Nat
  OBVIOUS
<1>1. \A k \in Nat : Ifs(t)[k] = IfDepth(t, k) /\ IfDepth(t, k) \in Int
  BY DepthsAreSteps, DepthType
<1>2. ASSUME NEW d \in 1..p PROVE Is(t, d, IfWords) <=> Ifs(t)[d] > Ifs(t)[d - 1]
  <2>1. IfDepth(t, d) = IfDepth(t, d - 1)
          + (IF Is(t, d, IfWords) THEN 1 ELSE IF Is(t, d, {"ENDIF"}) THEN -1 ELSE 0)
    BY <1>0, DepthStep
  <2> QED BY <1>0, <1>1, <2>1
<1>3. ASSUME NEW d \in 1..p, Is(t, d, IfWords)
      PROVE  EndOf(t, d) > p <=> \A m \in d..p : Ifs(t)[m] >= Ifs(t)[d]
  <2>1. PICK b \in 1..Len(t) : MatchIf(t, d, b)
    BY <1>0, <1>3 DEF WellFormed
  <2>2. EndOf(t, d) = b
    BY <1>0, <2>1, ClauseEnds
  <2>3. /\ d < b /\ b \in Nat /\ IfDepth(t, b) = IfDepth(t, d) - 1
        /\ \A k \in d..(b - 1) : IfDepth(t, k) >= IfDepth(t, d)
    BY <1>0, <2>1, ClauseDepths
  <2>4. CASE b > p
    <3>1. \A m \in d..p : m \in d..(b - 1) /\ m \in Nat
      BY <1>0, <2>3, <2>4
    <3> QED BY <1>0, <1>1, <2>2, <2>3, <2>4, <3>1
  <2>5. CASE b =< p
    <3>1. b \in d..p
      BY <1>0, <2>3, <2>5
    <3>2. ~(Ifs(t)[b] >= Ifs(t)[d])
      BY <1>0, <1>1, <2>3
    <3> QED BY <1>0, <2>2, <2>5, <3>1, <3>2
  <2> QED BY <1>0, <2>3, <2>4, <2>5
<1>4. \A d : d \in OpenIfs(t, p) <=> d \in 1..p /\ Is(t, d, IfWords) /\ EndOf(t, d) > p
  BY DEF OpenIfs, Lines
<1>5. \A d : d \in Rises(Ifs(t), p) <=> d \in 1..p /\ Ifs(t)[d] > Ifs(t)[d - 1]
                                         /\ \A m \in d..p : Ifs(t)[m] >= Ifs(t)[d]
  BY DEF Rises
<1>6. \A d : d \in OpenIfs(t, p) <=> d \in Rises(Ifs(t), p)
  BY <1>2, <1>3, <1>4, <1>5
<1> QED BY <1>6

\* What is known of an open loop, or clause: where it is, how deep, and how many
\* others are open inside it.
LEMMA OpenDo ==
  ASSUME NEW t, WellFormed(t), Plain(t), Len(t) \in Nat, NEW p \in 0..Len(t),
         NEW d \in OpenDos(t, p)
  PROVE  /\ d \in 1..p /\ d \in 1..Len(t) /\ Is(t, d, DoWords)
         /\ DoDepth(t, d) \in Nat \ {0} /\ DoDepth(t, p) \in Nat
         /\ DoDepth(t, p) >= DoDepth(t, d)
         /\ Cardinality({k \in OpenDos(t, p) : k > d}) = DoDepth(t, p) - DoDepth(t, d)
<1>1. OpenDos(t, p) = Rises(Dos(t), p)
  BY OpenDosRise
<1>2. d \in 1..p /\ Is(t, d, DoWords)
  BY DEF OpenDos, Lines
<1>3. /\ p \in Nat /\ d \in Nat \ {0} /\ d - 1 \in 0..Len(t) /\ d \in 0..Len(t) /\ d \in 1..Len(t)
      /\ p \in d..p /\ d \in 0..p /\ \A k \in d..p : k \in Nat
  BY <1>2
<1>4. \A k \in Nat : Dos(t)[k] = DoDepth(t, k)
  BY DepthsAreSteps
<1>5. \A k \in d..p : Dos(t)[k] >= Dos(t)[d]
  BY <1>1 DEF Rises
<1>6. DoDepth(t, d) \in Nat /\ DoDepth(t, d - 1) \in Nat /\ DoDepth(t, p) \in Nat
  BY <1>3, DepthsNatural
<1>7. DoDepth(t, d) = DoDepth(t, d - 1) + 1
  BY <1>2, <1>3, DepthStep
<1>8. DoDepth(t, p) >= DoDepth(t, d)
  BY <1>3, <1>4, <1>5
<1>9. Cardinality({k \in Rises(Dos(t), p) : k > d}) = Dos(t)[p] - Dos(t)[d]
  <2>1. Steps(Dos(t), p) /\ d \in 0..p /\ p \in d..p
    BY <1>3, DepthsAreSteps
  <2> QED BY <1>3, <1>5, <2>1, RisesAbove
<1> QED BY <1>1, <1>2, <1>3, <1>4, <1>6, <1>7, <1>8, <1>9

LEMMA OpenIf ==
  ASSUME NEW t, WellFormed(t), Plain(t), Len(t) \in Nat, NEW p \in 0..Len(t),
         NEW d \in OpenIfs(t, p)
  PROVE  /\ d \in 1..p /\ d \in 1..Len(t) /\ Is(t, d, IfWords)
         /\ IfDepth(t, d) \in Nat \ {0} /\ IfDepth(t, p) \in Nat
         /\ IfDepth(t, p) >= IfDepth(t, d)
         /\ Cardinality({k \in OpenIfs(t, p) : k > d}) = IfDepth(t, p) - IfDepth(t, d)
<1>1. OpenIfs(t, p) = Rises(Ifs(t), p)
  BY OpenIfsRise
<1>2. d \in 1..p /\ Is(t, d, IfWords)
  BY DEF OpenIfs, Lines
<1>3. /\ p \in Nat /\ d \in Nat \ {0} /\ d - 1 \in 0..Len(t) /\ d \in 0..Len(t) /\ d \in 1..Len(t)
      /\ p \in d..p /\ d \in 0..p /\ \A k \in d..p : k \in Nat
  BY <1>2
<1>4. \A k \in Nat : Ifs(t)[k] = IfDepth(t, k)
  BY DepthsAreSteps
<1>5. \A k \in d..p : Ifs(t)[k] >= Ifs(t)[d]
  BY <1>1 DEF Rises
<1>6. IfDepth(t, d) \in Nat /\ IfDepth(t, d - 1) \in Nat /\ IfDepth(t, p) \in Nat
  BY <1>3, DepthsNatural
<1>7. IfDepth(t, d) = IfDepth(t, d - 1) + 1
  BY <1>2, <1>3, DepthStep
<1>8. IfDepth(t, p) >= IfDepth(t, d)
  BY <1>3, <1>4, <1>5
<1>9. Cardinality({k \in Rises(Ifs(t), p) : k > d}) = Ifs(t)[p] - Ifs(t)[d]
  <2>1. Steps(Ifs(t), p) /\ d \in 0..p /\ p \in d..p
    BY <1>3, DepthsAreSteps
  <2> QED BY <1>3, <1>5, <2>1, RisesAbove
<1> QED BY <1>1, <1>2, <1>3, <1>4, <1>6, <1>7, <1>8, <1>9

\* Two that are open are not equally deep.
LEMMA OpenDeeper ==
  ASSUME NEW t, WellFormed(t), Plain(t), Len(t) \in Nat, NEW p \in 0..Len(t)
  PROVE  /\ \A j, k \in OpenDos(t, p) : DoDepth(t, j) = DoDepth(t, k) => j = k
         /\ \A j, k \in OpenIfs(t, p) : IfDepth(t, j) = IfDepth(t, k) => j = k
         /\ \A d \in OpenDos(t, p) :
              DoDepth(t, d) = DoDepth(t, p) => Innermost(OpenDos(t, p)) = d
         /\ \A d \in OpenIfs(t, p) :
              IfDepth(t, d) = IfDepth(t, p) => Innermost(OpenIfs(t, p)) = d
<1>1. /\ OpenDos(t, p) = Rises(Dos(t), p) /\ OpenIfs(t, p) = Rises(Ifs(t), p)
      /\ p \in Nat
  BY OpenDosRise, OpenIfsRise
<1>2. /\ Dos(t) \in [Nat -> Int] /\ Ifs(t) \in [Nat -> Int]
      /\ \A k \in Nat : Dos(t)[k] = DoDepth(t, k) /\ Ifs(t)[k] = IfDepth(t, k)
  BY DepthsAreSteps
<1>3. ASSUME NEW f \in [Nat -> Int], NEW j \in Rises(f, p), NEW k \in Rises(f, p), f[j] = f[k]
      PROVE  j = k
  <2>1. j \in Nat /\ k \in Nat
    BY <1>1 DEF Rises
  <2>2. f[j] \in Int /\ f[k] \in Int
    BY <2>1
  <2>3. CASE j < k
    <3>1. f[j] < f[k]
      BY <1>1, <2>3, RiseOrder
    <3> QED BY <1>3, <2>2, <3>1
  <2>4. CASE k < j
    <3>1. f[k] < f[j]
      BY <1>1, <2>4, RiseOrder
    <3> QED BY <1>3, <2>2, <3>1
  <2> QED BY <2>1, <2>3, <2>4
<1>4. \A f : \A k \in Rises(f, p) : k \in Nat
  BY <1>1 DEF Rises
<1>5. ASSUME NEW j \in OpenDos(t, p), NEW k \in OpenDos(t, p), DoDepth(t, j) = DoDepth(t, k)
      PROVE  j = k
  <2>1. j \in Nat /\ k \in Nat /\ j \in Rises(Dos(t), p) /\ k \in Rises(Dos(t), p)
    BY <1>1, <1>4
  <2>2. Dos(t)[j] = Dos(t)[k]
    BY <1>2, <1>5, <2>1
  <2> QED BY <1>2, <1>3, <2>1, <2>2
<1>6. ASSUME NEW j \in OpenIfs(t, p), NEW k \in OpenIfs(t, p), IfDepth(t, j) = IfDepth(t, k)
      PROVE  j = k
  <2>1. j \in Nat /\ k \in Nat /\ j \in Rises(Ifs(t), p) /\ k \in Rises(Ifs(t), p)
    BY <1>1, <1>4
  <2>2. Ifs(t)[j] = Ifs(t)[k]
    BY <1>2, <1>6, <2>1
  <2> QED BY <1>2, <1>3, <2>1, <2>2
<1>7. ASSUME NEW d \in OpenDos(t, p), DoDepth(t, d) = DoDepth(t, p)
      PROVE  Innermost(OpenDos(t, p)) = d
  <2>1. d \in Rises(Dos(t), p) /\ Dos(t)[d] = Dos(t)[p]
    BY <1>1, <1>2, <1>4, <1>7
  <2> QED BY <1>1, <1>2, <2>1, LastOfRises
<1>8. ASSUME NEW d \in OpenIfs(t, p), IfDepth(t, d) = IfDepth(t, p)
      PROVE  Innermost(OpenIfs(t, p)) = d
  <2>1. d \in Rises(Ifs(t), p) /\ Ifs(t)[d] = Ifs(t)[p]
    BY <1>1, <1>2, <1>4, <1>8
  <2> QED BY <1>1, <1>2, <2>1, LastOfRises
<1> QED BY <1>5, <1>6, <1>7, <1>8

\* What is open after a step forward was open before, or is the line's own.
LEMMA OpenForward ==
  ASSUME NEW t, WellFormed(t), Plain(t), Len(t) \in Nat, NEW i \in 1..Len(t), NEW p \in i..Len(t)
  PROVE  /\ (\A k \in i..p : IfDepth(t, k) >= IfDepth(t, p)) =>
              \A d \in OpenIfs(t, p) : \/ d \in OpenIfs(t, i - 1)
                                       \/ d = i /\ IfDepth(t, p) = IfDepth(t, i)
         /\ (\A k \in i..p : DoDepth(t, k) >= DoDepth(t, p)) =>
              \A d \in OpenDos(t, p) : \/ d \in OpenDos(t, i - 1)
                                       \/ d = i /\ DoDepth(t, p) = DoDepth(t, i)
<1>1. /\ p \in 0..Len(t) /\ i - 1 \in 0..Len(t) /\ p \in Nat /\ i \in Nat \ {0} /\ i =< p
      /\ \A k \in i..p : k \in Nat
  OBVIOUS
<1>2. /\ OpenDos(t, p) = Rises(Dos(t), p) /\ OpenIfs(t, p) = Rises(Ifs(t), p)
      /\ OpenDos(t, i - 1) = Rises(Dos(t), i - 1) /\ OpenIfs(t, i - 1) = Rises(Ifs(t), i - 1)
  BY <1>1, OpenDosRise, OpenIfsRise
<1>3. /\ Dos(t) \in [Nat -> Int] /\ Ifs(t) \in [Nat -> Int]
      /\ \A k \in Nat : Dos(t)[k] = DoDepth(t, k) /\ Ifs(t)[k] = IfDepth(t, k)
  BY DepthsAreSteps
<1>4. ASSUME \A k \in i..p : IfDepth(t, k) >= IfDepth(t, p), NEW d \in OpenIfs(t, p)
      PROVE  \/ d \in OpenIfs(t, i - 1)
             \/ d = i /\ IfDepth(t, p) = IfDepth(t, i)
  <2>1. \A k \in i..p : Ifs(t)[k] >= Ifs(t)[p]
    BY <1>1, <1>3, <1>4
  <2>2. d \in Rises(Ifs(t), p)
    BY <1>2
  <2>3. d \in Rises(Ifs(t), i - 1) \/ (d = i /\ Ifs(t)[p] = Ifs(t)[i])
    BY <1>1, <1>3, <2>1, <2>2, RisesForward
  <2> QED BY <1>1, <1>2, <1>3, <2>3
<1>5. ASSUME \A k \in i..p : DoDepth(t, k) >= DoDepth(t, p), NEW d \in OpenDos(t, p)
      PROVE  \/ d \in OpenDos(t, i - 1)
             \/ d = i /\ DoDepth(t, p) = DoDepth(t, i)
  <2>1. \A k \in i..p : Dos(t)[k] >= Dos(t)[p]
    BY <1>1, <1>3, <1>5
  <2>2. d \in Rises(Dos(t), p)
    BY <1>2
  <2>3. d \in Rises(Dos(t), i - 1) \/ (d = i /\ Dos(t)[p] = Dos(t)[i])
    BY <1>1, <1>3, <2>1, <2>2, RisesForward
  <2> QED BY <1>1, <1>2, <1>3, <2>3
<1> QED BY <1>4, <1>5

\* What is open after a step back was open before it.
LEMMA OpenBack ==
  ASSUME NEW t, WellFormed(t), Plain(t), Len(t) \in Nat, NEW p \in 0..Len(t), NEW q \in 0..p
  PROVE  /\ (\A k \in q..p : IfDepth(t, k) >= IfDepth(t, q)) => OpenIfs(t, q) \subseteq OpenIfs(t, p)
         /\ (\A k \in q..p : DoDepth(t, k) >= DoDepth(t, q)) => OpenDos(t, q) \subseteq OpenDos(t, p)
<1>1. p \in Nat /\ q \in Nat /\ q \in 0..Len(t) /\ q =< p /\ \A k \in q..p : k \in Nat
  OBVIOUS
<1>2. /\ OpenDos(t, p) = Rises(Dos(t), p) /\ OpenIfs(t, p) = Rises(Ifs(t), p)
      /\ OpenDos(t, q) = Rises(Dos(t), q) /\ OpenIfs(t, q) = Rises(Ifs(t), q)
  BY <1>1, OpenDosRise, OpenIfsRise
<1>3. /\ Dos(t) \in [Nat -> Int] /\ Ifs(t) \in [Nat -> Int]
      /\ \A k \in Nat : Dos(t)[k] = DoDepth(t, k) /\ Ifs(t)[k] = IfDepth(t, k)
  BY DepthsAreSteps
<1>4. ASSUME \A k \in q..p : IfDepth(t, k) >= IfDepth(t, q), NEW d \in OpenIfs(t, q)
      PROVE  d \in OpenIfs(t, p)
  <2>1. \A k \in q..p : Ifs(t)[k] >= Ifs(t)[q]
    BY <1>1, <1>3, <1>4
  <2>2. d \in Rises(Ifs(t), q)
    BY <1>2
  <2>3. d \in Rises(Ifs(t), p)
    BY <1>1, <1>3, <2>1, <2>2, RisesBack
  <2> QED BY <1>2, <2>3
<1>5. ASSUME \A k \in q..p : DoDepth(t, k) >= DoDepth(t, q), NEW d \in OpenDos(t, q)
      PROVE  d \in OpenDos(t, p)
  <2>1. \A k \in q..p : Dos(t)[k] >= Dos(t)[q]
    BY <1>1, <1>3, <1>5
  <2>2. d \in Rises(Dos(t), q)
    BY <1>2
  <2>3. d \in Rises(Dos(t), p)
    BY <1>1, <1>3, <2>1, <2>2, RisesBack
  <2> QED BY <1>2, <2>3
<1> QED BY <1>4, <1>5

\* A line that is in a loop is in an innermost one, whose ENDDO the search from
\* there finds.
LEMMA LoopAround ==
  ASSUME NEW t, WellFormed(t), Plain(t), Len(t) \in Nat, NEW p \in 0..Len(t), DoDepth(t, p) > 0
  PROVE  \E a \in OpenDos(t, p) : DoDepth(t, a) = DoDepth(t, p) /\ EndDo(t, p) = EndOf(t, a)
<1>1. /\ p \in Nat /\ 0 \in 0..p /\ p \in 0..p /\ 0 + 1 = 1
      /\ Steps(Dos(t), p) /\ Dos(t) \in [Nat -> Int]
      /\ \A k \in Nat : Dos(t)[k] = DoDepth(t, k) /\ DoDepth(t, k) \in Int
      /\ DoDepth(t, 0) = 0
  BY DepthsAreSteps, DepthAtTop, DepthType
<1>2. PICK a \in 1..p : a \in Rises(Dos(t), p) /\ Dos(t)[a] = Dos(t)[p]
  <2>1. Dos(t)[p] > Dos(t)[0]
    BY <1>1
  <2>2. \E k \in (0 + 1)..p : k \in Rises(Dos(t), p) /\ Dos(t)[k] = Dos(t)[p]
    BY <1>1, <2>1, LastRise
  <2> QED BY <1>1, <2>2
<1>3. a \in Nat /\ a \in 1..Len(t) /\ a =< p
  OBVIOUS
<1>4. a \in OpenDos(t, p) /\ DoDepth(t, a) = DoDepth(t, p)
  BY <1>1, <1>2, <1>3, OpenDosRise
<1>5. Is(t, a, DoWords) /\ EndOf(t, a) > p
  BY <1>4 DEF OpenDos, Lines
<1>6. PICK b \in 1..Len(t) : MatchDo(t, a, b)
  BY <1>3, <1>5 DEF WellFormed
<1>7. EndOf(t, a) = b
  BY <1>3, <1>6, LoopEnds
<1>8. b \in Nat /\ b \in (p + 1)..Len(t)
  BY <1>1, <1>5, <1>7
<1>9. DoDepth(t, b) = DoDepth(t, a) - 1 /\ \A k \in a..(b - 1) : DoDepth(t, k) >= DoDepth(t, a)
  BY <1>3, <1>6, <1>8, LoopDepths
<1>10. EndDo(t, p) \in (p + 1)..b /\ DoDepth(t, EndDo(t, p)) = DoDepth(t, p) - 1
  <2>1. DoDepth(t, b) < DoDepth(t, p)
    BY <1>1, <1>4, <1>9, <1>8
  <2> QED BY <1>1, <1>8, <2>1, SearchForEnddo
<1>11. EndDo(t, p) = b
  <2> DEFINE e == EndDo(t, p)
  <2>1. e \in Nat /\ (e # b => e \in a..(b - 1)) /\ DoDepth(t, e) \in Int
    BY <1>1, <1>3, <1>8, <1>10
  <2> HIDE DEF e
  <2>2. e # b => DoDepth(t, e) >= DoDepth(t, a)
    BY <1>9, <2>1
  <2>3. DoDepth(t, e) = DoDepth(t, a) - 1 /\ DoDepth(t, a) \in Int
    BY <1>1, <1>3, <1>4, <1>10 DEF e
  <2>4. e = b
    BY <2>1, <2>2, <2>3
  <2> QED BY <2>4 DEF e
<1> QED BY <1>4, <1>7, <1>11

\* From one line to the next nothing is opened but by that line.
LEMMA OpenNext ==
  ASSUME NEW t, WellFormed(t), Plain(t), Len(t) \in Nat, NEW i \in 1..Len(t)
  PROVE  /\ OpenIfs(t, i) \subseteq OpenIfs(t, i - 1) \cup {i}
         /\ OpenDos(t, i) \subseteq OpenDos(t, i - 1) \cup {i}
         /\ ~Is(t, i, IfWords) => OpenIfs(t, i) \subseteq OpenIfs(t, i - 1)
         /\ ~Is(t, i, DoWords) => OpenDos(t, i) \subseteq OpenDos(t, i - 1)
<1>1. i \in i..Len(t) /\ i \in Nat /\ \A k \in i..i : k = i
  OBVIOUS
<1>2. IfDepth(t, i) \in Int /\ DoDepth(t, i) \in Int
  BY <1>1, DepthType
<1>3. /\ \A d \in OpenIfs(t, i) : d \in OpenIfs(t, i - 1) \/ d = i
      /\ \A d \in OpenDos(t, i) : d \in OpenDos(t, i - 1) \/ d = i
  <2>1. /\ \A k \in i..i : IfDepth(t, k) >= IfDepth(t, i)
        /\ \A k \in i..i : DoDepth(t, k) >= DoDepth(t, i)
    BY <1>1, <1>2
  <2> QED BY <1>1, <2>1, OpenForward
<1>4. /\ \A d \in OpenIfs(t, i) : Is(t, d, IfWords)
      /\ \A d \in OpenDos(t, i) : Is(t, d, DoWords)
  BY DEF OpenIfs, OpenDos, Lines
<1> QED BY <1>3, <1>4

\* The branch of a clause that begins at line i ends before the clause's next
\* branch, or before its ENDIF.
LEMMA NextBranchIs ==
  ASSUME NEW t, WellFormed(t), Plain(t), Len(t) \in Nat,
         NEW a \in 1..Len(t), NEW b \in 1..Len(t), NEW i \in 1..Len(t), Begins(t, i, a, b)
  PROVE  NextBranch(t, a, i) = EndIf(t, i) /\ EndOf(t, a) = b
<1> DEFINE S == {m \in (i + 1)..Len(t) : m = EndOf(t, a) \/ BranchOf(t, m, a, EndOf(t, a))}
           e == EndIf(t, i)
<1>1. EndOf(t, a) = b
  BY ClauseEnds DEF Begins
<1>2. /\ e \in (i + 1)..b /\ (e = b \/ BranchOf(t, e, a, b))
      /\ \A k \in (i + 1)..(e - 1) : ~BranchOf(t, k, a, b)
  BY SearchForBranch
<1> HIDE DEF e
<1>3. e \in S /\ e \in Nat /\ i \in Nat /\ b \in Nat
  BY <1>1, <1>2
<1>4. S \subseteq Nat /\ S # {}
  BY <1>3
<1>5. Least(S) \in S /\ \A k \in S : Least(S) =< k
  <2> HIDE DEF S
  <2> QED BY <1>4, LeastIsLeast
<1>6. ASSUME NEW k \in S PROVE e =< k
  <2>1. k \in Nat /\ k >= i + 1 /\ (k = b \/ BranchOf(t, k, a, b))
    BY <1>1, <1>3
  <2>2. CASE k < e
    <3>1. k \in (i + 1)..(e - 1) /\ k # b
      BY <1>2, <1>3, <2>1, <2>2
    <3> QED BY <1>2, <2>1, <3>1
  <2> QED BY <1>3, <2>1, <2>2
<1>7. Least(S) = e
  <2> HIDE DEF S
  <2>1. Least(S) \in Nat /\ Least(S) =< e /\ e =< Least(S)
    BY <1>3, <1>4, <1>5, <1>6
  <2> QED BY <1>3, <2>1
<1> QED BY <1>1, <1>7 DEF NextBranch, e

\* What is open at a line of the clause itself, after its branch began at line i.
LEMMA OpenInClause ==
  ASSUME NEW t, WellFormed(t), Plain(t), Len(t) \in Nat,
         NEW a \in 1..Len(t), NEW b \in 1..Len(t), NEW i \in 1..Len(t), Begins(t, i, a, b),
         NEW m \in i..(b - 1), IfDepth(t, m) = IfDepth(t, a), DoDepth(t, m) = DoDepth(t, a)
  PROVE  /\ OpenIfs(t, m) \subseteq OpenIfs(t, i - 1) \cup {a}
         /\ OpenDos(t, m) \subseteq OpenDos(t, i - 1)
         /\ a \in OpenIfs(t, m)
         /\ i # a => a \in OpenIfs(t, i - 1) /\ IfDepth(t, i - 1) = IfDepth(t, a)
         /\ i = a => a \notin OpenIfs(t, i - 1)
<1>1. /\ MatchIf(t, a, b) /\ a \in Nat /\ b \in Nat /\ i \in Nat \ {0} /\ m \in Nat /\ EndOf(t, a) = b
      /\ Is(t, a, IfWords)
  BY ClauseEnds DEF Begins, MatchIf
<1>2. /\ i \in a..(b - 1)
      /\ \A k \in a..(b - 1) : /\ IfDepth(t, k) >= IfDepth(t, a)
                               /\ DoDepth(t, k) >= DoDepth(t, a)
      /\ IfDepth(t, i) = IfDepth(t, a) /\ DoDepth(t, i) = DoDepth(t, a)
  BY <1>1, ClauseDepths, BranchDepths
<1>3. m \in i..Len(t) /\ a =< i /\ i =< m /\ m < b
  BY <1>1, <1>2
<1>4. /\ \A k \in i..m : IfDepth(t, k) >= IfDepth(t, m)
      /\ \A k \in i..m : DoDepth(t, k) >= DoDepth(t, m)
  <2>1. \A k \in i..m : k \in a..(b - 1)
    BY <1>1, <1>2, <1>3
  <2> QED BY <1>2, <2>1
<1>5. /\ ~Is(t, i, DoWords) /\ (i # a => ~Is(t, i, IfWords) /\ ~Is(t, i, {"ENDIF"}))
  <2>1. (Is(t, i, IfWords) /\ i = a) \/ Is(t, i, Branches)
    BY <1>1 DEF Begins, BranchOf
  <2> QED BY <2>1 DEF Is, DoWords, IfWords, Branches
<1>6. /\ \A d \in OpenIfs(t, m) : d \in OpenIfs(t, i - 1) \/ d = i
      /\ \A d \in OpenDos(t, m) : d \in OpenDos(t, i - 1) \/ d = i
  BY <1>3, <1>4, OpenForward
<1>7. /\ \A d \in OpenIfs(t, m) : Is(t, d, IfWords)
      /\ \A d \in OpenDos(t, m) : Is(t, d, DoWords)
  BY DEF OpenIfs, OpenDos, Lines
<1>8. a \in OpenIfs(t, m)
  <2>1. a \in 1..m /\ b > m
    BY <1>1, <1>3
  <2> QED BY <1>1, <2>1 DEF OpenIfs, Lines
<1>9. ASSUME i # a PROVE a \in OpenIfs(t, i - 1) /\ IfDepth(t, i - 1) = IfDepth(t, a)
  <2>1. a \in 1..(i - 1) /\ b > i - 1
    BY <1>1, <1>3, <1>9
  <2>2. a \in OpenIfs(t, i - 1)
    BY <1>1, <2>1 DEF OpenIfs, Lines
  <2>3. IfDepth(t, i) = IfDepth(t, i - 1) + 0
    BY <1>1, <1>5, <1>9, DepthStep
  <2>4. IfDepth(t, i - 1) \in Int
    BY <1>1, DepthType
  <2> QED BY <1>2, <2>2, <2>3, <2>4
<1>10. ASSUME i = a PROVE a \notin OpenIfs(t, i - 1)
  <2>1. a \notin 1..(i - 1)
    BY <1>1, <1>10
  <2> QED BY <2>1 DEF OpenIfs, Lines
<1> QED BY <1>5, <1>6, <1>7, <1>8, <1>9, <1>10

\* What is open behind a loop was open at any line in it.
LEMMA OpenPastLoop ==
  ASSUME NEW t, WellFormed(t), Plain(t), Len(t) \in Nat,
         NEW a \in 1..Len(t), NEW b \in 1..Len(t), MatchDo(t, a, b),
         NEW i \in a..(b - 1), ~Is(t, i, IfWords)
  PROVE  /\ OpenIfs(t, b) \subseteq OpenIfs(t, i - 1)
         /\ OpenDos(t, b) \subseteq OpenDos(t, i - 1)
<1>1. /\ a \in Nat \ {0} /\ b \in Nat \ {0} /\ i \in Nat /\ i \in 1..Len(t) /\ b \in i..Len(t)
      /\ b - 1 \in Nat /\ a < b
  OBVIOUS
<1>2. /\ \A k \in a..(b - 1) : IfDepth(t, k) >= IfDepth(t, a) /\ DoDepth(t, k) >= DoDepth(t, a)
      /\ IfDepth(t, b - 1) = IfDepth(t, a) /\ DoDepth(t, b) = DoDepth(t, a) - 1
      /\ Is(t, b, {"ENDDO"})
  BY <1>1, LoopDepths DEF MatchDo
<1>3. \A k \in Nat : IfDepth(t, k) \in Int /\ DoDepth(t, k) \in Int
  BY DepthType
<1>4. IfDepth(t, b) = IfDepth(t, a)
  <2>1. ~Is(t, b, IfWords) /\ ~Is(t, b, {"ENDIF"})
    BY <1>2 DEF Is, IfWords
  <2>2. IfDepth(t, b) = IfDepth(t, b - 1) + 0
    BY <1>1, <2>1, DepthStep
  <2> QED BY <1>1, <1>2, <1>3, <2>2
<1>5. ASSUME NEW k \in i..b
      PROVE  IfDepth(t, k) >= IfDepth(t, b) /\ DoDepth(t, k) >= DoDepth(t, b)
  <2>1. k = b \/ k \in a..(b - 1)
    BY <1>1
  <2>2. /\ IfDepth(t, k) \in Int /\ DoDepth(t, k) \in Int
        /\ IfDepth(t, a) \in Int /\ DoDepth(t, a) \in Int
    BY <1>1, <1>3
  <2>3. CASE k = b
    BY <1>2, <1>4, <2>2, <2>3
  <2>4. CASE k \in a..(b - 1)
    <3>1. IfDepth(t, k) >= IfDepth(t, a) /\ DoDepth(t, k) >= DoDepth(t, a)
      BY <1>2, <2>4
    <3> QED BY <1>2, <1>4, <2>2, <3>1
  <2> QED BY <2>1, <2>3, <2>4
<1>6. /\ \A d \in OpenIfs(t, b) : d \in OpenIfs(t, i - 1) \/ d = i
      /\ \A d \in OpenDos(t, b) : d \in OpenDos(t, i - 1) \/ DoDepth(t, b) = DoDepth(t, i)
  BY <1>1, <1>5, OpenForward
<1>7. DoDepth(t, b) # DoDepth(t, i)
  BY <1>1, <1>2, <1>3
<1>8. \A d \in OpenIfs(t, b) : Is(t, d, IfWords)
  BY DEF OpenIfs, Lines
<1> QED BY <1>6, <1>7, <1>8

\* A loop is open at its lines, and the innermost one at its ENDDO.  What is
\* open where ENDDO goes back to is open there.
LEMMA OpenAtEnddo ==
  ASSUME NEW t, WellFormed(t), Plain(t), Len(t) \in Nat,
         NEW a \in 1..Len(t), NEW i \in 1..Len(t), MatchDo(t, a, i)
  PROVE  /\ a \in OpenDos(t, i - 1) /\ a \in OpenDos(t, a)
         /\ DoDepth(t, i - 1) = DoDepth(t, a)
         /\ Innermost(OpenDos(t, i - 1)) = a
         /\ \A q \in {a - 1, a} : /\ OpenIfs(t, q) \subseteq OpenIfs(t, i - 1)
                                  /\ OpenDos(t, q) \subseteq OpenDos(t, i - 1)
<1>1. /\ a \in Nat \ {0} /\ i \in Nat \ {0} /\ a < i /\ EndOf(t, a) = i
      /\ i - 1 \in Nat /\ i - 1 \in 0..Len(t) /\ a - 1 \in Nat /\ Is(t, a, DoWords)
  BY LoopEnds DEF MatchDo
<1>2. /\ \A k \in a..(i - 1) : IfDepth(t, k) >= IfDepth(t, a) /\ DoDepth(t, k) >= DoDepth(t, a)
      /\ IfDepth(t, i - 1) = IfDepth(t, a) /\ DoDepth(t, i - 1) = DoDepth(t, a)
  BY <1>1, LoopDepths
<1>3. \A k \in Nat : IfDepth(t, k) \in Int /\ DoDepth(t, k) \in Int
  BY DepthType
<1>4. a \in OpenDos(t, i - 1) /\ a \in OpenDos(t, a)
  <2>1. a \in 1..(i - 1) /\ a \in 1..a /\ i > i - 1 /\ i > a
    BY <1>1
  <2> QED BY <1>1, <2>1 DEF OpenDos, Lines
<1>5. Innermost(OpenDos(t, i - 1)) = a
  BY <1>1, <1>2, <1>4, OpenDeeper
<1>6. IfDepth(t, a - 1) = IfDepth(t, a) /\ DoDepth(t, a - 1) = DoDepth(t, a) - 1
  <2>1. ~Is(t, a, IfWords) /\ ~Is(t, a, {"ENDIF"})
    BY <1>1 DEF Is, DoWords, IfWords
  <2>2. IfDepth(t, a) = IfDepth(t, a - 1) + 0 /\ DoDepth(t, a) = DoDepth(t, a - 1) + 1
    BY <1>1, <2>1, DepthStep
  <2>3. IfDepth(t, a - 1) \in Int /\ DoDepth(t, a - 1) \in Int
    BY <1>1, <1>3
  <2> QED BY <2>2, <2>3
<1>7. ASSUME NEW q \in {a - 1, a}
      PROVE  /\ OpenIfs(t, q) \subseteq OpenIfs(t, i - 1)
             /\ OpenDos(t, q) \subseteq OpenDos(t, i - 1)
  <2>1. q \in 0..(i - 1)
    BY <1>1
  <2>2. ASSUME NEW k \in q..(i - 1)
        PROVE  IfDepth(t, k) >= IfDepth(t, q) /\ DoDepth(t, k) >= DoDepth(t, q)
    <3>1. k \in a..(i - 1) \/ k = q
      BY <1>1
    <3>2. /\ IfDepth(t, k) \in Int /\ DoDepth(t, k) \in Int
          /\ IfDepth(t, q) \in Int /\ DoDepth(t, q) \in Int
          /\ IfDepth(t, a) \in Int /\ DoDepth(t, a) \in Int
      BY <1>1, <1>3
    <3>3. IfDepth(t, q) = IfDepth(t, a) /\ DoDepth(t, a) >= DoDepth(t, q)
      BY <1>6, <3>2
    <3>4. CASE k = q
      BY <3>2, <3>4
    <3>5. CASE k \in a..(i - 1)
      <4>1. IfDepth(t, k) >= IfDepth(t, a) /\ DoDepth(t, k) >= DoDepth(t, a)
        BY <1>2, <3>5
      <4> QED BY <3>2, <3>3, <4>1
    <3> QED BY <3>1, <3>4, <3>5
  <2> QED BY <1>1, <2>1, <2>2, OpenBack
<1> QED BY <1>2, <1>4, <1>5, <1>7
-----------------------------------------------------------------------------
(* The handlers. *)

\* What the handlers are given: a number of lines, in a typed state in which
\* no level is beyond the arrays.
Typed(i) ==
  /\ CndTypeOK
  /\ Len(text) \in Nat
  /\ i \in 0..Len(text)
  /\ niflevel =< MIFLEVEL /\ ndolevel =< MDOLEVEL

\* What they leave behind.
TypedNext ==
  /\ pos' \in 0..Len(text)
  /\ nerr' \in {0, 1}
  /\ niflevel' \in Int
  /\ lifresp' \in [1..MIFLEVEL -> BOOLEAN]
  /\ ndolevel' \in Nat
  /\ ndotype' \in [1..MDOLEVEL -> {0, 1}]
  /\ ndolines' \in [1..MDOLEVEL -> Nat]
  /\ do_token' \in [1..MDOLEVEL -> 0..MaxItems]
  /\ truth' \in Results
  /\ asked' \in 0..MaxItems

\* skipif leaves the read position in the text.
LEMMA SkipifType ==
  ASSUME NEW i, Typed(i), skipif(i)
  PROVE  pos' \in 0..Len(text) /\ nerr' \in {0, 1}
<1>1. Len(text) \in Nat /\ i \in Nat
  BY DEF Typed
<1>2. nerr' \in {0, 1}
  BY DEF skipif, Raise
<1>3. CASE IfEnds(text, i) = {}
  BY <1>1, <1>2, <1>3 DEF skipif
<1>4. CASE IfEnds(text, i) # {}
  <2>1. EndIf(text, i) \in (i + 1)..Len(text)
    BY <1>1, <1>4, EndIfType
  <2> QED BY <1>1, <1>2, <1>4, <2>1 DEF skipif
<1> QED BY <1>3, <1>4

\* skipdo does too, and keeps the levels typed.
LEMMA SkipdoType ==
  ASSUME NEW i, NEW level \in Nat \ {0}, Typed(i), skipdo(i, level)
  PROVE  /\ pos' \in 0..Len(text) /\ nerr' \in {0, 1}
         /\ niflevel' \in Int /\ ndolevel' \in Nat
<1> DEFINE stop == IF DoEnds(text, i) = {} THEN Len(text) ELSE EndDo(text, i)
<1>1. Len(text) \in Nat /\ i \in Nat /\ niflevel \in Int
  BY DEF Typed, CndTypeOK
<1>2. stop \in i..Len(text)
  <2>1. CASE DoEnds(text, i) = {}
    BY <1>1, <2>1 DEF Typed
  <2>2. CASE DoEnds(text, i) # {}
    BY <1>1, <2>2, EndDoType
  <2> QED BY <2>1, <2>2
<1>3. NumIfs(text, i, stop) \in Int
  BY <1>1, <1>2, NumType
<1>4. /\ pos' = stop
      /\ niflevel' = niflevel + NumIfs(text, i, stop)
      /\ ndolevel' = IF DoEnds(text, i) = {} THEN level ELSE level - 1
      /\ nerr' \in {0, 1}
  BY DEF skipdo, Raise
<1> QED BY <1>1, <1>2, <1>3, <1>4

\* The length of a loop is a number of lines.
LEMMA GetdolenType ==
  ASSUME NEW i, Typed(i)
  PROVE  getdolen(i) \in Nat
<1>1. Len(text) \in Nat /\ i \in 0..Len(text)
  BY DEF Typed
<1>2. CASE DoEnds(text, i) = {}
  BY <1>1, <1>2 DEF getdolen
<1>3. CASE DoEnds(text, i) # {}
  <2>1. EndDo(text, i) \in (i + 1)..Len(text)
    BY <1>1, <1>3, EndDoType
  <2> QED BY <1>1, <1>3, <2>1 DEF getdolen
<1> QED BY <1>2, <1>3

\* A failing command changes nothing but the position.
LEMMA FailType ==
  ASSUME NEW i, Typed(i), Fail(i)
  PROVE  /\ pos' \in 0..Len(text) /\ nerr' \in {0, 1}
         /\ UNCHANGED levels
BY DEF Fail, Raise, Typed

\* Taking or passing a branch keeps the position and the slots typed.
LEMMA BranchType ==
  ASSUME NEW i, NEW result, Typed(i), Branch(i, result)
  PROVE  /\ pos' \in 0..Len(text) /\ nerr' \in {0, 1}
         /\ lifresp' \in [1..MIFLEVEL -> BOOLEAN]
         /\ UNCHANGED Loops
<1>1. lifresp' \in [1..MIFLEVEL -> BOOLEAN]
  BY DEF Branch, Typed, CndTypeOK
<1>2. CASE result = "TRUE"
  BY <1>1, <1>2 DEF Branch, Raise, Typed
<1>3. CASE result # "TRUE"
  BY <1>1, <1>3, SkipifType DEF Branch
<1> QED BY <1>2, <1>3

\* Every handler of an IF clause keeps the types.
LEMMA IfType ==
  ASSUME NEW i, Typed(i),
         \/ \E r \in Results : xif(i, r)
         \/ \E r \in Results : xelseif(i, r)
         \/ xelse(i)
         \/ xendif(i)
  PROVE  TypedNext
<1> USE DEF TypedNext
<1>1. CndTypeOK /\ i \in 0..Len(text)
  BY DEF Typed
<1>2. ASSUME NEW r \in Results, xif(i, r) PROVE TypedNext
  <2>1. truth' = r /\ asked' = asked
    BY <1>2 DEF xif, Evaluate
  <2>2. CASE Fail(i)
    BY <1>1, <2>1, <2>2, FailType DEF levels, CndTypeOK
  <2>3. CASE niflevel' = niflevel + 1 /\ Branch(i, r)
    BY <1>1, <2>1, <2>3, BranchType DEF Loops, CndTypeOK
  <2> QED BY <1>2, <2>2, <2>3 DEF xif
<1>3. ASSUME PassBranch(i) PROVE TypedNext
  BY <1>1, <1>3, SkipifType DEF PassBranch, levels, given, CndTypeOK
<1>4. ASSUME Fail(i), UNCHANGED given PROVE TypedNext
  BY <1>1, <1>4, FailType DEF levels, given, CndTypeOK
<1>5. ASSUME NEW r \in Results, xelseif(i, r) PROVE TypedNext
  <2>1. CASE Evaluate(r) /\ Fail(i)
    BY <1>1, <2>1, FailType DEF Evaluate, levels, CndTypeOK
  <2>2. CASE Evaluate(r) /\ UNCHANGED niflevel /\ Branch(i, r)
    BY <1>1, <2>2, BranchType DEF Evaluate, Loops, CndTypeOK
  <2> QED BY <1>3, <1>4, <1>5, <2>1, <2>2 DEF xelseif
<1>6. ASSUME xelse(i) PROVE TypedNext
  <2>1. CASE pos' = i /\ Raise(FALSE) /\ UNCHANGED <<levels, given>>
    BY <1>1, <2>1 DEF Raise, levels, given, CndTypeOK
  <2> QED BY <1>3, <1>4, <1>6, <2>1 DEF xelse
<1>7. ASSUME xendif(i) PROVE TypedNext
  BY <1>1, <1>7 DEF xendif, Raise, Loops, given, CndTypeOK
<1> QED BY <1>2, <1>5, <1>6, <1>7

\* Going back over lines (backspace) does not leave the text.
LEMMA BackspaceType ==
  ASSUME NEW i, NEW n \in Nat, Typed(i), Backspace(i, n)
  PROVE  pos' \in 0..Len(text)
BY DEF Backspace, Typed

\* A DO statement keeps the types, whichever list it makes.
LEMMA DoType ==
  ASSUME NEW i, NEW word, NEW items \in 0..MaxItems, NEW syntaxok,
         Typed(i), xdo(i, word, items, syntaxok)
  PROVE  TypedNext
<1> DEFINE level == ndolevel + 1
<1>1. CndTypeOK /\ i \in 0..Len(text) /\ level \in Nat \ {0}
  BY DEF Typed, CndTypeOK
<1>2. PICK old \in Stored(level) :
        LET list == MakeList(word, items, old) IN
        /\ ndotype'  = [ndotype EXCEPT ![level] = 0]
        /\ ndolines' = [ndolines EXCEPT ![level] = getdolen(i)]
        /\ asked' = items
        /\ UNCHANGED <<lifresp, truth>>
        /\ \/ /\ DoEnds(text, i) = {}
              /\ pos' = Len(text) /\ ndolevel' = level /\ Raise(FALSE)
              /\ UNCHANGED <<niflevel, do_token>>
           \/ /\ DoEnds(text, i) # {} /\ ~syntaxok
              /\ pos' = i /\ Raise(TRUE)
              /\ UNCHANGED <<niflevel, ndolevel, do_token>>
           \/ /\ DoEnds(text, i) # {} /\ syntaxok /\ list = 0
              /\ skipdo(i, level)
              /\ do_token' = [do_token EXCEPT ![level] = list]
           \/ /\ DoEnds(text, i) # {} /\ syntaxok /\ list > 0
              /\ pos' = i /\ ndolevel' = level /\ Raise(FALSE)
              /\ do_token' = [do_token EXCEPT ![level] = list - 1]
              /\ UNCHANGED niflevel
  BY DEF xdo
<1> DEFINE list == MakeList(word, items, old)
<1>3. list \in 0..MaxItems
  <2>1. old \in 0..MaxItems
    BY <1>1 DEF Stored, CndTypeOK
  <2> QED BY <2>1 DEF MakeList
<1>4. /\ ndotype' \in [1..MDOLEVEL -> {0, 1}]
      /\ ndolines' \in [1..MDOLEVEL -> Nat]
      /\ lifresp' \in [1..MIFLEVEL -> BOOLEAN]
      /\ truth' \in Results /\ asked' \in 0..MaxItems
  BY <1>1, <1>2, GetdolenType DEF CndTypeOK
<1>5. CASE pos' = Len(text) /\ ndolevel' = level /\ Raise(FALSE)
             /\ UNCHANGED <<niflevel, do_token>>
  BY <1>1, <1>4, <1>5 DEF Raise, TypedNext, CndTypeOK
<1>6. CASE pos' = i /\ Raise(TRUE) /\ UNCHANGED <<niflevel, ndolevel, do_token>>
  BY <1>1, <1>4, <1>6 DEF Raise, TypedNext, CndTypeOK
<1>7. CASE skipdo(i, level) /\ do_token' = [do_token EXCEPT ![level] = list]
  BY <1>1, <1>3, <1>4, <1>7, SkipdoType DEF TypedNext, CndTypeOK
<1>8. CASE /\ list > 0 /\ pos' = i /\ ndolevel' = level /\ Raise(FALSE)
           /\ do_token' = [do_token EXCEPT ![level] = list - 1]
           /\ UNCHANGED niflevel
  <2>1. list - 1 \in 0..MaxItems
    BY <1>3, <1>8, ItemAssumption
  <2>2. do_token' \in [1..MDOLEVEL -> 0..MaxItems]
    BY <1>1, <1>8, <2>1 DEF CndTypeOK
  <2> QED BY <1>1, <1>4, <1>8, <2>2 DEF Raise, TypedNext, CndTypeOK
<1> QED BY <1>2, <1>5, <1>6, <1>7, <1>8

\* So does a WHILE statement.
LEMMA WhileType ==
  ASSUME NEW i, Typed(i), EndlessWhile \/ \E r \in Results : xwhile(i, r)
  PROVE  TypedNext
<1>1. /\ CndTypeOK /\ i \in 0..Len(text) /\ Len(text) \in 0..Len(text)
      /\ ndolevel + 1 \in Nat \ {0}
  BY DEF Typed, CndTypeOK
<1>2. CASE EndlessWhile
  BY <1>1, <1>2 DEF EndlessWhile, Raise, levels, given, TypedNext, CndTypeOK
<1>3. ASSUME NEW r \in Results, xwhile(i, r) PROVE TypedNext
  <2>1. truth' \in Results /\ asked' \in 0..MaxItems
    BY <1>1, <1>3 DEF xwhile, Evaluate, CndTypeOK
  <2>2. CASE Fail(i)
    BY <1>1, <2>1, <2>2, FailType DEF levels, TypedNext, CndTypeOK
  <2>3. CASE /\ ndolevel' = ndolevel + 1
             /\ ndotype'  = [ndotype EXCEPT ![ndolevel + 1] = 1]
             /\ ndolines' = [ndolines EXCEPT ![ndolevel + 1] = getdolen(i)]
             /\ pos' = i /\ Raise(FALSE)
             /\ UNCHANGED <<niflevel, lifresp, do_token>>
    BY <1>1, <2>1, <2>3, GetdolenType DEF Raise, TypedNext, CndTypeOK
  <2>4. CASE /\ skipdo(i, ndolevel + 1)
             /\ UNCHANGED <<lifresp, ndotype, ndolines, do_token>>
    BY <1>1, <2>1, <2>4, SkipdoType DEF TypedNext, CndTypeOK
  <2> QED BY <1>3, <2>2, <2>3, <2>4 DEF xwhile
<1> QED BY <1>2, <1>3

\* So do ENDDO and BREAK.
LEMMA EnddoType ==
  ASSUME NEW i, Typed(i), xenddo(i) \/ xbreak(i)
  PROVE  TypedNext
<1>0. UNCHANGED given
  BY DEF xenddo, xbreak
<1>1. CndTypeOK /\ i \in 0..Len(text) /\ UNCHANGED given
  BY <1>0 DEF Typed
<1>2. CASE Fail(i)
  BY <1>1, <1>2, FailType DEF levels, given, TypedNext, CndTypeOK
<1>3. CASE /\ ndolevel > 0 /\ Raise(FALSE)
           /\ AgainWhile(i) \/ AgainDo(i) \/ ListDone(i)
           /\ UNCHANGED <<niflevel, lifresp, ndotype, ndolines>>
  <2>1. ndolevel \in 1..MDOLEVEL
    BY <1>1, <1>3, LevelAssumption DEF Typed, CndTypeOK
  <2>2. ndolines[ndolevel] \in Nat /\ ndolines[ndolevel] + 1 \in Nat
    BY <1>1, <2>1 DEF CndTypeOK
  <2>3. CASE AgainWhile(i)
    BY <1>1, <1>3, <2>1, <2>2, <2>3, BackspaceType
      DEF AgainWhile, Raise, given, TypedNext, CndTypeOK
  <2>4. CASE AgainDo(i)
    <3>1. do_token[ndolevel] - 1 \in 0..MaxItems
      BY <1>1, <2>1, <2>4, ItemAssumption DEF AgainDo, CndTypeOK
    <3>2. do_token' \in [1..MDOLEVEL -> 0..MaxItems]
      BY <1>1, <2>1, <2>4, <3>1 DEF AgainDo, CndTypeOK
    <3> QED BY <1>1, <1>3, <2>2, <2>4, <3>2, BackspaceType
      DEF AgainDo, Raise, given, TypedNext, CndTypeOK
  <2>5. CASE ListDone(i)
    BY <1>1, <1>3, <2>1, <2>5 DEF ListDone, Raise, given, TypedNext, CndTypeOK
  <2> QED BY <1>3, <2>3, <2>4, <2>5
<1>4. CASE /\ ndolevel > 0 /\ skipdo(i, ndolevel)
           /\ UNCHANGED <<lifresp, ndotype, ndolines, do_token>>
  <2>1. ndolevel \in Nat \ {0}
    BY <1>1, <1>4 DEF CndTypeOK
  <2> QED BY <1>1, <1>4, <2>1, SkipdoType DEF given, TypedNext, CndTypeOK
<1> QED BY <1>2, <1>3, <1>4 DEF xenddo, xbreak

\* One conditional command keeps the types.
LEMMA XcndcType ==
  ASSUME NEW i, NEW word, NEW level, Typed(i), xcndc(word, i, level)
  PROVE  TypedNext /\ macro_active' \in BOOLEAN /\ UNCHANGED text
<1>1. UNCHANGED text /\ CndTypeOK /\ i \in 0..Len(text)
  BY DEF xcndc, Typed
<1>2. CASE macro_off(i) /\ UNCHANGED <<levels, given>>
  BY <1>1, <1>2 DEF macro_off, Raise, levels, given, TypedNext, CndTypeOK
<1>3. ASSUME NEW n \in 1..MaxItems PROVE n \in 0..MaxItems
  BY ItemAssumption
<1>4. ASSUME UNCHANGED macro_active,
             \/ \E r \in Results : xif(i, r)
             \/ \E r \in Results : xelseif(i, r)
             \/ xelse(i)
             \/ xendif(i)
             \/ \E n \in 0..MaxItems, ok \in BOOLEAN : xdo(i, "DO", n, ok)
             \/ \E n \in 1..MaxItems, ok \in BOOLEAN : xdo(i, "DOLIST", n, ok)
             \/ EndlessWhile
             \/ \E r \in Results : xwhile(i, r)
             \/ xenddo(i)
             \/ xbreak(i)
      PROVE  TypedNext /\ macro_active' \in BOOLEAN
  <2>1. macro_active' \in BOOLEAN
    BY <1>1, <1>4 DEF CndTypeOK
  <2> QED BY <1>3, <1>4, <2>1, IfType, DoType, WhileType, EnddoType
<1>5. CASE Fail(i) /\ UNCHANGED <<macro_active, given>>
  BY <1>1, <1>5, FailType DEF levels, given, TypedNext, CndTypeOK
<1> QED BY <1>1, <1>2, <1>4, <1>5 DEF xcndc

\* The globals as the program starts.
LEMMA CndInitType ==
  ASSUME CndInit, pos \in 0..Len(text)
  PROVE  CndTypeOK
<1>1. macro_active \in BOOLEAN /\ truth \in Results
  BY DEF CndInit, Results
<1>2. /\ nerr \in {0, 1} /\ niflevel \in Int /\ ndolevel \in Nat
      /\ asked \in 0..MaxItems
  BY ItemAssumption DEF CndInit
<1>3. /\ lifresp \in [1..MIFLEVEL -> BOOLEAN]
      /\ ndotype \in [1..MDOLEVEL -> {0, 1}]
      /\ ndolines \in [1..MDOLEVEL -> Nat]
      /\ do_token \in [1..MDOLEVEL -> 0..MaxItems]
  BY ItemAssumption DEF CndInit
<1> QED BY <1>1, <1>2, <1>3 DEF CndTypeOK
-----------------------------------------------------------------------------
(* A conditional command on line i of a well-written text, for a macro that  *)
(* runs on any level.                                                        *)

WordAt(i) == First(text[i])

\* No level is beyond the arrays.
Fits == niflevel =< MIFLEVEL /\ ndolevel =< MDOLEVEL

\* The slot of each loop that is open after p lines tells what it is.
SlotAt(p, d) == ndolevel - (DoDepth(text, p) - DoDepth(text, d))

Recorded(p) == \A d \in 1..Len(text) : IsOpen(text, d, p) =>
                 /\ ndotype[SlotAt(p, d)] = (IF Is(text, d, {"WHILE"}) THEN 1 ELSE 0)
                 /\ ndolines[SlotAt(p, d)] = EndOf(text, d) - d

\* The command on line i is about to run: the levels are at least the depths of
\* the text, and the open loops are recorded.
AtLine(i) == /\ Typed(i) /\ i # 0 /\ WellFormed(text) /\ Plain(text)
             /\ niflevel >= IfDepth(text, i - 1) /\ ndolevel >= DoDepth(text, i - 1)
             /\ Recorded(i - 1)

\* What it leaves: levels that follow the text, and slots in which the loops
\* that are open then can be found; or an error that is not the macro system's.
SlotAfter(d) == ndolevel' - (DoDepth(text, pos') - DoDepth(text, d))

Found(d) == /\ ndotype'[SlotAfter(d)] = (IF Is(text, d, {"WHILE"}) THEN 1 ELSE 0)
            /\ ndolines'[SlotAfter(d)] = EndOf(text, d) - d

Remembers == Fits' => \A d \in 1..Len(text) : IsOpen(text, d, pos') => Found(d)

KeepsDepths(i) ==
  /\ niflevel' - niflevel = IfDepth(text, pos') - IfDepth(text, i - 1)
  /\ ndolevel' - ndolevel = DoDepth(text, pos') - DoDepth(text, i - 1)

ExcusedAt(i) == \/ WordAt(i) \in {"IF", "ELSEIF", "WHILE"} /\ truth' = "ERROR"
                \/ WordAt(i) \in {"DO", "DOLIST"}

Behaves(i) ==
  \/ nerr' = 0 /\ KeepsDepths(i) /\ Remembers
  \/ nerr' = 1 /\ UNCHANGED <<niflevel, ndolevel>> /\ ExcusedAt(i)

\* The facts the handlers' lemmas start from.
LEMMA LineFacts ==
  ASSUME NEW i, AtLine(i)
  PROVE  /\ Len(text) \in Nat /\ i \in 1..Len(text) /\ i \in Nat \ {0}
         /\ i - 1 \in Nat /\ i - 1 \in 0..Len(text) /\ i \in 0..Len(text)
         /\ WordAt(i) = First(text[i]) /\ Fits /\ CndTypeOK
         /\ niflevel \in Int /\ ndolevel \in Nat
         /\ niflevel >= IfDepth(text, i - 1) /\ ndolevel >= DoDepth(text, i - 1)
         /\ IfDepth(text, i - 1) \in Nat /\ DoDepth(text, i - 1) \in Nat
         /\ IfDepth(text, i) \in Nat /\ DoDepth(text, i) \in Nat
         /\ Typed(i)
<1>1. /\ Typed(i) /\ CndTypeOK /\ Len(text) \in Nat /\ i \in 0..Len(text) /\ i # 0
      /\ Fits /\ niflevel \in Int /\ ndolevel \in Nat
  BY DEF AtLine, Typed, Fits, CndTypeOK
<1>2. i \in 1..Len(text) /\ i - 1 \in 0..Len(text) /\ i \in Nat \ {0} /\ i - 1 \in Nat
  BY <1>1
<1>3. /\ IfDepth(text, i - 1) \in Nat /\ DoDepth(text, i - 1) \in Nat
      /\ IfDepth(text, i) \in Nat /\ DoDepth(text, i) \in Nat
  <2>1. WellFormed(text)
    BY DEF AtLine
  <2> QED BY <1>1, <1>2, <2>1, DepthsNatural
<1> QED BY <1>1, <1>2, <1>3 DEF AtLine, WordAt

\* A step that keeps to the nesting of the text keeps every loop in its slot.
LEMMA SameSlot ==
  ASSUME NEW i, NEW d, KeepsDepths(i), ndolevel \in Nat, ndolevel' \in Nat, DoDepth(text, d) \in Nat,
         DoDepth(text, i - 1) \in Nat, DoDepth(text, pos') \in Nat
  PROVE  SlotAfter(d) = SlotAt(i - 1, d)
BY DEF SlotAfter, SlotAt, KeepsDepths

\* A loop that was open and stays open is found in the slot it had, when the
\* slots in use have not been written to.
LEMMA StaysFound ==
  ASSUME NEW i, AtLine(i), KeepsDepths(i), pos' \in 0..Len(text), ndolevel' \in Nat,
         \A l \in 1..ndolevel : ndotype'[l] = ndotype[l] /\ ndolines'[l] = ndolines[l],
         NEW d \in 1..Len(text), IsOpen(text, d, i - 1), IsOpen(text, d, pos')
  PROVE  Found(d)
<1>1. /\ Len(text) \in Nat /\ i - 1 \in Nat /\ Fits
      /\ ndolevel \in Nat /\ ndolevel >= DoDepth(text, i - 1) /\ DoDepth(text, i - 1) \in Nat
  BY LineFacts
<1>2. /\ ndotype[SlotAt(i - 1, d)] = (IF Is(text, d, {"WHILE"}) THEN 1 ELSE 0)
      /\ ndolines[SlotAt(i - 1, d)] = EndOf(text, d) - d
  BY <1>1 DEF AtLine, Recorded
<1>3. /\ DoDepth(text, d) \in Nat /\ DoDepth(text, d - 1) \in Nat
      /\ DoDepth(text, pos') \in Nat
  <2>1. d \in 0..Len(text) /\ d - 1 \in 0..Len(text) /\ WellFormed(text)
    BY <1>1 DEF AtLine
  <2> QED BY <1>1, <2>1, DepthsNatural
<1>4. DoDepth(text, d) = DoDepth(text, d - 1) + 1
  <2>1. d \in Nat \ {0} /\ Is(text, d, DoWords)
    BY <1>1 DEF IsOpen
  <2> QED BY <1>3, <2>1, DepthStep
<1>5. DoDepth(text, i - 1) >= DoDepth(text, d)
  <2>1. i - 1 \in d..(i - 1)
    BY <1>1 DEF IsOpen
  <2> QED BY <2>1 DEF IsOpen
<1>6. SlotAt(i - 1, d) \in 1..ndolevel
  BY <1>1, <1>3, <1>4, <1>5 DEF SlotAt
<1>7. SlotAfter(d) = SlotAt(i - 1, d)
  <2>1. DoDepth(text, i - 1) \in Nat
    BY <1>1
  <2> QED BY <1>1, <1>3, <2>1, SameSlot
<1> QED BY <1>2, <1>6, <1>7 DEF Found

LEMMA LineBefore ==
  ASSUME NEW d \in Int, NEW i \in Int, NEW p \in Int, i < d, d =< p
  PROVE  d - 1 \in i..(p - 1)
OBVIOUS

\* Going forward from line i to where no fewer loops are open than there ever
\* were on the way opens none but that of line i itself.
LEMMA ForwardFound ==
  ASSUME NEW i, AtLine(i), KeepsDepths(i), pos' \in i..Len(text), ndolevel' \in Nat,
         \A l \in 1..ndolevel : ndotype'[l] = ndotype[l] /\ ndolines'[l] = ndolines[l],
         \A k \in i..(pos' - 1) : DoDepth(text, k) >= DoDepth(text, pos'),
         Is(text, i, DoWords) => DoDepth(text, i) > DoDepth(text, pos')
  PROVE  Remembers
<1> SUFFICES ASSUME NEW d \in 1..Len(text), IsOpen(text, d, pos') PROVE Found(d)
  BY DEF Remembers
<1>1. Len(text) \in Nat /\ i \in Nat \ {0} /\ pos' \in Nat /\ pos' \in 0..Len(text)
  BY LineFacts
<1>2. d =< pos' /\ Is(text, d, DoWords) /\ \A k \in d..pos' : DoDepth(text, k) >= DoDepth(text, d)
  BY DEF IsOpen
<1>3. DoDepth(text, pos') >= DoDepth(text, d)
  BY <1>1, <1>2
<1>4. /\ DoDepth(text, d) = DoDepth(text, d - 1) + 1
      /\ DoDepth(text, d) \in Int /\ DoDepth(text, d - 1) \in Int /\ DoDepth(text, pos') \in Int
  BY <1>1, <1>2, DepthStep, DepthType
<1>5. CASE d > i
  <2>1. d - 1 \in i..(pos' - 1)
    <3>1. d \in Int /\ i \in Int /\ pos' \in Int /\ d =< pos' /\ d > i
      BY <1>1, <1>2, <1>5
    <3> QED BY <3>1, LineBefore
  <2> QED BY <1>3, <1>4, <2>1
<1>6. CASE d = i
  BY <1>2, <1>3, <1>4, <1>6
<1>7. CASE d < i
  <2>1. IsOpen(text, d, i - 1)
    <3>1. d =< i - 1 /\ \A k \in d..(i - 1) : k \in d..pos'
      BY <1>1, <1>7
    <3> QED BY <1>2, <3>1 DEF IsOpen
  <2> QED BY <1>1, <2>1, StaysFound
<1> QED BY <1>1, <1>5, <1>6, <1>7
\* How the command on line i changes the depths.
LEMMA DepthsHere ==
  ASSUME NEW i, AtLine(i)
  PROVE  /\ IfDepth(text, i) = IfDepth(text, i - 1) + (IF WordAt(i) = "IF" THEN 1
                                  ELSE IF WordAt(i) = "ENDIF" THEN -1 ELSE 0)
         /\ DoDepth(text, i) = DoDepth(text, i - 1) + (IF WordAt(i) \in DoWords THEN 1
                                  ELSE IF WordAt(i) = "ENDDO" THEN -1 ELSE 0)
         /\ \A words : Is(text, i, words) <=> WordAt(i) \in words
         /\ IfDepth(text, i - 1) \in Nat /\ DoDepth(text, i - 1) \in Nat
<1>1. i \in Nat \ {0} /\ WordAt(i) = First(text[i])
  BY LineFacts
<1>2. \A words : Is(text, i, words) <=> WordAt(i) \in words
  BY <1>1 DEF Is
<1>3. IfDepth(text, i - 1) \in Nat /\ DoDepth(text, i - 1) \in Nat
  BY LineFacts
<1> QED BY <1>1, <1>2, <1>3, DepthStep DEF IfWords

\* A command that opens no loop and lets the next line follow.
LEMMA Onward ==
  ASSUME NEW i, AtLine(i), pos' = i, nerr' = 0, WordAt(i) \notin DoWords,
         niflevel' - niflevel = IfDepth(text, i) - IfDepth(text, i - 1),
         ndolevel' - ndolevel = DoDepth(text, i) - DoDepth(text, i - 1),
         ndolevel' \in Nat, ndotype' = ndotype, ndolines' = ndolines
  PROVE  KeepsDepths(i) /\ Remembers
<1>1. KeepsDepths(i)
  BY DEF KeepsDepths
<1>2. i \in Nat /\ Len(text) \in Nat /\ i \in 1..Len(text)
  BY LineFacts
<1>3. ~Is(text, i, DoWords)
  BY DepthsHere
<1>4. pos' \in i..Len(text) /\ \A k \in i..(pos' - 1) : FALSE
  BY <1>2
<1> QED BY <1>1, <1>3, <1>4, ForwardFound

\* A line that begins a branch, when the branch is searched past.
LEMMA BranchPassed ==
  ASSUME NEW i, AtLine(i), NEW a \in 1..Len(text), NEW b \in 1..Len(text),
         Begins(text, i, a, b), skipif(i),
         niflevel' - niflevel = IfDepth(text, i) - IfDepth(text, i - 1),
         DoDepth(text, i) = DoDepth(text, i - 1), UNCHANGED Loops
  PROVE  nerr' = 0 /\ KeepsDepths(i) /\ Remembers
<1> DEFINE m == EndIf(text, i)
<1>1. i \in 1..Len(text) /\ i \in Nat /\ Len(text) \in Nat /\ ndolevel \in Nat
      /\ WellFormed(text) /\ Plain(text) /\ IfDepth(text, i) \in Nat /\ DoDepth(text, i) \in Nat
  BY LineFacts DEF AtLine
<1>2. /\ IfEnds(text, i) # {}
      /\ m \in (i + 1)..b
      /\ IfDepth(text, m - 1) = IfDepth(text, i)
      /\ DoDepth(text, m - 1) = DoDepth(text, i)
      /\ \A k \in i..(m - 1) : DoDepth(text, k) >= DoDepth(text, i)
  BY <1>1, SearchForBranch
<1>3. nerr' = 0 /\ pos' = m - 1
  BY <1>2 DEF skipif, Raise
<1> HIDE DEF m
<1>4. ndolevel' = ndolevel /\ ndotype' = ndotype /\ ndolines' = ndolines
  BY DEF Loops
<1>5. KeepsDepths(i)
  <2>1. ndolevel' - ndolevel = DoDepth(text, i) - DoDepth(text, i - 1)
    BY <1>1, <1>4
  <2> QED BY <1>2, <1>3, <2>1 DEF KeepsDepths
<1>6. pos' \in i..Len(text)
  BY <1>1, <1>2, <1>3
<1>7. \A k \in i..(pos' - 1) : DoDepth(text, k) >= DoDepth(text, pos')
  BY <1>1, <1>2, <1>3
<1>8. ~Is(text, i, DoWords)
  BY <1>1, DepthsHere
<1> QED BY <1>1, <1>3, <1>4, <1>5, <1>6, <1>7, <1>8, ForwardFound

\* Searching past the rest of a loop.
LEMMA LoopLeft ==
  ASSUME NEW i, AtLine(i), NEW level \in Nat \ {0}, skipdo(i, level),
         DoDepth(text, i) > 0, IfDepth(text, i) = IfDepth(text, i - 1),
         level - ndolevel = DoDepth(text, i) - DoDepth(text, i - 1),
         \A l \in 1..ndolevel : ndotype'[l] = ndotype[l] /\ ndolines'[l] = ndolines[l]
  PROVE  nerr' = 0 /\ KeepsDepths(i) /\ Remembers
<1> DEFINE e == EndDo(text, i)
<1>1. i \in 0..Len(text) /\ i \in Nat /\ Len(text) \in Nat /\ ndolevel \in Nat
      /\ WellFormed(text) /\ Plain(text) /\ IfDepth(text, i) \in Nat /\ DoDepth(text, i) \in Nat
      /\ niflevel \in Int
  BY LineFacts DEF AtLine
<1>2. /\ DoEnds(text, i) # {}
      /\ e \in (i + 1)..Len(text)
      /\ DoDepth(text, e) = DoDepth(text, i) - 1
      /\ \A k \in i..(e - 1) : DoDepth(text, k) >= DoDepth(text, i)
  BY <1>1, OpenLoopEnds
<1>3. nerr' = 0 /\ pos' = e /\ ndolevel' = level - 1
      /\ niflevel' = niflevel + NumIfs(text, i, e)
  BY <1>2 DEF skipdo, Raise
<1> HIDE DEF e
<1>4. NumIfs(text, i, e) = IfDepth(text, e) - IfDepth(text, i)
  <2>1. e \in i..Len(text)
    BY <1>1, <1>2
  <2> QED BY <1>1, <2>1, NumIsDepth
<1>5. IfDepth(text, e) \in Nat /\ DoDepth(text, e) \in Nat
  <2>1. e \in 0..Len(text)
    BY <1>1, <1>2
  <2> QED BY <1>1, <2>1, DepthsNatural
<1>6. KeepsDepths(i)
  <2>1. DoDepth(text, i - 1) \in Nat
    BY DepthsHere
  <2>2. niflevel' - niflevel = IfDepth(text, e) - IfDepth(text, i - 1)
    BY <1>1, <1>3, <1>4, <1>5
  <2>3. ndolevel' - ndolevel = DoDepth(text, e) - DoDepth(text, i - 1)
    BY <1>1, <1>2, <1>3, <1>5, <2>1
  <2> QED BY <1>3, <2>2, <2>3 DEF KeepsDepths
<1>7. pos' \in i..Len(text) /\ ndolevel' \in Nat
  BY <1>1, <1>2, <1>3
<1>8. \A k \in i..(pos' - 1) : DoDepth(text, k) >= DoDepth(text, pos')
  <2> SUFFICES ASSUME NEW k \in i..(e - 1) PROVE DoDepth(text, k) >= DoDepth(text, e)
    BY <1>3
  <2>1. k \in Nat
    BY <1>1
  <2>2. DoDepth(text, k) \in Int /\ DoDepth(text, k) >= DoDepth(text, i)
    BY <1>2, <2>1, DepthType
  <2> QED BY <1>1, <1>2, <2>2
<1>9. DoDepth(text, i) > DoDepth(text, pos')
  BY <1>1, <1>2, <1>3
<1> QED BY <1>3, <1>6, <1>7, <1>8, <1>9, ForwardFound

\* Going back to where fewer loops were open than ever since.
LEMMA BackFound ==
  ASSUME NEW i, AtLine(i), KeepsDepths(i), pos' \in 0..(i - 1), ndolevel' \in Nat,
         ndotype' = ndotype, ndolines' = ndolines,
         \A k \in pos'..(i - 1) : DoDepth(text, k) >= DoDepth(text, pos')
  PROVE  Remembers
<1> SUFFICES ASSUME NEW d \in 1..Len(text), IsOpen(text, d, pos') PROVE Found(d)
  BY DEF Remembers
<1>1. i \in 1..Len(text) /\ Len(text) \in Nat /\ i \in Nat /\ pos' \in Nat /\ d \in Nat
      /\ pos' \in 0..Len(text)
  BY LineFacts
<1>2. d =< pos' /\ Is(text, d, DoWords) /\ \A k \in d..pos' : DoDepth(text, k) >= DoDepth(text, d)
  BY DEF IsOpen
<1>3. \A k \in d..(i - 1) : DoDepth(text, k) >= DoDepth(text, d)
  <2> SUFFICES ASSUME NEW k \in d..(i - 1) PROVE DoDepth(text, k) >= DoDepth(text, d)
    OBVIOUS
  <2>1. CASE k =< pos'
    BY <1>1, <1>2, <2>1
  <2>2. CASE k > pos'
    <3>1. DoDepth(text, k) >= DoDepth(text, pos')
      BY <1>1, <2>2
    <3>2. DoDepth(text, pos') >= DoDepth(text, d)
      BY <1>1, <1>2
    <3>3. k \in Nat
      BY <1>1
    <3> QED BY <1>1, <3>1, <3>2, <3>3, DepthType
  <2>3. k \in Nat
    BY <1>1
  <2> QED BY <1>1, <2>1, <2>2, <2>3
<1>4. IsOpen(text, d, i - 1)
  BY <1>1, <1>2, <1>3 DEF IsOpen
<1> QED BY <1>1, <1>4, StaysFound
-----------------------------------------------------------------------------
(* The handlers, for well-formed texts. *)

LEMMA IfFollows ==
  ASSUME NEW i, AtLine(i), WordAt(i) = "IF", NEW r \in Results, xif(i, r), TypedNext
  PROVE  Behaves(i)
<1>1. /\ i \in 1..Len(text) /\ niflevel \in Int /\ ndolevel \in Nat /\ WellFormed(text)
      /\ IfDepth(text, i) = IfDepth(text, i - 1) + 1 /\ DoDepth(text, i) = DoDepth(text, i - 1)
      /\ IfDepth(text, i - 1) \in Nat /\ DoDepth(text, i - 1) \in Nat /\ Is(text, i, IfWords)
  <2>1. WordAt(i) # "ENDDO" /\ WordAt(i) \notin DoWords /\ WordAt(i) \in IfWords
    BY DEF DoWords, IfWords
  <2> QED BY <2>1, LineFacts, DepthsHere DEF AtLine
<1>2. CASE r = "ERROR" /\ Fail(i)
  BY <1>2 DEF xif, Evaluate, Fail, Raise, levels, Behaves, ExcusedAt
<1>3. CASE niflevel' = niflevel + 1 /\ Branch(i, r)
  <2>1. UNCHANGED Loops /\ niflevel' - niflevel = IfDepth(text, i) - IfDepth(text, i - 1)
    BY <1>1, <1>3 DEF Branch
  <2>2. CASE r = "TRUE"
    <3>1. pos' = i /\ nerr' = 0 /\ WordAt(i) \notin DoWords
      BY <1>3, <2>2 DEF Branch, Raise, DoWords
    <3>2. ndolevel' - ndolevel = DoDepth(text, i) - DoDepth(text, i - 1)
          /\ ndolevel' \in Nat /\ ndotype' = ndotype /\ ndolines' = ndolines
      BY <1>1, <2>1 DEF Loops
    <3> QED BY <2>1, <3>1, <3>2, Onward DEF Behaves
  <2>3. CASE r # "TRUE"
    <3>1. PICK b \in 1..Len(text) : MatchIf(text, i, b)
      BY <1>1 DEF WellFormed
    <3>2. Begins(text, i, i, b) /\ skipif(i)
      BY <1>3, <2>3, <3>1 DEF Begins, Branch
    <3> QED BY <1>1, <2>1, <3>2, BranchPassed DEF Behaves
  <2> QED BY <2>2, <2>3
<1> QED BY <1>2, <1>3 DEF xif

\* ELSE and ELSEIF are in a clause, so that its level is open.
LEMMA BranchFacts ==
  ASSUME NEW i, AtLine(i), WordAt(i) \in Branches
  PROVE  /\ niflevel > 0 /\ IfDepth(text, i - 1) > 0
         /\ IfDepth(text, i) = IfDepth(text, i - 1) /\ DoDepth(text, i) = DoDepth(text, i - 1)
         /\ DoDepth(text, i - 1) \in Nat /\ IfDepth(text, i - 1) \in Nat
         /\ niflevel \in Int /\ ndolevel \in Nat /\ WordAt(i) \notin DoWords
         /\ \E a, b \in 1..Len(text) : Begins(text, i, a, b)
<1>1. /\ i \in 1..Len(text) /\ niflevel \in Int /\ ndolevel \in Nat /\ WellFormed(text)
      /\ niflevel >= IfDepth(text, i - 1) /\ Len(text) \in Nat
  BY LineFacts DEF AtLine
<1>2. /\ IfDepth(text, i) = IfDepth(text, i - 1) /\ DoDepth(text, i) = DoDepth(text, i - 1)
      /\ DoDepth(text, i - 1) \in Nat /\ IfDepth(text, i - 1) \in Nat /\ Is(text, i, Branches)
      /\ WordAt(i) \notin DoWords
  <2>1. WordAt(i) \notin {"IF", "ENDIF", "ENDDO"} /\ WordAt(i) \notin DoWords
    BY DEF DoWords, Branches
  <2> QED BY <2>1, DepthsHere
<1>3. PICK a \in 1..Len(text), b \in 1..Len(text) : BranchOf(text, i, a, b)
  BY <1>1, <1>2 DEF WellFormed
<1>4. Begins(text, i, a, b)
  BY <1>3 DEF Begins, BranchOf
<1>5. IfDepth(text, i) = IfDepth(text, a)
  <2>1. a \in Nat /\ b \in Nat /\ i \in Nat
    BY <1>1
  <2> QED BY <1>4, <2>1, BranchDepths
<1>6. IfDepth(text, a) >= 1
  <2>1. a \in Nat \ {0} /\ a - 1 \in 0..Len(text) /\ Is(text, a, IfWords)
    BY <1>1, <1>3 DEF BranchOf, MatchIf
  <2>2. IfDepth(text, a) = IfDepth(text, a - 1) + 1
    BY <2>1, DepthStep
  <2>3. IfDepth(text, a - 1) \in Nat
    BY <1>1, <2>1, DepthsNatural
  <2> QED BY <2>2, <2>3
<1> QED BY <1>1, <1>2, <1>4, <1>5, <1>6

LEMMA ElseFollows ==
  ASSUME NEW i, AtLine(i), TypedNext,
         \/ WordAt(i) = "ELSE" /\ xelse(i)
         \/ WordAt(i) = "ELSEIF" /\ \E r \in Results : xelseif(i, r)
  PROVE  Behaves(i)
<1>1. WordAt(i) \in Branches
  BY DEF Branches
<1>2. /\ niflevel > 0
      /\ IfDepth(text, i) = IfDepth(text, i - 1) /\ DoDepth(text, i) = DoDepth(text, i - 1)
      /\ DoDepth(text, i - 1) \in Nat /\ IfDepth(text, i - 1) \in Nat
      /\ niflevel \in Int /\ ndolevel \in Nat /\ WordAt(i) \notin DoWords
  BY <1>1, BranchFacts
<1>3. PICK a \in 1..Len(text), b \in 1..Len(text) : Begins(text, i, a, b)
  BY <1>1, BranchFacts
<1>4. ~(niflevel =< 0)
  BY <1>2
<1>5. ASSUME skipif(i), UNCHANGED <<niflevel, Loops>> PROVE Behaves(i)
  <2>1. niflevel' - niflevel = IfDepth(text, i) - IfDepth(text, i - 1)
    BY <1>2, <1>5
  <2> QED BY <1>2, <1>3, <1>5, <2>1, BranchPassed DEF Behaves
<1>6. ASSUME pos' = i, Raise(FALSE), UNCHANGED <<niflevel, Loops>> PROVE Behaves(i)
  <2>1. niflevel' - niflevel = IfDepth(text, i) - IfDepth(text, i - 1)
        /\ ndolevel' - ndolevel = DoDepth(text, i) - DoDepth(text, i - 1)
        /\ ndolevel' \in Nat /\ ndotype' = ndotype /\ ndolines' = ndolines
    BY <1>2, <1>6 DEF Loops
  <2>2. nerr' = 0
    BY <1>6 DEF Raise
  <2> QED BY <1>2, <1>6, <2>1, <2>2, Onward DEF Behaves
<1>7. ASSUME PassBranch(i) PROVE Behaves(i)
  BY <1>5, <1>7 DEF PassBranch, levels, Loops
<1>8. CASE WordAt(i) = "ELSE" /\ xelse(i)
  <2>1. CASE pos' = i /\ Raise(FALSE) /\ UNCHANGED <<levels, given>>
    BY <1>6, <2>1 DEF levels, Loops
  <2> QED BY <1>4, <1>7, <1>8, <2>1 DEF xelse
<1>9. ASSUME WordAt(i) = "ELSEIF", NEW r \in Results, xelseif(i, r) PROVE Behaves(i)
  <2>1. CASE Evaluate(r) /\ r = "ERROR" /\ Fail(i)
    BY <1>9, <2>1 DEF Evaluate, Fail, Raise, levels, Behaves, ExcusedAt
  <2>2. CASE Evaluate(r) /\ UNCHANGED niflevel /\ Branch(i, r)
    BY <1>5, <1>6, <2>2 DEF Branch
  <2> QED BY <1>4, <1>7, <1>9, <2>1, <2>2 DEF xelseif
<1> QED BY <1>8, <1>9

LEMMA EndifFollows ==
  ASSUME NEW i, AtLine(i), WordAt(i) = "ENDIF", xendif(i), TypedNext
  PROVE  Behaves(i)
<1>1. /\ IfDepth(text, i) = IfDepth(text, i - 1) - 1 /\ DoDepth(text, i) = DoDepth(text, i - 1)
      /\ DoDepth(text, i - 1) \in Nat /\ IfDepth(text, i - 1) \in Nat /\ WordAt(i) \notin DoWords
  <2>1. WordAt(i) # "ENDDO" /\ WordAt(i) # "IF" /\ WordAt(i) \notin DoWords
    BY DEF DoWords
  <2> QED BY <2>1, DepthsHere
<1>2. /\ IfDepth(text, i) \in Nat /\ niflevel \in Int /\ ndolevel \in Nat
      /\ niflevel >= IfDepth(text, i - 1)
  BY LineFacts
<1>3. niflevel > 0
  BY <1>1, <1>2
<1>4. /\ pos' = i /\ nerr' = 0 /\ niflevel' = niflevel - 1
      /\ ndolevel' = ndolevel /\ ndotype' = ndotype /\ ndolines' = ndolines
  BY <1>2, <1>3 DEF xendif, Raise, Loops
<1>5. /\ niflevel' - niflevel = IfDepth(text, i) - IfDepth(text, i - 1)
      /\ ndolevel' - ndolevel = DoDepth(text, i) - DoDepth(text, i - 1) /\ ndolevel' \in Nat
  BY <1>1, <1>2, <1>4
<1> QED BY <1>1, <1>4, <1>5, Onward DEF Behaves

LEMMA BreakFollows ==
  ASSUME NEW i, AtLine(i), WordAt(i) = "BREAK", xbreak(i), TypedNext
  PROVE  Behaves(i)
<1>1. /\ IfDepth(text, i) = IfDepth(text, i - 1) /\ DoDepth(text, i) = DoDepth(text, i - 1)
      /\ DoDepth(text, i - 1) \in Nat /\ IfDepth(text, i - 1) \in Nat /\ Is(text, i, {"BREAK"})
  <2>1. WordAt(i) \notin {"ENDDO", "IF", "ENDIF"} /\ WordAt(i) \notin DoWords /\ WordAt(i) \in {"BREAK"}
    BY DEF DoWords
  <2> QED BY <2>1, DepthsHere
<1>2. /\ niflevel \in Int /\ ndolevel \in Nat /\ ndolevel >= DoDepth(text, i - 1)
      /\ WellFormed(text) /\ i \in 1..Len(text)
  BY LineFacts DEF AtLine
<1>3. DoDepth(text, i) > 0
  BY <1>1, <1>2 DEF WellFormed
<1>4. ndolevel \in Nat \ {0} /\ ndolevel - ndolevel = DoDepth(text, i) - DoDepth(text, i - 1)
  BY <1>1, <1>2, <1>3
<1>5. skipdo(i, ndolevel) /\ ndotype' = ndotype /\ ndolines' = ndolines
  BY <1>4 DEF xbreak
<1> QED BY <1>1, <1>3, <1>4, <1>5, LoopLeft DEF Behaves

\* A loop statement has an ENDDO, and one more loop is open after it.
LEMMA LoopFacts ==
  ASSUME NEW i, AtLine(i), WordAt(i) \in DoWords
  PROVE  /\ DoEnds(text, i) # {} /\ getdolen(i) = EndOf(text, i) - i
         /\ IfDepth(text, i) = IfDepth(text, i - 1) /\ DoDepth(text, i) = DoDepth(text, i - 1) + 1
         /\ DoDepth(text, i - 1) \in Nat /\ IfDepth(text, i - 1) \in Nat
         /\ niflevel \in Int /\ ndolevel \in Nat
         /\ DoDepth(text, i) > 0
         /\ (ndolevel + 1) - ndolevel = DoDepth(text, i) - DoDepth(text, i - 1)
<1>1. /\ i \in 1..Len(text) /\ niflevel \in Int /\ ndolevel \in Nat /\ WellFormed(text)
      /\ Plain(text) /\ Len(text) \in Nat
  BY LineFacts DEF AtLine
<1>2. /\ IfDepth(text, i) = IfDepth(text, i - 1) /\ DoDepth(text, i) = DoDepth(text, i - 1) + 1
      /\ DoDepth(text, i - 1) \in Nat /\ IfDepth(text, i - 1) \in Nat /\ Is(text, i, DoWords)
  <2>1. WordAt(i) \notin {"IF", "ENDIF"}
    BY DEF DoWords
  <2> QED BY <2>1, DepthsHere
<1>3. PICK b \in 1..Len(text) : MatchDo(text, i, b)
  BY <1>1, <1>2 DEF WellFormed
<1>4. DoEnds(text, i) # {} /\ EndDo(text, i) = b /\ EndOf(text, i) = b
  BY <1>1, <1>3, LoopEnds
<1>5. getdolen(i) = EndOf(text, i) - i
  BY <1>4 DEF getdolen
<1>6. DoDepth(text, i) > 0 /\ (ndolevel + 1) - ndolevel = DoDepth(text, i) - DoDepth(text, i - 1)
  BY <1>1, <1>2
<1> QED BY <1>1, <1>2, <1>4, <1>5, <1>6
\* A loop that is entered is found in the slot that its statement fills.
LEMMA LoopEntered ==
  ASSUME NEW i, AtLine(i), WordAt(i) \in DoWords, TypedNext, nerr' = 0, pos' = i,
         niflevel' = niflevel, ndolevel' = ndolevel + 1,
         ndotype' = [ndotype EXCEPT ![ndolevel + 1] = IF WordAt(i) = "WHILE" THEN 1 ELSE 0],
         ndolines' = [ndolines EXCEPT ![ndolevel + 1] = getdolen(i)]
  PROVE  KeepsDepths(i) /\ Remembers
<1>1. /\ getdolen(i) = EndOf(text, i) - i
      /\ IfDepth(text, i) = IfDepth(text, i - 1) /\ IfDepth(text, i - 1) \in Nat
      /\ DoDepth(text, i - 1) \in Nat /\ DoDepth(text, i) = DoDepth(text, i - 1) + 1
      /\ niflevel \in Int /\ ndolevel \in Nat
  BY LoopFacts
<1>2. KeepsDepths(i)
  BY <1>1 DEF KeepsDepths
<1>3. /\ i \in 1..Len(text) /\ i \in Nat /\ Len(text) \in Nat
      /\ ndotype \in [1..MDOLEVEL -> {0, 1}] /\ ndolines \in [1..MDOLEVEL -> Nat]
  BY LineFacts DEF CndTypeOK
<1>4. Is(text, i, {"WHILE"}) <=> WordAt(i) = "WHILE"
  BY DepthsHere
<1>5. ndolevel' \in Nat
  BY <1>1
<1>6. ASSUME Fits', NEW d \in 1..Len(text), IsOpen(text, d, pos') PROVE Found(d)
  <2>1. CASE d = i
    <3>1. SlotAfter(d) = ndolevel + 1
      BY <1>1, <2>1 DEF SlotAfter
    <3>2. ndolevel + 1 \in 1..MDOLEVEL
      BY <1>1, <1>6, LevelAssumption DEF Fits
    <3>3. ndotype'[ndolevel + 1] = (IF WordAt(i) = "WHILE" THEN 1 ELSE 0)
          /\ ndolines'[ndolevel + 1] = getdolen(i)
      BY <1>3, <3>2
    <3> QED BY <1>1, <1>4, <2>1, <3>1, <3>3 DEF Found
  <2>2. CASE d # i
    <3>1. d =< i - 1 /\ \A k \in d..(i - 1) : k \in d..i
      BY <1>3, <1>6, <2>2 DEF IsOpen
    <3>2. IsOpen(text, d, i - 1)
      BY <1>6, <3>1 DEF IsOpen
    <3>3. pos' \in 0..Len(text)
      BY <1>3
    <3>4. \A l \in 1..ndolevel : ndotype'[l] = ndotype[l] /\ ndolines'[l] = ndolines[l]
      <4> SUFFICES ASSUME NEW l \in 1..ndolevel
                   PROVE  ndotype'[l] = ndotype[l] /\ ndolines'[l] = ndolines[l]
        OBVIOUS
      <4>1. l \in 1..MDOLEVEL /\ l # ndolevel + 1
        BY <1>1, <1>6, LevelAssumption DEF Fits
      <4> QED BY <1>3, <4>1
    <3> QED BY <1>2, <1>5, <1>6, <3>2, <3>3, <3>4, StaysFound
  <2> QED BY <2>1, <2>2
<1> QED BY <1>2, <1>6 DEF Remembers

\* Writing the next slot leaves those in use as they are.
LEMMA NextSlot ==
  ASSUME NEW f, NEW S, f \in [1..MDOLEVEL -> S], ndolevel \in Nat, ndolevel =< MDOLEVEL, NEW x
  PROVE  \A l \in 1..ndolevel : [f EXCEPT ![ndolevel + 1] = x][l] = f[l]
<1> SUFFICES ASSUME NEW l \in 1..ndolevel PROVE [f EXCEPT ![ndolevel + 1] = x][l] = f[l]
  OBVIOUS
<1>1. l \in 1..MDOLEVEL /\ l # ndolevel + 1
  BY LevelAssumption
<1> QED BY <1>1

LEMMA DoFollows ==
  ASSUME NEW i, AtLine(i), WordAt(i) \in {"DO", "DOLIST"}, NEW n, NEW ok, TypedNext,
         xdo(i, WordAt(i), n, ok)
  PROVE  Behaves(i)
<1> DEFINE level == ndolevel + 1
<1>1. WordAt(i) \in DoWords /\ WordAt(i) # "WHILE"
  BY DEF DoWords
<1>2. /\ DoEnds(text, i) # {} /\ ndolevel \in Nat /\ DoDepth(text, i) > 0
      /\ IfDepth(text, i) = IfDepth(text, i - 1)
      /\ level - ndolevel = DoDepth(text, i) - DoDepth(text, i - 1)
  BY <1>1, LoopFacts
<1>3. /\ ndotype \in [1..MDOLEVEL -> {0, 1}] /\ ndolines \in [1..MDOLEVEL -> Nat]
      /\ ndolevel =< MDOLEVEL
  BY LineFacts DEF CndTypeOK, Fits
<1>4. /\ ndotype' = [ndotype EXCEPT ![level] = 0]
      /\ ndolines' = [ndolines EXCEPT ![level] = getdolen(i)]
  BY DEF xdo
<1>5. \/ nerr' = 1 /\ UNCHANGED <<niflevel, ndolevel>>
      \/ skipdo(i, level)
      \/ pos' = i /\ ndolevel' = level /\ nerr' = 0 /\ niflevel' = niflevel
  BY <1>2 DEF xdo, Raise
<1>6. CASE nerr' = 1 /\ UNCHANGED <<niflevel, ndolevel>>
  BY <1>6 DEF Behaves, ExcusedAt
<1>7. CASE skipdo(i, level)
  <2>1. \A l \in 1..ndolevel : ndotype'[l] = ndotype[l] /\ ndolines'[l] = ndolines[l]
    BY <1>2, <1>3, <1>4, NextSlot
  <2>2. level \in Nat \ {0}
    BY <1>2
  <2> QED BY <1>2, <1>7, <2>1, <2>2, LoopLeft DEF Behaves
<1>8. CASE pos' = i /\ ndolevel' = level /\ nerr' = 0 /\ niflevel' = niflevel
  BY <1>1, <1>4, <1>8, LoopEntered DEF Behaves
<1> QED BY <1>5, <1>6, <1>7, <1>8

LEMMA WhileFollows ==
  ASSUME NEW i, AtLine(i), WordAt(i) = "WHILE", TypedNext,
         \/ DoEnds(text, i) = {} /\ EndlessWhile
         \/ \E r \in Results : xwhile(i, r)
  PROVE  Behaves(i)
<1>1. WordAt(i) \in DoWords
  BY DEF DoWords
<1>2. /\ DoEnds(text, i) # {} /\ ndolevel \in Nat /\ DoDepth(text, i) > 0
      /\ IfDepth(text, i) = IfDepth(text, i - 1)
      /\ (ndolevel + 1) - ndolevel = DoDepth(text, i) - DoDepth(text, i - 1)
  BY <1>1, LoopFacts
<1>3. PICK r \in Results : xwhile(i, r)
  BY <1>2
<1>4. CASE r = "ERROR" /\ Fail(i)
  BY <1>3, <1>4 DEF xwhile, Evaluate, Fail, Raise, levels, Behaves, ExcusedAt
<1>5. CASE /\ ndolevel' = ndolevel + 1
           /\ ndotype'  = [ndotype EXCEPT ![ndolevel + 1] = 1]
           /\ ndolines' = [ndolines EXCEPT ![ndolevel + 1] = getdolen(i)]
           /\ pos' = i /\ Raise(FALSE)
           /\ UNCHANGED <<niflevel, lifresp, do_token>>
  BY <1>1, <1>5, LoopEntered DEF Behaves, Raise
<1>6. CASE skipdo(i, ndolevel + 1) /\ UNCHANGED <<lifresp, ndotype, ndolines, do_token>>
  <2>1. ndolevel + 1 \in Nat \ {0}
    BY <1>2
  <2> QED BY <1>2, <1>6, <2>1, LoopLeft DEF Behaves
<1> QED BY <1>3, <1>4, <1>5, <1>6 DEF xwhile

\* The loop that an ENDDO ends is the innermost open one.
LEMMA EnddoFacts ==
  ASSUME NEW i, AtLine(i), WordAt(i) = "ENDDO"
  PROVE  \E a \in 1..(i - 1) :
           /\ MatchDo(text, a, i)
           /\ ndolevel > 0 /\ ndolines[ndolevel] = i - a
           /\ ndotype[ndolevel] = (IF Is(text, a, {"WHILE"}) THEN 1 ELSE 0)
           /\ \A k \in a..(i - 1) : DoDepth(text, k) >= DoDepth(text, a)
           /\ IfDepth(text, a) = IfDepth(text, i - 1) /\ DoDepth(text, a) = DoDepth(text, i - 1)
           /\ IfDepth(text, a - 1) = IfDepth(text, a)
           /\ DoDepth(text, a - 1) = DoDepth(text, a) - 1
<1>1. /\ i \in 1..Len(text) /\ Len(text) \in Nat /\ ndolevel \in Nat
      /\ WellFormed(text) /\ Plain(text) /\ Fits
      /\ ndolevel >= DoDepth(text, i - 1) /\ DoDepth(text, i - 1) \in Nat
  BY LineFacts DEF AtLine
<1>2. Is(text, i, {"ENDDO"})
  BY DepthsHere
<1>3. PICK a \in 1..Len(text) : MatchDo(text, a, i)
  BY <1>1, <1>2 DEF WellFormed
<1>4. a \in Nat \ {0} /\ i \in Nat /\ a \in 0..Len(text) /\ a - 1 \in 0..Len(text)
      /\ Is(text, a, DoWords)
  BY <1>1, <1>3 DEF MatchDo
<1>5. /\ a < i /\ \A k \in a..(i - 1) : DoDepth(text, k) >= DoDepth(text, a)
      /\ IfDepth(text, i - 1) = IfDepth(text, a) /\ DoDepth(text, i - 1) = DoDepth(text, a)
  BY <1>3, <1>4, LoopDepths
<1>6. EndOf(text, a) = i
  BY <1>1, <1>3, LoopEnds
<1>7. /\ IfDepth(text, a - 1) = IfDepth(text, a)
      /\ DoDepth(text, a - 1) = DoDepth(text, a) - 1 /\ DoDepth(text, a - 1) \in Nat
  <2>1. ~Is(text, a, IfWords) /\ ~Is(text, a, {"ENDIF"})
    BY <1>4 DEF Is, IfWords, DoWords
  <2>2. IfDepth(text, a) = IfDepth(text, a - 1) + 0
        /\ DoDepth(text, a) = DoDepth(text, a - 1) + 1
    BY <1>4, <2>1, DepthStep
  <2>3. DoDepth(text, a - 1) \in Nat /\ IfDepth(text, a - 1) \in Nat
    BY <1>1, <1>4, DepthsNatural
  <2> QED BY <2>2, <2>3
<1>8. IsOpen(text, a, i - 1)
  <2>1. a =< i - 1
    BY <1>1, <1>4, <1>5
  <2> QED BY <1>1, <1>4, <1>5, <2>1 DEF IsOpen
<1>9. SlotAt(i - 1, a) = ndolevel
  <2>1. DoDepth(text, i - 1) = DoDepth(text, a) /\ DoDepth(text, a) \in Nat
    BY <1>1, <1>5
  <2> QED BY <1>1, <2>1 DEF SlotAt
<1>10. /\ ndotype[ndolevel] = (IF Is(text, a, {"WHILE"}) THEN 1 ELSE 0)
       /\ ndolines[ndolevel] = i - a
  BY <1>1, <1>6, <1>8, <1>9 DEF AtLine, Recorded
<1>11. ndolevel > 0
  BY <1>1, <1>5, <1>7
<1>12. a \in 1..(i - 1)
  BY <1>4, <1>5
<1> QED BY <1>3, <1>5, <1>7, <1>10, <1>11, <1>12
LEMMA EnddoFollows ==
  ASSUME NEW i, AtLine(i), WordAt(i) = "ENDDO", xenddo(i), TypedNext
  PROVE  Behaves(i)
<1>1. PICK a \in 1..(i - 1) :
        /\ ndolevel > 0 /\ ndolines[ndolevel] = i - a
        /\ ndotype[ndolevel] = (IF Is(text, a, {"WHILE"}) THEN 1 ELSE 0)
        /\ \A k \in a..(i - 1) : DoDepth(text, k) >= DoDepth(text, a)
        /\ IfDepth(text, a) = IfDepth(text, i - 1) /\ DoDepth(text, a) = DoDepth(text, i - 1)
        /\ IfDepth(text, a - 1) = IfDepth(text, a)
        /\ DoDepth(text, a - 1) = DoDepth(text, a) - 1
  BY EnddoFacts
<1>2. /\ i \in 1..Len(text) /\ i \in Nat /\ ndolevel \in Nat /\ niflevel \in Int
      /\ a \in Nat /\ a - 1 \in 0..(i - 1) /\ a \in 0..(i - 1)
  <2>1. /\ i \in 1..Len(text) /\ ndolevel \in Nat /\ niflevel \in Int
        /\ Len(text) \in Nat
    BY LineFacts
  <2> QED BY <2>1
<1>3. /\ IfDepth(text, i) = IfDepth(text, i - 1) /\ DoDepth(text, i) = DoDepth(text, i - 1) - 1
      /\ IfDepth(text, i - 1) \in Nat /\ DoDepth(text, i - 1) \in Nat /\ WordAt(i) \notin DoWords
  <2>1. WordAt(i) \notin {"IF", "ENDIF"} /\ WordAt(i) \notin DoWords
    BY DEF DoWords
  <2> QED BY <2>1, DepthsHere
<1>4. /\ nerr' = 0 /\ niflevel' = niflevel /\ ndotype' = ndotype /\ ndolines' = ndolines
      /\ ndolevel' \in Nat /\ (AgainWhile(i) \/ AgainDo(i) \/ ListDone(i))
  BY <1>1, <1>2 DEF xenddo, Raise, TypedNext
<1>5. CASE AgainWhile(i)
  <2>1. pos' = a - 1
    BY <1>1, <1>2, <1>5 DEF AgainWhile, Backspace
  <2>2. ndolevel' = ndolevel - 1
    BY <1>5 DEF AgainWhile
  <2>3. KeepsDepths(i)
    BY <1>1, <1>2, <1>3, <1>4, <2>1, <2>2 DEF KeepsDepths
  <2>4. \A k \in pos'..(i - 1) : DoDepth(text, k) >= DoDepth(text, pos')
    <3> SUFFICES ASSUME NEW k \in (a - 1)..(i - 1)
                 PROVE  DoDepth(text, k) >= DoDepth(text, a - 1)
      BY <2>1
    <3>1. DoDepth(text, a - 1) \in Int /\ DoDepth(text, a) \in Int /\ DoDepth(text, k) \in Int
      <4>1. a - 1 \in Nat /\ k \in Nat
        BY <1>2
      <4> QED BY <1>2, <4>1, DepthType
    <3>2. CASE k = a - 1
      BY <3>1, <3>2
    <3>3. CASE k # a - 1
      <4>1. k \in a..(i - 1)
        BY <1>2, <3>3
      <4>2. DoDepth(text, k) >= DoDepth(text, a)
        BY <1>1, <4>1
      <4> QED BY <1>1, <3>1, <4>2
    <3> QED BY <3>2, <3>3
  <2> QED BY <1>2, <1>4, <2>1, <2>3, <2>4, BackFound DEF Behaves
<1>6. CASE AgainDo(i)
  <2>1. pos' = a
    BY <1>1, <1>2, <1>6 DEF AgainDo, Backspace
  <2>2. ndolevel' = ndolevel
    BY <1>6 DEF AgainDo
  <2>3. KeepsDepths(i)
    BY <1>1, <1>2, <1>3, <1>4, <2>1, <2>2 DEF KeepsDepths
  <2>4. \A k \in pos'..(i - 1) : DoDepth(text, k) >= DoDepth(text, pos')
    BY <1>1, <2>1
  <2> QED BY <1>2, <1>4, <2>1, <2>3, <2>4, BackFound DEF Behaves
<1>7. CASE ListDone(i)
  <2>1. pos' = i /\ ndolevel' = ndolevel - 1
    BY <1>7 DEF ListDone
  <2>2. /\ niflevel' - niflevel = IfDepth(text, i) - IfDepth(text, i - 1)
        /\ ndolevel' - ndolevel = DoDepth(text, i) - DoDepth(text, i - 1)
    BY <1>2, <1>3, <1>4, <2>1
  <2> QED BY <1>3, <1>4, <2>1, <2>2, Onward DEF Behaves
<1> QED BY <1>4, <1>5, <1>6, <1>7

\* So does every conditional command.
LEMMA CommandFollows ==
  ASSUME NEW i, AtLine(i), WordAt(i) \in Cnd, xcndc(WordAt(i), i, 1)
  PROVE  Behaves(i)
<1>1. Typed(i)
  BY LineFacts
<1>2. TypedNext
  BY <1>1, XcndcType
<1>3. CASE WordAt(i) = "MACROQUIT" /\ macro_off(i) /\ UNCHANGED <<levels, given>>
  <2>1. /\ pos' = i /\ nerr' = 0 /\ niflevel' = niflevel /\ ndolevel' = ndolevel
        /\ ndotype' = ndotype /\ ndolines' = ndolines /\ WordAt(i) \notin DoWords
    BY <1>3 DEF macro_off, Raise, levels, DoWords
  <2>2. niflevel \in Int /\ ndolevel \in Nat
    BY LineFacts
  <2>3. /\ IfDepth(text, i) = IfDepth(text, i - 1) /\ DoDepth(text, i) = DoDepth(text, i - 1)
        /\ IfDepth(text, i - 1) \in Nat /\ DoDepth(text, i - 1) \in Nat
    <3>1. WordAt(i) \notin {"IF", "ENDIF", "ENDDO"} /\ WordAt(i) \notin DoWords
      BY <1>3 DEF DoWords
    <3> QED BY <3>1, DepthsHere
  <2>4. /\ niflevel' - niflevel = IfDepth(text, i) - IfDepth(text, i - 1)
        /\ ndolevel' - ndolevel = DoDepth(text, i) - DoDepth(text, i - 1) /\ ndolevel' \in Nat
    BY <2>1, <2>2, <2>3
  <2> QED BY <2>1, <2>4, Onward DEF Behaves
<1>4. CASE \/ WordAt(i) = "IF"     /\ \E r \in Results : xif(i, r)
           \/ WordAt(i) = "ELSEIF" /\ \E r \in Results : xelseif(i, r)
           \/ WordAt(i) = "ELSE"   /\ xelse(i)
           \/ WordAt(i) = "ENDIF"  /\ xendif(i)
           \/ WordAt(i) = "DO"     /\ \E n \in 0..MaxItems, ok \in BOOLEAN : xdo(i, WordAt(i), n, ok)
           \/ WordAt(i) = "DOLIST" /\ \E n \in 1..MaxItems, ok \in BOOLEAN : xdo(i, WordAt(i), n, ok)
           \/ WordAt(i) = "WHILE"  /\ DoEnds(text, i) = {} /\ EndlessWhile
           \/ WordAt(i) = "WHILE"  /\ \E r \in Results : xwhile(i, r)
           \/ WordAt(i) = "ENDDO"  /\ xenddo(i)
           \/ WordAt(i) = "BREAK"  /\ xbreak(i)
  BY <1>2, <1>4, IfFollows, ElseFollows, EndifFollows, DoFollows, WhileFollows,
     EnddoFollows, BreakFollows
<1> QED BY <1>3, <1>4 DEF xcndc

-----------------------------------------------------------------------------
(* The slots of clauses and loops that were open when the macro started.     *)

LEMMA SlotKept ==
  ASSUME NEW n \in Nat, NEW S, NEW f \in [1..n -> S], NEW k \in Int, NEW x,
         NEW l \in 1..n, l < k
  PROVE  [f EXCEPT ![k] = x][l] = f[l]
OBVIOUS

IfSlotsKept(i) == \A l \in 1..(niflevel - IfDepth(text, i - 1)) : lifresp'[l] = lifresp[l]

DoSlotsKept(i) == \A l \in 1..(ndolevel - DoDepth(text, i - 1)) :
                    /\ ndotype'[l] = ndotype[l] /\ ndolines'[l] = ndolines[l]
                    /\ do_token'[l] = do_token[l]

LEMMA SlotsUntouched ==
  ASSUME NEW i, UNCHANGED <<lifresp, Loops>>
  PROVE  IfSlotsKept(i) /\ DoSlotsKept(i)
BY DEF Loops, IfSlotsKept, DoSlotsKept

LEMMA IfSlotWritten ==
  ASSUME NEW i, AtLine(i), UNCHANGED Loops, NEW k \in Int, NEW x,
         lifresp' = [lifresp EXCEPT ![k] = x], k > niflevel - IfDepth(text, i - 1)
  PROVE  IfSlotsKept(i) /\ DoSlotsKept(i)
<1>1. /\ niflevel \in Int /\ niflevel =< MIFLEVEL /\ IfDepth(text, i - 1) \in Nat
      /\ lifresp \in [1..MIFLEVEL -> BOOLEAN] /\ MIFLEVEL \in Nat
  BY LineFacts, LevelAssumption DEF Fits, CndTypeOK
<1>2. ASSUME NEW l \in 1..(niflevel - IfDepth(text, i - 1)) PROVE lifresp'[l] = lifresp[l]
  <2>1. l \in 1..MIFLEVEL /\ l < k
    BY <1>1
  <2> QED BY <1>1, <2>1, SlotKept
<1> QED BY <1>2 DEF Loops, IfSlotsKept, DoSlotsKept

\* A slot array of the loops, written or not.
DoSlotOrNone(f, g, k) == f = g \/ \E x : f = [g EXCEPT ![k] = x]

LEMMA DoSlotWritten ==
  ASSUME NEW i, AtLine(i), UNCHANGED lifresp, NEW k \in Int,
         DoSlotOrNone(ndotype', ndotype, k), DoSlotOrNone(ndolines', ndolines, k),
         DoSlotOrNone(do_token', do_token, k), k > ndolevel - DoDepth(text, i - 1)
  PROVE  IfSlotsKept(i) /\ DoSlotsKept(i)
<1>1. /\ ndolevel \in Nat /\ ndolevel =< MDOLEVEL /\ DoDepth(text, i - 1) \in Nat
      /\ ndotype \in [1..MDOLEVEL -> {0, 1}] /\ ndolines \in [1..MDOLEVEL -> Nat]
      /\ do_token \in [1..MDOLEVEL -> 0..MaxItems] /\ MDOLEVEL \in Nat
  BY LineFacts, LevelAssumption DEF Fits, CndTypeOK
<1>2. ASSUME NEW l \in 1..(ndolevel - DoDepth(text, i - 1))
      PROVE  /\ ndotype'[l] = ndotype[l] /\ ndolines'[l] = ndolines[l]
             /\ do_token'[l] = do_token[l]
  <2>1. l \in 1..MDOLEVEL /\ l < k
    BY <1>1
  <2>2. ASSUME NEW f, NEW S, NEW g \in [1..MDOLEVEL -> S], DoSlotOrNone(f, g, k)
        PROVE  f[l] = g[l]
    <3>1. CASE f = g
      BY <3>1
    <3>2. ASSUME NEW x, f = [g EXCEPT ![k] = x] PROVE f[l] = g[l]
      BY <1>1, <2>1, <3>2, SlotKept
    <3> QED BY <2>2, <3>1, <3>2 DEF DoSlotOrNone
  <2> QED BY <1>1, <2>2
<1> QED BY <1>2 DEF IfSlotsKept, DoSlotsKept

LEMMA LoopSlotsKept ==
  ASSUME NEW i, AtLine(i), NEW w, w \in {"DO", "DOLIST", "WHILE", "ENDDO"}, WordAt(i) = w,
         \/ \E n \in 0..MaxItems, ok \in BOOLEAN : xdo(i, w, n, ok)
         \/ w = "WHILE" /\ DoEnds(text, i) = {} /\ EndlessWhile
         \/ w = "WHILE" /\ \E r \in Results : xwhile(i, r)
         \/ w = "ENDDO" /\ xenddo(i)
  PROVE  IfSlotsKept(i) /\ DoSlotsKept(i)
<1>1. ndolevel \in Nat /\ DoDepth(text, i - 1) \in Nat
  BY LineFacts
<1>2. ndolevel + 1 \in Int /\ ndolevel + 1 > ndolevel - DoDepth(text, i - 1)
  BY <1>1
<1>3. ASSUME UNCHANGED levels PROVE IfSlotsKept(i) /\ DoSlotsKept(i)
  BY <1>3, SlotsUntouched DEF levels, Loops
<1>4. ASSUME NEW n, NEW ok, xdo(i, w, n, ok) PROVE IfSlotsKept(i) /\ DoSlotsKept(i)
  <2>1. /\ lifresp' = lifresp /\ DoSlotOrNone(ndotype', ndotype, ndolevel + 1)
        /\ DoSlotOrNone(ndolines', ndolines, ndolevel + 1)
        /\ DoSlotOrNone(do_token', do_token, ndolevel + 1)
    BY <1>4 DEF xdo, DoSlotOrNone
  <2> QED BY <1>2, <2>1, DoSlotWritten
<1>5. ASSUME NEW r \in Results, xwhile(i, r) PROVE IfSlotsKept(i) /\ DoSlotsKept(i)
  <2>1. CASE UNCHANGED levels
    BY <1>3, <2>1
  <2>2. CASE /\ lifresp' = lifresp /\ DoSlotOrNone(ndotype', ndotype, ndolevel + 1)
             /\ DoSlotOrNone(ndolines', ndolines, ndolevel + 1)
             /\ DoSlotOrNone(do_token', do_token, ndolevel + 1)
    BY <1>2, <2>2, DoSlotWritten
  <2> QED BY <1>5, <2>1, <2>2 DEF xwhile, Fail, DoSlotOrNone
<1>6. ASSUME w = "ENDDO", xenddo(i) PROVE IfSlotsKept(i) /\ DoSlotsKept(i)
  <2>1. DoDepth(text, i - 1) > 0
    <3>1. PICK a \in 1..(i - 1) : /\ DoDepth(text, a) = DoDepth(text, i - 1)
                                  /\ DoDepth(text, a - 1) = DoDepth(text, a) - 1
      BY <1>6, EnddoFacts
    <3>2. a - 1 \in 0..Len(text) /\ WellFormed(text) /\ Len(text) \in Nat
      <4>1. i \in 1..Len(text) /\ Len(text) \in Nat
        BY LineFacts
      <4> QED BY <4>1 DEF AtLine
    <3>3. DoDepth(text, a - 1) \in Nat
      BY <3>2, DepthsNatural
    <3> QED BY <1>1, <3>1, <3>3
  <2>2. ndolevel \in Int /\ ndolevel > ndolevel - DoDepth(text, i - 1)
    BY <1>1, <2>1
  <2>3. CASE Fail(i)
    BY <1>3, <2>3 DEF Fail
  <2>4. CASE /\ lifresp' = lifresp /\ DoSlotOrNone(ndotype', ndotype, ndolevel)
             /\ DoSlotOrNone(ndolines', ndolines, ndolevel)
             /\ DoSlotOrNone(do_token', do_token, ndolevel)
    BY <2>2, <2>4, DoSlotWritten
  <2> QED BY <1>6, <2>3, <2>4 DEF xenddo, AgainWhile, AgainDo, ListDone, DoSlotOrNone
<1>7. CASE EndlessWhile
  BY <1>3, <1>7 DEF EndlessWhile
<1> QED BY <1>4, <1>5, <1>6, <1>7

\* No command writes to the slot of a clause or loop that was open before the
\* macro started, whatever it counts to find its own.
LEMMA SlotsBelow ==
  ASSUME NEW i, AtLine(i), WordAt(i) \in Cnd, xcndc(WordAt(i), i, 1)
  PROVE  IfSlotsKept(i) /\ DoSlotsKept(i)
<1> DEFINE w == WordAt(i)
<1>1. niflevel \in Int /\ IfDepth(text, i - 1) \in Nat
  BY LineFacts
<1>2. ASSUME UNCHANGED levels PROVE IfSlotsKept(i) /\ DoSlotsKept(i)
  BY <1>2, SlotsUntouched DEF levels, Loops
<1>3. ASSUME NEW r \in Results, xif(i, r) PROVE IfSlotsKept(i) /\ DoSlotsKept(i)
  <2>1. CASE Fail(i)
    BY <1>2, <2>1 DEF Fail
  <2>2. CASE niflevel' = niflevel + 1 /\ Branch(i, r)
    <3>1. niflevel + 1 \in Int /\ niflevel + 1 > niflevel - IfDepth(text, i - 1)
      BY <1>1
    <3> QED BY <2>2, <3>1, IfSlotWritten DEF Branch
  <2> QED BY <1>3, <2>1, <2>2 DEF xif
<1>4. ASSUME w \in Branches, NEW r \in Results, xelseif(i, r)
      PROVE  IfSlotsKept(i) /\ DoSlotsKept(i)
  <2>1. CASE Fail(i) \/ PassBranch(i)
    BY <1>2, <2>1 DEF Fail, PassBranch
  <2>2. CASE UNCHANGED niflevel /\ Branch(i, r)
    <3>1. IfDepth(text, i - 1) > 0
      BY <1>4, BranchFacts
    <3>2. niflevel > niflevel - IfDepth(text, i - 1)
      BY <1>1, <3>1
    <3> QED BY <1>1, <2>2, <3>2, IfSlotWritten DEF Branch
  <2> QED BY <1>4, <2>1, <2>2 DEF xelseif
<1>5. ASSUME xelse(i) PROVE IfSlotsKept(i) /\ DoSlotsKept(i)
  BY <1>2, <1>5 DEF xelse, Fail, PassBranch
<1>6. ASSUME xendif(i) PROVE IfSlotsKept(i) /\ DoSlotsKept(i)
  BY <1>6, SlotsUntouched DEF xendif
<1>7. ASSUME xbreak(i) PROVE IfSlotsKept(i) /\ DoSlotsKept(i)
  <2>1. CASE Fail(i)
    BY <1>2, <2>1 DEF Fail
  <2>2. CASE UNCHANGED <<lifresp, ndotype, ndolines, do_token>>
    BY <2>2 DEF IfSlotsKept, DoSlotsKept
  <2> QED BY <1>7, <2>1, <2>2 DEF xbreak
<1>8. 1..MaxItems \subseteq 0..MaxItems
  BY ItemAssumption
<1> QED BY <1>2, <1>3, <1>4, <1>5, <1>6, <1>7, <1>8, LoopSlotsKept DEF xcndc, Branches
=============================================================================
