----------------------------- MODULE Structure -----------------------------
(***************************************************************************)
(* The block structure of a macro text with one command on a line, defined *)
(* from the text alone: how deep each line is nested, which ENDIF and      *)
(* ENDDO belong to which IF and loop statement, and when a text is well    *)
(* formed in the sense of the "If Tests" and "Do Loops" sections of the    *)
(* SAC macro documentation.  Nothing here refers to the scanners.          *)
(***************************************************************************)
EXTENDS MacroText

Is(t, k, words) == First(t[k]) \in words
Lines(t, n, words) == {k \in 1..n : Is(t, k, words)}

\* IF clauses, and loops, open after the first n lines.
IfDepth(t, n) == Cardinality(Lines(t, n, IfWords))
                   - Cardinality(Lines(t, n, {"ENDIF"}))
DoDepth(t, n) == Cardinality(Lines(t, n, DoWords))
                   - Cardinality(Lines(t, n, {"ENDDO"}))

\* Lines a..b close exactly the clauses and loops they open.
Balanced(t, a, b) ==
  /\ \A k \in a..b : /\ IfDepth(t, k) >= IfDepth(t, a - 1)
                     /\ DoDepth(t, k) >= DoDepth(t, a - 1)
  /\ IfDepth(t, b) = IfDepth(t, a - 1)
  /\ DoDepth(t, b) = DoDepth(t, a - 1)

MatchIf(t, i, j) == /\ Is(t, i, IfWords) /\ Is(t, j, {"ENDIF"})
                    /\ i < j /\ Balanced(t, i + 1, j - 1)
MatchDo(t, i, j) == /\ Is(t, i, DoWords) /\ Is(t, j, {"ENDDO"})
                    /\ i < j /\ Balanced(t, i + 1, j - 1)

\* Line k is an ELSE or ELSEIF of the clause from line i to line j.
BranchOf(t, k, i, j) == /\ MatchIf(t, i, j) /\ k \in (i + 1)..(j - 1)
                        /\ Is(t, k, Branches)
                        /\ Balanced(t, i + 1, k - 1)

WellFormed(t) ==
  LET all == 1..Len(t)
  IN  /\ Balanced(t, 1, Len(t))
      /\ \A i \in all : Is(t, i, IfWords) => \E j \in all : MatchIf(t, i, j)
      /\ \A i \in all : Is(t, i, DoWords) => \E j \in all : MatchDo(t, i, j)
      /\ \A j \in all : Is(t, j, {"ENDIF"}) => \E i \in all : MatchIf(t, i, j)
      /\ \A j \in all : Is(t, j, {"ENDDO"}) => \E i \in all : MatchDo(t, i, j)
      /\ \A k \in all : Is(t, k, Branches) =>
           \E i, j \in all :
             /\ BranchOf(t, k, i, j)
             /\ Is(t, k, {"ELSE"}) =>
                  \A m \in (k + 1)..(j - 1) : ~BranchOf(t, m, i, j)
      /\ \A k \in all : Is(t, k, {"BREAK"}) => DoDepth(t, k) > 0

\* No line that a scanner takes for another statement than it is.
Plain(t) == \A k \in 1..Len(t) : /\ ~Is(t, k, {"IFFT"})
                                 /\ Is(t, k, {"W"}) => k = 1 \/
                                      ~Is(t, k - 1, {"W", "WHILE"})

-----------------------------------------------------------------------------
(* Positions.  p lines have been read. *)

EndOf(t, i) == CHOOSE j \in 1..Len(t) : MatchIf(t, i, j) \/ MatchDo(t, i, j)

OpenIfs(t, p) == {i \in Lines(t, p, IfWords) : EndOf(t, i) > p}
OpenDos(t, p) == {i \in Lines(t, p, DoWords) : EndOf(t, i) > p}

\* Loop line d is open once p lines have been read.
IsOpen(t, d, p) == /\ d =< p /\ Is(t, d, DoWords)
                   /\ \A k \in d..p : DoDepth(t, k) >= DoDepth(t, d)

Innermost(S) == CHOOSE m \in S : \A k \in S : k =< m

\* The next ELSEIF, ELSE or ENDIF of clause i after line k.
NextBranch(t, i, k) ==
  Least({m \in (k + 1)..Len(t) : m = EndOf(t, i) \/
                                 BranchOf(t, m, i, EndOf(t, i))})
=============================================================================
