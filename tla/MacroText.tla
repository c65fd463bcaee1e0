----------------------------- MODULE MacroText -----------------------------
(***************************************************************************)
(* The text of a SAC macro as the conditional-execution commands see it.   *)
(*                                                                         *)
(* A text is a sequence of lines and a line is the non-empty sequence of   *)
(* commands that saccommands finds between its semicolons.  A command is   *)
(* reduced to the name that findcommand looks up: what it computes is      *)
(* abstract, whether it is one of the commands of src/src/cnd is not.      *)
(*                                                                         *)
(* Two readers look at the same line.  The executor runs every command on  *)
(* it.  The scanners getdolen, skipdo and skipif, which search forward for *)
(* the end of a clause, pop the first token only, upcase at most eight     *)
(* characters of it into a buffer they do not clear between lines, and     *)
(* compare prefixes of that buffer.                                        *)
(***************************************************************************)
EXTENDS Integers, Sequences, FiniteSets

IfWords   == {"IF"}
DoWords   == {"DO", "DOLIST", "WHILE"}
Branches  == {"ELSE", "ELSEIF"}
Cnd       == IfWords \cup DoWords \cup Branches \cup
               {"ENDIF", "ENDDO", "BREAK", "MACROQUIT"}

\* Commands of other modules: CMD stands for all whose name no scanner
\* mistakes; IFFT and W are two whose name one may; MACRO starts a nested
\* macro; BAD names no command and is handed to the system shell.
Others    == {"CMD", "IFFT", "W", "MACRO", "BAD"}
Commands  == Cnd \cup Others

First(line) == line[1]

(***************************************************************************)
(* The statement a scanner takes line j for when it began to read after    *)
(* line i.  IFFT begins with "IF".  The one-letter command W overwrites    *)
(* only the first letter of the buffer, so that directly after a WHILE     *)
(* line, or after such W lines, the buffer still spells WHILE.             *)
(***************************************************************************)
ScansAs(t, i, j) ==
  LET word == First(t[j])
      follows == \E k \in (i + 1)..(j - 1) :
                    /\ First(t[k]) = "WHILE"
                    /\ \A m \in (k + 1)..(j - 1) : First(t[m]) = "W"
  IN  IF word = "IFFT" THEN "IF"
      ELSE IF word = "W" /\ follows THEN "WHILE"
      ELSE word

Seen(t, i, j, words) == {k \in (i + 1)..j : ScansAs(t, i, k) \in words}

\* The scanners' counters numdos and numifs after they have read line j.
NumDos(t, i, j) == Cardinality(Seen(t, i, j, DoWords))
                     - Cardinality(Seen(t, i, j, {"ENDDO"}))
NumIfs(t, i, j) == Cardinality(Seen(t, i, j, IfWords))
                     - Cardinality(Seen(t, i, j, {"ENDIF"}))

\* The lines at which a scan that began after line i may stop.
DoEnds(t, i) == {j \in (i + 1)..Len(t) :
                   ScansAs(t, i, j) = "ENDDO" /\ NumDos(t, i, j) < 0}
IfEnds(t, i) == {j \in (i + 1)..Len(t) :
                   \/ ScansAs(t, i, j) = "ENDIF" /\ NumIfs(t, i, j) < 0
                   \/ ScansAs(t, i, j) \in Branches /\ NumIfs(t, i, j) < 1}

Least(S) == CHOOSE m \in S : \A k \in S : m =< k

\* Where getdolen and skipdo stop, and where skipif stops.
EndDo(t, i) == Least(DoEnds(t, i))
EndIf(t, i) == Least(IfEnds(t, i))
=============================================================================
