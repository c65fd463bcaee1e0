----------------------------- MODULE Structured -----------------------------
(***************************************************************************)
(* What the macro documentation promises of IF, DO, WHILE and BREAK: the   *)
(* control flow of a structured program.  A statement's end, its branches  *)
(* and the loop a BREAK leaves are read off the text; each open IF clause  *)
(* remembers whether one of its branches has run and each open DO loop the *)
(* items it still has, by the line of the statement and not by a level     *)
(* that clauses and macros share.                                          *)
(***************************************************************************)
EXTENDS Structure

CONSTANTS Programs, MaxItems, MaxRuns

VARIABLES text, at,   \* the line that runs next
          taken,      \* open IF clauses with a branch that has run
          left,       \* [open DO loop] items to come
          mode,       \* "prompt", "macro", or "stopping" after error or quit
          truth, asked, runs

vars == <<text, at, taken, left, mode, truth, asked, runs>>
given == <<truth, asked>>

Init == /\ text = <<>> /\ at = 1
        /\ taken = {} /\ left = <<>>
        /\ mode = "prompt"
        /\ truth = "TRUE" /\ asked = 0
        /\ runs = 0

Start == /\ mode = "prompt" /\ runs < MaxRuns
         /\ \E t \in Programs : text' = t
         /\ at' = 1 /\ taken' = {} /\ left' = <<>>
         /\ mode' = "macro" /\ runs' = runs + 1
         /\ UNCHANGED given

Finish == /\ mode = "stopping" \/ (mode = "macro" /\ at = Len(text) + 1)
          /\ text' = <<>> /\ at' = 1 /\ taken' = {} /\ left' = <<>>
          /\ mode' = "prompt"
          /\ UNCHANGED <<given, runs>>

-----------------------------------------------------------------------------
At(words) == mode = "macro" /\ at =< Len(text) /\ Is(text, at, words)

\* Continue at line k with these clauses taken and these items left; what
\* does not enclose line k is forgotten.
Continue(k, newTaken, newLeft) ==
  /\ at' = k
  /\ taken' = newTaken \cap OpenIfs(text, k - 1)
  /\ left' = [d \in (DOMAIN newLeft) \cap OpenDos(text, k - 1) |-> newLeft[d]]
  /\ UNCHANGED <<text, mode, runs>>

Goto(k) == Continue(k, taken, left)

Stop == /\ mode' = "stopping" /\ at' = at + 1
        /\ taken' = {} /\ left' = <<>>
        /\ UNCHANGED <<text, runs>>

Evaluate(result) == truth' = result /\ UNCHANGED asked

\* An error or MACROQUIT ends the macro where it stands.
Failure == /\ At(Commands \ {"DO", "DOLIST"}) /\ Stop
           /\ UNCHANGED asked /\ truth' \in {truth, "ERROR"}
NotADo  == /\ At({"DO", "DOLIST"}) /\ Stop
           /\ asked' \in 0..MaxItems /\ UNCHANGED truth

Other == At(Commands \ Cnd) /\ Goto(at + 1) /\ UNCHANGED given

Clause == Innermost(OpenIfs(text, at - 1))
Loop   == Innermost(OpenDos(text, at - 1))

Test(i) == \/ /\ Evaluate("TRUE")
              /\ Continue(at + 1, taken \cup {i}, left)
           \/ /\ Evaluate("FALSE")
              /\ Continue(NextBranch(text, i, at), taken, left)

Pass == Goto(NextBranch(text, Clause, at)) /\ UNCHANGED given

If     == At({"IF"}) /\ Test(at)
Elseif == At({"ELSEIF"}) /\ IF Clause \in taken THEN Pass ELSE Test(Clause)
Else   == /\ At({"ELSE"})
          /\ IF Clause \in taken THEN Pass
             ELSE Goto(at + 1) /\ UNCHANGED given
Endif  == At({"ENDIF"}) /\ Goto(at + 1) /\ UNCHANGED given

After(loop) == EndOf(text, loop) + 1

With(loop, n) == [d \in (DOMAIN left) \cup {loop} |->
                    IF d = loop THEN n ELSE left[d]]

\* DO runs its body once for every item: not at all when there are none.
Do(n) == /\ At({"DO", "DOLIST"})
         /\ asked' = n /\ UNCHANGED truth
         /\ IF n = 0 THEN Goto(After(at))
                     ELSE Continue(at + 1, taken, With(at, n - 1))
While == /\ At({"WHILE"})
         /\ \/ Evaluate("TRUE") /\ Goto(at + 1)
            \/ Evaluate("FALSE") /\ Goto(After(at))
Enddo == /\ At({"ENDDO"}) /\ UNCHANGED given
         /\ IF Is(text, Loop, {"WHILE"}) THEN Goto(Loop)
            ELSE IF left[Loop] > 0
                 THEN Continue(Loop + 1, taken, With(Loop, left[Loop] - 1))
                 ELSE Goto(at + 1)
Break == At({"BREAK"}) /\ Goto(After(Loop)) /\ UNCHANGED given

Next == \/ Start \/ Finish
        \/ Failure \/ NotADo \/ Other
        \/ If \/ Elseif \/ Else \/ Endif
        \/ (\E n \in 0..MaxItems : Do(n)) \/ While \/ Enddo \/ Break

Spec == Init /\ [][Next]_vars
=============================================================================
