---------------------------- MODULE MacroNesting ----------------------------
(***************************************************************************)
(* What MacroExec is to satisfy: macros nest like procedure calls.         *)
(***************************************************************************)
EXTENDS MacroExec

\* The level counter, the file entry of each level and the C stack agree: the
\* active macros' files are open, each under its own level, and no other is.
\* At the prompt, then, the level is 0 and every file that was opened is closed.
FilesNest ==
  LET state(l) == IF l = imacrolevel THEN file ELSE saved[l].file
  IN  /\ imacrolevel = Depth - 1
      /\ \A l \in 0..MaxRuns :
           (state(l) = "open") <=> (l \in 1..(Depth - 1))

\* "= 0 for terminal input.  > 0 for levels of macro nesting" (setmacrolevel).
LevelIsZeroAtPrompt == AtPrompt => imacrolevel = 0

\* A failed command ends the macro it is in and all that called it, and so does
\* MACROQUIT: none of them reads another line.
SpoiledReadsNoLine == [][ReadLine => ~spoiled]_vars

\* A macro that runs another one finds the clauses and loops it had open as it
\* left them: the same levels, the same branches taken, the same items to come.
\* All macros share one set of slots, so this rests on each closing its own.
Slots(levelsNow) ==
  LET l == levelsNow
  IN  <<l[1], [k \in 1..l[1] |-> l[2][k]],
        l[3], [k \in 1..l[3] |-> <<l[4][k], l[5][k], l[6][k]>>]>>

CallerFindsItsLoops ==
  [][Depth' < Depth /\ ~spoiled /\ nerr' = 0 =>
       Slots(levels) = Slots(kept[Depth - 1])]_vars

\* A line typed at the prompt is finished, whatever fails on the way.
PromptReturns == ~AtPrompt ~> AtPrompt
=============================================================================
