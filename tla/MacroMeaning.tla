---------------------------- MODULE MacroMeaning ----------------------------
(***************************************************************************)
(* What MacroRun is to satisfy for well-formed macro texts.                *)
(***************************************************************************)
EXTENDS MacroRun, Structure

\* Commands are being executed: no error and no MACROQUIT has stopped the macro.
Executing == running /\ nerr = 0 /\ macro_active

-----------------------------------------------------------------------------
(* The nesting levels. *)

\* Across every command, however far it moves the read position, the level
\* counters change by as much as the nesting depth of the text does.  (No level
\* is reset between macros, so after an aborted macro the counters start from
\* where it left them.)
NestingKept ==
  [][running /\ Executing' =>
       /\ niflevel' - niflevel = IfDepth(text', pos') - IfDepth(text, pos)
       /\ ndolevel' - ndolevel = DoDepth(text', pos') - DoDepth(text, pos)]_vars

Slot(d) == ndolevel - (DoDepth(text, pos) - DoDepth(text, d))

\* The slot of every open loop says what kind of loop it is and how many lines
\* ENDDO has to go back to find it.
LoopsRemembered ==
  Executing /\ InBounds =>
    \A d \in 1..Len(text) : IsOpen(text, d, pos) =>
      /\ ndotype[Slot(d)] = (IF Is(text, d, {"WHILE"}) THEN 1 ELSE 0)
      /\ ndolines[Slot(d)] = EndOf(text, d) - d

\* Every macro nests within the limits that the documentation states ("The
\* maximum number of nested if clauses is currently set at 10").
Shallow == \A t \in Programs : \A k \in 1..Len(t) :
             IfDepth(t, k) =< MIFLEVEL /\ DoDepth(t, k) =< MDOLEVEL

\* Macros that keep to the limits never use a slot behind the arrays of cnd.h.
WithinLimits == Shallow => InBounds

\* A conditional command of a well-formed macro raises an error only for what
\* it was given: a condition that cannot be evaluated, a malformed DO.  It does
\* not fail to find the end of its clause or loop, nor take itself to be
\* outside of any.
NoSpuriousError ==
  [][Conditional /\ nerr' = 1 =>
       \/ Word \in {"IF", "ELSEIF", "WHILE"} /\ truth' = "ERROR"
       \/ Word \in {"DO", "DOLIST"}]_vars

-----------------------------------------------------------------------------
(* The meaning of the statements. *)

\* The slot that holds the state of the open IF clause, or loop, of line i.
IfSlot(i) == niflevel - Cardinality({k \in OpenIfs(text, pos) : k > i})
DoSlot(i) == ndolevel - Cardinality({k \in OpenDos(text, pos) : k > i})

\* The state of the structured program that a state of MacroRun stands for.
Taken == IF Executing
         THEN {i \in OpenIfs(text, pos) : lifresp[IfSlot(i)]} ELSE {}

Left == IF Executing
        THEN [d \in {k \in OpenDos(text, pos) : ~Is(text, k, {"WHILE"})} |->
                do_token[DoSlot(d)]] ELSE <<>>

Mode == IF ~running THEN "prompt"
        ELSE IF Executing THEN "macro" ELSE "stopping"

Meaning == INSTANCE Structured
             WITH at <- pos + 1, taken <- Taken, left <- Left, mode <- Mode

\* Running a macro by moving the read position means what the documentation
\* of IF, DO, WHILE and BREAK says it means: the branch, the body and the line
\* after the loop that run next are those of a structured program, and a DO
\* loop runs once for each of its items.
RunsAsStructured == Meaning!Spec

\* A DO statement whose list is empty does not run its body.
EmptyLoopRunsNoBody ==
  [][running /\ Executing' /\ pos < Len(text) /\ Word = "DO" /\ asked' = 0
       => pos' = EndOf(text, pos + 1)]_vars

\* A macro without WHILE comes to an end, whatever the macros before it left.
Whileless == \A i \in 1..Len(text) : ~Is(text, i, {"WHILE"})

MacrosEnd == running /\ Whileless ~> ~running
=============================================================================
