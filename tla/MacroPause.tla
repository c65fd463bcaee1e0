----------------------------- MODULE MacroPause -----------------------------
(***************************************************************************)
(* The lines of a macro that begin with a dollar sign, which macroline     *)
(* interprets itself: $TERMINAL pauses the macro and lets the user type    *)
(* the next lines, $RESUME goes on with it, $KILL ends it, and the lines   *)
(* between $RUN and $ENDRUN are the input of another program.              *)
(*                                                                         *)
(* A pause exchanges FILE pointers: the level's "fileunit" entry names the *)
(* standard input for as long as it lasts and its "saveunit" entry the     *)
(* macro file.  Neither entry is removed when a macro ends.  This module   *)
(* has one level of macros; MacroExec has their nesting.                   *)
(***************************************************************************)
EXTENDS Integers, Sequences

CONSTANTS Programs,   \* the macro texts that may be run
          Typed,      \* the lines that may be typed at a pause
          Fails,      \* where commands may fail: in a "file", at a "pause"
          MaxRuns     \* bound: macros started in one session

\* CMD stands for every line that is not a $ line, $OTHER for an unknown one.
Words == {"CMD", "$TERMINAL", "$RESUME", "$KILL", "$RUN", "$ENDRUN", "$OTHER"}

ASSUME WordsAssumption == Programs \subseteq Seq(Words) /\ Typed \subseteq Words
ASSUME RunsAssumption  == MaxRuns \in Nat

VARIABLES mode,       \* "prompt", "macroline", or "close" (in closemacro)
          fileunit,   \* the level's entries: a unit
          saveunit,
          nun,        \* macroline's: the unit it reads
          lrunmode,   \* macroline's: between $RUN and $ENDRUN
          file,       \* the macro files opened so far, by run
          runs,       \* macros started
          stdin,      \* is the standard input open?
          nerr        \* 0, or 1 for an error

vars == <<mode, fileunit, saveunit, nun, lrunmode, file, runs, stdin, nerr>>

NoUnit == -1   \* no such entry
MUNINP == 0    \* the standard input; a positive unit is the file of that run
Units  == 0..MaxRuns

TypeOK ==
  /\ mode \in {"prompt", "macroline", "close"}
  /\ fileunit \in Units \cup {NoUnit} /\ saveunit \in Units \cup {NoUnit}
  /\ mode = "macroline" => nun \in Units
  /\ lrunmode \in BOOLEAN /\ stdin \in BOOLEAN
  /\ DOMAIN file = 1..runs /\ runs \in 0..MaxRuns
  /\ \A r \in 1..runs : /\ file[r].text \in Programs
                        /\ file[r].pos \in 0..Len(file[r].text)
                        /\ file[r].open \in BOOLEAN
  /\ nerr \in {0, 1}

Init == /\ mode = "prompt" /\ stdin = TRUE
        /\ fileunit = NoUnit /\ saveunit = NoUnit
        /\ nun = NoUnit /\ lrunmode = FALSE
        /\ file = <<>> /\ runs = 0
        /\ nerr = 0

\* macroline is called: the unit is looked up.
Enter == mode' = "macroline" /\ nun' = fileunit' /\ lrunmode' = FALSE /\ nerr' = 0

\* Mutant: the file is not entered in the list.
MacroNotEntered(program) ==
  /\ mode = "prompt" /\ stdin /\ runs < MaxRuns
  /\ file' = Append(file, [text |-> program, pos |-> 0, open |-> TRUE])
  /\ runs' = runs + 1
  /\ UNCHANGED <<fileunit, saveunit, stdin>>
  /\ Enter

\* The MACRO command at the prompt.
Macro(program) ==
  /\ mode = "prompt" /\ stdin /\ runs < MaxRuns
  /\ file' = Append(file, [text |-> program, pos |-> 0, open |-> TRUE])
  /\ runs' = runs + 1
  /\ fileunit' = runs + 1
  /\ UNCHANGED <<saveunit, stdin>>
  /\ Enter

-----------------------------------------------------------------------------
(* macroline reads a line.  What it does with a closed file is undefined. *)

Paused  == nun = MUNINP
CanRead == mode = "macroline" /\ IF Paused THEN stdin ELSE file[nun].open

\* The line read is one of these words.
Line(words) ==
  /\ CanRead
  /\ \/ /\ Paused /\ words \cap Typed # {}
        /\ UNCHANGED file
     \/ /\ ~Paused /\ file[nun].pos < Len(file[nun].text)
        /\ file[nun].text[file[nun].pos + 1] \in words
        /\ file' = [file EXCEPT ![nun].pos = @ + 1]

\* macroline returns no line, and executemacro ends the macro.
Leave(error) == /\ mode' = "close" /\ nerr' = IF error THEN 1 ELSE 0
                /\ UNCHANGED <<nun, lrunmode>>

Reread == UNCHANGED <<mode, nerr>>

\* Mutant: the entry of an earlier pause is kept.
TerminalSavesOnce ==
  /\ Line({"$TERMINAL"})
  /\ saveunit' = IF saveunit = NoUnit THEN nun ELSE saveunit
  /\ fileunit' = MUNINP /\ nun' = MUNINP
  /\ Reread
  /\ UNCHANGED <<lrunmode, runs, stdin>>

Terminal ==
  /\ Line({"$TERMINAL"})
  /\ saveunit' = nun
  /\ fileunit' = MUNINP /\ nun' = MUNINP
  /\ Reread
  /\ UNCHANGED <<lrunmode, runs, stdin>>

Resume ==
  /\ Line({"$RESUME"})
  /\ \/ /\ saveunit = NoUnit /\ Leave(TRUE)
        /\ UNCHANGED fileunit
     \/ /\ saveunit # NoUnit /\ Reread
        /\ fileunit' = saveunit /\ nun' = saveunit
        /\ UNCHANGED lrunmode
  /\ UNCHANGED <<saveunit, runs, stdin>>

\* Mutant: fileunit is not restored.
KillAsIs ==
  /\ Line({"$KILL"})
  /\ Leave(saveunit = NoUnit)
  /\ UNCHANGED <<fileunit, saveunit, runs, stdin>>

Kill ==
  /\ Line({"$KILL"})
  /\ Leave(saveunit = NoUnit)
  /\ fileunit' = IF saveunit = NoUnit THEN fileunit ELSE saveunit
  /\ UNCHANGED <<saveunit, runs, stdin>>

units == <<fileunit, saveunit>>

\* The input file of the program is made, or cannot be.
Run ==
  /\ Line({"$RUN"})
  /\ \/ Reread /\ lrunmode' = TRUE /\ UNCHANGED nun
     \/ Leave(TRUE)
  /\ UNCHANGED <<units, runs, stdin>>

\* The program is run.  (Without a $RUN there is no file to close.)
Endrun ==
  /\ lrunmode /\ Line({"$ENDRUN"})
  /\ \/ Reread /\ lrunmode' = FALSE /\ UNCHANGED nun
     \/ Leave(TRUE)
  /\ UNCHANGED <<units, runs, stdin>>

\* A line for the program.
Runtext ==
  /\ lrunmode /\ Line({"CMD", "$OTHER"})
  /\ Reread
  /\ UNCHANGED <<nun, lrunmode, units, runs, stdin>>

Unrecognized ==
  /\ ~lrunmode /\ Line({"$OTHER"})
  /\ Leave(TRUE)
  /\ UNCHANGED <<units, runs, stdin>>

\* A line for saccommands; executemacro reads on when it succeeds.
Command ==
  /\ ~lrunmode /\ Line({"CMD"})
  /\ UNCHANGED <<units, runs, stdin>>
  /\ \/ Enter
     \/ (IF Paused THEN "pause" ELSE "file") \in Fails /\ Leave(TRUE)

EndOfFile ==
  /\ CanRead /\ ~Paused /\ file[nun].pos = Len(file[nun].text)
  /\ Leave(FALSE)
  /\ UNCHANGED <<file, units, runs, stdin>>

\* closemacro closes whatever fileunit names; the entries stay.
closemacro ==
  /\ mode = "close"
  /\ mode' = "prompt"
  /\ \/ /\ fileunit = MUNINP /\ stdin
        /\ stdin' = FALSE /\ UNCHANGED file
     \/ /\ fileunit \in 1..runs /\ file[fileunit].open
        /\ file' = [file EXCEPT ![fileunit].open = FALSE] /\ UNCHANGED stdin
  /\ UNCHANGED <<units, nun, lrunmode, runs, nerr>>

Next == \/ \E program \in Programs : Macro(program)
        \/ Terminal \/ Resume \/ Kill
        \/ Run \/ Endrun \/ Runtext \/ Unrecognized
        \/ Command \/ EndOfFile
        \/ closemacro

Spec == Init /\ [][Next]_vars

-----------------------------------------------------------------------------
(***************************************************************************)
(* A macro that pauses and a user who answers as the documentation says:   *)
(* $RESUME and $KILL are typed at a pause, $TERMINAL is not, and no        *)
(* command typed at a pause fails.                                         *)
(***************************************************************************)
AsDocumented ==
  /\ \A t \in Programs : \A k \in 1..Len(t) : t[k] \notin {"$RESUME", "$KILL"}
  /\ Typed \subseteq {"CMD", "$RESUME", "$KILL"}
  /\ "pause" \notin Fails

\* A macro is never continued from the file of another one: what $RESUME finds
\* in saveunit is what the pause it ends put there.
ReadsItsOwnFile ==
  AsDocumented /\ mode = "macroline" /\ ~Paused => nun = runs

\* At the prompt every macro file that was opened has been closed, and the
\* standard input has not, wherever a macro ended: at its end, at an error, at
\* $KILL, or inside of a $RUN.
NothingLeftOpen ==
  AsDocumented /\ mode = "prompt" => stdin /\ \A r \in 1..runs : ~file[r].open

\* The user can type on after a macro ("SAC will then close the macro file and
\* return to the previous level of execution").
StdinStaysOpen == stdin
=============================================================================
