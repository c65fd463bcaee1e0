----------------------------- MODULE MacroExec -----------------------------
(***************************************************************************)
(* Nested macros.  saccommands runs the commands of one line one after     *)
(* another; the MACRO command makes executemacro read a file, line by      *)
(* line, each line through a further saccommands; so a macro runs another  *)
(* in the middle of one of its lines.                                      *)
(*                                                                         *)
(* The nesting is the C stack's: rest has one entry for the line typed at  *)
(* the prompt and one for every active executemacro.  Everything else is   *)
(* global.  The static imacrolevel names the list of variables             *)
(* ("macro001", ...) under which a macro's file is found, and those        *)
(* entries outlive the macro; whether a command failed, and whether        *)
(* MACROQUIT was given, is one flag for all levels, set again whenever a   *)
(* macro starts.                                                           *)
(***************************************************************************)
EXTENDS Cnd

CONSTANTS Programs,   \* the macro texts that may be run
          Inputs,     \* the lines that may be typed at the prompt
          Opened,     \* outcomes of opening a macro file that exists
          MaxRuns     \* bound: macros started in one session

ASSUME ProgramsAssumption == /\ Programs \subseteq Seq(Seq(Commands) \ {<<>>})
                             /\ Inputs \subseteq Seq(Commands) \ {<<>>}
ASSUME OpenedAssumption == Opened \subseteq BOOLEAN
ASSUME RunsAssumption == MaxRuns \in Nat

VARIABLES rest,           \* [depth] commands left of the line
          imacrolevel,    \* also cmcpf.nmacrolevel, from which kvarsname is made
          lmacrostatus,   \* FALSE once a command has failed
          file,           \* the "fileunit" entry of kvarsname: is it open?
          saved,          \* [level] the entries of the other levels
          runs,           \* macros started
          kept,           \* history: [depth] the Cnd globals when it started
          spoiled         \* history: a command failed, or MACROQUIT was given,
                          \* in a macro, and the prompt was not reached since

macros == <<rest, imacrolevel, lmacrostatus, file, saved, runs>>
vars   == <<text, pos, nerr, macro_active, levels, given, macros, kept, spoiled>>

\* A "fileunit" entry: none was made yet, or its file is open, or was closed.
FileStates == {"none", "open", "closed"}
Entry(state) == [text |-> text, pos |-> pos, file |-> state]
NoEntry  == [text |-> <<>>, pos |-> 0, file |-> "none"]
IsEntry(e) == /\ e.text \in Programs \cup {<<>>} /\ e.pos \in 0..Len(e.text)
              /\ e.file \in FileStates

TypeOK ==
  /\ text \in Programs \cup {<<>>}
  /\ CndTypeOK
  /\ rest \in Seq(Seq(Commands)) /\ Len(rest) \in 1..(MaxRuns + 1)
  /\ imacrolevel \in 0..MaxRuns
  /\ lmacrostatus \in BOOLEAN
  /\ file \in FileStates
  /\ DOMAIN saved = 0..MaxRuns /\ \A l \in 0..MaxRuns : IsEntry(saved[l])
  /\ runs \in 0..MaxRuns
  /\ Len(kept) = Len(rest) - 1
  /\ spoiled \in BOOLEAN

Init ==
  /\ CndInit
  /\ text = <<>> /\ pos = 0 /\ file = "none"
  /\ rest = <<<<>>>>
  /\ imacrolevel = 0
  /\ lmacrostatus = TRUE
  /\ saved = [l \in 0..MaxRuns |-> NoEntry]
  /\ runs = 0
  /\ kept = <<>>
  /\ spoiled = FALSE

Depth    == Len(rest)
Line     == rest[Depth]
AtPrompt == Depth = 1 /\ Line = <<>>
InMacro  == Depth > 1

\* Past the arrays of cnd.h, and with a file that was closed already, what the
\* program does is undefined: it is not followed any further.
Defined == niflevel =< MIFLEVEL /\ ndolevel =< MDOLEVEL /\ file # "closed"

\* The next command of the line, and what is left after it.
Command(words) == Line # <<>> /\ Head(Line) \in words /\ Defined
Left(commands) == rest' = [rest EXCEPT ![Depth] = commands]

\* proerr, after a command: it tells the macro system and clears the error.
proerr == /\ lmacrostatus' = (lmacrostatus /\ nerr' = 0)
          /\ spoiled' = (spoiled \/ (InMacro /\ (nerr' = 1 \/ ~macro_active')))

\* A line typed at the prompt.
main_command(line) ==
  /\ AtPrompt
  /\ Left(line)
  /\ nerr' = 0
  /\ UNCHANGED <<text, pos, macro_active, levels, given, imacrolevel,
                 lmacrostatus, file, saved, runs, kept, spoiled>>

Conditional ==
  /\ Command(Cnd)
  /\ imacrolevel >= 1 => file = "open"
  /\ xcndc(Head(Line), pos, imacrolevel)
  /\ Left(Tail(Line)) /\ proerr
  /\ UNCHANGED <<imacrolevel, file, saved, runs, kept>>

\* Any other command succeeds or fails.  saccommands goes on to the next one;
\* after what it hands to the system shell it drops the rest of the line.
Ordinary ==
  /\ Command({"CMD", "IFFT", "W", "BAD"})
  /\ Left(IF Head(Line) = "BAD" THEN <<>> ELSE Tail(Line))
  /\ nerr' \in {0, 1}
  /\ UNCHANGED <<text, pos, macro_active, levels, given, imacrolevel, file,
                 saved, runs, kept>>
  /\ proerr

-----------------------------------------------------------------------------
\* kvarsname names the list of level l from here on.
NameLevel(l) ==
  /\ imacrolevel' = l
  /\ text' = saved[l].text /\ pos' = saved[l].pos /\ file' = saved[l].file

\* MACRO finds no such file (also beyond the bound MaxRuns).
NoSuchMacro ==
  /\ Command({"MACRO"})
  /\ Left(Tail(Line))
  /\ nerr' = 1
  /\ UNCHANGED <<text, pos, macro_active, levels, given, imacrolevel, file,
                 saved, runs, kept>>
  /\ proerr

\* executemacro up to openmacro: the level and the flags are set, the file is
\* opened and entered in the level's list.
Start(program) ==
  /\ Command({"MACRO"}) /\ runs < MaxRuns /\ TRUE \in Opened
  /\ rest' = Append([rest EXCEPT ![Depth] = Tail(@)], <<>>)
  /\ imacrolevel' = imacrolevel + 1
  /\ lmacrostatus' = TRUE
  /\ macro_active' = TRUE
  /\ text' = program /\ pos' = 0 /\ file' = "open"
  /\ saved' = [saved EXCEPT ![imacrolevel] = Entry(file)]
  /\ nerr' = 0
  /\ runs' = runs + 1
  /\ kept' = Append(kept, levels)
  /\ UNCHANGED <<levels, given, spoiled>>

\* openmacro fails, before the file is entered in the level's list or, when no
\* line of it can be read (a directory), after: executemacro returns at once,
\* and the level stays raised.
OpenFails ==
  /\ Command({"MACRO"}) /\ runs < MaxRuns /\ FALSE \in Opened
  /\ Left(Tail(Line))
  /\ macro_active' = TRUE
  /\ saved' = [saved EXCEPT ![imacrolevel] = Entry(file)]
  /\ \/ NameLevel(imacrolevel + 1)
     \/ /\ imacrolevel' = imacrolevel + 1
        /\ text' = <<>> /\ pos' = 0 /\ file' = "open"
  /\ nerr' = 1
  /\ lmacrostatus' = FALSE
  /\ runs' = runs + 1
  /\ spoiled' = (spoiled \/ InMacro)
  /\ UNCHANGED <<levels, given, kept>>

-----------------------------------------------------------------------------
\* executemacro is back in its loop: the line has been executed.
Looping == InMacro /\ Line = <<>> /\ Defined
\* Mutants: MACROQUIT, or a failed command, goes unnoticed.
StatusOnly == lmacrostatus
ActiveOnly == macro_active
GoesOn  == lmacrostatus /\ macro_active

\* macroline finds a line, and saccommands begins with it.
ReadLine ==
  /\ Looping /\ GoesOn
  /\ file = "open" /\ pos < Len(text)
  /\ Left(text[pos + 1])
  /\ pos' = pos + 1
  /\ nerr' = 0
  /\ UNCHANGED <<text, macro_active, levels, given, imacrolevel, lmacrostatus,
                 file, saved, runs, kept, spoiled>>

\* The level below, to which executemacro returns; macro_off at the last.
Return(failed) ==
  /\ NameLevel(imacrolevel - 1)
  /\ macro_active' = (macro_active /\ imacrolevel > 1)
  /\ rest' = SubSeq(rest, 1, Depth - 1)
  /\ kept' = SubSeq(kept, 1, Depth - 2)
  /\ nerr' = IF failed THEN 1 ELSE 0
  /\ lmacrostatus' = (lmacrostatus /\ ~failed)
  /\ spoiled' = (Depth > 2 /\ (spoiled \/ failed))
  /\ UNCHANGED <<levels, given, runs>>

\* Mutant: the file is left open.
EndMacroUnclosed ==
  /\ Looping /\ file = "open"
  /\ ~GoesOn \/ pos = Len(text)
  /\ saved' = [saved EXCEPT ![imacrolevel] = Entry(file)]
  /\ Return(~lmacrostatus)

\* An error, MACROQUIT or the end of the file: the file is closed.
EndMacro ==
  /\ Looping /\ file = "open"
  /\ ~GoesOn \/ pos = Len(text)
  /\ saved' = [saved EXCEPT ![imacrolevel] = Entry("closed")]
  /\ Return(~lmacrostatus)

\* kvarsname names a list without a file: neither macroline nor closemacro
\* finds one.
LoseFile ==
  /\ Looping /\ file = "none"
  /\ UNCHANGED saved
  /\ Return(GoesOn \/ ~lmacrostatus)

Step ==
  \/ Conditional \/ Ordinary
  \/ NoSuchMacro \/ OpenFails \/ \E program \in Programs : Start(program)
  \/ ReadLine \/ EndMacro \/ LoseFile

Next == Step \/ \E line \in Inputs : main_command(line)

\* One thread runs the commands: SAC stops only to wait for the user's line.
Spec == Init /\ [][Next]_vars /\ WF_vars(Step)
=============================================================================
