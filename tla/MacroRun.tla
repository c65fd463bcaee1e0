------------------------------ MODULE MacroRun ------------------------------
(***************************************************************************)
(* The execution of macro files one after another from the prompt: the     *)
(* loop of executemacro over macroline and saccommands, for macros that    *)
(* start no further macro and hold one command on a line.  MacroExec has   *)
(* nesting and several commands on a line; this module is where the meaning *)
(* of the conditional commands themselves is stated and proved.            *)
(***************************************************************************)
EXTENDS Cnd

CONSTANTS Programs,   \* the macro texts that may be run
          MaxRuns     \* bound: macros run in one session

ASSUME ProgramsAssumption ==
  Programs \subseteq Seq({<<word>> : word \in Commands \ {"MACRO", "BAD"}})
ASSUME RunsAssumption == MaxRuns \in Nat

VARIABLES running,    \* inside executemacro
          runs        \* macros started

vars == <<text, pos, nerr, macro_active, levels, given, running, runs>>

TypeOK ==
  /\ text \in Programs \cup {<<>>}
  /\ running \in BOOLEAN
  /\ runs \in 0..MaxRuns
  /\ CndTypeOK

Init ==
  /\ CndInit
  /\ text = <<>> /\ pos = 0
  /\ running = FALSE
  /\ runs = 0

\* The MACRO command at the prompt: the level and the status are set and the
\* file is opened; the globals of cnd.h are left as the last macro left them.
Macro(program) ==
  /\ ~running /\ runs < MaxRuns
  /\ running' = TRUE
  /\ runs' = runs + 1
  /\ text' = program /\ pos' = 0
  /\ nerr' = 0
  /\ macro_active' = TRUE
  /\ UNCHANGED <<levels, given>>

\* Past the last slot the program writes over whatever lies behind its arrays:
\* what it does then is not modelled, and the macro goes no further.
InBounds == niflevel =< MIFLEVEL /\ ndolevel =< MDOLEVEL

Reading == running /\ InBounds /\ nerr = 0 /\ macro_active /\ pos < Len(text)
Word    == First(text[pos + 1])

\* A line of the macro that is a conditional command.
Conditional ==
  /\ Reading /\ Word \in Cnd
  /\ xcndc(Word, pos + 1, 1)
  /\ UNCHANGED <<running, runs>>

\* Any other command: it succeeds or raises an error.
Ordinary ==
  /\ Reading /\ Word \notin Cnd
  /\ pos' = pos + 1
  /\ nerr' \in {0, 1}
  /\ UNCHANGED <<text, macro_active, levels, given, running, runs>>

\* The end of the file, an error or MACROQUIT closes the macro.
CloseMacro ==
  /\ running /\ (nerr # 0 \/ ~macro_active \/ pos = Len(text))
  /\ running' = FALSE
  /\ text' = <<>> /\ pos' = 0
  /\ macro_active' = FALSE
  /\ UNCHANGED <<nerr, levels, given, runs>>

Next ==
  \/ \E program \in Programs : Macro(program)
  \/ Conditional
  \/ Ordinary
  \/ CloseMacro

\* SAC runs commands in one thread: it stops only at the prompt, to wait for
\* the user's next command.
Fairness == WF_vars(Conditional) /\ WF_vars(Ordinary) /\ WF_vars(CloseMacro)

Spec == Init /\ [][Next]_vars /\ Fairness
=============================================================================
