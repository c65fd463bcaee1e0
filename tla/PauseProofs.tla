---------------------------- MODULE PauseProofs ----------------------------
(***************************************************************************)
(* Theorems of MacroPause, for all macros and sessions.                    *)
(***************************************************************************)
EXTENDS MacroPause, TLAPS

File == [text : Programs, pos : Nat, open : BOOLEAN]

FilesTyped == /\ runs \in Nat
              /\ file \in Seq(File) /\ Len(file) = runs
              /\ mode \in {"prompt", "macroline", "close"}

\* While a macro runs, its file is the one that is open, and it is named by
\* fileunit, or at a pause by saveunit.
OneOpen == \A r \in 1..runs : file[r].open <=> (r = runs /\ mode # "prompt")

Named == mode # "prompt" =>
           /\ runs > 0
           /\ \/ fileunit = runs
              \/ mode = "macroline" /\ fileunit = MUNINP /\ saveunit = runs

LooksUp == mode = "macroline" => nun = fileunit

Inv == FilesTyped /\ OneOpen /\ Named /\ LooksUp /\ stdin

\* Reading a line moves the read position of the macro's file and no more.
LEMMA LineKeeps ==
  ASSUME Inv, NEW words, Line(words), runs' = runs,
         mode' \in {"macroline", "close"}
  PROVE  FilesTyped' /\ OneOpen' /\ mode = "macroline" /\ runs > 0
<1>1. mode = "macroline" /\ runs > 0
  BY DEF Line, CanRead, Inv, Named
<1>2. CASE UNCHANGED file
  BY <1>1, <1>2 DEF Inv, FilesTyped, OneOpen
<1>3. CASE ~Paused /\ file' = [file EXCEPT ![nun].pos = @ + 1]
  <2>1. nun = runs /\ nun \in 1..Len(file)
    BY <1>1, <1>3 DEF Paused, Inv, FilesTyped, Named, LooksUp
  <2>2. file[nun] \in File
    BY <2>1 DEF Inv, FilesTyped
  <2>3. [file[nun] EXCEPT !.pos = @ + 1] \in File
    BY <2>2 DEF File
  <2>4. file' = [file EXCEPT ![nun] = [file[nun] EXCEPT !.pos = @ + 1]]
    BY <1>3
  <2>5. file' \in Seq(File) /\ Len(file') = Len(file)
    BY <2>1, <2>3, <2>4 DEF Inv, FilesTyped
  <2>6. \A r \in 1..runs : file'[r].open = file[r].open
    BY <2>1, <2>2, <2>4 DEF Inv, FilesTyped, File
  <2> QED BY <1>1, <2>5, <2>6 DEF Inv, FilesTyped, OneOpen
<1> QED BY <1>1, <1>2, <1>3 DEF Line

\* With a user who answers a pause as the documentation says, $RESUME and
\* $KILL are read at a pause only, and the other $ lines in a file only.
LEMMA WhereRead ==
  ASSUME Inv, AsDocumented, NEW word, Line({word})
  PROVE  IF Paused THEN word \in {"CMD", "$RESUME", "$KILL"}
         ELSE word \notin {"$RESUME", "$KILL"}
<1>1. mode = "macroline" /\ runs > 0
  BY DEF Line, CanRead, Inv, Named
<1>2. CASE Paused
  BY <1>2 DEF Line, AsDocumented
<1>3. CASE ~Paused
  <2>1. nun = runs /\ nun \in 1..Len(file)
    BY <1>1, <1>3 DEF Paused, Inv, FilesTyped, Named, LooksUp
  <2>2. file[nun].text \in Programs /\ file[nun].pos \in Nat
    <3>1. file[nun] \in File
      BY <2>1 DEF Inv, FilesTyped
    <3> QED BY <3>1 DEF File
  <2>3. file[nun].pos + 1 \in 1..Len(file[nun].text)
    BY <1>3, <2>2, WordsAssumption DEF Line
  <2>4. file[nun].text[file[nun].pos + 1] = word
    BY <1>3 DEF Line
  <2> QED BY <1>3, <2>2, <2>3, <2>4 DEF AsDocumented
<1> QED BY <1>2, <1>3

\* Every step keeps the invariant.
LEMMA InvNext ==
  ASSUME Inv, AsDocumented, [Next]_vars
  PROVE  Inv'
<1> USE DEF Inv
<1>1. ASSUME NEW program \in Programs, Macro(program) PROVE Inv'
  <2> DEFINE new == [text |-> program, pos |-> 0, open |-> TRUE]
  <2>1. new \in File
    BY DEF File
  <2>2. /\ file' = Append(file, new) /\ runs' = runs + 1
        /\ fileunit' = runs + 1 /\ stdin' = stdin
        /\ mode' = "macroline" /\ nun' = fileunit' /\ mode = "prompt"
    BY <1>1 DEF Macro, Enter
  <2>3. FilesTyped'
    BY <2>1, <2>2 DEF FilesTyped
  <2>4. OneOpen'
    <3>1. \A r \in 1..runs : file'[r] = file[r]
      BY <2>2 DEF FilesTyped
    <3>2. file'[runs + 1] = new
      BY <2>2 DEF FilesTyped
    <3>3. ASSUME NEW r \in 1..runs' PROVE file'[r].open <=> r = runs'
      BY <2>2, <3>1, <3>2 DEF OneOpen, FilesTyped
    <3> QED BY <2>2, <3>3 DEF OneOpen
  <2> QED BY <2>2, <2>3, <2>4 DEF FilesTyped, Named, LooksUp
<1>2. CASE Terminal
  <2>1. ~Paused
    BY <1>2, WhereRead DEF Terminal
  <2>2. FilesTyped' /\ OneOpen' /\ mode = "macroline" /\ runs > 0
    <3>1. mode = "macroline"
      BY <1>2 DEF Terminal, Line, CanRead
    <3> QED BY <1>2, <3>1, LineKeeps DEF Terminal, Reread
  <2> QED BY <1>2, <2>1, <2>2
    DEF Terminal, Reread, Paused, Named, LooksUp, FilesTyped
<1>3. CASE Resume
  <2>1. Paused /\ mode = "macroline"
    BY <1>3, WhereRead DEF Resume, Line, CanRead
  <2>2. FilesTyped' /\ OneOpen' /\ runs > 0
    BY <1>3, <2>1, LineKeeps DEF Resume, Reread, Leave
  <2>3. saveunit = runs /\ saveunit # NoUnit
    BY <2>1, <2>2 DEF Paused, MUNINP, NoUnit, Named, LooksUp, FilesTyped
  <2> QED BY <1>3, <2>1, <2>2, <2>3 DEF Resume, Reread, Named, LooksUp
<1>4. CASE Kill
  <2>1. Paused /\ mode = "macroline"
    BY <1>4, WhereRead DEF Kill, Line, CanRead
  <2>2. FilesTyped' /\ OneOpen' /\ runs > 0
    BY <1>4, <2>1, LineKeeps DEF Kill, Leave
  <2>3. saveunit = runs /\ saveunit # NoUnit
    BY <2>1, <2>2 DEF Paused, MUNINP, NoUnit, Named, LooksUp, FilesTyped
  <2> QED BY <1>4, <2>1, <2>2, <2>3 DEF Kill, Leave, Named, LooksUp
<1>5. ASSUME NEW word, Line({word}), ~Paused, Leave(TRUE),
             UNCHANGED <<units, runs, stdin>>
      PROVE  Inv'
  <2>1. FilesTyped' /\ OneOpen' /\ mode = "macroline" /\ runs > 0
    BY <1>5, LineKeeps DEF Leave
  <2> QED BY <1>5, <2>1 DEF Leave, units, Paused, Named, LooksUp
<1>6. ASSUME NEW words, Line(words), mode' = "macroline", nun' = fileunit,
             UNCHANGED <<units, runs, stdin>>
      PROVE  Inv'
  <2>1. FilesTyped' /\ OneOpen' /\ mode = "macroline" /\ runs > 0
    BY <1>6, LineKeeps
  <2> QED BY <1>6, <2>1 DEF units, Named, LooksUp
<1>7. ASSUME Line({"$RUN"}) \/ Line({"$ENDRUN"}) \/ Line({"$OTHER"})
      PROVE  ~Paused /\ nun = fileunit
  <2>1. mode = "macroline"
    BY <1>7 DEF Line, CanRead
  <2> QED BY <1>7, <2>1, WhereRead DEF LooksUp
<1>8. CASE Run
  BY <1>5, <1>6, <1>7, <1>8 DEF Run, Reread, Line, CanRead
<1>9. CASE Endrun
  BY <1>5, <1>6, <1>7, <1>9 DEF Endrun, Reread, Line, CanRead
<1>10. CASE Runtext
  BY <1>6, <1>10 DEF Runtext, Reread, Line, CanRead, LooksUp
<1>11. CASE Unrecognized
  BY <1>5, <1>7, <1>11 DEF Unrecognized
<1>12. CASE Command
  <2>1. CASE Enter
    BY <1>6, <1>12, <2>1 DEF Command, Enter, units
  <2>2. CASE (IF Paused THEN "pause" ELSE "file") \in Fails /\ Leave(TRUE)
    BY <1>5, <1>12, <2>2 DEF Command, AsDocumented
  <2> QED BY <1>12, <2>1, <2>2 DEF Command
<1>13. CASE EndOfFile
  BY <1>13 DEF EndOfFile, CanRead, Leave, units, Paused, FilesTyped, OneOpen,
               Named, LooksUp
<1>14. CASE closemacro
  <2>1. fileunit = runs /\ runs > 0 /\ runs \in 1..Len(file)
    BY <1>14 DEF closemacro, Named, FilesTyped
  <2>2. /\ file' = [file EXCEPT ![runs].open = FALSE] /\ mode' = "prompt"
        /\ runs' = runs /\ stdin' = stdin
    <3>1. fileunit # MUNINP
      BY <2>1 DEF MUNINP, FilesTyped
    <3> QED BY <1>14, <2>1, <3>1, Zenon DEF closemacro
  <2>3. file[runs] \in File
    BY <2>1 DEF FilesTyped
  <2>4. [file[runs] EXCEPT !.open = FALSE] \in File
    BY <2>3 DEF File
  <2>5. file' = [file EXCEPT ![runs] = [file[runs] EXCEPT !.open = FALSE]]
    BY <2>2
  <2>6. file' \in Seq(File) /\ Len(file') = Len(file)
    BY <2>1, <2>4, <2>5 DEF FilesTyped
  <2>7. \A r \in 1..runs : ~file'[r].open
    <3>1. ~file'[runs].open
      BY <2>1, <2>3, <2>5 DEF FilesTyped, File
    <3>2. ASSUME NEW r \in 1..runs, r # runs PROVE file'[r] = file[r]
      BY <2>1, <2>5, <3>2 DEF FilesTyped
    <3> QED BY <3>1, <3>2 DEF OneOpen
  <2> QED BY <2>2, <2>6, <2>7 DEF FilesTyped, OneOpen, Named, LooksUp
<1>15. CASE UNCHANGED vars
  BY <1>15 DEF vars, FilesTyped, OneOpen, Named, LooksUp
<1> QED
  BY <1>1, <1>2, <1>3, <1>4, <1>8, <1>9, <1>10, <1>11, <1>12, <1>13, <1>14,
     <1>15 DEF Next

LEMMA AlwaysInv ==
  ASSUME AsDocumented
  PROVE  Spec => []Inv
<1>1. Init => Inv
  BY DEF Init, Inv, FilesTyped, OneOpen, Named, LooksUp
<1> QED BY <1>1, InvNext, PTL DEF Spec

\* For every set of macros without $RESUME and $KILL in them, and every sequence
\* of pauses the user answers with commands that succeed, $RESUME or $KILL: a
\* macro is only ever read from its own file,
THEOREM ReadsOwnFile == Spec => []ReadsItsOwnFile
<1>1. CASE AsDocumented
  <2>1. Inv => ReadsItsOwnFile
    BY DEF Inv, FilesTyped, Named, LooksUp, Paused, ReadsItsOwnFile
  <2> QED BY <1>1, <2>1, AlwaysInv, PTL
<1>2. CASE ~AsDocumented
  <2>1. ReadsItsOwnFile
    BY <1>2 DEF ReadsItsOwnFile
  <2> QED BY <2>1, PTL
<1> QED BY <1>1, <1>2

\* and when it has ended, wherever that was, its file is closed and the standard
\* input is not.
THEOREM PausesEnd == Spec => []NothingLeftOpen
<1>1. CASE AsDocumented
  <2>1. Inv => NothingLeftOpen
    BY DEF Inv, FilesTyped, OneOpen, NothingLeftOpen
  <2> QED BY <1>1, <2>1, AlwaysInv, PTL
<1>2. CASE ~AsDocumented
  <2>1. NothingLeftOpen
    BY <1>2 DEF NothingLeftOpen
  <2> QED BY <2>1, PTL
<1> QED BY <1>1, <1>2

-----------------------------------------------------------------------------
(* Whatever is typed at a pause, and whatever fails.                       *)

\* A read position is not beyond the end of its file.
ReadFile == {f \in File : f.pos =< Len(f.text)}

\* Units are those of the files opened so far; while macroline reads, there is
\* a unit for it to look up.
UnitsTyped ==
  /\ mode \in {"prompt", "macroline", "close"}
  /\ runs \in 0..MaxRuns
  /\ file \in Seq(ReadFile) /\ Len(file) = runs
  /\ fileunit \in -1..runs /\ saveunit \in -1..runs
  /\ mode = "macroline" => nun \in 0..runs /\ fileunit # NoUnit
  /\ lrunmode \in BOOLEAN /\ stdin \in BOOLEAN
  /\ nerr \in {0, 1}

LEMMA LineTyped ==
  ASSUME UnitsTyped, NEW words, Line(words)
  PROVE  /\ file' \in Seq(ReadFile) /\ Len(file') = Len(file)
         /\ mode = "macroline"
<1>1. mode = "macroline"
  BY DEF Line, CanRead
<1>2. CASE UNCHANGED file
  BY <1>1, <1>2 DEF UnitsTyped
<1>3. CASE /\ ~Paused /\ file[nun].pos < Len(file[nun].text)
           /\ file' = [file EXCEPT ![nun].pos = @ + 1]
  <2>1. nun \in 1..Len(file)
    BY <1>1, <1>3, RunsAssumption DEF Paused, MUNINP, UnitsTyped
  <2>2. file[nun] \in ReadFile
    BY <2>1 DEF UnitsTyped
  <2>3. file[nun].text \in Seq(Words) /\ file[nun].pos \in Nat
    BY <2>2, WordsAssumption DEF ReadFile, File
  <2> DEFINE f == [file[nun] EXCEPT !.pos = @ + 1]
  <2>4. f \in File /\ f.text = file[nun].text /\ f.pos = file[nun].pos + 1
    BY <2>2 DEF ReadFile, File
  <2>5. f.pos =< Len(f.text)
    BY <1>3, <2>3, <2>4
  <2>6. f \in ReadFile
    BY <2>4, <2>5 DEF ReadFile
  <2>7. file' = [file EXCEPT ![nun] = f]
    BY <1>3
  <2> HIDE DEF f
  <2> QED BY <1>1, <2>1, <2>6, <2>7 DEF UnitsTyped
<1> QED BY <1>2, <1>3 DEF Line

LEMMA UnitsInit == Init => UnitsTyped
<1>1. <<>> \in Seq(ReadFile) /\ Len(<<>>) = 0
  OBVIOUS
<1>2. 0 \in 0..MaxRuns /\ NoUnit \in -1..0
  BY RunsAssumption DEF NoUnit
<1> QED BY <1>1, <1>2 DEF Init, UnitsTyped

LEMMA UnitsNext ==
  ASSUME UnitsTyped, [Next]_vars
  PROVE  UnitsTyped'
<1> USE RunsAssumption DEF NoUnit, MUNINP
<1>1. ASSUME NEW program \in Programs, Macro(program) PROVE UnitsTyped'
  <2> DEFINE new == [text |-> program, pos |-> 0, open |-> TRUE]
  <2>1. new \in ReadFile
    BY WordsAssumption DEF ReadFile, File
  <2>2. /\ file' = Append(file, new) /\ runs' = runs + 1 /\ runs < MaxRuns
        /\ fileunit' = runs + 1 /\ stdin' = stdin /\ saveunit' = saveunit
        /\ mode' = "macroline" /\ nun' = fileunit' /\ lrunmode' = FALSE /\ nerr' = 0
    BY <1>1 DEF Macro, Enter
  <2> HIDE DEF new
  <2>3. file' \in Seq(ReadFile) /\ Len(file') = runs'
    BY <2>1, <2>2 DEF UnitsTyped
  <2>4. /\ runs' \in 0..MaxRuns /\ nun' \in 0..runs' /\ fileunit' # NoUnit
        /\ fileunit' \in -1..runs' /\ saveunit' \in -1..runs'
    BY <2>2 DEF UnitsTyped
  <2> QED BY <2>2, <2>3, <2>4 DEF UnitsTyped
<1>2. ASSUME NEW words, Line(words), runs' = runs, stdin' = stdin,
             fileunit' \in {fileunit, MUNINP, saveunit}, fileunit' # NoUnit,
             saveunit' \in {saveunit, nun},
             nun' \in {fileunit', nun}, lrunmode' \in BOOLEAN,
             mode' \in {"macroline", "close"}, nerr' \in {0, 1}
      PROVE  UnitsTyped'
  <2>1. /\ file' \in Seq(ReadFile) /\ Len(file') = Len(file)
        /\ mode = "macroline"
    BY <1>2, LineTyped
  <2> QED BY <1>2, <2>1 DEF UnitsTyped
<1>3. ASSUME NEW words, Line(words) PROVE fileunit # NoUnit /\ mode = "macroline"
  BY <1>3 DEF Line, CanRead, UnitsTyped
<1>4. nerr \in {0, 1} /\ lrunmode \in BOOLEAN
  BY DEF UnitsTyped
<1>5. CASE Terminal
  BY <1>2, <1>3, <1>4, <1>5 DEF Terminal, Reread
<1>6. CASE Resume
  BY <1>2, <1>3, <1>4, <1>6 DEF Resume, Reread, Leave
<1>7. CASE Kill
  BY <1>2, <1>3, <1>4, <1>7 DEF Kill, Leave
<1>8. CASE Run
  BY <1>2, <1>3, <1>4, <1>8 DEF Run, Reread, Leave, units
<1>9. CASE Endrun
  BY <1>2, <1>3, <1>4, <1>9 DEF Endrun, Reread, Leave, units
<1>10. CASE Runtext
  BY <1>2, <1>3, <1>4, <1>10 DEF Runtext, Reread, units
<1>11. CASE Unrecognized
  BY <1>2, <1>3, <1>4, <1>11 DEF Unrecognized, Leave, units
<1>12. CASE Command
  BY <1>2, <1>3, <1>4, <1>12 DEF Command, Enter, Leave, units
<1>13. CASE EndOfFile
  BY <1>13 DEF EndOfFile, CanRead, Leave, units, UnitsTyped
<1>14. CASE closemacro
  <2>1. CASE UNCHANGED file
    BY <1>14, <2>1 DEF closemacro, units, UnitsTyped
  <2>2. CASE fileunit \in 1..runs /\ file' = [file EXCEPT ![fileunit].open = FALSE]
               /\ UNCHANGED stdin
    <3>1. file[fileunit] \in ReadFile
      BY <2>2 DEF UnitsTyped
    <3>2. [file[fileunit] EXCEPT !.open = FALSE] \in ReadFile
      BY <3>1 DEF ReadFile, File
    <3>3. file' \in Seq(ReadFile) /\ Len(file') = Len(file)
      BY <2>2, <3>2 DEF UnitsTyped
    <3> QED BY <1>14, <2>2, <3>3 DEF closemacro, units, UnitsTyped
  <2> QED BY <1>14, <2>1, <2>2 DEF closemacro
<1>15. CASE UNCHANGED vars
  BY <1>15 DEF vars, UnitsTyped
<1> QED
  BY <1>1, <1>5, <1>6, <1>7, <1>8, <1>9, <1>10, <1>11, <1>12, <1>13, <1>14,
     <1>15 DEF Next

\* For all macros and whatever is typed at their pauses, a unit is looked up
\* only where there is one, and no file is read beyond its end
\* (ncpf/macroline.c).
THEOREM TypeCorrect == Spec => []TypeOK
<1>1. UnitsTyped => TypeOK
  <2> SUFFICES ASSUME UnitsTyped PROVE TypeOK
    OBVIOUS
  <2>1. DOMAIN file = 1..runs
    BY DEF UnitsTyped
  <2>2. ASSUME NEW r \in 1..runs
        PROVE  /\ file[r].text \in Programs
               /\ file[r].pos \in 0..Len(file[r].text)
               /\ file[r].open \in BOOLEAN
    <3>1. file[r] \in ReadFile
      BY DEF UnitsTyped
    <3>2. Len(file[r].text) \in Nat
      BY <3>1, WordsAssumption DEF ReadFile, File
    <3> QED BY <3>1, <3>2 DEF ReadFile, File
  <2> QED BY <2>1, <2>2, RunsAssumption DEF UnitsTyped, TypeOK, Units, NoUnit
<1> QED BY <1>1, UnitsInit, UnitsNext, PTL DEF Spec
=============================================================================
