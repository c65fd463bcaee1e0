--------------------------- MODULE NestingProofs ---------------------------
(***************************************************************************)
(* Theorems of MacroExec, for all macros, sessions and depths of nesting.  *)
(***************************************************************************)
EXTENDS MacroNesting, CndProofs

\* No more levels are in use than macros have been started, and the list of
\* each has an entry.
LevelsTyped ==
  /\ \E S : rest \in Seq(S)
  /\ Depth >= 1 /\ Depth =< runs + 1
  /\ runs \in 0..MaxRuns
  /\ saved = [l \in 0..MaxRuns |-> saved[l]]

Inv == LevelsTyped /\ FilesNest

\* Replacing what is left of a line keeps the stack's depth.
LEMMA LeftKeeps ==
  ASSUME LevelsTyped, NEW commands, Left(commands)
  PROVE  Depth' = Depth /\ \E S : rest' \in Seq(S)
<1>1. PICK S : rest \in Seq(S)
  BY DEF LevelsTyped
<1>2. Len(rest) \in Nat /\ Len(rest) >= 1
  BY <1>1 DEF LevelsTyped, Depth
<1>3. rest' = [rest EXCEPT ![Len(rest)] = commands]
  BY DEF Left, Depth
<1>4. rest \in Seq(S \cup {commands})
  BY <1>1
<1>5. rest' \in Seq(S \cup {commands}) /\ Len(rest') = Len(rest)
  BY <1>2, <1>3, <1>4
<1> QED BY <1>5 DEF Depth

\* So a step that does only that to the stack and leaves the files alone keeps
\* the invariant.
LEMMA FilesKept ==
  ASSUME Inv, NEW commands, Left(commands),
         UNCHANGED <<imacrolevel, file, saved, runs>>
  PROVE  Inv'
<1>1. Depth' = Depth /\ \E S : rest' \in Seq(S)
  BY LeftKeeps DEF Inv
<1> QED BY <1>1 DEF Inv, LevelsTyped, FilesNest

\* A macro that starts adds a line to the stack.
LEMMA StartDeeper ==
  ASSUME LevelsTyped, NEW program, Start(program)
  PROVE  Depth' = Depth + 1 /\ \E T : rest' \in Seq(T)
<1>1. PICK S : rest \in Seq(S)
  BY DEF LevelsTyped
<1>2. Len(rest) \in Nat /\ Len(rest) >= 1
  BY <1>1 DEF LevelsTyped, Depth
<1> DEFINE top == Tail(rest[Len(rest)])
           T   == S \cup {top, <<>>}
<1>3. rest' = Append([rest EXCEPT ![Len(rest)] = top], <<>>)
  BY DEF Start, Depth
<1>4. rest \in Seq(T) /\ top \in T /\ <<>> \in T
  BY <1>1
<1> HIDE DEF top, T
<1>5. /\ [rest EXCEPT ![Len(rest)] = top] \in Seq(T)
      /\ Len([rest EXCEPT ![Len(rest)] = top]) = Len(rest)
  BY <1>2, <1>4
<1> QED BY <1>2, <1>3, <1>4, <1>5 DEF Depth

\* A macro starts one level up; the file of the level below is kept.
LEMMA StartNests ==
  ASSUME Inv, NEW program, Start(program)
  PROVE  Inv'
<1>1. PICK S : rest \in Seq(S)
  BY DEF Inv, LevelsTyped
<1>2. Len(rest) \in Nat /\ Len(rest) >= 1 /\ Len(rest) =< runs + 1
  BY <1>1 DEF Inv, LevelsTyped, Depth
<1>3. runs \in Nat /\ MaxRuns \in Nat /\ runs < MaxRuns /\ runs' = runs + 1
  BY RunsAssumption DEF Inv, LevelsTyped, Start
<1>4. Depth' = Depth + 1 /\ \E T : rest' \in Seq(T)
  BY StartDeeper DEF Inv
<1>5. /\ imacrolevel = Depth - 1 /\ imacrolevel \in 0..MaxRuns
      /\ imacrolevel' = imacrolevel + 1 /\ file' = "open"
      /\ saved' = [saved EXCEPT ![imacrolevel] = Entry(file)]
      /\ Depth \in Nat
  BY <1>2, <1>3 DEF Start, Inv, FilesNest, Depth
<1>6. LevelsTyped'
  <2>1. saved' = [l \in 0..MaxRuns |-> saved'[l]]
    BY <1>5 DEF Inv, LevelsTyped
  <2>2. runs' \in 0..MaxRuns /\ Depth' >= 1 /\ Depth' =< runs' + 1
    BY <1>2, <1>3, <1>4 DEF Depth
  <2> QED BY <1>4, <2>1, <2>2 DEF LevelsTyped
<1>7. saved'[imacrolevel].file = file
  BY <1>5 DEF Inv, LevelsTyped, Entry
<1>8. \A l \in 0..MaxRuns : l # imacrolevel => saved'[l] = saved[l]
  BY <1>5 DEF Inv, LevelsTyped
<1> QED BY <1>4, <1>5, <1>6, <1>7, <1>8 DEF Inv, FilesNest

\* A macro's end closes its file and goes back to the level below.
LEMMA EndNests ==
  ASSUME Inv, EndMacro
  PROVE  Inv'
<1>1. PICK S : rest \in Seq(S)
  BY DEF Inv, LevelsTyped
<1>2. Len(rest) \in Nat /\ Len(rest) > 1 /\ Len(rest) =< runs + 1
  BY <1>1 DEF EndMacro, Looping, InMacro, Inv, LevelsTyped, Depth
<1>3. runs \in Nat /\ MaxRuns \in Nat /\ runs =< MaxRuns /\ runs' = runs
  BY RunsAssumption DEF Inv, LevelsTyped, EndMacro, Return
<1>4. Depth' = Depth - 1 /\ rest' \in Seq(S)
  <2>1. rest' = SubSeq(rest, 1, Len(rest) - 1)
    BY DEF EndMacro, Return, Depth
  <2> QED BY <1>1, <1>2, <2>1 DEF Depth
<1>5. /\ imacrolevel = Depth - 1 /\ imacrolevel \in 1..MaxRuns
      /\ imacrolevel' = imacrolevel - 1
      /\ file' = saved[imacrolevel - 1].file
      /\ saved' = [saved EXCEPT ![imacrolevel] = Entry("closed")]
      /\ Depth \in Nat
  BY <1>2, <1>3 DEF EndMacro, Return, NameLevel, Inv, FilesNest, Depth
<1>6. LevelsTyped'
  <2>1. saved' = [l \in 0..MaxRuns |-> saved'[l]]
    BY <1>5 DEF Inv, LevelsTyped
  <2>2. runs' \in 0..MaxRuns /\ Depth' >= 1 /\ Depth' =< runs' + 1
    BY <1>2, <1>3, <1>4 DEF Depth
  <2> QED BY <1>4, <2>1, <2>2 DEF LevelsTyped
<1>7. saved'[imacrolevel].file = "closed"
  BY <1>5 DEF Inv, LevelsTyped, Entry
<1>8. \A l \in 0..MaxRuns : l # imacrolevel => saved'[l] = saved[l]
  BY <1>5 DEF Inv, LevelsTyped
<1> QED BY <1>4, <1>5, <1>6, <1>7, <1>8 DEF Inv, FilesNest

\* The level of a macro has a file.
LEMMA NeverLost ==
  ASSUME Inv PROVE ~LoseFile
<1> SUFFICES ASSUME LoseFile PROVE FALSE
  OBVIOUS
<1>1. Depth > 1 /\ file = "none"
  BY DEF LoseFile, Looping, InMacro
<1>2. Depth \in Nat
  BY DEF Inv, LevelsTyped, Depth
<1>3. imacrolevel \in 0..MaxRuns /\ imacrolevel \in 1..(Depth - 1)
  BY <1>1, <1>2, RunsAssumption DEF Inv, LevelsTyped, FilesNest
<1>4. file = "open"
  BY <1>3 DEF Inv, FilesNest
<1> QED BY <1>1, <1>4

\* Every step keeps the invariant when the files can be opened: then LoseFile is
\* never taken.
LEMMA NestingNext ==
  ASSUME Inv, Opened = {TRUE}, [Next]_vars
  PROVE  Inv'
<1>1. CASE Conditional
  BY <1>1, FilesKept DEF Conditional
<1>2. CASE Ordinary
  BY <1>2, FilesKept DEF Ordinary
<1>3. CASE NoSuchMacro
  BY <1>3, FilesKept DEF NoSuchMacro
<1>4. CASE OpenFails
  BY <1>4 DEF OpenFails
<1>5. CASE \E program \in Programs : Start(program)
  BY <1>5, StartNests
<1>6. CASE ReadLine
  BY <1>6, FilesKept DEF ReadLine
<1>7. CASE EndMacro
  BY <1>7, EndNests
<1>8. CASE LoseFile
  BY <1>8, NeverLost
<1>9. CASE \E line \in Inputs : main_command(line)
  BY <1>9, FilesKept DEF main_command
<1>10. CASE UNCHANGED vars
  BY <1>10 DEF vars, macros, Inv, LevelsTyped, FilesNest, Depth
<1> QED
  BY <1>1, <1>2, <1>3, <1>4, <1>5, <1>6, <1>7, <1>8, <1>9, <1>10 DEF Next, Step

LEMMA NestingStarts ==
  ASSUME Init PROVE Inv
<1>1. Depth = 1 /\ rest \in Seq({<<>>})
  BY DEF Init, Depth
<1>2. saved = [l \in 0..MaxRuns |-> saved[l]]
      /\ \A l \in 0..MaxRuns : saved[l].file = "none"
  BY DEF Init, NoEntry
<1>3. LevelsTyped
  BY <1>1, <1>2, RunsAssumption DEF Init, LevelsTyped
<1> QED BY <1>1, <1>2, <1>3 DEF Inv, Init, FilesNest

\* Whatever macros call each other, however deep, and wherever an error or
\* MACROQUIT ends them: as long as the files that exist can be opened, the
\* level, the file entries and the C stack agree.
THEOREM FilesAlwaysNest ==
  ASSUME Opened = {TRUE}
  PROVE  Spec => []FilesNest
<1>1. Init => Inv
  BY NestingStarts
<1>2. Inv /\ [Next]_vars => Inv'
  BY NestingNext
<1>3. Inv => FilesNest
  BY DEF Inv
<1> QED BY <1>1, <1>2, <1>3, PTL DEF Spec
-----------------------------------------------------------------------------
(* Types, for every outcome of opening files.                              *)

\* Entries of the lists of variables.
Texts   == Programs \cup {<<>>}
Entries == {e \in [text : Texts, pos : Nat, file : FileStates] :
              e.pos =< Len(e.text)}

\* Every active macro has raised the level, and no level is raised without a
\* macro being started.
ExecTyped ==
  /\ text \in Texts /\ CndTypeOK
  /\ rest \in Seq(Seq(Commands)) /\ Len(rest) >= 1
  /\ \E S : kept \in Seq(S)
  /\ Len(kept) = Len(rest) - 1
  /\ runs \in 0..MaxRuns /\ imacrolevel \in (Len(rest) - 1)..runs
  /\ lmacrostatus \in BOOLEAN /\ spoiled \in BOOLEAN
  /\ file \in FileStates
  /\ saved \in [0..MaxRuns -> Entries]

\* A text is a sequence of lines.
LEMMA TextsAreSequences ==
  ASSUME NEW t \in Texts
  PROVE  /\ t \in Seq(Seq(Commands)) /\ Len(t) \in Nat
         /\ \A k \in 1..Len(t) : t[k] \in Seq(Commands)
<1>1. CASE t = <<>>
  BY <1>1
<1>2. CASE t \in Programs
  <2>1. t \in Seq(Seq(Commands) \ {<<>>})
    BY <1>2, ProgramsAssumption
  <2>2. \A k \in 1..Len(t) : t[k] \in Seq(Commands)
    BY <2>1
  <2>3. Len(t) \in Nat /\ t = [k \in 1..Len(t) |-> t[k]]
    BY <2>1
  <2> QED BY <2>2, <2>3
<1> QED BY <1>1, <1>2 DEF Texts

\* What holds of the numbers.
LEMMA LevelsBounded ==
  ASSUME ExecTyped
  PROVE  /\ MaxRuns \in Nat /\ runs \in Nat /\ runs =< MaxRuns
         /\ Len(rest) \in Nat /\ Len(rest) =< runs + 1
         /\ imacrolevel \in 0..MaxRuns /\ imacrolevel =< runs
         /\ imacrolevel >= Len(rest) - 1
         /\ Line \in Seq(Commands)
<1>1. Len(rest) \in Nat /\ MaxRuns \in Nat /\ rest[Len(rest)] \in Seq(Commands)
  BY RunsAssumption DEF ExecTyped
<1> QED BY <1>1 DEF ExecTyped, Line, Depth

\* Entries that are kept, and that are taken back.
LEMMA EntriesTyped ==
  ASSUME ExecTyped
  PROVE  /\ \A state \in FileStates : Entry(state) \in Entries
         /\ \A l \in 0..MaxRuns : /\ saved[l] \in Entries
                                  /\ saved[l].text \in Texts
                                  /\ saved[l].pos \in 0..Len(saved[l].text)
                                  /\ saved[l].file \in FileStates
<1>1. text \in Texts /\ pos \in 0..Len(text) /\ Len(text) \in Nat
  BY TextsAreSequences DEF ExecTyped, CndTypeOK
<1>2. ASSUME NEW state \in FileStates PROVE Entry(state) \in Entries
  BY <1>1 DEF Entry, Entries
<1>3. ASSUME NEW l \in 0..MaxRuns
      PROVE  /\ saved[l] \in Entries /\ saved[l].text \in Texts
             /\ saved[l].pos \in 0..Len(saved[l].text)
             /\ saved[l].file \in FileStates
  <2>1. /\ saved[l] \in Entries /\ saved[l].text \in Texts /\ saved[l].pos \in Nat
        /\ saved[l].pos =< Len(saved[l].text) /\ saved[l].file \in FileStates
    BY DEF ExecTyped, Entries
  <2>2. Len(saved[l].text) \in Nat
    BY <2>1, TextsAreSequences
  <2> QED BY <2>1, <2>2
<1> QED BY <1>2, <1>3

\* Most steps leave the stack of macros as it is.
LEMMA SameMacro ==
  ASSUME ExecTyped, NEW commands \in Seq(Commands), Left(commands),
         CndTypeOK', text' \in Texts, lmacrostatus' \in BOOLEAN, spoiled' \in BOOLEAN,
         file' \in FileStates, saved' \in [0..MaxRuns -> Entries],
         runs' \in 0..MaxRuns, imacrolevel' \in (Len(rest) - 1)..runs',
         kept' = kept
  PROVE  ExecTyped'
<1>1. rest' \in Seq(Seq(Commands)) /\ Len(rest') = Len(rest)
  BY DEF Left, Depth, ExecTyped
<1> QED BY <1>1 DEF ExecTyped

\* A command's error, as proerr tells it.
LEMMA ErrorTyped ==
  ASSUME ExecTyped, proerr
  PROVE  lmacrostatus' \in BOOLEAN /\ spoiled' \in BOOLEAN
  BY Zenon DEF ExecTyped, proerr

LEMMA TailTyped ==
  ASSUME ExecTyped, Line # <<>>
  PROVE  Tail(Line) \in Seq(Commands)
  BY LevelsBounded

LEMMA StartTyped ==
  ASSUME ExecTyped, NEW program \in Programs, Start(program)
  PROVE  ExecTyped'
<1>1. /\ MaxRuns \in Nat /\ runs \in Nat /\ Len(rest) \in Nat /\ Len(rest) >= 1
      /\ imacrolevel \in 0..MaxRuns
      /\ imacrolevel =< runs /\ imacrolevel >= Len(rest) - 1
  BY LevelsBounded DEF ExecTyped
<1>2. runs < MaxRuns /\ runs' = runs + 1 /\ imacrolevel' = imacrolevel + 1
      /\ Line # <<>>
  BY DEF Start, Command
<1>3. rest' \in Seq(Seq(Commands)) /\ Len(rest') = Len(rest) + 1
  <2> DEFINE top == Tail(Line)
             r == [rest EXCEPT ![Len(rest)] = top]
  <2>1. top \in Seq(Commands)
    BY <1>2, TailTyped
  <2>2. rest' = Append(r, <<>>)
    BY DEF Start, Depth, Line
  <2> HIDE DEF top
  <2>3. r \in Seq(Seq(Commands)) /\ Len(r) = Len(rest)
    BY <1>1, <2>1 DEF ExecTyped
  <2>4. <<>> \in Seq(Commands)
    OBVIOUS
  <2> HIDE DEF r
  <2> QED BY <2>2, <2>3, <2>4
<1>4. (\E S : kept' \in Seq(S)) /\ Len(kept') = Len(kept) + 1
  <2>1. PICK S : kept \in Seq(S)
    BY DEF ExecTyped
  <2>2. kept \in Seq(S \cup {levels}) /\ kept' = Append(kept, levels)
    BY <2>1 DEF Start
  <2>3. kept' \in Seq(S \cup {levels}) /\ Len(kept') = Len(kept) + 1
    BY <2>2
  <2> QED BY <2>3
<1>5. text' \in Texts /\ Len(text') \in Nat /\ pos' = 0
  BY TextsAreSequences DEF Start, Texts
<1>6. CndTypeOK'
  <2>1. nerr' = 0 /\ macro_active' = TRUE /\ pos' \in 0..Len(text')
    BY <1>5 DEF Start
  <2>2. UNCHANGED <<levels, given>> /\ CndTypeOK
    BY DEF Start, ExecTyped
  <2> QED BY <2>1, <2>2 DEF levels, given, CndTypeOK
<1>7. saved' \in [0..MaxRuns -> Entries] /\ file' \in FileStates
      /\ lmacrostatus' \in BOOLEAN /\ spoiled' \in BOOLEAN
  BY EntriesTyped DEF Start, ExecTyped, FileStates
<1> QED BY <1>1, <1>2, <1>3, <1>4, <1>5, <1>6, <1>7 DEF ExecTyped

\* Returning to the level below.
LEMMA ReturnTyped ==
  ASSUME ExecTyped, InMacro, NEW failed \in BOOLEAN, Return(failed),
         saved' \in [0..MaxRuns -> Entries]
  PROVE  ExecTyped'
<1>1. /\ MaxRuns \in Nat /\ runs \in Nat /\ Len(rest) \in Nat /\ Len(rest) > 1
      /\ imacrolevel \in 1..MaxRuns
      /\ imacrolevel =< runs /\ imacrolevel >= Len(rest) - 1
  BY LevelsBounded DEF ExecTyped, InMacro, Depth
<1>2. rest' \in Seq(Seq(Commands)) /\ Len(rest') = Len(rest) - 1
  BY <1>1 DEF Return, Depth, ExecTyped
<1>3. (\E S : kept' \in Seq(S)) /\ Len(kept') = Len(kept) - 1
  <2>1. PICK S : kept \in Seq(S)
    BY DEF ExecTyped
  <2>2. kept' = SubSeq(kept, 1, Len(rest) - 2) /\ Len(kept) = Len(rest) - 1
    BY DEF Return, Depth, ExecTyped
  <2>3. kept' \in Seq(S) /\ Len(kept') = Len(kept) - 1
    BY <1>1, <2>1, <2>2
  <2> QED BY <2>3
<1>4. imacrolevel - 1 \in 0..MaxRuns /\ imacrolevel' = imacrolevel - 1
      /\ text' = saved[imacrolevel - 1].text /\ pos' = saved[imacrolevel - 1].pos
      /\ file' = saved[imacrolevel - 1].file
  BY <1>1 DEF Return, NameLevel
<1>5. text' \in Texts /\ pos' \in 0..Len(text') /\ file' \in FileStates
  BY <1>4, EntriesTyped
<1>6. nerr' \in {0, 1} /\ macro_active' \in BOOLEAN
  BY DEF Return, ExecTyped, CndTypeOK
<1>7. CndTypeOK'
  BY <1>5, <1>6 DEF Return, levels, given, ExecTyped, CndTypeOK
<1>8. lmacrostatus' \in BOOLEAN /\ spoiled' \in BOOLEAN /\ runs' = runs
  <2>1. lmacrostatus' = (lmacrostatus /\ ~failed) /\ runs' = runs
        /\ spoiled' = (Depth > 2 /\ (spoiled \/ failed))
    BY DEF Return
  <2> QED BY <2>1, Zenon DEF ExecTyped
<1> QED BY <1>1, <1>2, <1>3, <1>4, <1>5, <1>7, <1>8 DEF ExecTyped

LEMMA ExecInit == Init => ExecTyped
<1> SUFFICES ASSUME Init PROVE ExecTyped
  OBVIOUS
<1>1. /\ rest = <<<<>>>> /\ rest \in Seq(Seq(Commands)) /\ Len(rest) = 1
      /\ kept = <<>> /\ kept \in Seq({}) /\ Len(kept) = 0
      /\ <<>> \in Texts /\ Len(<<>>) = 0
  BY DEF Init, Texts
<1>2. NoEntry \in Entries
  BY <1>1 DEF NoEntry, Entries, FileStates
<1>3. CndTypeOK
  <2>1. text = <<>> /\ pos = 0 /\ pos \in 0..Len(text)
    BY <1>1 DEF Init
  <2> QED BY <2>1, CndInitType DEF Init
<1> QED BY <1>1, <1>2, <1>3, RunsAssumption DEF Init, ExecTyped, FileStates

LEMMA ExecNext ==
  ASSUME ExecTyped, [Next]_vars
  PROVE  ExecTyped'
<1> USE DEF FileStates
<1>0. /\ MaxRuns \in Nat /\ runs \in Nat /\ Len(rest) \in Nat
      /\ imacrolevel \in 0..MaxRuns
      /\ imacrolevel =< runs /\ imacrolevel >= Len(rest) - 1
      /\ Line \in Seq(Commands)
      /\ text \in Texts /\ CndTypeOK /\ Len(text) \in Nat
      /\ \A k \in 1..Len(text) : text[k] \in Seq(Commands)
  BY LevelsBounded, TextsAreSequences DEF ExecTyped
<1>1. CASE Conditional
  <2>1. Typed(pos)
    BY <1>0, <1>1 DEF Conditional, Command, Defined, Typed, CndTypeOK
  <2>2. TypedNext /\ macro_active' \in BOOLEAN /\ UNCHANGED text
    BY <1>1, <2>1, XcndcType DEF Conditional
  <2>3. CndTypeOK' /\ text' \in Texts
    BY <1>0, <2>2 DEF TypedNext, CndTypeOK
  <2>4. Tail(Line) \in Seq(Commands) /\ Left(Tail(Line))
    BY <1>1, TailTyped DEF Conditional, Command
  <2>5. lmacrostatus' \in BOOLEAN /\ spoiled' \in BOOLEAN
    BY <1>1, ErrorTyped DEF Conditional
  <2> QED BY <1>0, <1>1, <2>3, <2>4, <2>5, SameMacro DEF Conditional, ExecTyped
<1>2. CASE Ordinary
  <2>1. CndTypeOK' /\ text' \in Texts
    BY <1>0, <1>2 DEF Ordinary, levels, given, CndTypeOK
  <2>2. PICK commands \in Seq(Commands) : Left(commands)
    <3>1. Tail(Line) \in Seq(Commands) /\ <<>> \in Seq(Commands)
      BY <1>2, TailTyped DEF Ordinary, Command
    <3> QED BY <1>2, <3>1 DEF Ordinary
  <2>3. lmacrostatus' \in BOOLEAN /\ spoiled' \in BOOLEAN
    BY <1>2, ErrorTyped DEF Ordinary
  <2> QED BY <1>0, <1>2, <2>1, <2>2, <2>3, SameMacro DEF Ordinary, ExecTyped
<1>3. CASE NoSuchMacro
  <2>1. CndTypeOK' /\ text' \in Texts
    BY <1>0, <1>3 DEF NoSuchMacro, levels, given, CndTypeOK
  <2>2. Tail(Line) \in Seq(Commands) /\ Left(Tail(Line))
    BY <1>3, TailTyped DEF NoSuchMacro, Command
  <2>3. lmacrostatus' \in BOOLEAN /\ spoiled' \in BOOLEAN
    BY <1>3, ErrorTyped DEF NoSuchMacro
  <2> QED BY <1>0, <1>3, <2>1, <2>2, <2>3, SameMacro DEF NoSuchMacro, ExecTyped
<1>4. CASE OpenFails
  <2>1. /\ runs < MaxRuns /\ runs' = runs + 1 /\ imacrolevel' = imacrolevel + 1
        /\ Left(Tail(Line)) /\ Line # <<>>
        /\ saved' = [saved EXCEPT ![imacrolevel] = Entry(file)]
        /\ macro_active' = TRUE /\ lmacrostatus' = FALSE
        /\ spoiled' = (spoiled \/ InMacro) /\ nerr' = 1
        /\ UNCHANGED <<levels, given, kept>>
    BY <1>4 DEF OpenFails, Command, NameLevel
  <2>2. text' \in Texts /\ pos' \in 0..Len(text') /\ file' \in FileStates
    <3>1. CASE NameLevel(imacrolevel + 1)
      BY <1>0, <2>1, <3>1, EntriesTyped DEF NameLevel
    <3>2. CASE text' = <<>> /\ pos' = 0 /\ file' = "open"
      BY <3>2 DEF Texts
    <3> QED BY <1>4, <3>1, <3>2 DEF OpenFails
  <2>3. CndTypeOK'
    BY <1>0, <2>1, <2>2 DEF levels, given, CndTypeOK
  <2>4. saved' \in [0..MaxRuns -> Entries]
    BY <1>0, <2>1, EntriesTyped DEF ExecTyped
  <2>5. spoiled' \in BOOLEAN
    BY <2>1, Zenon DEF ExecTyped
  <2>6. Tail(Line) \in Seq(Commands)
    BY <2>1, TailTyped
  <2>7. runs' \in 0..MaxRuns /\ imacrolevel' \in (Len(rest) - 1)..runs'
    BY <1>0, <2>1
  <2> QED BY <2>1, <2>2, <2>3, <2>4, <2>5, <2>6, <2>7, SameMacro
<1>5. CASE \E program \in Programs : Start(program)
  BY <1>5, StartTyped
<1>6. CASE ReadLine
  <2>1. pos + 1 \in 1..Len(text) /\ pos' = pos + 1 /\ nerr' = 0 /\ text' = text
    BY <1>0, <1>6 DEF ReadLine, CndTypeOK
  <2>2. text[pos + 1] \in Seq(Commands) /\ Left(text[pos + 1])
    BY <1>0, <1>6, <2>1 DEF ReadLine
  <2>3. CndTypeOK'
    BY <1>0, <1>6, <2>1 DEF ReadLine, levels, given, CndTypeOK
  <2> QED BY <1>0, <1>6, <2>1, <2>2, <2>3, SameMacro DEF ReadLine, ExecTyped
<1>7. CASE EndMacro
  <2>1. saved' \in [0..MaxRuns -> Entries]
    BY <1>0, <1>7, EntriesTyped DEF EndMacro, ExecTyped
  <2>2. InMacro /\ Return(~lmacrostatus) /\ (~lmacrostatus) \in BOOLEAN
    BY <1>7 DEF EndMacro, Looping
  <2> QED BY <2>1, <2>2, ReturnTyped
<1>8. CASE LoseFile
  <2>1. saved' \in [0..MaxRuns -> Entries]
    BY <1>8 DEF LoseFile, ExecTyped
  <2>2. InMacro /\ Return(GoesOn \/ ~lmacrostatus) /\ (GoesOn \/ ~lmacrostatus) \in BOOLEAN
    BY <1>8 DEF LoseFile, Looping
  <2> QED BY <2>1, <2>2, ReturnTyped
<1>9. ASSUME NEW line \in Inputs, main_command(line) PROVE ExecTyped'
  <2>1. CndTypeOK' /\ text' \in Texts
    BY <1>0, <1>9 DEF main_command, levels, given, CndTypeOK
  <2>2. line \in Seq(Commands) /\ Left(line)
    BY <1>9, ProgramsAssumption DEF main_command
  <2> QED BY <1>0, <1>9, <2>1, <2>2, SameMacro DEF main_command, ExecTyped
<1>10. CASE UNCHANGED vars
  BY <1>10 DEF vars, macros, levels, given, ExecTyped, CndTypeOK
<1> QED
  BY <1>1, <1>2, <1>3, <1>4, <1>5, <1>6, <1>7, <1>8, <1>9, <1>10 DEF Next, Step

LEMMA AlwaysTyped == Spec => []ExecTyped
BY ExecInit, ExecNext, PTL DEF Spec

\* Whatever macros call each other, whether their files can be opened or not,
\* the entries that are named exist and no level is left that was not entered
\* (ncpf/executemacro.c, ncpf/setmacrolev.c).
THEOREM TypeCorrect == Spec => []TypeOK
<1>1. ExecTyped => TypeOK
  <2> SUFFICES ASSUME ExecTyped PROVE TypeOK
    OBVIOUS
  <2>1. \A l \in 0..MaxRuns : IsEntry(saved[l])
    BY EntriesTyped DEF IsEntry, Texts
  <2>2. Len(rest) \in 1..(MaxRuns + 1) /\ imacrolevel \in 0..MaxRuns
    BY LevelsBounded DEF ExecTyped
  <2> QED BY <2>1, <2>2 DEF ExecTyped, TypeOK, Texts
<1> QED BY <1>1, AlwaysTyped, PTL

-----------------------------------------------------------------------------
(* Errors end macros.                                                      *)

\* A macro is only run by the first command of a line.
Separated ==
  \A t \in Programs : \A k \in 1..Len(t) : \A m \in 2..Len(t[k]) :
    t[k][m] # "MACRO"

\* No macro is run by what is left of a line.
Runless(line) == \A m \in 1..Len(line) : line[m] # "MACRO"

\* After a failed command, or MACROQUIT, in a macro, one of the flags that
\* executemacro looks at is down; and no command of the line that would raise
\* it again is to come.
Noticed ==
  /\ spoiled => InMacro /\ ~GoesOn
  /\ \A d \in 2..(Len(rest) - 1) : Runless(rest[d])
  /\ InMacro /\ Line # <<>> => Runless(Tail(Line)) /\ (spoiled => Runless(Line))

\* A line without a MACRO is left without one.
LEMMA TailRunless ==
  ASSUME NEW line \in Seq(Commands), line # <<>>, Runless(line)
  PROVE  Runless(Tail(line))
BY DEF Runless

\* The first command of a line is one of the others, so that none is a MACRO.
LEMMA FirstRunless ==
  ASSUME NEW line \in Seq(Commands), line # <<>>, Runless(Tail(line)),
         Head(line) # "MACRO"
  PROVE  Runless(line)
<1>1. ASSUME NEW m \in 1..Len(line) PROVE line[m] # "MACRO"
  <2>1. CASE m = 1
    BY <2>1
  <2>2. CASE m # 1
    <3>1. m - 1 \in 1..Len(Tail(line)) /\ Tail(line)[m - 1] = line[m]
      BY <2>2
    <3> QED BY <3>1 DEF Runless
  <2> QED BY <2>1, <2>2
<1> QED BY <1>1 DEF Runless

\* A command of a line in a macro, told to proerr: with what was noticed before.
LEMMA CommandNoticed ==
  ASSUME ExecTyped, Noticed, Line # <<>>, proerr,
         NEW commands \in Seq(Commands), Left(commands),
         commands \in {Tail(Line), <<>>},
         nerr' \in {0, 1}, macro_active' \in BOOLEAN,
         macro_active' => macro_active
  PROVE  Noticed'
<1>1. /\ Len(rest) \in Nat /\ Len(rest) >= 1 /\ Line \in Seq(Commands)
  BY LevelsBounded DEF ExecTyped
<1>2. /\ rest' = [rest EXCEPT ![Len(rest)] = commands] /\ Len(rest') = Len(rest)
      /\ Line' = commands /\ InMacro' = InMacro
      /\ \A d \in 2..(Len(rest) - 1) : rest'[d] = rest[d]
  BY <1>1 DEF Left, Depth, ExecTyped, Line, InMacro
<1>3. spoiled' => InMacro' /\ ~GoesOn'
  <2>1. ASSUME spoiled PROVE InMacro' /\ ~GoesOn'
    <3>1. InMacro /\ ~GoesOn
      BY <2>1 DEF Noticed
    <3> QED BY <1>2, <3>1, Zenon DEF GoesOn, proerr
  <2>2. ASSUME InMacro, nerr' = 1 PROVE InMacro' /\ ~GoesOn'
    <3>1. ~(nerr' = 0)
      BY <2>2
    <3> QED BY <1>2, <2>2, <3>1, Zenon DEF GoesOn, proerr
  <2>3. ASSUME InMacro, ~macro_active' PROVE InMacro' /\ ~GoesOn'
    BY <1>2, <2>3, Zenon DEF GoesOn
  <2> QED BY <2>1, <2>2, <2>3, Zenon DEF proerr
<1>4. ASSUME InMacro', Line' # <<>> PROVE Runless(Line') /\ Runless(Tail(Line'))
  <2>1. commands = Tail(Line) /\ commands # <<>> /\ Runless(commands)
    BY <1>2, <1>4 DEF Noticed
  <2> QED BY <1>2, <2>1, TailRunless
<1>5. \A d \in 2..(Len(rest') - 1) : Runless(rest'[d])
  BY <1>1, <1>2 DEF Noticed
<1> QED BY <1>3, <1>4, <1>5 DEF Noticed

\* The next line of a macro begins with what may be a MACRO, and no error is
\* on the way.
LEMMA ReadNoticed ==
  ASSUME Separated, ExecTyped, Noticed, ReadLine
  PROVE  Noticed'
<1>1. /\ Len(rest) \in Nat /\ Len(rest) >= 1
      /\ text \in Texts /\ Len(text) \in Nat /\ pos \in 0..Len(text)
      /\ \A k \in 1..Len(text) : text[k] \in Seq(Commands)
  BY LevelsBounded, TextsAreSequences DEF ExecTyped, CndTypeOK
<1>2. pos + 1 \in 1..Len(text) /\ ~spoiled
  <2>1. GoesOn /\ pos < Len(text)
    BY DEF ReadLine
  <2> QED BY <1>1, <2>1 DEF Noticed
<1> DEFINE line == text[pos + 1]
<1>3. line \in Seq(Commands) /\ (line # <<>> => Runless(Tail(line)))
  <2>1. text # <<>>
    BY <1>2
  <2>2. text \in Programs /\ line \in Seq(Commands)
    BY <1>1, <1>2, <2>1 DEF Texts
  <2>3. \A m \in 2..Len(line) : line[m] # "MACRO"
    BY <1>2, <2>2 DEF Separated
  <2> HIDE DEF line
  <2>4. ASSUME line # <<>>, NEW m \in 1..Len(Tail(line)) PROVE Tail(line)[m] # "MACRO"
    <3>1. m + 1 \in 2..Len(line) /\ Tail(line)[m] = line[m + 1]
      BY <2>2, <2>4
    <3> QED BY <2>3, <3>1
  <2> QED BY <2>2, <2>4 DEF Runless
<1>4. Left(line) /\ ~spoiled'
  BY <1>2 DEF ReadLine
<1> HIDE DEF line
<1>5. /\ Len(rest') = Len(rest) /\ Line' = line
      /\ \A d \in 2..(Len(rest) - 1) : rest'[d] = rest[d]
  BY <1>1, <1>3, <1>4 DEF Left, Depth, ExecTyped, Line
<1> QED BY <1>1, <1>3, <1>4, <1>5 DEF Noticed

\* A macro starts where no error is on the way, and what is left of the line
\* that runs it runs no other.
LEMMA StartNoticed ==
  ASSUME ExecTyped, Noticed, NEW program, Start(program)
  PROVE  Noticed'
<1>1. /\ Len(rest) \in Nat /\ Len(rest) >= 1 /\ Line \in Seq(Commands)
  BY LevelsBounded DEF ExecTyped
<1>2. Line # <<>> /\ Head(Line) = "MACRO" /\ spoiled' = spoiled
  BY DEF Start, Command
<1>3. ~spoiled
  <2>1. ~Runless(Line)
    BY <1>1, <1>2 DEF Runless
  <2> QED BY <1>2, <2>1 DEF Noticed
<1> DEFINE top == Tail(Line)
           r == [rest EXCEPT ![Len(rest)] = top]
<1>4. rest' = Append(r, <<>>)
  BY DEF Start, Depth, Line
<1>5. top \in Seq(Commands) /\ (Len(rest) > 1 => Runless(top))
  BY <1>1, <1>2 DEF Noticed, InMacro, Depth
<1> HIDE DEF top
<1>6. /\ r \in Seq(Seq(Commands)) /\ Len(r) = Len(rest) /\ r[Len(rest)] = top
      /\ \A d \in 2..(Len(rest) - 1) : r[d] = rest[d]
  BY <1>1, <1>5 DEF ExecTyped
<1> HIDE DEF r
<1>7. /\ Len(rest') = Len(rest) + 1 /\ Line' = <<>>
      /\ \A d \in 1..Len(rest) : rest'[d] = r[d]
  BY <1>1, <1>4, <1>6 DEF Line, Depth
<1>8. ASSUME NEW d \in 2..Len(rest) PROVE Runless(rest'[d])
  <2>1. CASE d = Len(rest)
    BY <1>1, <1>5, <1>6, <1>7, <2>1
  <2>2. CASE d # Len(rest)
    <3>1. d \in 2..(Len(rest) - 1) /\ d \in 1..Len(rest)
      BY <1>1, <2>2
    <3>2. Runless(rest[d])
      BY <3>1 DEF Noticed
    <3> QED BY <1>6, <1>7, <3>1, <3>2
  <2> QED BY <2>1, <2>2
<1> QED BY <1>1, <1>2, <1>3, <1>7, <1>8 DEF Noticed

\* The level below has none to come either, and hears of the error.
LEMMA ReturnNoticed ==
  ASSUME ExecTyped, Noticed, InMacro, NEW failed \in BOOLEAN, Return(failed)
  PROVE  Noticed'
<1>1. /\ Len(rest) \in Nat /\ Len(rest) > 1
  BY LevelsBounded DEF InMacro, Depth
<1>2. /\ Len(rest') = Len(rest) - 1
      /\ \A d \in 1..(Len(rest) - 1) : rest'[d] = rest[d]
      /\ rest' \in Seq(Seq(Commands))
  BY <1>1 DEF Return, Depth, ExecTyped
<1>3. Line' = rest[Len(rest) - 1] /\ Line' \in Seq(Commands)
      /\ (InMacro' <=> Len(rest) > 2)
  BY <1>1, <1>2 DEF Line, Depth, InMacro
<1>4. InMacro' => Runless(Line')
  BY <1>1, <1>3 DEF Noticed
<1>5. spoiled' => InMacro' /\ ~GoesOn'
  <2>1. /\ lmacrostatus' = (lmacrostatus /\ ~failed)
        /\ macro_active' = (macro_active /\ imacrolevel > 1)
        /\ spoiled' = (Depth > 2 /\ (spoiled \/ failed))
    BY DEF Return
  <2>2. InMacro' <=> Depth > 2
    BY <1>3 DEF Depth
  <2>3. spoiled => ~lmacrostatus \/ ~macro_active
    BY DEF Noticed, GoesOn
  <2> QED BY <2>1, <2>2, <2>3, Zenon DEF GoesOn
<1>6. ASSUME InMacro', Line' # <<>> PROVE Runless(Line') /\ Runless(Tail(Line'))
  BY <1>3, <1>4, <1>6, TailRunless
<1>7. ASSUME NEW d \in 2..(Len(rest') - 1) PROVE Runless(rest'[d])
  <2>1. d \in 2..(Len(rest) - 1)
    BY <1>1, <1>2
  <2>2. Runless(rest[d])
    BY <2>1 DEF Noticed
  <2> QED BY <1>2, <2>1, <2>2
<1> QED BY <1>5, <1>6, <1>7 DEF Noticed

LEMMA NoticedNext ==
  ASSUME Separated, ExecTyped, ExecTyped', Noticed, [Next]_vars
  PROVE  Noticed'
<1>0. Line \in Seq(Commands) /\ nerr' \in {0, 1} /\ macro_active' \in BOOLEAN
      /\ macro_active \in BOOLEAN
  BY LevelsBounded DEF ExecTyped, CndTypeOK
<1>1. CASE Conditional
  <2>1. macro_active' => macro_active
    BY <1>0, <1>1 DEF Conditional, xcndc, macro_off
  <2>2. Line # <<>> /\ Left(Tail(Line)) /\ proerr /\ Tail(Line) \in Seq(Commands)
    BY <1>1, TailTyped DEF Conditional, Command
  <2> QED BY <1>0, <2>1, <2>2, CommandNoticed
<1>2. CASE Ordinary
  <2>1. Line # <<>> /\ proerr /\ macro_active' = macro_active
        /\ Tail(Line) \in Seq(Commands) /\ <<>> \in Seq(Commands)
    BY <1>2, TailTyped DEF Ordinary, Command
  <2>2. Left(Tail(Line)) \/ Left(<<>>)
    BY <1>2 DEF Ordinary
  <2> QED BY <1>0, <2>1, <2>2, CommandNoticed
<1>3. CASE NoSuchMacro
  <2>1. Line # <<>> /\ proerr /\ macro_active' = macro_active
        /\ Tail(Line) \in Seq(Commands) /\ Left(Tail(Line))
    BY <1>3, TailTyped DEF NoSuchMacro, Command
  <2> QED BY <1>0, <2>1, CommandNoticed
<1>4. CASE OpenFails
  <2>1. /\ Left(Tail(Line)) /\ Line # <<>> /\ ~lmacrostatus'
        /\ spoiled' = (spoiled \/ InMacro)
    BY <1>4 DEF OpenFails, Command
  <2>2. Tail(Line) \in Seq(Commands) /\ Len(rest) \in Nat /\ Len(rest) >= 1
    BY <2>1, TailTyped, LevelsBounded DEF ExecTyped
  <2>3. /\ Len(rest') = Len(rest) /\ Line' = Tail(Line) /\ InMacro' = InMacro
        /\ \A d \in 2..(Len(rest) - 1) : rest'[d] = rest[d]
    BY <2>1, <2>2 DEF Left, Depth, ExecTyped, Line, InMacro
  <2>4. spoiled' => InMacro' /\ ~GoesOn'
    <3>1. spoiled => InMacro
      BY DEF Noticed
    <3> QED BY <2>1, <2>3, <3>1, Zenon DEF GoesOn
  <2>5. ASSUME InMacro', Line' # <<>> PROVE Runless(Line') /\ Runless(Tail(Line'))
    <3>1. Runless(Tail(Line))
      BY <2>1, <2>3, <2>5 DEF Noticed
    <3> QED BY <2>2, <2>3, <2>5, <3>1, TailRunless
  <2>6. \A d \in 2..(Len(rest') - 1) : Runless(rest'[d])
    BY <2>3 DEF Noticed
  <2> QED BY <2>4, <2>5, <2>6 DEF Noticed
<1>5. CASE \E program \in Programs : Start(program)
  BY <1>5, StartNoticed
<1>6. CASE ReadLine
  BY <1>6, ReadNoticed
<1>7. CASE EndMacro
  <2>1. InMacro /\ Return(~lmacrostatus) /\ (~lmacrostatus) \in BOOLEAN
    BY <1>7 DEF EndMacro, Looping
  <2> QED BY <2>1, ReturnNoticed
<1>8. CASE LoseFile
  <2>1. InMacro /\ Return(GoesOn \/ ~lmacrostatus) /\ (GoesOn \/ ~lmacrostatus) \in BOOLEAN
    BY <1>8 DEF LoseFile, Looping
  <2> QED BY <2>1, ReturnNoticed
<1>9. ASSUME NEW line \in Inputs, main_command(line) PROVE Noticed'
  <2>1. Len(rest) = 1 /\ Left(line) /\ spoiled' = spoiled
    BY <1>9 DEF main_command, AtPrompt, Depth
  <2>2. Len(rest') = 1
    <3>1. rest \in Seq(Seq(Commands))
      BY DEF ExecTyped
    <3>2. rest' = [rest EXCEPT ![Len(rest)] = line]
      BY <2>1 DEF Left, Depth
    <3> QED BY <2>1, <3>1, <3>2
  <2>3. ~spoiled
    BY <2>1 DEF Noticed, InMacro, Depth
  <2> QED BY <2>1, <2>2, <2>3 DEF Noticed, InMacro, Depth
<1>10. CASE UNCHANGED vars
  BY <1>10 DEF vars, macros, Noticed, InMacro, Depth, Line, GoesOn
<1> QED
  BY <1>1, <1>2, <1>3, <1>4, <1>5, <1>6, <1>7, <1>8, <1>9, <1>10 DEF Next, Step

\* As long as macros run each other by the first command of a line only, a
\* failed command ends the macro it is in and all that called it, and so does
\* MACROQUIT, even though one flag serves all levels and is raised again by
\* every macro that starts, or fails to (ncpf/executemacro.c).
THEOREM ErrorsEndMacros ==
  ASSUME Separated
  PROVE  Spec => SpoiledReadsNoLine
<1>1. Init => Noticed
  <2> SUFFICES ASSUME Init PROVE Noticed
    OBVIOUS
  <2>1. Len(rest) = 1 /\ ~spoiled
    BY DEF Init
  <2> QED BY <2>1 DEF Noticed, InMacro, Depth
<1>2. ExecTyped /\ ExecTyped' /\ Noticed /\ [Next]_vars => Noticed'
  BY NoticedNext
<1>3. Noticed => [ReadLine => ~spoiled]_vars
  BY DEF Noticed, ReadLine
<1> QED BY <1>1, <1>2, <1>3, AlwaysTyped, PTL DEF Spec, SpoiledReadsNoLine

-----------------------------------------------------------------------------
(* Callers find their clauses and loops.                                   *)

\* The commands that work with levels and slots.
Statements == Cnd \ {"MACROQUIT"}

\* They begin their lines, so that the searches see every one of them.
StatementsLead ==
  \A t \in Programs : \A k \in 1..Len(t) : \A m \in 2..Len(t[k]) :
    t[k][m] \notin Statements

\* The macros are ones the documentation allows, and have no line that a scanner
\* takes for another statement.
WellWritten == \A t \in Programs : WellFormed(t) /\ Plain(t)

\* No such command is among what is left of a line of a macro; and one that
\* begins a line is on the line read last, in a macro that no error has met.
NoStatement(line) == \A m \in 1..Len(line) : line[m] \notin Statements

Ordered ==
  /\ \A d \in 2..(Len(rest) - 1) : NoStatement(rest[d])
  /\ InMacro /\ Line # <<>> =>
       /\ NoStatement(Tail(Line))
       /\ Head(Line) \in Statements =>
            pos # 0 /\ First(text[pos]) = Head(Line) /\ ~spoiled

\* The loops open after p lines of t are recorded in slots up to level n.
RecordedIn(t, p, n, types, lines) ==
  \A d \in 1..Len(t) : IsOpen(t, d, p) =>
    LET l == n - (DoDepth(t, p) - DoDepth(t, d))
    IN  /\ types[l] = (IF Is(t, d, {"WHILE"}) THEN 1 ELSE 0)
        /\ lines[l] = EndOf(t, d) - d

\* A macro that has run p lines of t, and started with the levels and slots of
\* before, has now added those of the clauses and loops open there, and left
\* the slots it found.
Frame(t, p, now, before) ==
  /\ t \in Programs /\ p \in 0..Len(t)
  /\ before[1] \in Nat /\ now[1] = before[1] + IfDepth(t, p)
  /\ before[3] \in Nat /\ now[3] = before[3] + DoDepth(t, p)
  /\ \A l \in 1..before[1] : now[2][l] = before[2][l]
  /\ \A l \in 1..before[3] : /\ now[4][l] = before[4][l] /\ now[5][l] = before[5][l]
                             /\ now[6][l] = before[6][l]
  /\ now[1] =< MIFLEVEL /\ now[3] =< MDOLEVEL => RecordedIn(t, p, now[3], now[4], now[5])

\* The lines that have run: a statement that is to come is on the one read last.
Ran == IF Line # <<>> /\ Head(Line) \in Statements THEN pos - 1 ELSE pos

\* So it is for the macro that is running, and was for each of those below it
\* when it ran the next.
Frames ==
  /\ GoesOn
  /\ Frame(text, Ran, levels, kept[Len(rest) - 1])
  /\ \A d \in 2..(Len(rest) - 1) :
       Frame(saved[d - 1].text, saved[d - 1].pos, kept[d], kept[d - 1])

Framed == Ordered /\ niflevel >= 0 /\ (InMacro /\ ~spoiled => Frames)

\* The variables, as parts of what is kept.
LEMMA LevelsAre ==
  /\ levels[1] = niflevel /\ levels[2] = lifresp /\ levels[3] = ndolevel
  /\ levels[4] = ndotype /\ levels[5] = ndolines /\ levels[6] = do_token
BY DEF levels

\* A text that may be run.
LEMMA ProgramFacts ==
  ASSUME WellWritten, NEW t \in Programs
  PROVE  /\ WellFormed(t) /\ Plain(t) /\ Len(t) \in Nat
         /\ \A k \in 1..Len(t) : t[k] \in Seq(Commands) /\ t[k] # <<>> /\ First(t[k]) = Head(t[k])
         /\ \A p \in 0..Len(t) : IfDepth(t, p) \in Nat /\ DoDepth(t, p) \in Nat
<1>1. WellFormed(t) /\ Plain(t)
  BY DEF WellWritten
<1>2. t \in Seq(Seq(Commands) \ {<<>>}) /\ Len(t) \in Nat
  BY ProgramsAssumption
<1>3. \A k \in 1..Len(t) : t[k] \in Seq(Commands) /\ t[k] # <<>>
  BY <1>2
<1>4. \A k \in 1..Len(t) : First(t[k]) = Head(t[k])
  BY <1>3 DEF First
<1>5. \A p \in 0..Len(t) : IfDepth(t, p) \in Nat /\ DoDepth(t, p) \in Nat
  BY <1>1, <1>2, DepthsNatural
<1> QED BY <1>1, <1>2, <1>3, <1>4, <1>5

\* A macro that starts has added nothing.
LEMMA FrameStarts ==
  ASSUME NEW t \in Programs, Len(t) \in Nat, NEW now, now[1] \in Nat, now[3] \in Nat
  PROVE  Frame(t, 0, now, now)
<1>1. ASSUME NEW d \in 1..Len(t), IsOpen(t, d, 0) PROVE FALSE
  BY <1>1 DEF IsOpen
<1> QED BY <1>1, DepthAtTop DEF Frame, RecordedIn

\* A line that is no statement opens and closes nothing.
LEMMA FrameOnward ==
  ASSUME WellWritten, NEW t, NEW p, NEW now, NEW before, Frame(t, p, now, before),
         p < Len(t), First(t[p + 1]) \notin Statements
  PROVE  Frame(t, p + 1, now, before)
<1>1. t \in Programs /\ Len(t) \in Nat /\ p \in 0..Len(t) /\ p \in Nat
  BY ProgramFacts DEF Frame
<1>2. p + 1 \in Nat \ {0} /\ (p + 1) - 1 = p /\ p + 1 \in 0..Len(t)
  BY <1>1
<1>3. ~Is(t, p + 1, DoWords) /\ ~Is(t, p + 1, {"ENDDO"})
      /\ ~Is(t, p + 1, IfWords) /\ ~Is(t, p + 1, {"ENDIF"})
  BY DEF Is, Statements, Cnd, IfWords, DoWords
<1>4. IfDepth(t, p) \in Nat /\ DoDepth(t, p) \in Nat
  BY <1>1, ProgramFacts
<1>5. IfDepth(t, p + 1) = IfDepth(t, p) /\ DoDepth(t, p + 1) = DoDepth(t, p)
  <2>1. IfDepth(t, p + 1) = IfDepth(t, p) + 0 /\ DoDepth(t, p + 1) = DoDepth(t, p) + 0
    BY <1>2, <1>3, DepthStep
  <2> QED BY <1>4, <2>1
<1>6. ASSUME NEW d \in 1..Len(t), IsOpen(t, d, p + 1) PROVE IsOpen(t, d, p)
  <2>1. d =< p + 1 /\ Is(t, d, DoWords) /\ d # p + 1
    BY <1>3, <1>6 DEF IsOpen
  <2>2. d =< p /\ \A k \in d..p : k \in d..(p + 1)
    BY <1>1, <2>1
  <2> QED BY <1>6, <2>1, <2>2 DEF IsOpen
<1>7. \A n, types, lines : RecordedIn(t, p, n, types, lines) => RecordedIn(t, p + 1, n, types, lines)
  BY <1>5, <1>6 DEF RecordedIn
<1> QED BY <1>2, <1>5, <1>7 DEF Frame

\* What is kept in slots above the levels in use does not matter.
LEMMA FrameAgrees ==
  ASSUME WellWritten, NEW t, NEW p, NEW now, NEW before, Frame(t, p, now, before),
         NEW after, after[1] = now[1], after[3] = now[3],
         \A l \in 1..now[1] : after[2][l] = now[2][l],
         \A l \in 1..now[3] : /\ after[4][l] = now[4][l] /\ after[5][l] = now[5][l]
                              /\ after[6][l] = now[6][l]
  PROVE  Frame(t, p, after, before)
<1>1. /\ t \in Programs /\ Len(t) \in Nat /\ p \in 0..Len(t) /\ WellFormed(t)
      /\ before[1] \in Nat /\ before[3] \in Nat
      /\ now[1] = before[1] + IfDepth(t, p) /\ now[3] = before[3] + DoDepth(t, p)
  BY ProgramFacts DEF Frame
<1>2. IfDepth(t, p) \in Nat /\ DoDepth(t, p) \in Nat
  BY <1>1, ProgramFacts
<1>3. 1..before[1] \subseteq 1..now[1] /\ 1..before[3] \subseteq 1..now[3]
  BY <1>1, <1>2
<1>4. ASSUME RecordedIn(t, p, now[3], now[4], now[5])
      PROVE  RecordedIn(t, p, after[3], after[4], after[5])
  <2>1. ASSUME NEW d \in 1..Len(t), IsOpen(t, d, p)
        PROVE  now[3] - (DoDepth(t, p) - DoDepth(t, d)) \in 1..now[3]
    <3>1. d \in Nat \ {0} /\ d - 1 \in 0..Len(t) /\ d \in 0..Len(t) /\ p \in d..p
      BY <1>1, <2>1 DEF IsOpen
    <3>2. DoDepth(t, d - 1) \in Nat /\ DoDepth(t, d) \in Nat
      BY <1>1, <3>1, ProgramFacts
    <3>3. DoDepth(t, d) = DoDepth(t, d - 1) + 1 /\ DoDepth(t, p) >= DoDepth(t, d)
      BY <2>1, <3>1, DepthStep DEF IsOpen
    <3> QED BY <1>1, <1>2, <3>2, <3>3
  <2> QED BY <1>4, <2>1 DEF RecordedIn
<1>5. /\ \A l \in 1..before[1] : after[2][l] = before[2][l]
      /\ \A l \in 1..before[3] : /\ after[4][l] = before[4][l] /\ after[5][l] = before[5][l]
                                 /\ after[6][l] = before[6][l]
  BY <1>3 DEF Frame
<1>6. after[1] =< MIFLEVEL /\ after[3] =< MDOLEVEL => RecordedIn(t, p, after[3], after[4], after[5])
  BY <1>4 DEF Frame
<1> QED BY <1>1, <1>5, <1>6 DEF Frame

LEMMA TailNoStatement ==
  ASSUME NEW line \in Seq(Commands), line # <<>>, NoStatement(line)
  PROVE  NoStatement(Tail(line)) /\ Head(line) \notin Statements
BY DEF NoStatement

\* What a command leaves of its line has no statement.
LEMMA OrderKept ==
  ASSUME ExecTyped, Ordered, Line # <<>>, NEW commands \in Seq(Commands), Left(commands),
         commands \in {Tail(Line), <<>>}
  PROVE  Ordered' /\ Len(rest') = Len(rest) /\ Line' = commands /\ InMacro' = InMacro
         /\ (InMacro /\ commands # <<>> => Head(commands) \notin Statements)
<1>1. /\ Len(rest) \in Nat /\ Len(rest) >= 1 /\ Line \in Seq(Commands)
  BY LevelsBounded DEF ExecTyped
<1>2. /\ rest' = [rest EXCEPT ![Len(rest)] = commands] /\ Len(rest') = Len(rest)
      /\ Line' = commands /\ InMacro' = InMacro
      /\ \A d \in 2..(Len(rest) - 1) : rest'[d] = rest[d]
  BY <1>1 DEF Left, Depth, ExecTyped, Line, InMacro
<1>3. ASSUME InMacro, commands # <<>>
      PROVE  NoStatement(Tail(commands)) /\ Head(commands) \notin Statements
  <2>1. commands = Tail(Line) /\ NoStatement(commands)
    BY <1>3 DEF Ordered
  <2> QED BY <1>3, <2>1, TailNoStatement
<1> QED BY <1>2, <1>3 DEF Ordered

\* A statement that begins the line read last is one the lemmas about commands
\* apply to.
LEMMA FrameLine ==
  ASSUME WellWritten, ExecTyped, NEW before, Frame(text, pos - 1, levels, before),
         pos # 0, Fits
  PROVE  /\ AtLine(pos)
         /\ text \in Programs /\ Len(text) \in Nat /\ WellFormed(text)
         /\ IfDepth(text, pos - 1) \in Nat /\ DoDepth(text, pos - 1) \in Nat
         /\ before[1] \in Nat /\ before[3] \in Nat /\ niflevel \in Int /\ ndolevel \in Nat
         /\ niflevel = before[1] + IfDepth(text, pos - 1)
         /\ ndolevel = before[3] + DoDepth(text, pos - 1)
<1>1. /\ text \in Programs /\ Len(text) \in Nat /\ pos \in 0..Len(text) /\ pos - 1 \in 0..Len(text)
      /\ WellFormed(text) /\ Plain(text) /\ CndTypeOK
      /\ IfDepth(text, pos - 1) \in Nat /\ DoDepth(text, pos - 1) \in Nat
  <2>1. text \in Programs /\ pos \in 0..Len(text) /\ CndTypeOK /\ pos - 1 \in 0..Len(text)
    BY DEF Frame, ExecTyped, CndTypeOK
  <2> QED BY <2>1, ProgramFacts
<1>2. /\ before[1] \in Nat /\ before[3] \in Nat /\ niflevel \in Int /\ ndolevel \in Nat
      /\ niflevel = before[1] + IfDepth(text, pos - 1)
      /\ ndolevel = before[3] + DoDepth(text, pos - 1)
  BY <1>1, LevelsAre DEF Frame, CndTypeOK
<1>3. Typed(pos)
  BY <1>1 DEF Typed, Fits
<1>4. Recorded(pos - 1)
  BY LevelsAre DEF Frame, Fits, RecordedIn, Recorded, SlotAt
<1>5. niflevel >= IfDepth(text, pos - 1) /\ ndolevel >= DoDepth(text, pos - 1)
  BY <1>1, <1>2
<1> QED BY <1>1, <1>2, <1>3, <1>4, <1>5 DEF AtLine

\* It moves on in its macro's text, and keeps the slots below.
LEMMA StatementFrame ==
  ASSUME WellWritten, ExecTyped, NEW before, Frame(text, pos - 1, levels, before),
         pos # 0, Fits, WordAt(pos) \in Cnd, xcndc(WordAt(pos), pos, 1), nerr' = 0
  PROVE  Frame(text, pos', levels', before) /\ niflevel' >= 0
<1>1. /\ text \in Programs /\ Len(text) \in Nat /\ WellFormed(text)
      /\ IfDepth(text, pos - 1) \in Nat /\ DoDepth(text, pos - 1) \in Nat
  BY FrameLine
<1>2. /\ before[1] \in Nat /\ before[3] \in Nat /\ niflevel \in Int /\ ndolevel \in Nat
      /\ niflevel = before[1] + IfDepth(text, pos - 1)
      /\ ndolevel = before[3] + DoDepth(text, pos - 1)
  BY FrameLine
<1>3. AtLine(pos)
  BY FrameLine
<1>4. KeepsDepths(pos) /\ Remembers
  BY <1>3, CommandFollows DEF Behaves
<1>5. IfSlotsKept(pos) /\ DoSlotsKept(pos)
  BY <1>3, SlotsBelow
<1>6. /\ pos' \in 0..Len(text) /\ niflevel' \in Int /\ ndolevel' \in Nat /\ text' = text
  BY <1>3, LineFacts, XcndcType DEF TypedNext
<1>7. IfDepth(text, pos') \in Nat /\ DoDepth(text, pos') \in Nat
  BY <1>1, <1>6, ProgramFacts
<1>8. niflevel' = before[1] + IfDepth(text, pos') /\ ndolevel' = before[3] + DoDepth(text, pos')
  <2>1. /\ niflevel' - niflevel = IfDepth(text, pos') - IfDepth(text, pos - 1)
        /\ ndolevel' - ndolevel = DoDepth(text, pos') - DoDepth(text, pos - 1)
    BY <1>4 DEF KeepsDepths
  <2>2. niflevel' \in Int /\ ndolevel' \in Int
    BY <1>6
  <2>3. niflevel' = before[1] + IfDepth(text, pos')
    <3>1. niflevel' - niflevel = IfDepth(text, pos') - IfDepth(text, pos - 1)
      BY <2>1
    <3>2. niflevel \in Int /\ niflevel' \in Int /\ before[1] \in Int /\ IfDepth(text, pos') \in Int
          /\ IfDepth(text, pos - 1) \in Int /\ niflevel = before[1] + IfDepth(text, pos - 1)
      BY <1>1, <1>2, <1>7, <2>2
    <3> QED BY <3>1, <3>2
  <2>4. ndolevel' = before[3] + DoDepth(text, pos')
    <3>1. ndolevel' - ndolevel = DoDepth(text, pos') - DoDepth(text, pos - 1)
      BY <2>1
    <3>2. ndolevel \in Int /\ ndolevel' \in Int /\ before[3] \in Int /\ DoDepth(text, pos') \in Int
          /\ DoDepth(text, pos - 1) \in Int /\ ndolevel = before[3] + DoDepth(text, pos - 1)
      BY <1>1, <1>2, <1>7, <2>2
    <3> QED BY <3>1, <3>2
  <2> QED BY <2>3, <2>4
<1>9. \A l \in 1..before[1] : lifresp'[l] = before[2][l]
  <2>1. niflevel - IfDepth(text, pos - 1) = before[1]
    BY <1>1, <1>2
  <2>2. \A l \in 1..before[1] : lifresp'[l] = lifresp[l] /\ lifresp[l] = before[2][l]
    BY <1>5, <2>1, LevelsAre DEF IfSlotsKept, Frame
  <2> QED BY <2>2
<1>10. \A l \in 1..before[3] : /\ ndotype'[l] = before[4][l] /\ ndolines'[l] = before[5][l]
                               /\ do_token'[l] = before[6][l]
  <2>1. ndolevel - DoDepth(text, pos - 1) = before[3]
    BY <1>1, <1>2
  <2>2. \A l \in 1..before[3] :
          /\ ndotype'[l] = ndotype[l] /\ ndolines'[l] = ndolines[l] /\ do_token'[l] = do_token[l]
          /\ ndotype[l] = before[4][l] /\ ndolines[l] = before[5][l] /\ do_token[l] = before[6][l]
    BY <1>5, <2>1, LevelsAre DEF DoSlotsKept, Frame
  <2> QED BY <2>2
<1>11. Fits' => RecordedIn(text, pos', ndolevel', ndotype', ndolines')
  BY <1>4 DEF Remembers, Found, SlotAfter, RecordedIn
<1>12. /\ levels'[1] = niflevel' /\ levels'[2] = lifresp' /\ levels'[3] = ndolevel'
       /\ levels'[4] = ndotype' /\ levels'[5] = ndolines' /\ levels'[6] = do_token'
  BY DEF levels
<1>13. Frame(text, pos', levels', before)
  BY <1>1, <1>2, <1>6, <1>8, <1>9, <1>10, <1>11, <1>12 DEF Frame, Fits
<1> QED BY <1>2, <1>7, <1>8, <1>13

\* A command that works with no level, at the prompt or in a macro: either the
\* macro goes on as before, or proerr has noted what stops it.
LEMMA CommandFramed ==
  ASSUME ExecTyped, Framed, Line # <<>>, NEW commands \in Seq(Commands), Left(commands),
         commands \in {Tail(Line), <<>>}, proerr, nerr' \in {0, 1}, macro_active' \in BOOLEAN,
         Head(Line) \notin Statements, UNCHANGED <<text, pos, levels, saved, kept>>
  PROVE  Framed'
<1>1. /\ Ordered' /\ Len(rest') = Len(rest) /\ Line' = commands /\ InMacro' = InMacro
      /\ (InMacro /\ commands # <<>> => Head(commands) \notin Statements)
  BY OrderKept DEF Framed
<1>2. niflevel' >= 0
  BY DEF levels, Framed
<1>3. ASSUME InMacro, ~spoiled' PROVE Frames'
  <2>1. ~spoiled /\ nerr' = 0 /\ macro_active'
    BY <1>3 DEF proerr
  <2>2. Frames
    BY <1>3, <2>1 DEF Framed
  <2>3. GoesOn'
    BY <2>1, <2>2 DEF Frames, GoesOn, proerr
  <2>4. Ran' = pos /\ Ran = pos
    BY <1>1, <1>3 DEF Ran
  <2>5. levels' = levels /\ text' = text /\ kept' = kept /\ saved' = saved
    OBVIOUS
  <2> QED BY <1>1, <2>2, <2>3, <2>4, <2>5 DEF Frames
<1> QED BY <1>1, <1>2, <1>3 DEF Framed

LEMMA ConditionalFramed ==
  ASSUME WellWritten, ExecTyped, ExecTyped', Inv, Framed, Conditional
  PROVE  Framed'
<1>1. /\ Line # <<>> /\ Left(Tail(Line)) /\ Tail(Line) \in Seq(Commands) /\ proerr /\ Fits
      /\ Head(Line) \in Cnd /\ xcndc(Head(Line), pos, imacrolevel)
      /\ UNCHANGED <<saved, kept>> /\ nerr' \in {0, 1} /\ macro_active' \in BOOLEAN
  BY TailTyped DEF Conditional, Command, Defined, Fits, ExecTyped, CndTypeOK
<1>2. text' = text
  BY <1>1 DEF xcndc
<1>3. /\ Ordered' /\ Len(rest') = Len(rest) /\ InMacro' = InMacro
      /\ (InMacro => Ran' = pos')
  BY <1>1, OrderKept DEF Framed, Ran
<1>4. imacrolevel >= 1 <=> InMacro
  <2>1. Len(rest) \in Nat /\ imacrolevel = Len(rest) - 1
    BY LevelsBounded DEF Inv, FilesNest, Depth
  <2> QED BY <2>1 DEF InMacro, Depth
<1>5. CASE ~InMacro
  <2>1. UNCHANGED levels
    <3>1. imacrolevel \in Int /\ ~(imacrolevel >= 1)
      BY <1>4, <1>5, LevelsBounded
    <3> QED BY <1>1, <3>1 DEF xcndc, Fail
  <2> QED BY <1>3, <1>5, <2>1 DEF Framed, levels
<1>6. CASE InMacro /\ Head(Line) \notin Statements
  <2>1. Head(Line) = "MACROQUIT"
    BY <1>1, <1>6 DEF Statements
  <2>2. UNCHANGED levels /\ macro_active' = FALSE
    <3>1. imacrolevel \in Int /\ ~(imacrolevel < 1)
      BY <1>4, <1>6, LevelsBounded
    <3> QED BY <1>1, <2>1, <3>1 DEF xcndc, macro_off
  <2>3. spoiled'
    BY <1>1, <1>6, <2>2 DEF proerr
  <2> QED BY <1>3, <2>2, <2>3 DEF Framed, levels
<1>7. CASE InMacro /\ Head(Line) \in Statements
  <2>1. pos # 0 /\ WordAt(pos) = Head(Line) /\ ~spoiled /\ Ran = pos - 1
    BY <1>1, <1>7 DEF Framed, Ordered, WordAt, Ran
  <2>2. xcndc(WordAt(pos), pos, 1) /\ macro_active' = macro_active
    <3>1. imacrolevel \in Int /\ ~(imacrolevel < 1) /\ Head(Line) # "MACROQUIT"
      BY <1>4, <1>7, LevelsBounded DEF Statements
    <3> QED BY <1>1, <2>1, <3>1 DEF xcndc
  <2>3. Frames /\ Frame(text, pos - 1, levels, kept[Len(rest) - 1])
    BY <1>7, <2>1 DEF Framed, Frames
  <2>4. CASE nerr' = 0
    <3>1. Frame(text, pos', levels', kept[Len(rest) - 1]) /\ niflevel' >= 0
      BY <1>1, <2>1, <2>2, <2>3, <2>4, StatementFrame
    <3>2. GoesOn'
      BY <1>1, <2>2, <2>3, <2>4 DEF Frames, GoesOn, proerr
    <3>3. \A d \in 2..(Len(rest) - 1) :
            Frame(saved[d - 1].text, saved[d - 1].pos, kept[d], kept[d - 1])
      BY <2>3 DEF Frames
    <3>4. Frames'
      BY <1>1, <1>2, <1>3, <1>7, <3>1, <3>2, <3>3 DEF Frames
    <3> QED BY <1>3, <3>1, <3>4 DEF Framed
  <2>5. CASE nerr' # 0
    <3>1. spoiled'
      BY <1>1, <1>7, <2>5 DEF proerr
    <3>2. niflevel' >= 0
      <4>1. AtLine(pos)
        BY <1>1, <2>1, <2>3, FrameLine
      <4>2. niflevel' = niflevel
        BY <1>1, <2>1, <2>2, <2>5, <4>1, CommandFollows DEF Behaves
      <4> QED BY <4>2 DEF Framed
    <3> QED BY <1>3, <3>1, <3>2 DEF Framed
  <2> QED BY <2>4, <2>5
<1> QED BY <1>5, <1>6, <1>7

\* A line is read: its first command may be a statement, and is the first word
\* of the line then.
LEMMA ReadFramed ==
  ASSUME WellWritten, StatementsLead, ExecTyped, Noticed, Framed, ReadLine
  PROVE  Framed'
<1>1. /\ Len(rest) \in Nat /\ Len(rest) > 1 /\ Line = <<>>
      /\ GoesOn /\ pos < Len(text) /\ pos' = pos + 1
      /\ UNCHANGED <<text, levels, lmacrostatus, macro_active, saved, kept, spoiled>>
  BY LevelsBounded DEF ReadLine, Looping, InMacro, Depth
<1>2. ~spoiled /\ InMacro /\ Frames /\ Ran = pos
  BY <1>1 DEF Noticed, Framed, InMacro, Depth, Ran
<1>3. Frame(text, pos, levels, kept[Len(rest) - 1])
  BY <1>2 DEF Frames
<1>4. /\ text \in Programs /\ Len(text) \in Nat /\ pos \in 0..Len(text)
      /\ pos + 1 \in 1..Len(text) /\ pos' - 1 = pos /\ pos' # 0
  <2>1. text \in Programs /\ pos \in 0..Len(text)
    BY <1>3 DEF Frame
  <2> QED BY <1>1, <2>1, ProgramFacts
<1> DEFINE line == text[pos + 1]
<1>5. /\ line \in Seq(Commands) /\ line # <<>> /\ First(line) = Head(line)
      /\ NoStatement(Tail(line))
  <2>1. line \in Seq(Commands) /\ line # <<>> /\ First(line) = Head(line)
    BY <1>4, ProgramFacts
  <2>2. \A m \in 2..Len(line) : line[m] \notin Statements
    BY <1>4 DEF StatementsLead
  <2> HIDE DEF line
  <2>3. ASSUME NEW m \in 1..Len(Tail(line)) PROVE Tail(line)[m] \notin Statements
    <3>1. m + 1 \in 2..Len(line) /\ Tail(line)[m] = line[m + 1]
      BY <2>1
    <3> QED BY <2>2, <3>1
  <2> QED BY <2>1, <2>3 DEF NoStatement
<1>6. Left(line) /\ text'[pos'] = line
  BY <1>1 DEF ReadLine
<1> HIDE DEF line
<1>7. /\ Len(rest') = Len(rest) /\ Line' = line /\ InMacro'
      /\ \A d \in 2..(Len(rest) - 1) : rest'[d] = rest[d]
  BY <1>1, <1>5, <1>6 DEF Left, Depth, ExecTyped, Line, InMacro
<1>8. Ordered'
  BY <1>1, <1>2, <1>4, <1>5, <1>6, <1>7 DEF Framed, Ordered
<1>9. Frame(text, Ran', levels, kept[Len(rest) - 1])
  <2>1. CASE Head(line) \in Statements
    <3>1. Ran' = pos
      BY <1>4, <1>5, <1>7, <2>1 DEF Ran
    <3> QED BY <1>3, <3>1
  <2>2. CASE Head(line) \notin Statements
    <3>1. Ran' = pos + 1 /\ First(text[pos + 1]) \notin Statements
      BY <1>1, <1>5, <1>7, <2>2 DEF Ran, line
    <3> QED BY <1>1, <1>3, <3>1, FrameOnward
  <2> QED BY <2>1, <2>2
<1>10. Frames'
  <2>1. GoesOn'
    BY <1>1 DEF GoesOn
  <2> QED BY <1>1, <1>2, <1>7, <1>9, <2>1 DEF Frames
<1>11. niflevel' >= 0
  BY <1>1 DEF Framed, levels
<1> QED BY <1>8, <1>10, <1>11 DEF Framed

\* A macro starts: what its caller has is kept, and it has nothing of its own.
LEMMA StartFramed ==
  ASSUME WellWritten, ExecTyped, Inv, Noticed, Framed, NEW program \in Programs, Start(program)
  PROVE  Framed'
<1>1. /\ Len(rest) \in Nat /\ Len(rest) >= 1 /\ Line \in Seq(Commands) /\ Line # <<>>
      /\ Head(Line) = "MACRO" /\ Len(rest) - 1 \in 0..MaxRuns /\ Len(kept) = Len(rest) - 1
      /\ imacrolevel = Len(rest) - 1 /\ niflevel \in Int /\ niflevel >= 0 /\ ndolevel \in Nat
  BY LevelsBounded DEF ExecTyped, Start, Command, Inv, FilesNest, Depth, CndTypeOK, Framed
<1>2. Ran = pos
  BY <1>1 DEF Ran, Statements, Cnd, IfWords, DoWords, Branches
<1>3. /\ text' = program /\ pos' = 0 /\ GoesOn' /\ levels' = levels /\ spoiled' = spoiled
      /\ kept' = Append(kept, levels) /\ niflevel' = niflevel
      /\ saved' = [saved EXCEPT ![Len(rest) - 1] = Entry(file)]
  BY <1>1 DEF Start, GoesOn, levels
<1> DEFINE top == Tail(Line)
           r == [rest EXCEPT ![Len(rest)] = top]
<1>4. rest' = Append(r, <<>>)
  BY DEF Start, Depth, Line
<1>5. top \in Seq(Commands) /\ (Len(rest) > 1 => NoStatement(top))
  BY <1>1 DEF Framed, Ordered, InMacro, Depth
<1> HIDE DEF top
<1>6. /\ r \in Seq(Seq(Commands)) /\ Len(r) = Len(rest) /\ r[Len(rest)] = top
      /\ \A d \in 2..(Len(rest) - 1) : r[d] = rest[d]
  BY <1>1, <1>5 DEF ExecTyped
<1> HIDE DEF r
<1>7. /\ Len(rest') = Len(rest) + 1 /\ Line' = <<>>
      /\ \A d \in 1..Len(rest) : rest'[d] = r[d]
  BY <1>1, <1>4, <1>6 DEF Line, Depth
<1>8. Ordered'
  <2>1. ASSUME NEW d \in 2..Len(rest) PROVE NoStatement(rest'[d])
    <3>1. CASE d = Len(rest)
      BY <1>1, <1>5, <1>6, <1>7, <3>1
    <3>2. CASE d # Len(rest)
      <4>1. d \in 2..(Len(rest) - 1) /\ d \in 1..Len(rest)
        BY <1>1, <3>2
      <4>2. NoStatement(rest[d])
        BY <4>1 DEF Framed, Ordered
      <4> QED BY <1>6, <1>7, <4>1, <4>2
    <3> QED BY <3>1, <3>2
  <2> QED BY <1>1, <1>7, <2>1 DEF Ordered
<1>9. /\ kept'[Len(rest)] = levels
      /\ \A d \in 1..(Len(rest) - 1) : kept'[d] = kept[d]
  <2>1. PICK S : kept \in Seq(S)
    BY DEF ExecTyped
  <2>2. kept \in Seq(S \cup {levels}) /\ levels \in S \cup {levels}
    BY <2>1
  <2> QED BY <1>1, <1>3, <2>2
<1>10. /\ saved'[Len(rest) - 1] = Entry(file)
       /\ \A l \in 0..(Len(rest) - 2) : saved'[l] = saved[l]
  <2>1. DOMAIN saved = 0..MaxRuns /\ MaxRuns \in Nat
    BY LevelsBounded DEF ExecTyped
  <2> QED BY <1>1, <1>3, <2>1
<1>11. ASSUME ~spoiled PROVE Frames'
  <2>1. Frame(program, 0, levels, levels)
    <3>1. levels[1] \in Nat /\ levels[3] \in Nat /\ Len(program) \in Nat
      BY <1>1, LevelsAre, ProgramFacts
    <3> QED BY <3>1, FrameStarts
  <2>2. Ran' = 0 /\ Len(rest') - 1 = Len(rest)
    BY <1>1, <1>3, <1>7 DEF Ran
  <2>3. Frame(text', Ran', levels', kept'[Len(rest') - 1])
    BY <1>3, <1>9, <2>1, <2>2
  <2>4. ASSUME NEW d \in 2..(Len(rest') - 1)
        PROVE  Frame(saved'[d - 1].text, saved'[d - 1].pos, kept'[d], kept'[d - 1])
    <3>1. d \in 2..Len(rest) /\ Len(rest) > 1 /\ d - 1 \in 1..(Len(rest) - 1)
          /\ kept'[d - 1] = kept[d - 1]
      BY <1>1, <1>9, <2>2
    <3>2. Frames
      BY <1>11, <3>1 DEF Framed, InMacro, Depth
    <3>3. CASE d = Len(rest)
      <4>1. saved'[d - 1].text = text /\ saved'[d - 1].pos = pos /\ kept'[d] = levels
        BY <1>9, <1>10, <3>3 DEF Entry
      <4> QED BY <1>2, <3>1, <3>2, <3>3, <4>1 DEF Frames
    <3>4. CASE d # Len(rest)
      <4>1. d \in 2..(Len(rest) - 1) /\ d - 1 \in 0..(Len(rest) - 2) /\ d \in 1..(Len(rest) - 1)
        BY <1>1, <3>1, <3>4
      <4> QED BY <1>9, <1>10, <3>1, <3>2, <4>1 DEF Frames
    <3> QED BY <3>3, <3>4
  <2> QED BY <1>3, <2>3, <2>4 DEF Frames
<1> QED BY <1>1, <1>3, <1>8, <1>11 DEF Framed

\* A macro that has run to its end leaves the levels and slots it found.
LEMMA FrameEnds ==
  ASSUME WellWritten, NEW t, NEW now, NEW before, Frame(t, Len(t), now, before)
  PROVE  /\ now[1] = before[1] /\ now[3] = before[3]
         /\ \A l \in 1..now[1] : now[2][l] = before[2][l]
         /\ \A l \in 1..now[3] : /\ now[4][l] = before[4][l] /\ now[5][l] = before[5][l]
                                 /\ now[6][l] = before[6][l]
<1>1. t \in Programs /\ WellFormed(t)
  BY ProgramFacts DEF Frame
<1>2. IfDepth(t, Len(t)) = IfDepth(t, 1 - 1) /\ DoDepth(t, Len(t)) = DoDepth(t, 1 - 1)
  BY <1>1 DEF WellFormed, Balanced
<1>3. IfDepth(t, Len(t)) = 0 /\ DoDepth(t, Len(t)) = 0
  BY <1>2, DepthAtTop
<1>4. now[1] = before[1] /\ now[3] = before[3]
  BY <1>3 DEF Frame
<1> QED BY <1>4 DEF Frame

LEMMA MacroEnds ==
  ASSUME WellWritten, Framed, EndMacro, ~spoiled
  PROVE  /\ Frames
         /\ LET before == kept[Len(rest) - 1]
            IN  /\ niflevel = before[1] /\ ndolevel = before[3]
                /\ \A l \in 1..niflevel : lifresp[l] = before[2][l]
                /\ \A l \in 1..ndolevel : /\ ndotype[l] = before[4][l] /\ ndolines[l] = before[5][l]
                                          /\ do_token[l] = before[6][l]
<1>1. Line = <<>> /\ Frames /\ pos = Len(text)
  BY DEF EndMacro, Looping, Framed, Frames
<1>2. Frame(text, Len(text), levels, kept[Len(rest) - 1])
  BY <1>1 DEF Frames, Ran
<1> QED BY <1>1, <1>2, FrameEnds, LevelsAre

\* The caller goes on with what it had.
LEMMA EndFramed ==
  ASSUME WellWritten, ExecTyped, Inv, Framed, EndMacro
  PROVE  Framed'
<1>1. /\ Len(rest) \in Nat /\ Len(rest) > 1 /\ imacrolevel = Len(rest) - 1
      /\ Len(rest) - 1 \in 0..MaxRuns /\ Len(kept) = Len(rest) - 1
  BY LevelsBounded DEF ExecTyped, EndMacro, Looping, InMacro, Inv, FilesNest, Depth
<1>2. /\ rest' = SubSeq(rest, 1, Len(rest) - 1) /\ kept' = SubSeq(kept, 1, Len(rest) - 2)
      /\ saved' = [saved EXCEPT ![Len(rest) - 1] = Entry("closed")]
      /\ text' = saved[Len(rest) - 2].text /\ pos' = saved[Len(rest) - 2].pos
      /\ levels' = levels /\ niflevel' = niflevel
      /\ lmacrostatus' = (lmacrostatus /\ ~~lmacrostatus)
      /\ macro_active' = (macro_active /\ imacrolevel > 1)
      /\ spoiled' = (Len(rest) > 2 /\ (spoiled \/ ~lmacrostatus))
  <2>1. (Len(rest) - 1) - 1 = Len(rest) - 2
    BY <1>1
  <2> QED BY <1>1, <2>1 DEF EndMacro, Return, NameLevel, Depth, levels
<1>3. /\ Len(rest') = Len(rest) - 1 /\ rest' \in Seq(Seq(Commands))
      /\ \A d \in 1..(Len(rest) - 1) : rest'[d] = rest[d]
  BY <1>1, <1>2 DEF ExecTyped
<1>4. /\ Line' = rest[Len(rest) - 1] /\ Line' \in Seq(Commands)
      /\ (InMacro' <=> Len(rest) > 2)
  BY <1>1, <1>3 DEF Line, Depth, InMacro
<1>5. InMacro' => NoStatement(Line')
  BY <1>1, <1>4 DEF Framed, Ordered
<1>6. InMacro' /\ Line' # <<>> => NoStatement(Tail(Line')) /\ Head(Line') \notin Statements
  BY <1>4, <1>5, TailNoStatement
<1>7. Ordered'
  <2>1. \A d \in 2..(Len(rest') - 1) : d \in 2..(Len(rest) - 1) /\ rest'[d] = rest[d]
    BY <1>1, <1>3
  <2> QED BY <1>6, <2>1 DEF Framed, Ordered
<1>8. \A d \in 1..(Len(rest) - 2) : kept'[d] = kept[d]
  <2>1. PICK S : kept \in Seq(S)
    BY DEF ExecTyped
  <2> QED BY <1>1, <1>2, <2>1
<1>9. \A l \in 0..(Len(rest) - 2) : saved'[l] = saved[l]
  <2>1. DOMAIN saved = 0..MaxRuns /\ MaxRuns \in Nat
    BY LevelsBounded DEF ExecTyped
  <2> QED BY <1>1, <1>2, <2>1
<1>10. ASSUME InMacro', ~spoiled' PROVE Frames'
  <2>1. Len(rest) > 2 /\ ~spoiled /\ lmacrostatus
    BY <1>2, <1>4, <1>10
  <2>2. Frames
    BY <2>1, MacroEnds
  <2>3. GoesOn'
    <3>1. imacrolevel > 1
      BY <1>1, <2>1
    <3>2. lmacrostatus = TRUE /\ macro_active
      BY <2>1, <2>2 DEF Frames, GoesOn, ExecTyped
    <3>3. lmacrostatus' /\ macro_active'
      BY <1>2, <3>1, <3>2, Zenon
    <3> QED BY <3>3 DEF GoesOn
  <2>4. Ran' = pos'
    BY <1>6, <1>10 DEF Ran
  <2>5. Frame(saved[Len(rest) - 2].text, saved[Len(rest) - 2].pos,
              kept[Len(rest) - 1], kept[Len(rest) - 2])
    <3>1. Len(rest) - 1 \in 2..(Len(rest) - 1) /\ (Len(rest) - 1) - 1 = Len(rest) - 2
      BY <1>1, <2>1
    <3> QED BY <2>2, <3>1 DEF Frames
  <2>6. Frame(text', pos', levels, kept[Len(rest) - 2])
    <3> DEFINE now    == kept[Len(rest) - 1]
               before == kept[Len(rest) - 2]
               t      == saved[Len(rest) - 2].text
               p      == saved[Len(rest) - 2].pos
    <3>1. /\ levels[1] = now[1] /\ levels[3] = now[3]
          /\ \A l \in 1..now[1] : levels[2][l] = now[2][l]
          /\ \A l \in 1..now[3] : /\ levels[4][l] = now[4][l] /\ levels[5][l] = now[5][l]
                                 /\ levels[6][l] = now[6][l]
      BY <2>1, MacroEnds, LevelsAre
    <3>2. Frame(t, p, now, before)
      BY <2>5
    <3> HIDE DEF now, before, t, p
    <3>3. Frame(t, p, levels, before)
      BY <3>1, <3>2, FrameAgrees
    <3>4. text' = t /\ pos' = p /\ before = kept[Len(rest) - 2]
      BY <1>2 DEF t, p, before
    <3> QED BY <3>3, <3>4
  <2>7. kept'[Len(rest') - 1] = kept[Len(rest) - 2]
    BY <1>1, <1>3, <1>8, <2>1
  <2>8. ASSUME NEW d \in 2..(Len(rest') - 1)
        PROVE  Frame(saved'[d - 1].text, saved'[d - 1].pos, kept'[d], kept'[d - 1])
    <3>1. d \in 2..(Len(rest) - 1) /\ d \in 1..(Len(rest) - 2) /\ d - 1 \in 1..(Len(rest) - 2)
          /\ d - 1 \in 0..(Len(rest) - 2)
      BY <1>1, <1>3
    <3> QED BY <1>8, <1>9, <2>2, <3>1 DEF Frames
  <2> QED BY <1>2, <2>3, <2>4, <2>6, <2>7, <2>8 DEF Frames
<1> QED BY <1>2, <1>7, <1>10 DEF Framed

LEMMA FramedNext ==
  ASSUME WellWritten, StatementsLead, Opened = {TRUE}, ExecTyped, ExecTyped', Inv, Noticed,
         Framed, [Next]_vars
  PROVE  Framed'
<1>0. Line \in Seq(Commands) /\ nerr' \in {0, 1} /\ macro_active' \in BOOLEAN
  BY LevelsBounded DEF ExecTyped, CndTypeOK
<1>1. CASE Conditional
  BY <1>1, ConditionalFramed
<1>2. CASE Ordinary
  <2>1. /\ Line # <<>> /\ proerr /\ Tail(Line) \in Seq(Commands) /\ <<>> \in Seq(Commands)
        /\ Head(Line) \notin Statements /\ UNCHANGED <<text, pos, levels, saved, kept>>
    BY <1>2, TailTyped DEF Ordinary, Command, Statements, Cnd, IfWords, DoWords, Branches
  <2>2. Left(Tail(Line)) \/ Left(<<>>)
    BY <1>2 DEF Ordinary
  <2> QED BY <1>0, <2>1, <2>2, CommandFramed
<1>3. CASE NoSuchMacro
  <2>1. /\ Line # <<>> /\ proerr /\ Tail(Line) \in Seq(Commands) /\ Left(Tail(Line))
        /\ Head(Line) \notin Statements /\ UNCHANGED <<text, pos, levels, saved, kept>>
    BY <1>3, TailTyped DEF NoSuchMacro, Command, Statements, Cnd, IfWords, DoWords, Branches
  <2> QED BY <1>0, <2>1, CommandFramed
<1>4. CASE OpenFails
  BY <1>4 DEF OpenFails
<1>5. CASE \E program \in Programs : Start(program)
  BY <1>5, StartFramed
<1>6. CASE ReadLine
  BY <1>6, ReadFramed
<1>7. CASE EndMacro
  BY <1>7, EndFramed
<1>8. CASE LoseFile
  BY <1>8, NeverLost
<1>9. ASSUME NEW line \in Inputs, main_command(line) PROVE Framed'
  <2>1. Len(rest) = 1 /\ Left(line) /\ niflevel' = niflevel
    BY <1>9 DEF main_command, AtPrompt, Depth, levels
  <2>2. Len(rest') = 1
    <3>1. rest \in Seq(Seq(Commands))
      BY DEF ExecTyped
    <3>2. rest' = [rest EXCEPT ![Len(rest)] = line]
      BY <2>1 DEF Left, Depth
    <3> QED BY <2>1, <3>1, <3>2
  <2>3. ~InMacro' /\ niflevel' >= 0
    BY <2>1, <2>2 DEF InMacro, Depth, Framed
  <2> QED BY <2>2, <2>3 DEF Framed, Ordered
<1>10. CASE UNCHANGED vars
  <2>1. UNCHANGED <<text, pos, macro_active, levels, niflevel, rest, lmacrostatus, saved, kept, spoiled>>
    BY <1>10 DEF vars, macros, levels
  <2>2. Ordered'
    BY <2>1 DEF Framed, Ordered, InMacro, Depth, Line
  <2>3. Frames => Frames'
    BY <2>1 DEF Frames, GoesOn, Ran, Line, Depth
  <2>4. InMacro' = InMacro
    BY <2>1 DEF InMacro, Depth
  <2> QED BY <2>1, <2>2, <2>3, <2>4 DEF Framed
<1> QED
  BY <1>1, <1>2, <1>3, <1>4, <1>5, <1>6, <1>7, <1>8, <1>9, <1>10 DEF Next, Step

\* A macro that runs another one, which ends without an error or MACROQUIT, finds
\* its levels, the branches it has taken, its loops and the items to come as it
\* left them, for all well-written macros, however deep they run each other: the
\* slots are shared, and nothing resets them (inc/cnd.h, ncpf/executemacro.c).
THEOREM CallersFindLoops ==
  ASSUME WellWritten, StatementsLead, Separated, Opened = {TRUE}
  PROVE  Spec => CallerFindsItsLoops
<1>1. Init => Inv /\ Noticed /\ Framed
  <2> SUFFICES ASSUME Init PROVE Inv /\ Noticed /\ Framed
    OBVIOUS
  <2>1. Len(rest) = 1 /\ niflevel = 0
    BY DEF Init, CndInit
  <2>2. Noticed /\ Framed
    BY <2>1 DEF Init, Noticed, Framed, Ordered, InMacro, Depth
  <2> QED BY <2>2, NestingStarts
<1>2. Inv /\ [Next]_vars => Inv'
  BY NestingNext
<1>3. ExecTyped /\ ExecTyped' /\ Noticed /\ [Next]_vars => Noticed'
  BY NoticedNext
<1>4. ExecTyped /\ ExecTyped' /\ Inv /\ Noticed /\ Framed /\ [Next]_vars => Framed'
  BY FramedNext
<1>5. ExecTyped /\ Inv /\ Framed /\ [Next]_vars =>
        [Depth' < Depth /\ ~spoiled /\ nerr' = 0 =>
           Slots(levels) = Slots(kept[Depth - 1])]_vars
  <2> SUFFICES ASSUME ExecTyped, Inv, Framed, Next, Depth' < Depth, ~spoiled
               PROVE  Slots(levels) = Slots(kept[Depth - 1])
    OBVIOUS
  <2>1. EndMacro
    <3>1. Len(rest) \in Nat /\ Len(rest) >= 1
      BY DEF ExecTyped
    <3>2. ASSUME NEW commands, Left(commands) PROVE FALSE
      <4>1. Depth' = Depth /\ Depth \in Nat
        BY <3>1, <3>2, LeftKeeps DEF Inv, Depth
      <4> QED BY <4>1
    <3>3. ASSUME NEW program \in Programs, Start(program) PROVE FALSE
      <4>1. Depth' = Depth + 1 /\ Depth \in Nat
        BY <3>1, <3>3, StartDeeper DEF Inv, Depth
      <4> QED BY <4>1
    <3> QED BY <3>2, <3>3, NeverLost DEF Next, Step, Conditional, Ordinary, NoSuchMacro,
                  OpenFails, ReadLine, main_command
  <2> DEFINE before == kept[Depth - 1]
  <2>2. /\ niflevel = before[1] /\ ndolevel = before[3]
        /\ \A l \in 1..niflevel : lifresp[l] = before[2][l]
        /\ \A l \in 1..ndolevel : /\ ndotype[l] = before[4][l] /\ ndolines[l] = before[5][l]
                                  /\ do_token[l] = before[6][l]
    BY <2>1, MacroEnds DEF Depth
  <2> HIDE DEF before
  <2>3. [k \in 1..niflevel |-> lifresp[k]] = [k \in 1..before[1] |-> before[2][k]]
    BY <2>2
  <2>4. [k \in 1..ndolevel |-> <<ndotype[k], ndolines[k], do_token[k]>>]
          = [k \in 1..before[3] |-> <<before[4][k], before[5][k], before[6][k]>>]
    BY <2>2
  <2> QED BY <2>2, <2>3, <2>4, LevelsAre DEF Slots, before
<1> QED BY <1>1, <1>2, <1>3, <1>4, <1>5, AlwaysTyped, PTL DEF Spec, CallerFindsItsLoops
=============================================================================
