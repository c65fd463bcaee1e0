---------------------------- MODULE MacroProofs ----------------------------
(***************************************************************************)
(* Theorems of MacroRun, for all macros, lengths and limits.               *)
(***************************************************************************)
EXTENDS MacroMeaning, CndProofs

-----------------------------------------------------------------------------
\* A text that may be run is a sequence of one-command lines.
LEMMA ProgramType ==
  ASSUME NEW t \in Programs \cup {<<>>}
  PROVE  t \in Seq({<<word>> : word \in Commands}) /\ Len(t) \in Nat
<1>1. {<<word>> : word \in Commands \ {"MACRO", "BAD"}}
        \subseteq {<<word>> : word \in Commands}
  OBVIOUS
<1>2. t \in Seq({<<word>> : word \in Commands \ {"MACRO", "BAD"}})
  <2>1. CASE t \in Programs
    BY <2>1, ProgramsAssumption
  <2>2. CASE t = <<>>
    BY <2>2
  <2> QED BY <2>1, <2>2
<1>3. t \in Seq({<<word>> : word \in Commands})
  BY <1>1, <1>2
<1> QED BY <1>3

\* A state in which a macro reads a line is one the handlers are made for.
LEMMA ReadingTyped ==
  ASSUME TypeOK, Reading
  PROVE  Typed(pos + 1)
BY ProgramType DEF TypeOK, CndTypeOK, Reading, InBounds, Typed

\* The variables of MacroRun keep their types whatever macros are run, well
\* formed or not, as long as the levels stay within the arrays: the searches and
\* backspace keep the read position in the file, and ENDDO never takes an item
\* from a list that has none.
THEOREM TypeCorrect == Spec => []TypeOK
<1>0. Len(<<>>) = 0
  OBVIOUS
<1>1. ASSUME Init PROVE TypeOK
  <2>1. text \in Programs \cup {<<>>} /\ pos \in 0..Len(text)
    <3>1. text = <<>> /\ pos = 0
      BY <1>1 DEF Init
    <3> QED BY <1>0, <3>1
  <2>2. running \in BOOLEAN /\ runs \in 0..MaxRuns
    <3>1. running = FALSE /\ runs = 0
      BY <1>1 DEF Init
    <3>2. running \in BOOLEAN
      BY <3>1
    <3>3. runs \in 0..MaxRuns
      BY <3>1, RunsAssumption
    <3> QED BY <3>2, <3>3
  <2>3. macro_active \in BOOLEAN /\ truth \in Results
    BY <1>1 DEF Init, CndInit, Results
  <2>4. /\ nerr \in {0, 1} /\ niflevel \in Int /\ ndolevel \in Nat
        /\ asked \in 0..MaxItems
    BY <1>1, ItemAssumption DEF Init, CndInit
  <2>5. /\ lifresp \in [1..MIFLEVEL -> BOOLEAN]
        /\ ndotype \in [1..MDOLEVEL -> {0, 1}]
        /\ ndolines \in [1..MDOLEVEL -> Nat]
        /\ do_token \in [1..MDOLEVEL -> 0..MaxItems]
    BY <1>1, ItemAssumption DEF Init, CndInit
  <2> QED BY <2>1, <2>2, <2>3, <2>4, <2>5 DEF TypeOK, CndTypeOK
<1>2. TypeOK /\ [Next]_vars => TypeOK'
  <2> SUFFICES ASSUME TypeOK, [Next]_vars PROVE TypeOK'
    OBVIOUS
  <2> USE DEF TypeOK
  <2>1. ASSUME NEW program \in Programs, Macro(program) PROVE TypeOK'
    BY <2>1, ProgramType, RunsAssumption DEF Macro, levels, given, CndTypeOK
  <2>2. CASE Conditional
    BY <2>2, ReadingTyped, XcndcType DEF Conditional, TypedNext, CndTypeOK
  <2>3. CASE Ordinary
    <3>1. pos + 1 \in 0..Len(text)
      BY <2>3, ReadingTyped DEF Ordinary, Typed
    <3> QED BY <2>3, <3>1 DEF Ordinary, levels, given, CndTypeOK
  <2>4. CASE CloseMacro
    <3>1. text' \in Programs \cup {<<>>} /\ pos' \in 0..Len(text')
      BY <1>0, <2>4 DEF CloseMacro
    <3> QED BY <2>4, <3>1 DEF CloseMacro, levels, given, CndTypeOK
  <2>5. CASE UNCHANGED vars
    BY <2>5 DEF vars, levels, given, CndTypeOK
  <2> QED BY <2>1, <2>2, <2>3, <2>4, <2>5 DEF Next
<1> QED BY <1>1, <1>2, PTL DEF Spec
-----------------------------------------------------------------------------
(* Nesting, for well-formed texts.                                         *)

\* Every text that may be run is one the documentation allows, and has no line
\* that a scanner takes for another statement.
WellWritten == \A t \in Programs : WellFormed(t) /\ Plain(t)

\* The levels are those of the text, on top of what earlier macros left.
Nested == /\ niflevel >= 0
          /\ Executing => /\ niflevel >= IfDepth(text, pos)
                          /\ ndolevel >= DoDepth(text, pos)

Inv == TypeOK /\ Nested /\ LoopsRemembered

\* A command of a well-written macro is about to run, the one on line i.
Ready(i) == /\ Inv /\ WellFormed(text) /\ Plain(text)
            /\ Reading /\ i = pos + 1

\* What it leaves: the levels follow the text, and open loops are found (Remembers);
\* or there is an error that is not the macro system's.
Follows == /\ niflevel' - niflevel = IfDepth(text, pos') - IfDepth(text, pos)
           /\ ndolevel' - ndolevel = DoDepth(text, pos') - DoDepth(text, pos)

Excused == \/ Word \in {"IF", "ELSEIF", "WHILE"} /\ truth' = "ERROR"
           \/ Word \in {"DO", "DOLIST"}

Outcome == \/ nerr' = 0 /\ Follows /\ Remembers
           \/ nerr' = 1 /\ UNCHANGED <<niflevel, ndolevel>> /\ Excused

\* The facts the handlers' lemmas start from.
LEMMA ReadyFacts ==
  ASSUME NEW i, Ready(i)
  PROVE  /\ Len(text) \in Nat /\ i \in 1..Len(text) /\ i \in Nat \ {0} /\ i - 1 = pos
         /\ i - 1 \in Nat /\ i - 1 \in 0..Len(text) /\ i \in 0..Len(text)
         /\ Word = First(text[i]) /\ Executing /\ InBounds /\ CndTypeOK
         /\ niflevel \in Int /\ ndolevel \in Nat
         /\ niflevel >= IfDepth(text, i - 1) /\ ndolevel >= DoDepth(text, i - 1)
         /\ IfDepth(text, i - 1) \in Nat /\ DoDepth(text, i - 1) \in Nat
         /\ IfDepth(text, i) \in Nat /\ DoDepth(text, i) \in Nat
         /\ Typed(i)
<1>1. Typed(i) /\ i = pos + 1
  BY ReadingTyped DEF Ready, Inv
<1>2. Len(text) \in Nat /\ pos \in 0..Len(text) /\ pos < Len(text)
  BY <1>1 DEF Typed, CndTypeOK, Ready, Reading
<1>3. i \in 1..Len(text) /\ i - 1 = pos
  BY <1>1, <1>2
<1>4. /\ IfDepth(text, i - 1) \in Nat /\ DoDepth(text, i - 1) \in Nat
      /\ IfDepth(text, i) \in Nat /\ DoDepth(text, i) \in Nat
  <2>1. i \in 0..Len(text) /\ i - 1 \in 0..Len(text) /\ WellFormed(text)
    BY <1>2, <1>3 DEF Ready
  <2> QED BY <1>2, <2>1, DepthsNatural
<1>5. Executing /\ InBounds /\ Nested /\ Word = First(text[i])
  BY <1>1 DEF Ready, Inv, Reading, Executing, Word
<1> QED BY <1>1, <1>2, <1>3, <1>4, <1>5 DEF Nested, Typed, CndTypeOK

\* So the lemmas about commands of well-written texts apply.
LEMMA ReadyLine ==
  ASSUME NEW i, Ready(i)
  PROVE  AtLine(i) /\ WordAt(i) = Word /\ i - 1 = pos
<1>1. Typed(i) /\ i # 0 /\ i - 1 = pos /\ Word = First(text[i]) /\ Executing /\ InBounds
  BY ReadyFacts
<1>2. Recorded(i - 1)
  BY <1>1 DEF Ready, Inv, LoopsRemembered, Recorded, Slot, SlotAt
<1> QED BY <1>1, <1>2, ReadyFacts DEF Ready, AtLine, WordAt

\* How the command that is about to run changes the depths.
LEMMA CommandDepths ==
  ASSUME NEW i, Ready(i)
  PROVE  /\ IfDepth(text, i) = IfDepth(text, pos) + (IF Word = "IF" THEN 1
                                  ELSE IF Word = "ENDIF" THEN -1 ELSE 0)
         /\ DoDepth(text, i) = DoDepth(text, pos) + (IF Word \in DoWords THEN 1
                                  ELSE IF Word = "ENDDO" THEN -1 ELSE 0)
         /\ \A words : Is(text, i, words) <=> Word \in words
         /\ IfDepth(text, pos) \in Nat /\ DoDepth(text, pos) \in Nat
BY ReadyLine, DepthsHere

LEMMA ConditionalFollows ==
  ASSUME NEW i, Ready(i), Word \in Cnd, xcndc(Word, i, 1)
  PROVE  Outcome
<1>1. AtLine(i) /\ WordAt(i) = Word /\ i - 1 = pos
  BY ReadyLine
<1>2. Behaves(i)
  BY <1>1, CommandFollows
<1> QED BY <1>1, <1>2 DEF Behaves, Outcome, KeepsDepths, Follows, ExcusedAt, Excused

-----------------------------------------------------------------------------
(* The theorems. *)

\* The inductive invariant holds at the start and is kept by every step.
LEMMA InvStarts ==
  ASSUME Init PROVE Nested /\ LoopsRemembered
<1>1. niflevel = 0 /\ ~running
  BY DEF Init, CndInit
<1> QED BY <1>1 DEF Nested, LoopsRemembered, Executing

\* A macro that reads a line is one of the well-written ones.
LEMMA ReadingReady ==
  ASSUME WellWritten, Inv, Reading
  PROVE  Ready(pos + 1)
<1>1. text \in Programs
  <2>1. Len(<<>>) = 0
    OBVIOUS
  <2>2. pos \in 0..Len(text) /\ pos < Len(text) /\ text \in Programs \cup {<<>>}
    BY DEF Inv, TypeOK, CndTypeOK, Reading
  <2>3. text # <<>>
    BY <2>1, <2>2
  <2> QED BY <2>2, <2>3
<1> QED BY <1>1 DEF WellWritten, Ready

\* An ordinary command that succeeds follows the text too.
LEMMA OrdinaryFollows ==
  ASSUME NEW i, Ready(i), Ordinary, nerr' = 0
  PROVE  Follows /\ Remembers
<1>1. /\ pos' = i /\ niflevel' = niflevel /\ ndolevel' = ndolevel
      /\ ndotype' = ndotype /\ ndolines' = ndolines
      /\ Word \notin DoWords /\ Word \notin {"IF", "ENDIF", "ENDDO"}
  BY DEF Ordinary, levels, Ready, Cnd, IfWords, DoWords
<1>2. niflevel \in Int /\ ndolevel \in Nat
  BY ReadyFacts
<1>3. /\ IfDepth(text, i) = IfDepth(text, pos) /\ DoDepth(text, i) = DoDepth(text, pos)
      /\ IfDepth(text, pos) \in Nat /\ DoDepth(text, pos) \in Nat
  BY <1>1, CommandDepths
<1>4. /\ niflevel' - niflevel = IfDepth(text, i) - IfDepth(text, pos)
      /\ ndolevel' - ndolevel = DoDepth(text, i) - DoDepth(text, pos) /\ ndolevel' \in Nat
  BY <1>1, <1>2, <1>3
<1>5. AtLine(i) /\ WordAt(i) = Word /\ i - 1 = pos
  BY ReadyLine
<1>6. KeepsDepths(i) /\ Remembers
  BY <1>1, <1>4, <1>5, Onward
<1> QED BY <1>5, <1>6 DEF KeepsDepths, Follows

\* What a command leaves is what the invariant asks for.
LEMMA OutcomeKeeps ==
  ASSUME NEW i, Ready(i), TypeOK', text' = text,
         nerr' = 0 => Follows /\ Remembers,
         nerr' # 0 => UNCHANGED niflevel
  PROVE  (Nested /\ LoopsRemembered)'
<1>1. /\ niflevel \in Int /\ ndolevel \in Nat /\ Len(text) \in Nat /\ i - 1 = pos
      /\ niflevel >= IfDepth(text, i - 1) /\ ndolevel >= DoDepth(text, i - 1)
      /\ IfDepth(text, i - 1) \in Nat /\ DoDepth(text, i - 1) \in Nat
      /\ WellFormed(text) /\ niflevel >= 0
  BY ReadyFacts DEF Ready, Inv, Nested
<1>2. pos' \in 0..Len(text) /\ niflevel' \in Int /\ ndolevel' \in Nat
  BY DEF TypeOK, CndTypeOK
<1>3. IfDepth(text, pos') \in Nat /\ DoDepth(text, pos') \in Nat
  BY <1>1, <1>2, DepthsNatural
<1>4. CASE nerr' = 0
  <2>1. niflevel' >= IfDepth(text, pos') /\ ndolevel' >= DoDepth(text, pos') /\ niflevel' >= 0
    BY <1>1, <1>2, <1>3, <1>4 DEF Follows
  <2>2. Nested'
    BY <2>1 DEF Nested
  <2>3. LoopsRemembered'
    BY <1>4 DEF LoopsRemembered, Remembers, Found, SlotAfter, Slot, Fits, InBounds
  <2> QED BY <2>2, <2>3
<1>5. CASE nerr' # 0
  BY <1>1, <1>5 DEF Nested, LoopsRemembered, Executing
<1> QED BY <1>4, <1>5

LEMMA InvStep ==
  ASSUME WellWritten, Inv, TypeOK', [Next]_vars
  PROVE  Inv'
<1> SUFFICES (Nested /\ LoopsRemembered)'
  BY DEF Inv
<1>1. niflevel >= 0 /\ ndolevel \in Nat
  BY DEF Inv, Nested, TypeOK, CndTypeOK
<1>2. ASSUME NEW program \in Programs, Macro(program) PROVE (Nested /\ LoopsRemembered)'
  <2>1. text' = program /\ pos' = 0 /\ niflevel' = niflevel /\ ndolevel' = ndolevel
    BY <1>2 DEF Macro, levels
  <2>2. Nested'
    BY <1>1, <2>1, DepthAtTop DEF Nested
  <2>3. ~\E d \in 1..Len(text') : IsOpen(text', d, pos')
    <3> SUFFICES ASSUME NEW d \in 1..Len(text'), d =< 0 PROVE FALSE
      BY <2>1 DEF IsOpen
    <3> QED OBVIOUS
  <2> QED BY <2>2, <2>3 DEF LoopsRemembered
<1>3. CASE Conditional
  <2>1. Ready(pos + 1) /\ Word \in Cnd /\ xcndc(Word, pos + 1, 1)
    BY <1>3, ReadingReady DEF Conditional
  <2>2. Outcome
    BY <2>1, ConditionalFollows
  <2>3. text' = text
    BY <2>1 DEF xcndc
  <2> QED BY <2>1, <2>2, <2>3, OutcomeKeeps DEF Outcome
<1>4. CASE Ordinary
  <2>1. Ready(pos + 1) /\ text' = text /\ UNCHANGED niflevel
    BY <1>4, ReadingReady DEF Ordinary, levels
  <2> QED BY <1>4, <2>1, OrdinaryFollows, OutcomeKeeps
<1>5. CASE CloseMacro
  BY <1>1, <1>5 DEF CloseMacro, levels, Nested, LoopsRemembered, Executing
<1>6. CASE UNCHANGED vars
  <2>1. UNCHANGED <<text, pos, nerr, macro_active, niflevel, ndolevel, ndotype, ndolines, running>>
    BY <1>6 DEF vars, levels
  <2>2. \A d : IsOpen(text', d, pos') = IsOpen(text, d, pos) /\ Slot(d)' = Slot(d)
    BY <2>1 DEF Slot
  <2> QED BY <2>1, <2>2 DEF Inv, Nested, LoopsRemembered, Executing, InBounds
<1> QED BY <1>2, <1>3, <1>4, <1>5, <1>6 DEF Next
\* In every well-written macro, on any level that earlier macros left, the slot
\* of an open loop says of what kind it is and how far it goes back to its
\* statement.
THEOREM LoopsFound == ASSUME WellWritten PROVE Spec => []LoopsRemembered
<1>1. Spec => []TypeOK
  BY TypeCorrect
<1>2. Init /\ TypeOK => Inv
  BY InvStarts DEF Inv
<1>3. Inv /\ TypeOK' /\ [Next]_vars => Inv'
  BY InvStep
<1>4. Inv => LoopsRemembered
  BY DEF Inv
<1> QED BY <1>1, <1>2, <1>3, <1>4, PTL DEF Spec

\* Nothing that happens in a well-written macro shifts the levels against its
\* nesting: not a BREAK out of IF clauses, not the way back to a loop, not the
\* search past a branch or a loop that is not to run.
THEOREM LevelsFollow == ASSUME WellWritten PROVE Spec => NestingKept
<1> DEFINE Kept == running /\ Executing' =>
             /\ niflevel' - niflevel = IfDepth(text', pos') - IfDepth(text, pos)
             /\ ndolevel' - ndolevel = DoDepth(text', pos') - DoDepth(text, pos)
<1>1. Spec => []TypeOK
  BY TypeCorrect
<1>2. Init /\ TypeOK => Inv
  BY InvStarts DEF Inv
<1>3. Inv /\ TypeOK' /\ [Next]_vars => Inv'
  BY InvStep
<1>4. Inv /\ [Next]_vars => [Kept]_vars
  <2> SUFFICES ASSUME Inv, Next, running, Executing' PROVE Kept
    OBVIOUS
  <2>1. nerr' = 0 /\ running'
    BY DEF Executing
  <2>2. CASE Conditional
    <3>1. Ready(pos + 1) /\ Word \in Cnd /\ xcndc(Word, pos + 1, 1)
      BY <2>2, ReadingReady DEF Conditional
    <3>2. Follows /\ text' = text
      BY <2>1, <3>1, ConditionalFollows DEF Outcome, xcndc
    <3> QED BY <3>2 DEF Follows
  <2>3. CASE Ordinary
    <3>1. Ready(pos + 1) /\ text' = text
      BY <2>3, ReadingReady DEF Ordinary
    <3>2. Follows
      BY <2>1, <2>3, <3>1, OrdinaryFollows
    <3> QED BY <3>1, <3>2 DEF Follows
  <2> QED BY <2>1, <2>2, <2>3 DEF Next, Macro, CloseMacro
<1> QED BY <1>1, <1>2, <1>3, <1>4, PTL DEF Spec, NestingKept

\* A conditional command of a well-written macro finds the end of its clause or
\* loop and the level it is on: what errors it raises are those of a condition
\* or of the words of a DO.
THEOREM ErrorsAreGiven == ASSUME WellWritten PROVE Spec => NoSpuriousError
<1> DEFINE Right == Conditional /\ nerr' = 1 =>
             \/ Word \in {"IF", "ELSEIF", "WHILE"} /\ truth' = "ERROR"
             \/ Word \in {"DO", "DOLIST"}
<1>1. Spec => []TypeOK
  BY TypeCorrect
<1>2. Init /\ TypeOK => Inv
  BY InvStarts DEF Inv
<1>3. Inv /\ TypeOK' /\ [Next]_vars => Inv'
  BY InvStep
<1>4. Inv /\ [Next]_vars => [Right]_vars
  <2> SUFFICES ASSUME Inv, Conditional, nerr' = 1 PROVE Excused
    BY DEF Excused
  <2>1. Ready(pos + 1) /\ Word \in Cnd /\ xcndc(Word, pos + 1, 1)
    BY ReadingReady DEF Conditional
  <2> QED BY <2>1, ConditionalFollows DEF Outcome
<1> QED BY <1>1, <1>2, <1>3, <1>4, PTL DEF Spec, NoSpuriousError

-----------------------------------------------------------------------------
(* The limits. *)

\* In the first macro of a session the levels are the depths of the text, and
\* after it they are within the limits.
FirstRun ==
  Shallow => /\ runs = 0 => niflevel = 0 /\ ndolevel = 0 /\ ~running
             /\ runs =< 1 => /\ InBounds
                             /\ Executing => /\ niflevel = IfDepth(text, pos)
                                             /\ ndolevel = DoDepth(text, pos)

\* No line of a macro that keeps to the limits is deeper than they are.
LEMMA ShallowDepths ==
  ASSUME Shallow, NEW t \in Programs, Len(t) \in Nat, NEW k \in 0..Len(t)
  PROVE  IfDepth(t, k) =< MIFLEVEL /\ DoDepth(t, k) =< MDOLEVEL
<1>1. CASE k = 0
  BY <1>1, DepthAtTop, LevelAssumption
<1>2. CASE k # 0
  <2>1. k \in 1..Len(t)
    BY <1>2
  <2> QED BY <2>1 DEF Shallow
<1> QED BY <1>1, <1>2

LEMMA SameLevels ==
  ASSUME Follows, niflevel = IfDepth(text, pos), ndolevel = DoDepth(text, pos),
         niflevel \in Int, ndolevel \in Nat, niflevel' \in Int, ndolevel' \in Nat,
         IfDepth(text, pos') \in Nat, DoDepth(text, pos') \in Nat
  PROVE  niflevel' = IfDepth(text, pos') /\ ndolevel' = DoDepth(text, pos')
BY DEF Follows

\* A command that follows the text keeps its levels equal to the depths.
LEMMA FirstRunFollows ==
  ASSUME NEW i, Ready(i), Shallow, text \in Programs, TypeOK', text' = text,
         niflevel = IfDepth(text, pos), ndolevel = DoDepth(text, pos),
         nerr' = 0 => Follows, nerr' # 0 => UNCHANGED <<niflevel, ndolevel>>
  PROVE  /\ InBounds'
         /\ nerr' = 0 => niflevel' = IfDepth(text, pos') /\ ndolevel' = DoDepth(text, pos')
<1>1. /\ Len(text) \in Nat /\ WellFormed(text) /\ InBounds /\ niflevel \in Int
      /\ ndolevel \in Nat
  BY ReadyFacts DEF Ready
<1>2. niflevel' \in Int /\ ndolevel' \in Nat
  BY DEF TypeOK, CndTypeOK
<1>3. CASE nerr' # 0
  BY <1>1, <1>3 DEF InBounds
<1>4. CASE nerr' = 0
  <2>0. pos' \in 0..Len(text)
    BY DEF TypeOK, CndTypeOK
  <2>1. IfDepth(text, pos') \in Nat /\ DoDepth(text, pos') \in Nat
    BY <1>1, <2>0, DepthsNatural
  <2>2. IfDepth(text, pos') =< MIFLEVEL /\ DoDepth(text, pos') =< MDOLEVEL
    BY <1>1, <2>0, ShallowDepths
  <2>3. niflevel' = IfDepth(text, pos') /\ ndolevel' = DoDepth(text, pos')
    BY <1>1, <1>2, <1>4, <2>1, SameLevels
  <2> QED BY <2>2, <2>3 DEF InBounds
<1> QED BY <1>3, <1>4, <1>2
LEMMA FirstRunStep ==
  ASSUME WellWritten, Inv, FirstRun, TypeOK', [Next]_vars
  PROVE  FirstRun'
<1> SUFFICES ASSUME Shallow PROVE FirstRun'
  BY DEF FirstRun, Shallow
<1>1. /\ runs = 0 => niflevel = 0 /\ ndolevel = 0 /\ ~running
      /\ runs =< 1 => /\ InBounds
                      /\ Executing => /\ niflevel = IfDepth(text, pos)
                                      /\ ndolevel = DoDepth(text, pos)
  BY DEF FirstRun
<1>2. runs \in Nat /\ runs' \in Nat
  BY RunsAssumption DEF Inv, TypeOK
<1>3. ASSUME NEW program \in Programs, Macro(program) PROVE FirstRun'
  <2>1. /\ runs' = runs + 1 /\ pos' = 0 /\ niflevel' = niflevel /\ ndolevel' = ndolevel
    BY <1>3 DEF Macro, levels
  <2>2. runs' # 0 /\ (runs' =< 1 => runs = 0)
    BY <1>2, <2>1
  <2>3. runs = 0 => runs =< 1
    OBVIOUS
  <2> QED BY <1>1, <2>1, <2>2, <2>3, DepthAtTop DEF FirstRun, InBounds
<1>4. ASSUME Reading, runs' = runs, running' = running, text' = text,
             nerr' = 0 => Follows, nerr' # 0 => UNCHANGED <<niflevel, ndolevel>>
      PROVE  FirstRun'
  <2>1. CASE runs =< 1
    <3>1. Ready(pos + 1)
      BY <1>4, ReadingReady
    <3>2. text \in Programs
      <4>1. Len(<<>>) = 0
        OBVIOUS
      <4>2. pos \in 0..Len(text) /\ pos < Len(text) /\ text \in Programs \cup {<<>>}
        BY <1>4 DEF Inv, TypeOK, CndTypeOK, Reading
      <4>3. text # <<>>
        BY <4>1, <4>2
      <4> QED BY <4>2, <4>3
    <3>3. niflevel = IfDepth(text, pos) /\ ndolevel = DoDepth(text, pos)
      BY <1>1, <1>4, <2>1 DEF Reading, Executing
    <3>4. InBounds' /\ (nerr' = 0 => niflevel' = IfDepth(text, pos') /\ ndolevel' = DoDepth(text, pos'))
      BY <1>4, <3>1, <3>2, <3>3, FirstRunFollows
    <3> QED BY <1>1, <1>4, <2>1, <3>4 DEF FirstRun, Executing, Reading
  <2>2. CASE ~(runs =< 1)
    <3>1. ~(runs' =< 1) /\ runs' # 0
      BY <1>2, <1>4, <2>2
    <3> QED BY <3>1 DEF FirstRun
  <2> QED BY <2>1, <2>2
<1>5. CASE Conditional
  <2>1. Ready(pos + 1) /\ Word \in Cnd /\ xcndc(Word, pos + 1, 1)
    BY <1>5, ReadingReady DEF Conditional
  <2>2. Outcome /\ text' = text
    BY <2>1, ConditionalFollows DEF xcndc
  <2> QED BY <1>4, <1>5, <2>2 DEF Outcome, Conditional
<1>6. CASE Ordinary
  <2>1. Ready(pos + 1) /\ text' = text
    BY <1>6, ReadingReady DEF Ordinary
  <2> QED BY <1>4, <1>6, <2>1, OrdinaryFollows DEF Ordinary, levels
<1>7. CASE CloseMacro
  BY <1>1, <1>7 DEF CloseMacro, levels, FirstRun, InBounds, Executing
<1>8. CASE UNCHANGED vars
  BY <1>1, <1>8 DEF vars, levels, FirstRun, InBounds, Executing
<1> QED BY <1>3, <1>5, <1>6, <1>7, <1>8 DEF Next

\* The arrays of cnd.h are long enough for the first macro of a session, if it
\* keeps to the documented limits.  (For later ones they are not: what an error
\* or MACROQUIT leaves on the levels is never taken off them.)
THEOREM LimitsSuffice ==
  ASSUME WellWritten PROVE Spec => [](runs =< 1 => WithinLimits)
<1>1. Spec => []TypeOK
  BY TypeCorrect
<1>2. Init /\ TypeOK => Inv
  BY InvStarts DEF Inv
<1>3. Inv /\ TypeOK' /\ [Next]_vars => Inv'
  BY InvStep
<1>4. Init => FirstRun
  <2> SUFFICES ASSUME Init PROVE FirstRun
    OBVIOUS
  <2>1. niflevel = 0 /\ ndolevel = 0 /\ ~running
    BY DEF Init, CndInit
  <2> QED BY <2>1, LevelAssumption DEF FirstRun, InBounds, Executing
<1>5. Inv /\ FirstRun /\ TypeOK' /\ [Next]_vars => FirstRun'
  BY FirstRunStep
<1>6. FirstRun => (runs =< 1 => WithinLimits)
  BY DEF FirstRun, WithinLimits
<1> QED BY <1>1, <1>2, <1>3, <1>4, <1>5, <1>6, PTL DEF Spec
-----------------------------------------------------------------------------
(* The meaning of the macros.                                              *)

\* Meaning reads a text as this module does.
LEMMA SameWords ==
  /\ \A t, k, words : Meaning!Is(t, k, words) = Is(t, k, words)
  /\ \A t, p : Meaning!OpenIfs(t, p) = OpenIfs(t, p)
  /\ \A t, p : Meaning!OpenDos(t, p) = OpenDos(t, p)
  /\ \A t, i : Meaning!EndOf(t, i) = EndOf(t, i)
  /\ \A t, i, k : Meaning!NextBranch(t, i, k) = NextBranch(t, i, k)
  /\ \A s : Meaning!Innermost(s) = Innermost(s)
  /\ Meaning!Cnd = Cnd /\ Meaning!Commands = Commands
<1>1. \A t, k, words : Meaning!Is(t, k, words) = Is(t, k, words)
  BY DEF Meaning!Is, Is, Meaning!First, First
<1>2. /\ Meaning!IfWords = IfWords /\ Meaning!DoWords = DoWords
      /\ Meaning!Branches = Branches /\ Meaning!Others = Others
  BY DEF Meaning!IfWords, IfWords, Meaning!DoWords, DoWords, Meaning!Branches, Branches,
         Meaning!Others, Others
<1>3. \A t, n, words : Meaning!Lines(t, n, words) = Lines(t, n, words)
  BY <1>1 DEF Meaning!Lines, Lines
<1>0. \A s : Meaning!Cardinality(s) = Cardinality(s)
  BY DEF Meaning!Cardinality, Cardinality
<1>4. \A t, n : /\ Meaning!IfDepth(t, n) = IfDepth(t, n)
                /\ Meaning!DoDepth(t, n) = DoDepth(t, n)
  BY <1>0, <1>2, <1>3 DEF Meaning!IfDepth, Meaning!DoDepth, IfDepth, DoDepth
<1>5. \A t, a, b : Meaning!Balanced(t, a, b) = Balanced(t, a, b)
  BY <1>4 DEF Meaning!Balanced, Balanced
<1>6. \A t, i, j : /\ Meaning!MatchIf(t, i, j) = MatchIf(t, i, j)
                   /\ Meaning!MatchDo(t, i, j) = MatchDo(t, i, j)
  BY <1>1, <1>2, <1>5 DEF Meaning!MatchIf, Meaning!MatchDo, MatchIf, MatchDo
<1>7. \A t, k, i, j : Meaning!BranchOf(t, k, i, j) = BranchOf(t, k, i, j)
  BY <1>1, <1>2, <1>5, <1>6 DEF Meaning!BranchOf, BranchOf
<1>8. \A t, i : Meaning!EndOf(t, i) = EndOf(t, i)
  BY <1>6 DEF Meaning!EndOf, EndOf
<1>9. \A t, p : /\ Meaning!OpenIfs(t, p) = OpenIfs(t, p)
                /\ Meaning!OpenDos(t, p) = OpenDos(t, p)
  BY <1>2, <1>3, <1>8 DEF Meaning!OpenIfs, OpenIfs, Meaning!OpenDos, OpenDos
<1>10. \A s : Meaning!Innermost(s) = Innermost(s)
  BY DEF Meaning!Innermost, Innermost
<1>11. \A t, i, k : Meaning!NextBranch(t, i, k) = NextBranch(t, i, k)
  <2> SUFFICES ASSUME NEW t, NEW i, NEW k
               PROVE  Meaning!NextBranch(t, i, k) = NextBranch(t, i, k)
    OBVIOUS
  <2>1. {m \in (k + 1)..Len(t) : m = EndOf(t, i) \/ BranchOf(t, m, i, EndOf(t, i))}
          = {m \in (k + 1)..Len(t) : \/ m = Meaning!EndOf(t, i)
                                    \/ Meaning!BranchOf(t, m, i, Meaning!EndOf(t, i))}
    BY <1>7, <1>8
  <2>2. \A s : Meaning!Least(s) = Least(s)
    BY DEF Meaning!Least, Least
  <2> QED BY <2>1, <2>2 DEF Meaning!NextBranch, NextBranch
<1>12. Meaning!Cnd = Cnd /\ Meaning!Commands = Commands
  BY <1>2 DEF Meaning!Cnd, Cnd, Meaning!Commands, Commands
<1> QED BY <1>1, <1>8, <1>9, <1>10, <1>11, <1>12

-----------------------------------------------------------------------------
(* What a step leaves in the slots.                                        *)

\* Levels and depths.
LEMMA SameRise ==
  ASSUME NEW a \in Int, NEW b \in Int, NEW c \in Int, NEW e \in Int, b - a = e - c
  PROVE  b - e = a - c
OBVIOUS

LEMMA InSlots ==
  ASSUME NEW level \in Int, NEW depth \in Nat, NEW d \in Nat \ {0}, d =< depth, level >= depth
  PROVE  level - (depth - d) \in 1..level
OBVIOUS

LEMMA SlotMoves ==
  ASSUME NEW a \in Int, NEW b \in Int, NEW c \in Int, NEW e \in Int, b - e = a - c, NEW d \in Int
  PROVE  b - (e - d) = a - (c - d)
OBVIOUS

LEMMA OtherSlot ==
  ASSUME NEW level \in Int, NEW depth \in Int, NEW d \in Int
  PROVE  level - (depth - d) = level <=> d = depth
OBVIOUS

\* A step inside a well-written macro.
Moves(i) == /\ Ready(i) /\ text' = text /\ Executing' /\ InBounds' /\ TypeOK'
            /\ Follows

\* What such a step keeps: the distance between the levels and the depths.
LEMMA MovesFacts ==
  ASSUME NEW i, Moves(i)
  PROVE  /\ WellFormed(text) /\ Plain(text) /\ Len(text) \in Nat
         /\ pos \in 0..Len(text) /\ pos' \in 0..Len(text) /\ i \in 1..Len(text) /\ i = pos + 1
         /\ Executing /\ Executing' /\ text' = text
         /\ niflevel \in Nat /\ niflevel' \in Int /\ ndolevel \in Nat /\ ndolevel' \in Nat
         /\ niflevel =< MIFLEVEL /\ ndolevel =< MDOLEVEL
         /\ niflevel' =< MIFLEVEL /\ ndolevel' =< MDOLEVEL
         /\ MIFLEVEL \in Nat /\ MDOLEVEL \in Nat
         /\ niflevel >= IfDepth(text, pos) /\ ndolevel >= DoDepth(text, pos)
         /\ niflevel' - IfDepth(text, pos') = niflevel - IfDepth(text, pos)
         /\ ndolevel' - DoDepth(text, pos') = ndolevel - DoDepth(text, pos)
         /\ niflevel' >= IfDepth(text, pos') /\ ndolevel' >= DoDepth(text, pos')
         /\ IfDepth(text, pos) \in Nat /\ DoDepth(text, pos) \in Nat
         /\ IfDepth(text, pos') \in Nat /\ DoDepth(text, pos') \in Nat
         /\ lifresp \in [1..MIFLEVEL -> BOOLEAN] /\ lifresp' \in [1..MIFLEVEL -> BOOLEAN]
         /\ do_token \in [1..MDOLEVEL -> 0..MaxItems] /\ do_token' \in [1..MDOLEVEL -> 0..MaxItems]
<1>1. Ready(i) /\ Follows /\ TypeOK' /\ Executing' /\ InBounds' /\ text' = text
  BY DEF Moves
<1>2. /\ WellFormed(text) /\ Plain(text) /\ Len(text) \in Nat /\ Executing /\ InBounds /\ CndTypeOK
      /\ i \in 1..Len(text) /\ i - 1 = pos /\ i \in Nat /\ Nested
      /\ niflevel >= IfDepth(text, i - 1) /\ ndolevel >= DoDepth(text, i - 1)
  BY <1>1, ReadyFacts DEF Ready, Inv
<1>3. /\ pos \in 0..Len(text) /\ pos' \in 0..Len(text) /\ i = pos + 1
      /\ niflevel \in Nat /\ niflevel' \in Int /\ ndolevel \in Nat /\ ndolevel' \in Nat
  BY <1>1, <1>2 DEF TypeOK, CndTypeOK, Nested
<1>4. /\ IfDepth(text, pos) \in Nat /\ DoDepth(text, pos) \in Nat
      /\ IfDepth(text, pos') \in Nat /\ DoDepth(text, pos') \in Nat
  BY <1>2, <1>3, DepthsNatural
<1>5. /\ niflevel' - IfDepth(text, pos') = niflevel - IfDepth(text, pos)
      /\ ndolevel' - DoDepth(text, pos') = ndolevel - DoDepth(text, pos)
  <2>1. /\ niflevel' - niflevel = IfDepth(text, pos') - IfDepth(text, pos)
        /\ ndolevel' - ndolevel = DoDepth(text, pos') - DoDepth(text, pos)
    BY <1>1 DEF Follows
  <2>2. /\ niflevel' \in Int /\ niflevel \in Int /\ ndolevel' \in Int /\ ndolevel \in Int
        /\ IfDepth(text, pos) \in Int /\ DoDepth(text, pos) \in Int
        /\ IfDepth(text, pos') \in Int /\ DoDepth(text, pos') \in Int
    BY <1>3, <1>4
  <2> QED BY <2>1, <2>2, SameRise
<1>6. /\ niflevel =< MIFLEVEL /\ ndolevel =< MDOLEVEL
      /\ niflevel' =< MIFLEVEL /\ ndolevel' =< MDOLEVEL
  BY <1>1, <1>2 DEF InBounds
<1>7. /\ lifresp \in [1..MIFLEVEL -> BOOLEAN] /\ lifresp' \in [1..MIFLEVEL -> BOOLEAN]
      /\ do_token \in [1..MDOLEVEL -> 0..MaxItems] /\ do_token' \in [1..MDOLEVEL -> 0..MaxItems]
  BY <1>1, <1>2 DEF TypeOK, CndTypeOK
<1>8. niflevel' >= IfDepth(text, pos') /\ ndolevel' >= DoDepth(text, pos')
  <2>1. \A a, b, c, e \in Int : b - e = a - c /\ a >= c => b >= e
    OBVIOUS
  <2>2. /\ niflevel' \in Int /\ niflevel \in Int /\ ndolevel' \in Int /\ ndolevel \in Int
        /\ IfDepth(text, pos) \in Int /\ DoDepth(text, pos) \in Int
        /\ IfDepth(text, pos') \in Int /\ DoDepth(text, pos') \in Int
        /\ niflevel >= IfDepth(text, pos) /\ ndolevel >= DoDepth(text, pos)
    BY <1>2, <1>3, <1>4
  <2> QED BY <1>5, <2>1, <2>2
<1> QED BY <1>1, <1>2, <1>3, <1>4, <1>5, <1>6, <1>7, <1>8, LevelAssumption

\* The slots of what is open, before the step and after it.
LEMMA SlotsAre ==
  ASSUME NEW i, Moves(i)
  PROVE  /\ \A d \in OpenIfs(text, pos) :
              /\ IfSlot(d) = niflevel - (IfDepth(text, pos) - IfDepth(text, d))
              /\ IfSlot(d) \in 1..niflevel
              /\ d \in 1..pos /\ IfDepth(text, d) \in Nat
         /\ \A d \in OpenIfs(text, pos') :
              /\ IfSlot(d)' = niflevel' - (IfDepth(text, pos') - IfDepth(text, d))
              /\ IfSlot(d)' \in 1..niflevel'
              /\ IfDepth(text, d) \in Nat
         /\ \A d \in OpenDos(text, pos) :
              /\ DoSlot(d) = ndolevel - (DoDepth(text, pos) - DoDepth(text, d))
              /\ DoSlot(d) \in 1..ndolevel
              /\ d \in 1..pos /\ DoDepth(text, d) \in Nat
         /\ \A d \in OpenDos(text, pos') :
              /\ DoSlot(d)' = ndolevel' - (DoDepth(text, pos') - DoDepth(text, d))
              /\ DoSlot(d)' \in 1..ndolevel'
              /\ DoDepth(text, d) \in Nat
<1> DEFINE p == pos
           q == pos'
<1>1. /\ WellFormed(text) /\ Plain(text) /\ Len(text) \in Nat
      /\ p \in 0..Len(text) /\ q \in 0..Len(text) /\ text' = text
      /\ niflevel \in Nat /\ niflevel' \in Int /\ ndolevel \in Nat /\ ndolevel' \in Nat
      /\ niflevel >= IfDepth(text, p) /\ ndolevel >= DoDepth(text, p)
      /\ niflevel' - IfDepth(text, q) = niflevel - IfDepth(text, p)
      /\ ndolevel' - DoDepth(text, q) = ndolevel - DoDepth(text, p)
      /\ IfDepth(text, p) \in Nat /\ DoDepth(text, p) \in Nat
      /\ IfDepth(text, q) \in Nat /\ DoDepth(text, q) \in Nat
      /\ niflevel' >= IfDepth(text, q) /\ ndolevel' >= DoDepth(text, q)
  BY MovesFacts
<1>2. /\ \A d : IfSlot(d) = niflevel - Cardinality({k \in OpenIfs(text, p) : k > d})
      /\ \A d : IfSlot(d)' = niflevel' - Cardinality({k \in OpenIfs(text, q) : k > d})
      /\ \A d : DoSlot(d) = ndolevel - Cardinality({k \in OpenDos(text, p) : k > d})
      /\ \A d : DoSlot(d)' = ndolevel' - Cardinality({k \in OpenDos(text, q) : k > d})
  BY <1>1 DEF IfSlot, DoSlot
<1> HIDE DEF p, q
<1>3. /\ \A d \in OpenIfs(text, p) : IfSlot(d) = niflevel - (IfDepth(text, p) - IfDepth(text, d))
      /\ \A d \in OpenDos(text, p) : DoSlot(d) = ndolevel - (DoDepth(text, p) - DoDepth(text, d))
  BY <1>1, <1>2, OpenIf, OpenDo
<1>4. /\ \A d \in OpenIfs(text, q) : IfSlot(d)' = niflevel' - (IfDepth(text, q) - IfDepth(text, d))
      /\ \A d \in OpenDos(text, q) : DoSlot(d)' = ndolevel' - (DoDepth(text, q) - DoDepth(text, d))
  BY <1>1, <1>2, OpenIf, OpenDo
<1>5. ASSUME NEW d \in OpenIfs(text, p)
      PROVE  IfSlot(d) \in 1..niflevel /\ d \in 1..p /\ IfDepth(text, d) \in Nat
  <2>1. d \in 1..p /\ IfDepth(text, d) \in Nat \ {0} /\ IfDepth(text, p) >= IfDepth(text, d)
    BY <1>1, OpenIf
  <2>2. niflevel \in Int /\ niflevel >= IfDepth(text, p) /\ IfDepth(text, p) \in Nat
    BY <1>1
  <2>3. niflevel - (IfDepth(text, p) - IfDepth(text, d)) \in 1..niflevel
    BY <2>1, <2>2, InSlots
  <2> QED BY <1>3, <2>1, <2>3
<1>6. ASSUME NEW d \in OpenIfs(text, q)
      PROVE  IfSlot(d)' \in 1..niflevel' /\ IfDepth(text, d) \in Nat
  <2>1. IfDepth(text, d) \in Nat \ {0} /\ IfDepth(text, q) >= IfDepth(text, d)
    BY <1>1, OpenIf
  <2>2. niflevel' \in Int /\ niflevel' >= IfDepth(text, q) /\ IfDepth(text, q) \in Nat
    BY <1>1
  <2>3. niflevel' - (IfDepth(text, q) - IfDepth(text, d)) \in 1..niflevel'
    BY <2>1, <2>2, InSlots
  <2> QED BY <1>4, <2>1, <2>3
<1>7. ASSUME NEW d \in OpenDos(text, p)
      PROVE  DoSlot(d) \in 1..ndolevel /\ d \in 1..p /\ DoDepth(text, d) \in Nat
  <2>1. d \in 1..p /\ DoDepth(text, d) \in Nat \ {0} /\ DoDepth(text, p) >= DoDepth(text, d)
    BY <1>1, OpenDo
  <2>2. ndolevel \in Int /\ ndolevel >= DoDepth(text, p) /\ DoDepth(text, p) \in Nat
    BY <1>1
  <2>3. ndolevel - (DoDepth(text, p) - DoDepth(text, d)) \in 1..ndolevel
    BY <2>1, <2>2, InSlots
  <2> QED BY <1>3, <2>1, <2>3
<1>8. ASSUME NEW d \in OpenDos(text, q)
      PROVE  DoSlot(d)' \in 1..ndolevel' /\ DoDepth(text, d) \in Nat
  <2>1. DoDepth(text, d) \in Nat \ {0} /\ DoDepth(text, q) >= DoDepth(text, d)
    BY <1>1, OpenDo
  <2>2. ndolevel' \in Int /\ ndolevel' >= DoDepth(text, q) /\ DoDepth(text, q) \in Nat
    BY <1>1
  <2>3. ndolevel' - (DoDepth(text, q) - DoDepth(text, d)) \in 1..ndolevel'
    BY <2>1, <2>2, InSlots
  <2> QED BY <1>4, <2>1, <2>3
<1> QED BY <1>3, <1>4, <1>5, <1>6, <1>7, <1>8 DEF p, q

\* What stays open stays in its slot.
LEMMA SlotsStay ==
  ASSUME NEW i, Moves(i)
  PROVE  /\ \A d \in OpenIfs(text, pos) \cap OpenIfs(text, pos') :
              IfSlot(d)' = IfSlot(d) /\ IfSlot(d) \in 1..MIFLEVEL /\ IfSlot(d) \in 1..niflevel
         /\ \A d \in OpenDos(text, pos) \cap OpenDos(text, pos') :
              DoSlot(d)' = DoSlot(d) /\ DoSlot(d) \in 1..MDOLEVEL /\ DoSlot(d) \in 1..ndolevel
<1>1. /\ niflevel \in Int /\ niflevel' \in Int /\ ndolevel \in Int /\ ndolevel' \in Int
      /\ niflevel =< MIFLEVEL /\ ndolevel =< MDOLEVEL /\ MIFLEVEL \in Nat /\ MDOLEVEL \in Nat
      /\ niflevel' - IfDepth(text, pos') = niflevel - IfDepth(text, pos)
      /\ ndolevel' - DoDepth(text, pos') = ndolevel - DoDepth(text, pos)
      /\ IfDepth(text, pos) \in Int /\ DoDepth(text, pos) \in Int
      /\ IfDepth(text, pos') \in Int /\ DoDepth(text, pos') \in Int
  BY MovesFacts
<1>2. ASSUME NEW d \in OpenIfs(text, pos) \cap OpenIfs(text, pos')
      PROVE  IfSlot(d)' = IfSlot(d) /\ IfSlot(d) \in 1..MIFLEVEL /\ IfSlot(d) \in 1..niflevel
  <2>1. /\ IfSlot(d) = niflevel - (IfDepth(text, pos) - IfDepth(text, d))
        /\ IfSlot(d)' = niflevel' - (IfDepth(text, pos') - IfDepth(text, d))
        /\ IfSlot(d) \in 1..niflevel /\ IfDepth(text, d) \in Int
    BY SlotsAre
  <2>2. IfSlot(d)' = IfSlot(d)
    BY <1>1, <2>1, SlotMoves
  <2> QED BY <1>1, <2>1, <2>2
<1>3. ASSUME NEW d \in OpenDos(text, pos) \cap OpenDos(text, pos')
      PROVE  DoSlot(d)' = DoSlot(d) /\ DoSlot(d) \in 1..MDOLEVEL /\ DoSlot(d) \in 1..ndolevel
  <2>1. /\ DoSlot(d) = ndolevel - (DoDepth(text, pos) - DoDepth(text, d))
        /\ DoSlot(d)' = ndolevel' - (DoDepth(text, pos') - DoDepth(text, d))
        /\ DoSlot(d) \in 1..ndolevel /\ DoDepth(text, d) \in Int
    BY SlotsAre
  <2>2. DoSlot(d)' = DoSlot(d)
    BY <1>1, <2>1, SlotMoves
  <2> QED BY <1>1, <2>1, <2>2
<1> QED BY <1>2, <1>3

\* Clauses that stay open remember what they did.
LEMMA TakenKept ==
  ASSUME NEW i, Moves(i), OpenIfs(text, pos') \subseteq OpenIfs(text, pos),
         \A l \in 1..niflevel : lifresp'[l] = lifresp[l]
  PROVE  Taken' = Taken \cap OpenIfs(text, pos')
<1>1. Executing /\ Executing' /\ text' = text
  BY MovesFacts
<1>2. ASSUME NEW d \in OpenIfs(text, pos') PROVE lifresp'[IfSlot(d)'] = lifresp[IfSlot(d)]
  <2>1. /\ IfSlot(d) = niflevel - (IfDepth(text, pos) - IfDepth(text, d))
        /\ IfSlot(d)' = niflevel' - (IfDepth(text, pos') - IfDepth(text, d))
        /\ IfSlot(d) \in 1..niflevel /\ IfDepth(text, d) \in Nat
    BY SlotsAre
  <2>2. IfSlot(d)' = IfSlot(d)
    BY <2>1, SlotsStay
  <2> QED BY <2>1, <2>2
<1>3. Taken = {d \in OpenIfs(text, pos) : lifresp[IfSlot(d)]}
  BY <1>1 DEF Taken
<1>4. Taken' = {d \in OpenIfs(text, pos') : lifresp'[IfSlot(d)']}
  BY <1>1 DEF Taken
<1> QED BY <1>2, <1>3, <1>4

\* ... and the innermost one what it does now.
LEMMA TakenSet ==
  ASSUME NEW i, Moves(i), NEW a \in OpenIfs(text, pos'), NEW r \in BOOLEAN,
         OpenIfs(text, pos') \subseteq OpenIfs(text, pos) \cup {a}, a \notin Taken,
         IfDepth(text, a) = IfDepth(text, pos'), lifresp' = [lifresp EXCEPT ![niflevel'] = r]
  PROVE  Taken' = (Taken \cup (IF r THEN {a} ELSE {})) \cap OpenIfs(text, pos')
<1>1. Executing /\ Executing' /\ text' = text
  BY MovesFacts
<1>2. ASSUME NEW d \in OpenIfs(text, pos'), d # a
      PROVE  lifresp'[IfSlot(d)'] = lifresp[IfSlot(d)] /\ d \in OpenIfs(text, pos)
  <2>1. /\ IfSlot(d) = niflevel - (IfDepth(text, pos) - IfDepth(text, d))
        /\ IfSlot(d)' = niflevel' - (IfDepth(text, pos') - IfDepth(text, d))
        /\ IfSlot(d) \in 1..niflevel /\ IfDepth(text, d) \in Nat
    BY <1>2, SlotsAre
  <2>2. IfSlot(d)' = IfSlot(d) /\ IfSlot(d) \in 1..MIFLEVEL
    BY <1>2, SlotsStay
  <2>3. IfDepth(text, d) # IfDepth(text, a)
    BY <1>2, MovesFacts, OpenDeeper
  <2>4. IfSlot(d)' # niflevel'
    <3>1. niflevel' \in Int /\ IfDepth(text, pos') \in Int /\ IfDepth(text, d) \in Int
      BY <2>1, MovesFacts
    <3> QED BY <2>1, <2>3, <3>1, OtherSlot
  <2>5. lifresp \in [1..MIFLEVEL -> BOOLEAN]
    BY MovesFacts
  <2> QED BY <1>2, <2>2, <2>4, <2>5
<1>3. lifresp'[IfSlot(a)'] = r
  <2>1. /\ IfSlot(a)' = niflevel' - (IfDepth(text, pos') - IfDepth(text, a))
        /\ IfSlot(a)' \in 1..niflevel' /\ IfDepth(text, a) \in Nat
    BY SlotsAre
  <2>2. IfSlot(a)' = niflevel' /\ niflevel' \in 1..MIFLEVEL
    BY <2>1, MovesFacts
  <2>3. lifresp \in [1..MIFLEVEL -> BOOLEAN]
    BY MovesFacts
  <2> QED BY <2>2, <2>3
<1>4. Taken = {d \in OpenIfs(text, pos) : lifresp[IfSlot(d)]}
  BY <1>1 DEF Taken
<1>5. Taken' = {d \in OpenIfs(text, pos') : lifresp'[IfSlot(d)']}
  BY <1>1 DEF Taken
<1> QED BY <1>2, <1>3, <1>4, <1>5

\* The lists of the DO loops among some that are open.
Confined(lists, p) == [d \in (DOMAIN lists) \cap OpenDos(text, p) |-> lists[d]]
\* The lists, with n items left in that of loop a.
Holding(a, n) == [d \in (DOMAIN Left) \cup {a} |-> IF d = a THEN n ELSE Left[d]]

\* The lists before a step, and after it.
LEMMA LeftIs ==
  ASSUME NEW i, Moves(i)
  PROVE  /\ DOMAIN Left = {k \in OpenDos(text, pos) : ~Is(text, k, {"WHILE"})}
         /\ \A d \in DOMAIN Left : Left[d] = do_token[DoSlot(d)]
         /\ Left' = [d \in {k \in OpenDos(text, pos') : ~Is(text, k, {"WHILE"})} |->
                       do_token'[DoSlot(d)']]
<1>1. Executing /\ Executing' /\ text' = text
  BY MovesFacts
<1>2. Left = [d \in {k \in OpenDos(text, pos) : ~Is(text, k, {"WHILE"})} |-> do_token[DoSlot(d)]]
  BY <1>1 DEF Left
<1>3. Left' = [d \in {k \in OpenDos(text, pos') : ~Is(text, k, {"WHILE"})} |->
                 do_token'[DoSlot(d)']]
  BY <1>1 DEF Left
<1> QED BY <1>2, <1>3

\* Loops that stay open keep their lists.
LEMMA LeftKept ==
  ASSUME NEW i, Moves(i), OpenDos(text, pos') \subseteq OpenDos(text, pos),
         \A l \in 1..ndolevel : do_token'[l] = do_token[l]
  PROVE  Left' = Confined(Left, pos')
<1> DEFINE D == {k \in OpenDos(text, pos') : ~Is(text, k, {"WHILE"})}
<1>1. (DOMAIN Left) \cap OpenDos(text, pos') = D
  BY LeftIs
<1>2. ASSUME NEW d \in D PROVE do_token'[DoSlot(d)'] = Left[d]
  <2>1. DoSlot(d)' = DoSlot(d) /\ DoSlot(d) \in 1..ndolevel
    BY SlotsStay
  <2>2. Left[d] = do_token[DoSlot(d)]
    BY LeftIs
  <2> QED BY <2>1, <2>2
<1>3. Left' = [d \in D |-> do_token'[DoSlot(d)']]
  BY LeftIs
<1> HIDE DEF D
<1> QED BY <1>1, <1>2, <1>3 DEF Confined

\* A WHILE loop that is begun has no list, and the others keep theirs.
LEMMA LeftWhile ==
  ASSUME NEW i, Moves(i), NEW a, Is(text, a, {"WHILE"}),
         OpenDos(text, pos') \subseteq OpenDos(text, pos) \cup {a},
         \A l \in 1..ndolevel : do_token'[l] = do_token[l]
  PROVE  Left' = Confined(Left, pos')
<1> DEFINE D == {k \in OpenDos(text, pos') : ~Is(text, k, {"WHILE"})}
<1>1. (DOMAIN Left) \cap OpenDos(text, pos') = D
  BY LeftIs
<1>2. ASSUME NEW d \in D PROVE do_token'[DoSlot(d)'] = Left[d]
  <2>1. DoSlot(d)' = DoSlot(d) /\ DoSlot(d) \in 1..ndolevel
    BY SlotsStay
  <2>2. Left[d] = do_token[DoSlot(d)]
    BY LeftIs
  <2> QED BY <2>1, <2>2
<1>3. Left' = [d \in D |-> do_token'[DoSlot(d)']]
  BY LeftIs
<1> HIDE DEF D
<1> QED BY <1>1, <1>2, <1>3 DEF Confined

\* ... and one of them has another item taken off its list, or a new list.
LEMMA LeftSet ==
  ASSUME NEW i, Moves(i), NEW a \in OpenDos(text, pos'), NEW n \in 0..MaxItems,
         OpenDos(text, pos') \subseteq OpenDos(text, pos) \cup {a},
         ~Is(text, a, {"WHILE"}), DoDepth(text, a) = DoDepth(text, pos'),
         do_token' = [do_token EXCEPT ![ndolevel'] = n]
  PROVE  Left' = Confined(Holding(a, n), pos')
<1> DEFINE D == {k \in OpenDos(text, pos') : ~Is(text, k, {"WHILE"})}
           H == Holding(a, n)
<1>1. (DOMAIN H) \cap OpenDos(text, pos') = D
  BY LeftIs DEF Holding
<1>2. ASSUME NEW d \in D, d # a PROVE do_token'[DoSlot(d)'] = Left[d]
  <2>1. DoSlot(d)' = DoSlot(d) /\ DoSlot(d) \in 1..MDOLEVEL
    BY <1>2, SlotsStay
  <2>2. Left[d] = do_token[DoSlot(d)]
    BY <1>2, LeftIs
  <2>3. DoDepth(text, d) # DoDepth(text, a)
    BY <1>2, MovesFacts, OpenDeeper
  <2>4. DoSlot(d)' # ndolevel'
    <3>1. /\ DoSlot(d)' = ndolevel' - (DoDepth(text, pos') - DoDepth(text, d))
          /\ DoDepth(text, d) \in Int
      BY <1>2, SlotsAre
    <3>2. ndolevel' \in Int /\ DoDepth(text, pos') \in Int
      BY MovesFacts
    <3> QED BY <2>3, <3>1, <3>2, OtherSlot
  <2>5. do_token \in [1..MDOLEVEL -> 0..MaxItems]
    BY MovesFacts
  <2> QED BY <2>1, <2>2, <2>4, <2>5
<1>3. do_token'[DoSlot(a)'] = n
  <2>1. /\ DoSlot(a)' = ndolevel' - (DoDepth(text, pos') - DoDepth(text, a))
        /\ DoSlot(a)' \in 1..ndolevel' /\ DoDepth(text, a) \in Int
    BY SlotsAre
  <2>2. /\ ndolevel' \in Int /\ DoDepth(text, pos') \in Int /\ ndolevel' =< MDOLEVEL
        /\ MDOLEVEL \in Nat /\ do_token \in [1..MDOLEVEL -> 0..MaxItems]
    BY MovesFacts
  <2>3. DoSlot(a)' = ndolevel'
    BY <2>1, <2>2, OtherSlot
  <2>4. ndolevel' \in 1..MDOLEVEL
    BY <2>1, <2>2, <2>3
  <2> QED BY <2>2, <2>3, <2>4
<1>4. \A d \in D : H[d] = IF d = a THEN n ELSE Left[d]
  BY <1>1 DEF Holding
<1>5. Left' = [d \in D |-> do_token'[DoSlot(d)']]
  BY LeftIs
<1> HIDE DEF D, H
<1>6. Confined(H, pos') = [d \in D |-> H[d]]
  BY <1>1 DEF Confined
<1> QED BY <1>2, <1>3, <1>4, <1>5, <1>6 DEF H

-----------------------------------------------------------------------------
(* What a step means.                                                      *)

\* Continue and Stop of the structured program, in terms of the macro system.
Continues(k, newTaken, newLeft) ==
  /\ pos' + 1 = k
  /\ Taken' = newTaken \cap OpenIfs(text, k - 1)
  /\ Left' = Confined(newLeft, k - 1)
  /\ UNCHANGED <<text, Mode, runs>>

Stops == /\ Mode' = "stopping" /\ pos' + 1 = pos + 1 + 1
         /\ Taken' = {} /\ Left' = <<>>
         /\ UNCHANGED <<text, runs>>

\* They are the same.
LEMMA ContinueIs ==
  /\ \A k, newTaken, newLeft :
       Meaning!Continue(k, newTaken, newLeft) <=> Continues(k, newTaken, newLeft)
  /\ \A k : Meaning!Goto(k) <=> Continues(k, Taken, Left)
  /\ Meaning!Stop <=> Stops
  /\ \A a, n : Meaning!With(a, n) = Holding(a, n)
<1>1. ASSUME NEW k, NEW newTaken, NEW newLeft
      PROVE  Meaning!Continue(k, newTaken, newLeft) <=> Continues(k, newTaken, newLeft)
  <2>1. OpenIfs(text, k - 1) = Meaning!OpenIfs(text, k - 1) /\ OpenDos(text, k - 1) = Meaning!OpenDos(text, k - 1)
    BY SameWords
  <2> QED BY <2>1 DEF Meaning!Continue, Continues, Confined
<1>2. \A k : Meaning!Goto(k) <=> Continues(k, Taken, Left)
  BY <1>1 DEF Meaning!Goto
<1>3. Meaning!Stop <=> Stops
  BY DEF Meaning!Stop, Stops
<1>4. \A a, n : Meaning!With(a, n) = Holding(a, n)
  BY DEF Meaning!With, Holding
<1> QED BY <1>1, <1>2, <1>3, <1>4

-----------------------------------------------------------------------------
(* The statements, as the macro system runs them and as they are meant.     *)

\* What is in force where line i is about to run.
LEMMA MeaningAt ==
  ASSUME NEW i, Ready(i)
  PROVE  /\ Mode = "macro"
         /\ \A words : Meaning!At(words) <=> Word \in words
         /\ Meaning!Clause = Innermost(OpenIfs(text, pos))
         /\ Meaning!Loop = Innermost(OpenDos(text, pos))
         /\ \A d : Meaning!After(d) = EndOf(text, d) + 1
         /\ \A words : Is(text, i, words) <=> Word \in words
         /\ Word \in Commands /\ i = pos + 1 /\ running
<1>1. /\ Executing /\ i \in 1..Len(text) /\ i - 1 = pos /\ i \in Nat /\ Len(text) \in Nat
      /\ Word = First(text[i]) /\ Typed(i)
  BY ReadyFacts
<1>2. i = pos + 1 /\ pos \in Nat /\ running
  BY <1>1 DEF Ready, Reading
<1>3. Mode = "macro"
  BY <1>1, <1>2 DEF Mode
<1>4. \A words : Is(text, i, words) <=> Word \in words
  BY <1>1 DEF Is
<1>5. \A words : Meaning!At(words) <=> Word \in words
  <2>1. pos + 1 =< Len(text)
    BY <1>1, <1>2
  <2> QED BY <1>2, <1>3, <1>4, <2>1, SameWords DEF Meaning!At
<1>6. (pos + 1) - 1 = pos
  BY <1>2
<1>7. /\ Meaning!Clause = Innermost(OpenIfs(text, pos))
      /\ Meaning!Loop = Innermost(OpenDos(text, pos))
  BY <1>6, SameWords DEF Meaning!Clause, Meaning!Loop
<1>8. \A d : Meaning!After(d) = EndOf(text, d) + 1
  BY SameWords DEF Meaning!After
<1>9. Word \in Commands
  <2>1. text \in Programs \cup {<<>>}
    BY DEF Ready, Inv, TypeOK
  <2>2. text \in Seq({<<word>> : word \in Commands})
    BY <2>1, ProgramType
  <2>3. text[i] \in {<<word>> : word \in Commands}
    BY <1>1, <2>2
  <2> QED BY <1>1, <2>3 DEF First
<1> QED BY <1>2, <1>3, <1>4, <1>5, <1>7, <1>8, <1>9

\* A step inside the macro goes on at the line that is read next.
LEMMA MoveContinues ==
  ASSUME NEW i, Moves(i), UNCHANGED <<running, runs>>, NEW newTaken, NEW newLeft,
         Taken' = newTaken \cap OpenIfs(text, pos'), Left' = Confined(newLeft, pos'),
         NEW k, pos' + 1 = k
  PROVE  Meaning!Continue(k, newTaken, newLeft)
<1>1. Executing /\ Executing' /\ text' = text /\ pos' \in Nat
  BY MovesFacts
<1>2. Mode' = Mode
  BY <1>1 DEF Mode
<1>3. k - 1 = pos'
  BY <1>1
<1> QED BY <1>1, <1>2, <1>3, ContinueIs DEF Continues

\* An error, and MACROQUIT, stop the macro.
LEMMA ErrorStops ==
  ASSUME NEW i, Ready(i), text' = text, UNCHANGED <<running, runs>>, pos' = i,
         nerr' # 0 \/ ~macro_active'
  PROVE  Meaning!Stop
<1>1. running /\ i = pos + 1
  BY MeaningAt
<1>2. ~Executing' /\ running'
  BY <1>1 DEF Executing
<1>3. Mode' = "stopping" /\ Taken' = {} /\ Left' = <<>>
  BY <1>2 DEF Mode, Taken, Left
<1> QED BY <1>1, <1>3, ContinueIs DEF Stops

\* As an error does in every statement but DO, which is given a list first.
LEMMA ErrorFails ==
  ASSUME NEW i, Ready(i), text' = text, UNCHANGED <<running, runs>>, pos' = i,
         nerr' # 0 \/ ~macro_active', Word \notin {"DO", "DOLIST"},
         asked' = asked, truth' \in {truth, "ERROR"}
  PROVE  Meaning!Failure
<1>1. Meaning!Stop
  BY ErrorStops
<1>2. Meaning!At(Meaning!Commands \ {"DO", "DOLIST"})
  <2>1. Word \in Commands \ {"DO", "DOLIST"}
    BY MeaningAt
  <2> QED BY <2>1, MeaningAt, SameWords
<1> QED BY <1>1, <1>2 DEF Meaning!Failure

\* A conditional command of a well-written macro runs, and stays in the slots.
Runs(i) == /\ Ready(i) /\ text' = text /\ UNCHANGED <<running, runs, macro_active>>
           /\ TypeOK' /\ InBounds' /\ Outcome

\* Without an error it is a step inside the macro.
LEMMA RunsMoves ==
  ASSUME NEW i, Runs(i), nerr' = 0
  PROVE  Moves(i)
<1>1. Ready(i) /\ Follows /\ text' = text /\ UNCHANGED <<running, macro_active>> /\ TypeOK' /\ InBounds'
  BY DEF Runs, Outcome
<1>2. running /\ macro_active
  BY <1>1 DEF Ready, Reading
<1>3. Executing'
  BY <1>1, <1>2 DEF Executing
<1> QED BY <1>1, <1>3 DEF Moves

\* The branch that begins at line i runs, or is searched past.
LEMMA BranchMoves ==
  ASSUME NEW i, Moves(i), NEW a \in 1..Len(text), NEW b \in 1..Len(text), Begins(text, i, a, b),
         pos' = i \/ pos' = EndIf(text, i) - 1
  PROVE  /\ OpenIfs(text, pos') \subseteq OpenIfs(text, pos) \cup {a}
         /\ OpenDos(text, pos') \subseteq OpenDos(text, pos)
         /\ a \in OpenIfs(text, pos') /\ IfDepth(text, a) = IfDepth(text, pos')
         /\ i # a => a \in OpenIfs(text, pos) /\ IfDepth(text, pos) = IfDepth(text, a)
         /\ i = a => a \notin OpenIfs(text, pos)
<1>1. /\ WellFormed(text) /\ Plain(text) /\ Len(text) \in Nat /\ i \in 1..Len(text) /\ i = pos + 1
      /\ i - 1 = pos
  BY MovesFacts
<1>2. /\ i \in a..(b - 1) /\ IfDepth(text, i) = IfDepth(text, a) /\ DoDepth(text, i) = DoDepth(text, a)
  BY <1>1, BranchDepths
<1>3. pos' \in i..(b - 1) /\ IfDepth(text, pos') = IfDepth(text, a) /\ DoDepth(text, pos') = DoDepth(text, a)
  <2>1. CASE pos' = i
    BY <1>2, <2>1
  <2>2. CASE pos' = EndIf(text, i) - 1
    <3>1. /\ EndIf(text, i) \in (i + 1)..b
          /\ IfDepth(text, EndIf(text, i) - 1) = IfDepth(text, i)
          /\ DoDepth(text, EndIf(text, i) - 1) = DoDepth(text, i)
      BY <1>1, SearchForBranch
    <3>2. EndIf(text, i) - 1 \in i..(b - 1)
      BY <1>1, <3>1
    <3> QED BY <1>2, <2>2, <3>1, <3>2
  <2> QED BY <2>1, <2>2
<1> QED BY <1>1, <1>3, OpenInClause

\* IF
LEMMA IfMeans ==
  ASSUME NEW i, Runs(i), Word = "IF", NEW r \in Results, xif(i, r)
  PROVE  Meaning!If \/ Meaning!Failure
<1>1. /\ Ready(i) /\ text' = text /\ UNCHANGED <<running, runs>> /\ nerr' \in {0, 1}
      /\ WellFormed(text) /\ Plain(text) /\ Len(text) \in Nat /\ i \in 1..Len(text) /\ i = pos + 1
  BY ReadyFacts, MeaningAt DEF Runs, Ready, TypeOK, CndTypeOK
<1>2. truth' = r /\ asked' = asked /\ Meaning!At({"IF"})
  BY <1>1, MeaningAt DEF xif, Evaluate
<1>3. PICK b \in 1..Len(text) : MatchIf(text, i, b)
  <2>1. Is(text, i, IfWords)
    BY <1>1, MeaningAt DEF IfWords
  <2> QED BY <1>1, <2>1 DEF WellFormed
<1>4. Begins(text, i, i, b)
  BY <1>3 DEF Begins
<1>5. CASE r = "ERROR"
  <2>1. pos' = i /\ nerr' = 1 /\ Word \notin {"DO", "DOLIST"}
    BY <1>5 DEF xif, Fail, Raise
  <2>2. nerr' # 0
    BY <2>1
  <2> QED BY <1>1, <1>2, <1>5, <2>1, <2>2, ErrorFails
<1>6. CASE r # "ERROR"
  <2>1. /\ Branch(i, r) /\ lifresp' = [lifresp EXCEPT ![niflevel'] = (r = "TRUE")]
        /\ ndolevel' = ndolevel /\ do_token' = do_token
    BY <1>6 DEF xif, Branch, Loops
  <2>2. nerr' = 0
    BY <1>2, <1>6 DEF Runs, Outcome, Excused, Raise
  <2>3. Moves(i)
    BY <2>2, RunsMoves
  <2>4. IfEnds(text, i) # {}
    BY <1>1, <1>4, SearchForBranch
  <2>5. pos' = IF r = "TRUE" THEN i ELSE EndIf(text, i) - 1
    BY <2>1, <2>4 DEF Branch, skipif
  <2>6. /\ OpenIfs(text, pos') \subseteq OpenIfs(text, pos) \cup {i}
        /\ OpenDos(text, pos') \subseteq OpenDos(text, pos)
        /\ i \in OpenIfs(text, pos') /\ IfDepth(text, i) = IfDepth(text, pos')
        /\ i \notin OpenIfs(text, pos)
    BY <1>1, <1>4, <2>3, <2>5, BranchMoves
  <2>7. i \notin Taken
    BY <2>6 DEF Taken
  <2>8. Taken' = (Taken \cup (IF r = "TRUE" THEN {i} ELSE {})) \cap OpenIfs(text, pos')
    <3>1. (r = "TRUE") \in BOOLEAN
      OBVIOUS
    <3> QED BY <2>1, <2>3, <2>6, <2>7, <3>1, TakenSet
  <2>9. Left' = Confined(Left, pos')
    BY <2>1, <2>3, <2>6, LeftKept
  <2>10. CASE r = "TRUE"
    <3>1. pos' + 1 = i + 1 /\ Taken' = (Taken \cup {i}) \cap OpenIfs(text, pos')
      BY <2>5, <2>8, <2>10
    <3>2. Meaning!Continue(i + 1, Taken \cup {i}, Left)
      BY <1>1, <2>3, <2>9, <3>1, MoveContinues
    <3> QED BY <1>1, <1>2, <2>10, <3>2 DEF Meaning!If, Meaning!Test, Meaning!Evaluate
  <2>11. CASE r = "FALSE"
    <3>1. pos' + 1 = EndIf(text, i) /\ Taken' = Taken \cap OpenIfs(text, pos')
      <4>1. EndIf(text, i) \in Nat
        BY <1>1, <2>4, EndIfType
      <4> QED BY <2>5, <2>8, <2>11, <4>1
    <3>2. NextBranch(text, i, i) = EndIf(text, i)
      BY <1>1, <1>4, NextBranchIs
    <3>3. Meaning!Continue(EndIf(text, i), Taken, Left)
      BY <1>1, <2>3, <2>9, <3>1, MoveContinues
    <3>4. Meaning!NextBranch(text, i, i) = EndIf(text, i)
      BY <3>2, SameWords
    <3> QED BY <1>1, <1>2, <2>11, <3>3, <3>4 DEF Meaning!If, Meaning!Test, Meaning!Evaluate
  <2> QED BY <1>6, <2>10, <2>11 DEF Results
<1> QED BY <1>5, <1>6

\* The clause that an ELSEIF, ELSE or ENDIF belongs to is the innermost one, and
\* its slot is that of the level.
LEMMA ClauseOf ==
  ASSUME NEW i, Runs(i), nerr' = 0, NEW a \in OpenIfs(text, pos),
         IfDepth(text, pos) = IfDepth(text, a)
  PROVE  /\ Meaning!Clause = a
         /\ niflevel > 0
         /\ a \in Taken <=> lifresp[niflevel]
<1>1. Moves(i) /\ Ready(i)
  BY RunsMoves DEF Runs
<1>2. Meaning!Clause = a
  <2>1. Innermost(OpenIfs(text, pos)) = a
    BY <1>1, MovesFacts, OpenDeeper
  <2> QED BY <1>1, <2>1, MeaningAt
<1>3. /\ IfSlot(a) = niflevel - (IfDepth(text, pos) - IfDepth(text, a))
      /\ IfSlot(a) \in 1..niflevel /\ IfDepth(text, a) \in Int
  BY <1>1, SlotsAre
<1>4. niflevel \in Int /\ IfDepth(text, pos) \in Int /\ Executing
  BY <1>1, MovesFacts
<1>5. IfSlot(a) = niflevel /\ niflevel > 0
  BY <1>3, <1>4
<1>6. Taken = {d \in OpenIfs(text, pos) : lifresp[IfSlot(d)]}
  BY <1>4 DEF Taken
<1> QED BY <1>2, <1>5, <1>6

\* A branch that is searched past because another one has run.
LEMMA PassMeans ==
  ASSUME NEW i, Runs(i), NEW a \in 1..Len(text), NEW b \in 1..Len(text),
         BranchOf(text, i, a, b), nerr' = 0, PassBranch(i)
  PROVE  Meaning!Clause \in Taken /\ Meaning!Pass
<1>1. /\ Moves(i) /\ Ready(i) /\ UNCHANGED <<running, runs>>
      /\ WellFormed(text) /\ Plain(text) /\ Len(text) \in Nat /\ i \in 1..Len(text) /\ i = pos + 1
  BY RunsMoves, MovesFacts DEF Runs
<1>2. Begins(text, i, a, b) /\ i # a
  BY DEF Begins, BranchOf
<1>3. IfEnds(text, i) # {}
  BY <1>1, <1>2, SearchForBranch
<1>4. /\ pos' = EndIf(text, i) - 1 /\ UNCHANGED <<truth, asked>>
      /\ lifresp' = lifresp /\ do_token' = do_token /\ lifresp[niflevel]
  BY <1>3 DEF PassBranch, skipif, levels, given
<1>5. /\ OpenIfs(text, pos') \subseteq OpenIfs(text, pos) \cup {a}
      /\ OpenDos(text, pos') \subseteq OpenDos(text, pos)
      /\ a \in OpenIfs(text, pos) /\ IfDepth(text, pos) = IfDepth(text, a)
  BY <1>1, <1>2, <1>4, BranchMoves
<1>6. Meaning!Clause = a /\ a \in Taken
  BY <1>4, <1>5, ClauseOf
<1>7. OpenIfs(text, pos') \subseteq OpenIfs(text, pos)
  BY <1>5
<1>8. Taken' = Taken \cap OpenIfs(text, pos') /\ Left' = Confined(Left, pos')
  BY <1>1, <1>4, <1>5, <1>7, TakenKept, LeftKept
<1>9. pos' + 1 = EndIf(text, i)
  <2>1. EndIf(text, i) \in Nat
    BY <1>1, <1>3, EndIfType
  <2> QED BY <1>4, <2>1
<1>10. Meaning!Continue(EndIf(text, i), Taken, Left)
  BY <1>1, <1>8, <1>9, MoveContinues
<1>11. Meaning!NextBranch(text, a, i) = EndIf(text, i)
  BY <1>1, <1>2, NextBranchIs, SameWords
<1> QED BY <1>1, <1>4, <1>6, <1>10, <1>11 DEF Meaning!Pass, Meaning!Goto, Meaning!given

\* The clause of an ELSEIF or ELSE.
LEMMA BranchClause ==
  ASSUME NEW i, Runs(i), Word \in Branches
  PROVE  \E a, b \in 1..Len(text) : /\ BranchOf(text, i, a, b) /\ Begins(text, i, a, b) /\ i # a
                                    /\ nerr' = 0 => /\ a \in OpenIfs(text, pos)
                                                    /\ IfDepth(text, pos) = IfDepth(text, a)
<1>1. /\ Ready(i) /\ WellFormed(text) /\ Plain(text) /\ Len(text) \in Nat
      /\ i \in 1..Len(text) /\ i = pos + 1 /\ i - 1 = pos
  BY ReadyFacts, MeaningAt DEF Runs, Ready
<1>2. PICK a, b \in 1..Len(text) : BranchOf(text, i, a, b)
  <2>1. Is(text, i, Branches)
    BY <1>1, MeaningAt
  <2> QED BY <1>1, <2>1 DEF WellFormed
<1>3. Begins(text, i, a, b) /\ i # a
  BY <1>2 DEF Begins, BranchOf
<1>4. /\ i \in a..(b - 1) /\ IfDepth(text, i) = IfDepth(text, a) /\ DoDepth(text, i) = DoDepth(text, a)
  BY <1>1, <1>3, BranchDepths
<1>5. a \in OpenIfs(text, pos) /\ IfDepth(text, pos) = IfDepth(text, a)
  <2>1. i \in i..(b - 1)
    BY <1>1, <1>4
  <2> QED BY <1>1, <1>3, <1>4, <2>1, OpenInClause
<1> QED BY <1>2, <1>3, <1>5

\* ELSEIF
LEMMA ElseifMeans ==
  ASSUME NEW i, Runs(i), Word = "ELSEIF", NEW r \in Results, xelseif(i, r)
  PROVE  Meaning!Elseif \/ Meaning!Failure
<1>1. /\ Ready(i) /\ text' = text /\ UNCHANGED <<running, runs>> /\ nerr' \in {0, 1}
      /\ WellFormed(text) /\ Plain(text) /\ Len(text) \in Nat /\ i \in 1..Len(text) /\ i = pos + 1
  BY ReadyFacts, MeaningAt DEF Runs, Ready, TypeOK, CndTypeOK
<1>2. Meaning!At({"ELSEIF"})
  BY <1>1, MeaningAt
<1>3. PICK a, b \in 1..Len(text) :
        /\ BranchOf(text, i, a, b) /\ Begins(text, i, a, b) /\ i # a
        /\ nerr' = 0 => /\ a \in OpenIfs(text, pos)
                        /\ IfDepth(text, pos) = IfDepth(text, a)
  <2>1. Word \in Branches
    BY DEF Branches
  <2> QED BY <2>1, BranchClause
<1>4. IfEnds(text, i) # {}
  BY <1>1, <1>3, SearchForBranch
<1>5. CASE nerr' # 0
  <2>1. truth' = "ERROR"
    BY <1>5 DEF Runs, Outcome, Excused
  <2>2. asked' = asked
    BY DEF xelseif, PassBranch, given, Evaluate
  <2>3. pos' = i
    BY <1>4, <1>5 DEF xelseif, Fail, PassBranch, Branch, skipif, Raise
  <2>4. Word \notin {"DO", "DOLIST"} /\ truth' \in {truth, "ERROR"}
    BY <2>1
  <2> QED BY <1>1, <1>5, <2>2, <2>3, <2>4, ErrorFails
<1>6. CASE nerr' = 0
  <2>1. /\ Moves(i) /\ Meaning!Clause = a /\ niflevel > 0
        /\ (a \in Taken <=> lifresp[niflevel])
    BY <1>3, <1>6, RunsMoves, ClauseOf
  <2>2. niflevel \in Nat
    BY <2>1, MovesFacts
  <2>3. CASE PassBranch(i)
    <3>1. Meaning!Clause \in Taken /\ Meaning!Pass
      BY <1>3, <1>6, <2>3, PassMeans
    <3> QED BY <1>2, <3>1 DEF Meaning!Elseif
  <2>4. CASE ~PassBranch(i)
    <3>1. /\ ~lifresp[niflevel] /\ Evaluate(r) /\ r # "ERROR" /\ UNCHANGED niflevel /\ Branch(i, r)
      BY <1>6, <2>1, <2>2, <2>4 DEF xelseif, Fail, Raise
    <3>2. /\ truth' = r /\ asked' = asked /\ a \notin Taken
          /\ lifresp' = [lifresp EXCEPT ![niflevel'] = (r = "TRUE")] /\ do_token' = do_token
      BY <2>1, <3>1 DEF Evaluate, Branch, Loops
    <3>3. pos' = IF r = "TRUE" THEN i ELSE EndIf(text, i) - 1
      BY <1>4, <3>1 DEF Branch, skipif
    <3>4. /\ OpenIfs(text, pos') \subseteq OpenIfs(text, pos) \cup {a}
          /\ OpenDos(text, pos') \subseteq OpenDos(text, pos)
          /\ a \in OpenIfs(text, pos') /\ IfDepth(text, a) = IfDepth(text, pos')
      BY <1>1, <1>3, <2>1, <3>3, BranchMoves
    <3>5. Taken' = (Taken \cup (IF r = "TRUE" THEN {a} ELSE {})) \cap OpenIfs(text, pos')
      <4>1. (r = "TRUE") \in BOOLEAN
        OBVIOUS
      <4> QED BY <2>1, <3>2, <3>4, <4>1, TakenSet
    <3>6. Left' = Confined(Left, pos')
      BY <2>1, <3>2, <3>4, LeftKept
    <3>7. CASE r = "TRUE"
      <4>1. pos' + 1 = i + 1 /\ Taken' = (Taken \cup {a}) \cap OpenIfs(text, pos')
        BY <3>3, <3>5, <3>7
      <4>2. Meaning!Continue(i + 1, Taken \cup {a}, Left)
        BY <1>1, <2>1, <3>6, <4>1, MoveContinues
      <4> QED BY <1>1, <1>2, <2>1, <3>2, <3>7, <4>2
            DEF Meaning!Elseif, Meaning!Test, Meaning!Evaluate
    <3>8. CASE r = "FALSE"
      <4>1. pos' + 1 = EndIf(text, i) /\ Taken' = Taken \cap OpenIfs(text, pos')
        <5>1. EndIf(text, i) \in Nat
          BY <1>1, <1>4, EndIfType
        <5> QED BY <3>3, <3>5, <3>8, <5>1
      <4>2. Meaning!NextBranch(text, a, i) = EndIf(text, i)
        BY <1>1, <1>3, NextBranchIs, SameWords
      <4>3. Meaning!Continue(EndIf(text, i), Taken, Left)
        BY <1>1, <2>1, <3>6, <4>1, MoveContinues
      <4> QED BY <1>1, <1>2, <2>1, <3>2, <3>8, <4>2, <4>3
            DEF Meaning!Elseif, Meaning!Test, Meaning!Evaluate
    <3> QED BY <3>1, <3>7, <3>8 DEF Results
  <2> QED BY <2>3, <2>4
<1> QED BY <1>5, <1>6

\* A command at which the next line follows, and which opens and sets nothing.
LEMMA NextLine ==
  ASSUME NEW i, Moves(i), UNCHANGED <<running, runs>>, pos' = i,
         ~Is(text, i, IfWords), ~Is(text, i, DoWords),
         lifresp' = lifresp, do_token' = do_token
  PROVE  Meaning!Goto(i + 1)
<1>1. /\ WellFormed(text) /\ Plain(text) /\ Len(text) \in Nat /\ i \in 1..Len(text) /\ i - 1 = pos
  BY MovesFacts
<1>2. OpenIfs(text, pos') \subseteq OpenIfs(text, pos) /\ OpenDos(text, pos') \subseteq OpenDos(text, pos)
  BY <1>1, OpenNext
<1>3. Taken' = Taken \cap OpenIfs(text, pos') /\ Left' = Confined(Left, pos')
  BY <1>2, TakenKept, LeftKept
<1> QED BY <1>3, MoveContinues DEF Meaning!Goto

\* ELSE
LEMMA ElseMeans ==
  ASSUME NEW i, Runs(i), Word = "ELSE", xelse(i)
  PROVE  Meaning!Else
<1>1. /\ Ready(i) /\ text' = text /\ UNCHANGED <<running, runs>> /\ nerr' \in {0, 1} /\ i = pos + 1
      /\ Meaning!At({"ELSE"})
  BY MeaningAt DEF Runs, TypeOK, CndTypeOK
<1>2. nerr' = 0
  BY DEF Runs, Outcome, Excused
<1>3. PICK a, b \in 1..Len(text) :
        /\ BranchOf(text, i, a, b) /\ Begins(text, i, a, b) /\ i # a
        /\ nerr' = 0 => /\ a \in OpenIfs(text, pos)
                        /\ IfDepth(text, pos) = IfDepth(text, a)
  <2>1. Word \in Branches
    BY DEF Branches
  <2> QED BY <2>1, BranchClause
<1>4. /\ Moves(i) /\ Meaning!Clause = a /\ niflevel > 0
      /\ (a \in Taken <=> lifresp[niflevel])
  BY <1>2, <1>3, RunsMoves, ClauseOf
<1>5. CASE PassBranch(i)
  <2>1. Meaning!Clause \in Taken /\ Meaning!Pass
    BY <1>2, <1>3, <1>5, PassMeans
  <2> QED BY <1>1, <2>1 DEF Meaning!Else
<1>6. CASE ~PassBranch(i)
  <2>1. niflevel \in Nat
    BY <1>4, MovesFacts
  <2>2. ~lifresp[niflevel] /\ pos' = i /\ UNCHANGED <<levels, given>>
    <3>1. ~(niflevel =< 0)
      BY <1>4, <2>1
    <3> QED BY <1>6, <3>1, Zenon DEF xelse
  <2>3. lifresp' = lifresp /\ do_token' = do_token /\ UNCHANGED <<truth, asked>>
    BY <2>2 DEF levels, given
  <2>4. ~Is(text, i, IfWords) /\ ~Is(text, i, DoWords)
    BY <1>1, MeaningAt DEF IfWords, DoWords
  <2>5. Meaning!Goto(i + 1)
    BY <1>1, <1>4, <2>2, <2>3, <2>4, NextLine
  <2> QED BY <1>1, <1>4, <2>2, <2>3, <2>5 DEF Meaning!Else, Meaning!given
<1> QED BY <1>5, <1>6

\* ENDIF
LEMMA EndifMeans ==
  ASSUME NEW i, Runs(i), Word = "ENDIF", xendif(i)
  PROVE  Meaning!Endif
<1>1. /\ Ready(i) /\ text' = text /\ UNCHANGED <<running, runs>> /\ nerr' \in {0, 1} /\ i = pos + 1
      /\ Meaning!At({"ENDIF"})
  BY MeaningAt DEF Runs, TypeOK, CndTypeOK
<1>2. nerr' = 0
  BY DEF Runs, Outcome, Excused
<1>3. Moves(i)
  BY <1>2, RunsMoves
<1>4. pos' = i /\ lifresp' = lifresp /\ do_token' = do_token /\ UNCHANGED <<truth, asked>>
  BY DEF xendif, Loops, given
<1>5. ~Is(text, i, IfWords) /\ ~Is(text, i, DoWords)
  BY <1>1, MeaningAt DEF IfWords, DoWords
<1>6. Meaning!Goto(i + 1)
  BY <1>1, <1>3, <1>4, <1>5, NextLine
<1> QED BY <1>1, <1>4, <1>6 DEF Meaning!Endif, Meaning!given

-----------------------------------------------------------------------------
\* Where a loop is left, the line after its ENDDO is the next.
LEMMA PastLoop ==
  ASSUME NEW i, Moves(i), UNCHANGED <<running, runs>>,
         NEW a \in 1..Len(text), NEW b \in 1..Len(text), MatchDo(text, a, b),
         i \in a..(b - 1), ~Is(text, i, IfWords), pos' = b, lifresp' = lifresp,
         \A l \in 1..ndolevel : do_token'[l] = do_token[l]
  PROVE  Meaning!Goto(Meaning!After(a))
<1>1. /\ WellFormed(text) /\ Plain(text) /\ Len(text) \in Nat /\ i - 1 = pos /\ Ready(i)
  <2>1. Ready(i)
    BY DEF Moves
  <2> QED BY <2>1, ReadyFacts DEF Ready
<1>2. /\ OpenIfs(text, pos') \subseteq OpenIfs(text, pos)
      /\ OpenDos(text, pos') \subseteq OpenDos(text, pos)
  BY <1>1, OpenPastLoop
<1>3. Taken' = Taken \cap OpenIfs(text, pos') /\ Left' = Confined(Left, pos')
  BY <1>2, TakenKept, LeftKept
<1>4. Meaning!After(a) = b + 1
  BY <1>1, LoopEnds, MeaningAt
<1>5. Meaning!Continue(Meaning!After(a), Taken, Left)
  BY <1>3, <1>4, MoveContinues
<1> QED BY <1>5 DEF Meaning!Goto

\* The loop that the statement on line i begins.
LEMMA LoopBegun ==
  ASSUME NEW i, Ready(i), Word \in DoWords
  PROVE  \E b \in 1..Len(text) :
           /\ MatchDo(text, i, b) /\ EndDo(text, i) = b /\ DoEnds(text, i) # {}
           /\ i \in 1..Len(text) /\ i \in i..(b - 1) /\ i \in OpenDos(text, i)
           /\ ~Is(text, i, IfWords)
           /\ OpenIfs(text, i) \subseteq OpenIfs(text, pos)
           /\ OpenDos(text, i) \subseteq OpenDos(text, pos) \cup {i}
<1>1. /\ WellFormed(text) /\ Plain(text) /\ Len(text) \in Nat /\ i \in 1..Len(text) /\ i - 1 = pos
  BY ReadyFacts DEF Ready
<1>2. Is(text, i, DoWords) /\ ~Is(text, i, IfWords)
  BY MeaningAt DEF DoWords, IfWords
<1>3. PICK b \in 1..Len(text) : MatchDo(text, i, b)
  BY <1>1, <1>2 DEF WellFormed
<1>4. EndDo(text, i) = b /\ DoEnds(text, i) # {}
  BY <1>1, <1>3, LoopEnds
<1>5. i \in i..(b - 1)
  BY <1>1, <1>3 DEF MatchDo
<1>6. i \in OpenDos(text, i)
  BY <1>1, <1>3, OpenAtEnddo
<1> QED BY <1>1, <1>2, <1>3, <1>4, <1>5, <1>6, OpenNext

\* No list is left where a DO statement would take it for its own.
Unlisted == \A l \in 1..MDOLEVEL : l > ndolevel => do_token[l] = 0

\* DO
LEMMA DoMeans ==
  ASSUME NEW i, Runs(i), Word \in {"DO", "DOLIST"}, NEW n \in 0..MaxItems, NEW ok,
         xdo(i, Word, n, ok), Word = "DOLIST" => n > 0, Word = "DO" => Unlisted
  PROVE  Meaning!NotADo \/ Meaning!Do(n)
<1> DEFINE level == ndolevel + 1
           list(old) == MakeList(Word, n, old)
<1>1. /\ Ready(i) /\ text' = text /\ UNCHANGED <<running, runs>> /\ i = pos + 1
      /\ Meaning!At({"DO", "DOLIST"}) /\ ~Is(text, i, {"WHILE"}) /\ Word \in DoWords
      /\ nerr' \in {0, 1}
  BY MeaningAt DEF Runs, DoWords, TypeOK, CndTypeOK
<1>2. PICK b \in 1..Len(text) :
        /\ MatchDo(text, i, b) /\ EndDo(text, i) = b /\ DoEnds(text, i) # {}
        /\ i \in 1..Len(text) /\ i \in i..(b - 1) /\ i \in OpenDos(text, i)
        /\ ~Is(text, i, IfWords)
        /\ OpenIfs(text, i) \subseteq OpenIfs(text, pos)
        /\ OpenDos(text, i) \subseteq OpenDos(text, pos) \cup {i}
  BY <1>1, LoopBegun
<1>3. /\ ndolevel \in Nat /\ ndolevel =< MDOLEVEL /\ MDOLEVEL \in Nat /\ level \in Nat
      /\ do_token \in [1..MDOLEVEL -> 0..MaxItems] /\ n \in Nat /\ MaxItems \in Nat
  <2>1. ndolevel \in Nat /\ CndTypeOK /\ InBounds
    BY <1>1, ReadyFacts
  <2>2. MaxItems \in Nat /\ MDOLEVEL \in Nat
    BY LevelAssumption, ItemAssumption
  <2> QED BY <2>1, <2>2 DEF CndTypeOK, InBounds
<1>4. PICK old \in Stored(level) :
        /\ asked' = n /\ truth' = truth /\ lifresp' = lifresp
        /\ \/ pos' = i /\ Raise(TRUE)
           \/ /\ list(old) = 0 /\ skipdo(i, level)
              /\ do_token' = [do_token EXCEPT ![level] = list(old)]
           \/ /\ list(old) > 0 /\ pos' = i /\ ndolevel' = level /\ Raise(FALSE)
              /\ do_token' = [do_token EXCEPT ![level] = list(old) - 1]
  BY <1>2 DEF xdo
<1>5. \A l \in 1..ndolevel : \A x : [do_token EXCEPT ![level] = x][l] = do_token[l]
  BY <1>3
<1>6. CASE pos' = i /\ Raise(TRUE)
  <2>1. Meaning!Stop
    BY <1>1, <1>6, ErrorStops DEF Raise
  <2> QED BY <1>1, <1>4, <2>1 DEF Meaning!NotADo
<1>7. CASE /\ list(old) = 0 /\ skipdo(i, level)
           /\ do_token' = [do_token EXCEPT ![level] = list(old)]
  <2>1. n = 0
    BY <1>3, <1>7 DEF MakeList
  <2>2. pos' = b /\ nerr' = 0
    BY <1>2, <1>7 DEF skipdo, Raise
  <2>3. Meaning!Goto(Meaning!After(i))
    BY <1>1, <1>2, <1>4, <1>5, <1>7, <2>2, RunsMoves, PastLoop
  <2> QED BY <1>1, <1>4, <2>1, <2>3 DEF Meaning!Do
<1>8. CASE /\ list(old) > 0 /\ pos' = i /\ ndolevel' = level /\ Raise(FALSE)
           /\ do_token' = [do_token EXCEPT ![level] = list(old) - 1]
  <2>1. Moves(i)
    BY <1>8, RunsMoves DEF Raise
  <2>2. n > 0 /\ list(old) = n
    <3>1. CASE Word = "DOLIST" \/ n > 0
      BY <3>1 DEF MakeList
    <3>2. CASE Word = "DO" /\ n = 0
      <4>1. level \in 1..MDOLEVEL /\ level > ndolevel
        BY <1>3, <1>8, <2>1, MovesFacts
      <4>2. old = do_token[level]
        BY <1>3, <4>1 DEF Stored
      <4>3. old = 0
        BY <3>2, <4>1, <4>2 DEF Unlisted
      <4> QED BY <1>8, <3>2, <4>3 DEF MakeList
    <3> QED BY <1>3, <3>1, <3>2
  <2>3. n - 1 \in 0..MaxItems
    BY <1>3, <2>2
  <2>4. Taken' = Taken \cap OpenIfs(text, pos')
    BY <1>2, <1>4, <1>8, <2>1, TakenKept
  <2>5. Left' = Confined(Holding(i, n - 1), pos')
    <3>1. do_token' = [do_token EXCEPT ![ndolevel'] = n - 1]
      BY <1>8, <2>2
    <3> QED BY <1>1, <1>2, <1>8, <2>1, <2>3, <3>1, LeftSet
  <2>6. Meaning!Continue(i + 1, Taken, Holding(i, n - 1))
    BY <1>1, <1>8, <2>1, <2>4, <2>5, MoveContinues
  <2>7. Meaning!With(i, n - 1) = Holding(i, n - 1)
    BY ContinueIs
  <2> QED BY <1>1, <1>3, <1>4, <2>2, <2>6, <2>7 DEF Meaning!Do
<1> QED BY <1>4, <1>6, <1>7, <1>8

\* WHILE
LEMMA WhileMeans ==
  ASSUME NEW i, Runs(i), Word = "WHILE", NEW r \in Results, xwhile(i, r)
  PROVE  Meaning!While \/ Meaning!Failure
<1>1. /\ Ready(i) /\ text' = text /\ UNCHANGED <<running, runs>> /\ i = pos + 1
      /\ Meaning!At({"WHILE"}) /\ Is(text, i, {"WHILE"}) /\ Word \in DoWords
  BY MeaningAt DEF Runs, DoWords
<1>2. PICK b \in 1..Len(text) :
        /\ MatchDo(text, i, b) /\ EndDo(text, i) = b /\ DoEnds(text, i) # {}
        /\ i \in 1..Len(text) /\ i \in i..(b - 1) /\ i \in OpenDos(text, i)
        /\ ~Is(text, i, IfWords)
        /\ OpenIfs(text, i) \subseteq OpenIfs(text, pos)
        /\ OpenDos(text, i) \subseteq OpenDos(text, pos) \cup {i}
  BY <1>1, LoopBegun
<1>3. truth' = r /\ asked' = asked
  BY DEF xwhile, Evaluate
<1>4. CASE r = "ERROR"
  <2>1. pos' = i /\ nerr' # 0 /\ Word \notin {"DO", "DOLIST"}
    BY <1>4 DEF xwhile, Fail, Raise
  <2> QED BY <1>1, <1>3, <1>4, <2>1, ErrorFails
<1>5. CASE r = "TRUE"
  <2>1. nerr' = 0 /\ pos' = i /\ lifresp' = lifresp /\ do_token' = do_token
    BY <1>5 DEF xwhile, Raise
  <2>2. Moves(i)
    BY <2>1, RunsMoves
  <2>3. Taken' = Taken \cap OpenIfs(text, pos') /\ Left' = Confined(Left, pos')
    BY <1>1, <1>2, <2>1, <2>2, TakenKept, LeftWhile
  <2>4. Meaning!Continue(i + 1, Taken, Left)
    BY <1>1, <2>1, <2>2, <2>3, MoveContinues
  <2> QED BY <1>1, <1>3, <1>5, <2>4 DEF Meaning!While, Meaning!Evaluate, Meaning!Goto
<1>6. CASE r = "FALSE"
  <2>1. nerr' = 0 /\ pos' = b /\ lifresp' = lifresp /\ do_token' = do_token
    BY <1>2, <1>6 DEF xwhile, skipdo, Raise
  <2>2. Moves(i)
    BY <2>1, RunsMoves
  <2>3. Meaning!Goto(Meaning!After(i))
    BY <1>1, <1>2, <2>1, <2>2, PastLoop
  <2> QED BY <1>1, <1>3, <1>6, <2>3 DEF Meaning!While, Meaning!Evaluate
<1> QED BY <1>4, <1>5, <1>6 DEF Results

\* ENDDO
LEMMA EnddoMeans ==
  ASSUME NEW i, Runs(i), Word = "ENDDO", xenddo(i)
  PROVE  Meaning!Enddo
<1>1. /\ Ready(i) /\ text' = text /\ UNCHANGED <<running, runs>> /\ i = pos + 1
      /\ Meaning!At({"ENDDO"}) /\ ~Is(text, i, IfWords) /\ ~Is(text, i, DoWords)
  BY MeaningAt DEF Runs, IfWords, DoWords
<1>2. /\ WellFormed(text) /\ Plain(text) /\ Len(text) \in Nat /\ i \in 1..Len(text) /\ i - 1 = pos
      /\ ndolevel \in Nat
  BY <1>1, ReadyFacts DEF Ready
<1>3. PICK a \in 1..(i - 1) :
        /\ MatchDo(text, a, i)
        /\ ndolevel > 0 /\ ndolines[ndolevel] = i - a
        /\ ndotype[ndolevel] = (IF Is(text, a, {"WHILE"}) THEN 1 ELSE 0)
  BY <1>1, ReadyLine, EnddoFacts
<1>4. a \in 1..Len(text) /\ a \in Nat /\ i \in Nat /\ a < i
  BY <1>2, <1>3
<1>5. /\ a \in OpenDos(text, pos) /\ a \in OpenDos(text, a) /\ DoDepth(text, pos) = DoDepth(text, a)
      /\ Innermost(OpenDos(text, pos)) = a
      /\ \A q \in {a - 1, a} : /\ OpenIfs(text, q) \subseteq OpenIfs(text, pos)
                               /\ OpenDos(text, q) \subseteq OpenDos(text, pos)
  BY <1>2, <1>3, <1>4, OpenAtEnddo
<1>6. Meaning!Loop = a /\ Meaning!Is(text, a, {"WHILE"}) = Is(text, a, {"WHILE"})
  BY <1>1, <1>5, MeaningAt, SameWords
<1>7. /\ nerr' = 0 /\ lifresp' = lifresp /\ UNCHANGED <<truth, asked>>
      /\ AgainWhile(i) \/ AgainDo(i) \/ ListDone(i)
  BY <1>2, <1>3 DEF xenddo, Raise, given
<1>8. Moves(i)
  BY <1>7, RunsMoves
<1>9. do_token \in [1..MDOLEVEL -> 0..MaxItems] /\ ndolevel =< MDOLEVEL /\ MaxItems \in Nat
  BY <1>8, MovesFacts, ItemAssumption
<1>10. ~Is(text, a, {"WHILE"}) => a \in DOMAIN Left /\ Left[a] = do_token[ndolevel]
  <2>1. DoSlot(a) = ndolevel - (DoDepth(text, pos) - DoDepth(text, a)) /\ DoDepth(text, a) \in Int
    BY <1>5, <1>8, SlotsAre
  <2>2. DoSlot(a) = ndolevel
    BY <1>2, <1>5, <2>1
  <2> QED BY <1>5, <1>8, <2>2, LeftIs
<1>11. CASE AgainWhile(i)
  <2>1. pos' = a - 1 /\ do_token' = do_token /\ Is(text, a, {"WHILE"})
    BY <1>3, <1>4, <1>11 DEF AgainWhile, Backspace
  <2>2. OpenIfs(text, pos') \subseteq OpenIfs(text, pos) /\ OpenDos(text, pos') \subseteq OpenDos(text, pos)
    BY <1>5, <2>1
  <2>3. Taken' = Taken \cap OpenIfs(text, pos') /\ Left' = Confined(Left, pos')
    BY <1>7, <1>8, <2>1, <2>2, TakenKept, LeftKept
  <2>4. pos' + 1 = a
    BY <1>4, <2>1
  <2>5. Meaning!Continue(a, Taken, Left)
    BY <1>1, <1>8, <2>3, <2>4, MoveContinues
  <2> QED BY <1>1, <1>6, <1>7, <2>1, <2>5 DEF Meaning!Enddo, Meaning!given, Meaning!Goto
<1>12. CASE AgainDo(i)
  <2>1. /\ pos' = a /\ ~Is(text, a, {"WHILE"}) /\ do_token[ndolevel] > 0
        /\ do_token' = [do_token EXCEPT ![ndolevel] = @ - 1] /\ ndolevel' = ndolevel
    BY <1>3, <1>4, <1>12 DEF AgainDo, Backspace
  <2>2. do_token[ndolevel] - 1 \in 0..MaxItems
    <3>1. ndolevel \in 1..MDOLEVEL
      BY <1>2, <1>3, <1>9, LevelAssumption
    <3>2. do_token[ndolevel] \in 0..MaxItems
      BY <1>9, <3>1
    <3> QED BY <1>9, <2>1, <3>2
  <2>3. /\ OpenIfs(text, pos') \subseteq OpenIfs(text, pos)
        /\ OpenDos(text, pos') \subseteq OpenDos(text, pos) \cup {a}
        /\ a \in OpenDos(text, pos')
    BY <1>5, <2>1
  <2>4. Taken' = Taken \cap OpenIfs(text, pos')
    BY <1>7, <1>8, <2>3, TakenKept
  <2>5. Left' = Confined(Holding(a, Left[a] - 1), pos')
    <3>1. do_token' = [do_token EXCEPT ![ndolevel'] = Left[a] - 1] /\ Left[a] - 1 \in 0..MaxItems
      BY <1>10, <2>1, <2>2
    <3> QED BY <1>8, <2>1, <2>3, <3>1, LeftSet
  <2>6. Meaning!Continue(a + 1, Taken, Holding(a, Left[a] - 1))
    BY <1>1, <1>8, <2>1, <2>4, <2>5, MoveContinues
  <2>7. Meaning!With(a, Left[a] - 1) = Holding(a, Left[a] - 1)
    BY ContinueIs
  <2> QED BY <1>1, <1>6, <1>7, <1>10, <2>1, <2>6, <2>7 DEF Meaning!Enddo, Meaning!given
<1>13. CASE ListDone(i)
  <2>1. /\ pos' = i /\ ~Is(text, a, {"WHILE"}) /\ do_token[ndolevel] = 0 /\ do_token' = do_token
    BY <1>3, <1>13 DEF ListDone
  <2>2. Meaning!Goto(i + 1)
    BY <1>1, <1>7, <1>8, <2>1, NextLine
  <2>3. ~(Left[a] > 0)
    BY <1>10, <2>1
  <2> QED BY <1>1, <1>6, <1>7, <2>1, <2>2, <2>3 DEF Meaning!Enddo, Meaning!given
<1> QED BY <1>7, <1>11, <1>12, <1>13

\* BREAK
LEMMA BreakMeans ==
  ASSUME NEW i, Runs(i), Word = "BREAK", xbreak(i)
  PROVE  Meaning!Break
<1>1. /\ Ready(i) /\ text' = text /\ UNCHANGED <<running, runs>> /\ i = pos + 1
      /\ Meaning!At({"BREAK"}) /\ ~Is(text, i, IfWords) /\ ~Is(text, i, DoWords)
      /\ Is(text, i, {"BREAK"})
  BY MeaningAt DEF Runs, IfWords, DoWords
<1>2. /\ WellFormed(text) /\ Plain(text) /\ Len(text) \in Nat /\ i \in 1..Len(text) /\ i - 1 = pos
      /\ i \in 0..Len(text) /\ i \in Nat /\ ndolevel \in Nat /\ ndolevel >= DoDepth(text, pos)
      /\ DoDepth(text, pos) \in Nat
  BY <1>1, ReadyFacts DEF Ready
<1>3. DoDepth(text, i) > 0
  BY <1>1, <1>2 DEF WellFormed
<1>4. DoDepth(text, i) = DoDepth(text, pos)
  <2>1. Word \notin DoWords /\ Word # "ENDDO"
    BY DEF DoWords
  <2> QED BY <1>1, <1>2, <2>1, CommandDepths
<1>5. PICK a \in OpenDos(text, i) : DoDepth(text, a) = DoDepth(text, i) /\ EndDo(text, i) = EndOf(text, a)
  BY <1>2, <1>3, LoopAround
<1>6. /\ a \in 1..Len(text) /\ a \in 1..i /\ Is(text, a, DoWords) /\ EndOf(text, a) > i
      /\ a \in OpenDos(text, pos)
  <2>1. a \in OpenDos(text, pos)
    BY <1>1, <1>2, <1>5, OpenNext
  <2> QED BY <1>2, <1>5, <2>1, OpenDo DEF OpenDos
<1>7. PICK b \in 1..Len(text) : MatchDo(text, a, b)
  BY <1>2, <1>6 DEF WellFormed
<1>8. EndOf(text, a) = b
  BY <1>2, <1>6, <1>7, LoopEnds
<1>9. i \in a..(b - 1)
  BY <1>2, <1>6, <1>7, <1>8
<1>10. Meaning!Loop = a
  <2>1. Innermost(OpenDos(text, pos)) = a
    <3>1. pos \in 0..Len(text)
      BY <1>1, ReadyFacts
    <3> QED BY <1>2, <1>4, <1>5, <1>6, <3>1, OpenDeeper
  <2> QED BY <1>1, <2>1, MeaningAt
<1>11. DoEnds(text, i) # {}
  BY <1>2, <1>3, OpenLoopEnds
<1>12. /\ nerr' = 0 /\ pos' = b /\ lifresp' = lifresp /\ do_token' = do_token
       /\ UNCHANGED <<truth, asked>>
  <2>1. ndolevel > 0
    BY <1>2, <1>3, <1>4
  <2>2. skipdo(i, ndolevel) /\ UNCHANGED <<given, lifresp, do_token>>
    BY <1>2, <2>1 DEF xbreak
  <2> QED BY <1>5, <1>8, <1>11, <2>2 DEF skipdo, Raise, given
<1>13. Meaning!Goto(Meaning!After(a))
  BY <1>1, <1>6, <1>7, <1>9, <1>12, RunsMoves, PastLoop
<1> QED BY <1>1, <1>10, <1>12, <1>13 DEF Meaning!Break, Meaning!given

\* MACROQUIT, and a command that is not conditional.
LEMMA QuitMeans ==
  ASSUME NEW i, Ready(i), Word = "MACROQUIT", macro_off(i), text' = text,
         UNCHANGED <<levels, given, running, runs>>
  PROVE  Meaning!Failure
<1>1. /\ pos' = i /\ ~macro_active' /\ Word \notin {"DO", "DOLIST"}
      /\ asked' = asked /\ truth' \in {truth, "ERROR"} /\ UNCHANGED <<running, runs>>
  BY DEF macro_off, given
<1> QED BY <1>1, ErrorFails

LEMMA OrdinaryMeans ==
  ASSUME NEW i, Ready(i), Ordinary, TypeOK', InBounds'
  PROVE  Meaning!Other \/ Meaning!Failure
<1>1. /\ pos' = i /\ text' = text /\ UNCHANGED <<running, runs, macro_active>> /\ i = pos + 1
      /\ lifresp' = lifresp /\ do_token' = do_token /\ UNCHANGED <<truth, asked>>
      /\ Word \in Commands \ Cnd /\ nerr' \in {0, 1}
  BY MeaningAt DEF Ordinary, levels, given
<1>2. /\ Word \notin {"DO", "DOLIST"} /\ Word \notin IfWords /\ Word \notin DoWords
  BY <1>1 DEF Cnd, DoWords, IfWords
<1>3. CASE nerr' # 0
  BY <1>1, <1>2, <1>3, ErrorFails
<1>4. CASE nerr' = 0
  <2>1. Moves(i)
    <3>1. Executing'
      BY <1>1, <1>4 DEF Ready, Reading, Executing
    <3> QED BY <1>1, <1>4, <3>1, OrdinaryFollows DEF Moves
  <2>2. Meaning!Goto(i + 1)
    BY <1>1, <1>2, <2>1, MeaningAt, NextLine
  <2>3. Meaning!At(Meaning!Commands \ Meaning!Cnd)
    BY <1>1, MeaningAt, SameWords
  <2> QED BY <1>1, <2>2, <2>3 DEF Meaning!Other, Meaning!given
<1> QED BY <1>1, <1>3, <1>4

\* The slots beyond those in use hold no list where a DO statement is read.
NoListFound == Reading /\ Word = "DO" => Unlisted

\* Every conditional command does what its statement means.
LEMMA ConditionalMeans ==
  ASSUME NEW i, Ready(i), Conditional, TypeOK', InBounds', NoListFound
  PROVE  Meaning!Next
<1>1. /\ Word \in Cnd /\ xcndc(Word, i, 1) /\ UNCHANGED <<running, runs>> /\ Reading
      /\ WellFormed(text)
  BY DEF Conditional, Ready
<1>2. text' = text /\ Outcome
  BY <1>1, ConditionalFollows DEF xcndc
<1>3. CASE Word = "MACROQUIT"
  <2>1. macro_off(i) /\ UNCHANGED <<levels, given>>
    BY <1>1, <1>3 DEF xcndc
  <2> QED BY <1>1, <1>2, <1>3, <2>1, QuitMeans DEF Meaning!Next
<1>4. CASE Word # "MACROQUIT"
  <2>1. UNCHANGED macro_active
    BY <1>1, <1>4 DEF xcndc
  <2>2. Runs(i)
    BY <1>1, <1>2, <2>1 DEF Runs
  <2>3. \/ Word = "IF"     /\ \E r \in Results : xif(i, r)
        \/ Word = "ELSEIF" /\ \E r \in Results : xelseif(i, r)
        \/ Word = "ELSE"   /\ xelse(i)
        \/ Word = "ENDIF"  /\ xendif(i)
        \/ Word = "DO"     /\ \E n \in 0..MaxItems, ok \in BOOLEAN : xdo(i, Word, n, ok)
        \/ Word = "DOLIST" /\ \E n \in 1..MaxItems, ok \in BOOLEAN : xdo(i, Word, n, ok)
        \/ Word = "WHILE"  /\ DoEnds(text, i) = {} /\ EndlessWhile
        \/ Word = "WHILE"  /\ \E r \in Results : xwhile(i, r)
        \/ Word = "ENDDO"  /\ xenddo(i)
        \/ Word = "BREAK"  /\ xbreak(i)
    BY <1>1, <1>4 DEF xcndc
  <2>4. CASE Word = "IF" /\ \E r \in Results : xif(i, r)
    BY <2>2, <2>4, IfMeans DEF Meaning!Next
  <2>5. CASE Word = "ELSEIF" /\ \E r \in Results : xelseif(i, r)
    BY <2>2, <2>5, ElseifMeans DEF Meaning!Next
  <2>6. CASE Word = "ELSE" /\ xelse(i)
    BY <2>2, <2>6, ElseMeans DEF Meaning!Next
  <2>7. CASE Word = "ENDIF" /\ xendif(i)
    BY <2>2, <2>7, EndifMeans DEF Meaning!Next
  <2>8. CASE Word = "DO" /\ \E n \in 0..MaxItems, ok \in BOOLEAN : xdo(i, Word, n, ok)
    <3>1. Word \in {"DO", "DOLIST"} /\ Word # "DOLIST" /\ Unlisted
      BY <1>1, <2>8 DEF NoListFound
    <3>2. PICK n \in 0..MaxItems, ok \in BOOLEAN : xdo(i, Word, n, ok)
      BY <2>8
    <3>3. Meaning!NotADo \/ Meaning!Do(n)
      BY <2>2, <3>1, <3>2, DoMeans
    <3> QED BY <3>2, <3>3 DEF Meaning!Next
  <2>9. CASE Word = "DOLIST" /\ \E n \in 1..MaxItems, ok \in BOOLEAN : xdo(i, Word, n, ok)
    <3>1. PICK n \in 1..MaxItems, ok \in BOOLEAN : xdo(i, Word, n, ok)
      BY <2>9
    <3>2. n \in 0..MaxItems /\ n > 0 /\ Word \in {"DO", "DOLIST"} /\ Word # "DO"
      BY <2>9, ItemAssumption
    <3>3. Meaning!NotADo \/ Meaning!Do(n)
      BY <2>2, <3>1, <3>2, DoMeans
    <3> QED BY <3>2, <3>3 DEF Meaning!Next
  <2>10. CASE Word = "WHILE" /\ DoEnds(text, i) = {} /\ EndlessWhile
    <3>1. Word \in DoWords
      BY <2>10 DEF DoWords
    <3>2. AtLine(i) /\ WordAt(i) = Word
      BY ReadyLine DEF Runs
    <3> QED BY <2>10, <3>1, <3>2, LoopFacts
  <2>11. CASE Word = "WHILE" /\ \E r \in Results : xwhile(i, r)
    BY <2>2, <2>11, WhileMeans DEF Meaning!Next
  <2>12. CASE Word = "ENDDO" /\ xenddo(i)
    BY <2>2, <2>12, EnddoMeans DEF Meaning!Next
  <2>13. CASE Word = "BREAK" /\ xbreak(i)
    BY <2>2, <2>13, BreakMeans DEF Meaning!Next
  <2> QED BY <2>3, <2>4, <2>5, <2>6, <2>7, <2>8, <2>9, <2>10, <2>11, <2>12, <2>13
<1> QED BY <1>3, <1>4

\* Nothing is open before the first line.
LEMMA NothingOpen ==
  ASSUME NEW t
  PROVE  OpenIfs(t, 0) = {} /\ OpenDos(t, 0) = {}
BY DEF OpenIfs, OpenDos, Lines

\* A macro is started, and closed.
LEMMA MacroMeans ==
  ASSUME NEW program \in Programs, Macro(program)
  PROVE  Meaning!Start
<1>1. /\ ~running /\ runs < MaxRuns /\ running' /\ runs' = runs + 1 /\ text' = program
      /\ pos' = 0 /\ nerr' = 0 /\ macro_active' /\ UNCHANGED <<truth, asked>>
  BY DEF Macro, given
<1>2. Executing' /\ Mode = "prompt" /\ Mode' = "macro"
  BY <1>1 DEF Executing, Mode
<1>3. OpenIfs(text', pos') = {} /\ OpenDos(text', pos') = {}
  BY <1>1, NothingOpen
<1>4. Taken' = {}
  BY <1>2, <1>3 DEF Taken
<1>5. Left' = <<>>
  <2>1. Left' = [d \in {} |-> do_token'[DoSlot(d)']]
    BY <1>2, <1>3 DEF Left
  <2> QED BY <2>1
<1> QED BY <1>1, <1>2, <1>4, <1>5 DEF Meaning!Start, Meaning!given

\* Closing it ends the structured program.
LEMMA CloseMeans ==
  ASSUME CloseMacro
  PROVE  Meaning!Finish
<1>1. /\ running /\ (nerr # 0 \/ ~macro_active \/ pos = Len(text)) /\ ~running'
      /\ text' = <<>> /\ pos' = 0 /\ UNCHANGED <<truth, asked, runs>>
  BY DEF CloseMacro, given
<1>2. Mode' = "prompt" /\ Taken' = {} /\ Left' = <<>>
  BY <1>1 DEF Mode, Taken, Left, Executing
<1>3. Mode = "stopping" \/ (Mode = "macro" /\ pos + 1 = Len(text) + 1)
  BY <1>1 DEF Mode, Executing
<1> QED BY <1>1, <1>2, <1>3 DEF Meaning!Finish, Meaning!given

\* A step of the macro system is one of the structured program, or none.
LEMMA StepMeans ==
  ASSUME WellWritten, Inv, TypeOK', InBounds', NoListFound, [Next]_vars
  PROVE  [Meaning!Next]_(Meaning!vars)
<1>1. ASSUME NEW program \in Programs, Macro(program) PROVE Meaning!Next
  BY <1>1, MacroMeans DEF Meaning!Next
<1>2. CASE Conditional
  BY <1>2, ReadingReady, ConditionalMeans DEF Conditional
<1>3. CASE Ordinary
  BY <1>3, ReadingReady, OrdinaryMeans DEF Ordinary, Meaning!Next
<1>4. CASE CloseMacro
  BY <1>4, CloseMeans DEF Meaning!Next
<1>5. CASE UNCHANGED vars
  <2>1. /\ UNCHANGED <<text, pos, nerr, macro_active, running, runs, truth, asked>>
        /\ UNCHANGED <<niflevel, lifresp, ndolevel, do_token>>
    BY <1>5 DEF vars, levels, given
  <2>2. /\ Executing' = Executing
        /\ \A d : IfSlot(d)' = IfSlot(d) /\ DoSlot(d)' = DoSlot(d)
    BY <2>1 DEF Executing, IfSlot, DoSlot
  <2>3. UNCHANGED <<Taken, Left, Mode>>
    BY <2>1, <2>2 DEF Taken, Left, Mode
  <2> QED BY <2>1, <2>3 DEF Meaning!vars
<1> QED BY <1>1, <1>2, <1>3, <1>4, <1>5 DEF Next

\* Both begin at the prompt.
LEMMA InitMeans ==
  ASSUME Init
  PROVE  Meaning!Init
<1>1. /\ text = <<>> /\ pos = 0 /\ ~running /\ runs = 0 /\ truth = "TRUE" /\ asked = 0
  BY DEF Init, CndInit
<1>2. Mode = "prompt" /\ Taken = {} /\ Left = <<>>
  BY <1>1 DEF Mode, Taken, Left, Executing
<1> QED BY <1>1, <1>2 DEF Meaning!Init

-----------------------------------------------------------------------------
(* The items that a BREAK leaves in the slot of a DO loop.                  *)

\* Text t has a line with this command.
Uses(t, word) == \E k \in 1..Len(t) : Is(t, k, {word})

\* No DO statement comes after a BREAK: where there are both, the slot that the
\* BREAK leaves may hold items when the DO makes no list of its own.
NoListLeft == \/ \A t \in Programs : ~Uses(t, "BREAK")
              \/ \A t \in Programs : ~Uses(t, "DO")
              \/ MaxRuns =< 1 /\ \A t \in Programs : ~(Uses(t, "BREAK") /\ Uses(t, "DO"))

\* No BREAK has run.
Unbroken == \/ \A t \in Programs : ~Uses(t, "BREAK")
            \/ runs = 0
            \/ runs = 1 /\ running /\ ~Uses(text, "BREAK")

\* Until one has, a slot that no DO loop is using has no items.
Spent(l) == l > ndolevel \/ ndotype[l] = 1
ListsEmpty == /\ running => runs # 0
              /\ Unbroken => \A l \in 1..MDOLEVEL : Spent(l) => do_token[l] = 0

\* Two slot arrays, written in one slot at most.
LEMMA SlotWritten ==
  ASSUME NEW f \in [1..MDOLEVEL -> Int], NEW k, NEW x, NEW l \in 1..MDOLEVEL
  PROVE  [f EXCEPT ![k] = x][l] = IF l = k THEN x ELSE f[l]
OBVIOUS

\* A conditional command other than BREAK leaves no items in a slot that it frees,
\* and takes none from one that it fills.
LEMMA ConditionalEmpties ==
  ASSUME NEW i, Typed(i), InBounds, Word # "BREAK", xcndc(Word, i, 1),
         \A l \in 1..MDOLEVEL : Spent(l) => do_token[l] = 0
  PROVE  \A l \in 1..MDOLEVEL : Spent(l)' => do_token'[l] = 0
<1> SUFFICES ASSUME NEW l \in 1..MDOLEVEL, Spent(l)' PROVE do_token'[l] = 0
  OBVIOUS
<1>1. /\ ndolevel \in Nat /\ MDOLEVEL \in Nat /\ l \in Nat /\ ndolevel =< MDOLEVEL
      /\ ndotype \in [1..MDOLEVEL -> Int] /\ do_token \in [1..MDOLEVEL -> Int]
      /\ ndotype[l] \in {0, 1}
  <2>1. CndTypeOK /\ MDOLEVEL \in Nat
    BY LevelAssumption DEF Typed
  <2>2. MaxItems \in Nat
    BY ItemAssumption
  <2> QED BY <2>1, <2>2 DEF CndTypeOK, InBounds
<1>2. l > ndolevel' \/ ndotype'[l] = 1
  BY DEF Spent
<1>3. l > ndolevel \/ ndotype[l] = 1 => do_token[l] = 0
  BY DEF Spent
<1>4. ASSUME UNCHANGED Loops PROVE do_token'[l] = 0
  BY <1>2, <1>3, <1>4 DEF Loops
<1>5. ASSUME UNCHANGED levels PROVE do_token'[l] = 0
  BY <1>4, <1>5 DEF levels, Loops
<1>6. ASSUME NEW word \in {"DO", "DOLIST"}, NEW n, NEW ok, xdo(i, word, n, ok)
      PROVE  do_token'[l] = 0
  <2> DEFINE level == ndolevel + 1
  <2>1. ndotype' = [ndotype EXCEPT ![level] = 0]
    BY <1>6 DEF xdo
  <2>2. ndotype'[l] = 1 => ndotype[l] = 1 /\ l # level
    BY <1>1, <2>1, SlotWritten
  <2>3. CASE UNCHANGED do_token /\ (ndolevel' = level \/ UNCHANGED ndolevel)
    BY <1>1, <1>2, <1>3, <2>2, <2>3
  <2>4. ASSUME NEW x, x = 0, skipdo(i, level), do_token' = [do_token EXCEPT ![level] = x]
        PROVE  do_token'[l] = 0
    <3>1. do_token'[l] = IF l = level THEN 0 ELSE do_token[l]
      BY <1>1, <2>4, SlotWritten
    <3>2. ndolevel' = level \/ ndolevel' = ndolevel
      BY <1>1, <2>4 DEF skipdo
    <3>3. l > ndolevel' => l > ndolevel
      BY <1>1, <3>2
    <3> QED BY <1>2, <1>3, <2>2, <3>1, <3>3
  <2>5. ASSUME NEW x, ndolevel' = level, do_token' = [do_token EXCEPT ![level] = x]
        PROVE  do_token'[l] = 0
    <3>1. do_token'[l] = IF l = level THEN x ELSE do_token[l]
      BY <1>1, <2>5, SlotWritten
    <3>2. l # level /\ (l > ndolevel' => l > ndolevel)
      BY <1>1, <1>2, <2>2, <2>5
    <3> QED BY <1>2, <1>3, <2>2, <3>1, <3>2
  <2> QED BY <1>6, <2>3, <2>4, <2>5 DEF xdo
<1>7. ASSUME NEW r, xwhile(i, r) PROVE do_token'[l] = 0
  <2>1. CASE UNCHANGED levels
    BY <1>5, <2>1
  <2>2. CASE /\ ndolevel' = ndolevel + 1 /\ UNCHANGED do_token
             /\ ndotype' = [ndotype EXCEPT ![ndolevel + 1] = 1]
    <3>1. ndotype'[l] = IF l = ndolevel + 1 THEN 1 ELSE ndotype[l]
      BY <1>1, <2>2, SlotWritten
    <3>2. l > ndolevel \/ ndotype[l] = 1
      BY <1>1, <1>2, <2>2, <3>1
    <3> QED BY <1>3, <2>2, <3>2
  <2>3. CASE skipdo(i, ndolevel + 1) /\ UNCHANGED <<ndotype, do_token>>
    <3>1. ndolevel' = ndolevel + 1 \/ ndolevel' = ndolevel
      BY <1>1, <2>3 DEF skipdo
    <3> QED BY <1>1, <1>2, <1>3, <2>3, <3>1
  <2> QED BY <1>7, <2>1, <2>2, <2>3 DEF xwhile, Fail
<1>8. ASSUME xenddo(i) PROVE do_token'[l] = 0
  <2>1. CASE Fail(i)
    BY <1>5, <2>1 DEF Fail
  <2>2. CASE ndolevel > 0 /\ UNCHANGED ndotype /\ AgainDo(i)
    <3>1. ndolevel \in 1..MDOLEVEL
      BY <1>1, <2>2
    <3>2. ndolevel' = ndolevel /\ ndotype' = ndotype /\ ndotype[ndolevel] = 0
          /\ do_token' = [do_token EXCEPT ![ndolevel] = @ - 1]
      BY <2>2 DEF AgainDo
    <3>3. l # ndolevel
      BY <1>1, <1>2, <3>2
    <3> QED BY <1>1, <1>2, <1>3, <3>2, <3>3, SlotWritten
  <2>3. CASE ndolevel > 0 /\ UNCHANGED ndotype /\ (AgainWhile(i) \/ ListDone(i))
    <3>1. /\ ndolevel' = ndolevel - 1 /\ do_token' = do_token
          /\ ndotype[ndolevel] = 1 \/ do_token[ndolevel] = 0
      BY <2>3 DEF AgainWhile, ListDone
    <3>2. CASE l = ndolevel
      BY <1>3, <3>1, <3>2
    <3>3. CASE l # ndolevel
      BY <1>1, <1>2, <1>3, <2>3, <3>1, <3>3
    <3> QED BY <3>2, <3>3
  <2> QED BY <1>8, <2>1, <2>2, <2>3 DEF xenddo
<1>9. ASSUME \E r \in Results : xif(i, r) PROVE do_token'[l] = 0
  BY <1>4, <1>9 DEF xif, Fail, Branch, levels, Loops
<1>10. ASSUME \E r \in Results : xelseif(i, r) PROVE do_token'[l] = 0
  BY <1>4, <1>10 DEF xelseif, Fail, Branch, PassBranch, levels, Loops
<1>11. ASSUME xelse(i) \/ xendif(i) PROVE do_token'[l] = 0
  BY <1>4, <1>11 DEF xelse, xendif, Fail, PassBranch, levels, Loops
<1> QED BY <1>5, <1>6, <1>7, <1>8, <1>9, <1>10, <1>11 DEF xcndc, Fail, EndlessWhile

\* So no slot holds a list, from the start on, as long as there is no BREAK ...
LEMMA ListsEmptyStart ==
  ASSUME Init
  PROVE  ListsEmpty
BY DEF Init, CndInit, ListsEmpty

LEMMA ListsEmptyStep ==
  ASSUME TypeOK, ListsEmpty, [Next]_vars
  PROVE  ListsEmpty'
<1>0. runs \in Nat /\ MDOLEVEL \in Nat
  BY RunsAssumption, LevelAssumption DEF TypeOK
<1>1. ASSUME NEW program \in Programs, Macro(program) PROVE ListsEmpty'
  <2>1. /\ ~running /\ runs' = runs + 1 /\ UNCHANGED <<ndolevel, ndotype, do_token>>
    BY <1>1 DEF Macro, levels
  <2>2. runs' # 0 /\ (Unbroken' => Unbroken)
    BY <1>0, <2>1 DEF Unbroken
  <2> QED BY <2>1, <2>2 DEF ListsEmpty, Spent
<1>2. CASE Conditional
  <2>1. /\ Reading /\ Word \in Cnd /\ xcndc(Word, pos + 1, 1) /\ UNCHANGED <<running, runs, text>>
    BY <1>2 DEF Conditional, xcndc
  <2>2. Typed(pos + 1) /\ InBounds
    BY <2>1, ReadingTyped DEF Reading
  <2>3. Unbroken' => Unbroken
    BY <2>1 DEF Unbroken
  <2>4. Word = "BREAK" => ~Unbroken
    <3> SUFFICES ASSUME Word = "BREAK" PROVE ~Unbroken
      OBVIOUS
    <3>1. pos + 1 \in 1..Len(text) /\ Is(text, pos + 1, {"BREAK"})
      BY <2>1, <2>2 DEF Reading, Typed, CndTypeOK, Word, Is
    <3>2. Uses(text, "BREAK")
      BY <3>1 DEF Uses
    <3>3. text \in Programs
      <4>1. Len(<<>>) = 0
        OBVIOUS
      <4>2. text # <<>>
        BY <3>1, <4>1
      <4> QED BY <4>2 DEF TypeOK
    <3>4. runs # 0
      BY <2>1 DEF ListsEmpty, Reading
    <3> QED BY <3>2, <3>3, <3>4 DEF Unbroken
  <2>5. Unbroken' => \A l \in 1..MDOLEVEL : Spent(l)' => do_token'[l] = 0
    BY <2>1, <2>2, <2>3, <2>4, ConditionalEmpties DEF ListsEmpty
  <2> QED BY <2>1, <2>5 DEF ListsEmpty
<1>3. CASE Ordinary
  BY <1>3 DEF Ordinary, levels, ListsEmpty, Unbroken, Spent
<1>4. CASE CloseMacro
  <2>1. /\ running /\ ~running' /\ UNCHANGED <<runs, ndolevel, ndotype, do_token>>
    BY <1>4 DEF CloseMacro, levels
  <2>2. Unbroken' => Unbroken
    BY <2>1 DEF Unbroken
  <2> QED BY <2>1, <2>2 DEF ListsEmpty, Spent
<1>5. CASE UNCHANGED vars
  BY <1>5 DEF vars, levels, ListsEmpty, Unbroken, Spent
<1> QED BY <1>1, <1>2, <1>3, <1>4, <1>5 DEF Next

\* ... and none when a DO statement is read.
LEMMA NoListIsFound ==
  ASSUME NoListLeft, TypeOK, ListsEmpty
  PROVE  NoListFound
<1> SUFFICES ASSUME Reading, Word = "DO" PROVE Unlisted
  BY DEF NoListFound
<1>1. pos + 1 \in 1..Len(text) /\ Is(text, pos + 1, {"DO"}) /\ running
  <2>1. Typed(pos + 1) /\ running /\ pos < Len(text)
    BY ReadingTyped DEF Reading
  <2> QED BY <2>1 DEF Typed, CndTypeOK, Word, Is
<1>2. Uses(text, "DO")
  BY <1>1 DEF Uses
<1>3. text \in Programs
  <2>1. Len(<<>>) = 0
    OBVIOUS
  <2>2. text # <<>>
    BY <1>1, <2>1
  <2> QED BY <2>2 DEF TypeOK
<1>4. runs # 0 /\ runs \in 0..MaxRuns /\ MaxRuns \in Nat
  BY <1>1, RunsAssumption DEF ListsEmpty, TypeOK
<1>5. Unbroken
  <2>1. CASE \A t \in Programs : ~Uses(t, "BREAK")
    BY <2>1 DEF Unbroken
  <2>2. CASE MaxRuns =< 1 /\ \A t \in Programs : ~(Uses(t, "BREAK") /\ Uses(t, "DO"))
    <3>1. runs = 1
      BY <1>4, <2>2
    <3> QED BY <1>1, <1>2, <1>3, <2>2, <3>1 DEF Unbroken
  <2> QED BY <1>2, <1>3, <2>1, <2>2 DEF NoListLeft
<1> QED BY <1>5 DEF ListsEmpty, Spent, Unlisted

\* Macros mean what the documentation of IF, DO, WHILE and BREAK says: however
\* the read position is moved, the lines that run are those that the structured
\* program runs, in its order, with the branches taken and the items left that it
\* has, by statement, where the macro system has them by level.  Two things that
\* really happen are excluded: levels beyond the arrays (MacroRun_limits.cfg) and a
\* list that a BREAK has left for a later DO (the run stale_list).
THEOREM MeansStructured ==
  ASSUME WellWritten, NoListLeft PROVE Spec /\ []InBounds => RunsAsStructured
<1>1. Spec => []TypeOK
  BY TypeCorrect
<1>2. Init /\ TypeOK => Inv
  BY InvStarts DEF Inv
<1>3. Inv /\ TypeOK' /\ [Next]_vars => Inv'
  BY InvStep
<1>4. Init => ListsEmpty
  BY ListsEmptyStart
<1>5. TypeOK /\ ListsEmpty /\ [Next]_vars => ListsEmpty'
  BY ListsEmptyStep
<1>6. Init => Meaning!Init
  BY InitMeans
<1>7. Inv /\ TypeOK /\ TypeOK' /\ InBounds' /\ ListsEmpty /\ [Next]_vars
        => [Meaning!Next]_(Meaning!vars)
  BY NoListIsFound, StepMeans
<1> QED BY <1>1, <1>2, <1>3, <1>4, <1>5, <1>6, <1>7, PTL
      DEF Spec, RunsAsStructured, Meaning!Spec

\* The first macro of a session that keeps to the documented limits does so
\* whatever its commands do: the levels cannot leave the arrays.
THEOREM FirstMacroMeans ==
  ASSUME WellWritten, NoListLeft, Shallow, MaxRuns =< 1 PROVE Spec => RunsAsStructured
<1>1. Spec => []TypeOK
  BY TypeCorrect
<1>2. Spec => [](runs =< 1 => WithinLimits)
  BY LimitsSuffice
<1>3. TypeOK /\ (runs =< 1 => WithinLimits) => InBounds
  <2>1. TypeOK => runs =< 1
    BY RunsAssumption DEF TypeOK
  <2> QED BY <2>1 DEF WithinLimits
<1>4. Spec /\ []InBounds => RunsAsStructured
  BY MeansStructured
<1> QED BY <1>1, <1>2, <1>3, <1>4, PTL
=============================================================================
