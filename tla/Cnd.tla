-------------------------------- MODULE Cnd --------------------------------
(***************************************************************************)
(* The conditional-execution commands of SAC (src/src/cnd): IF, ELSEIF,    *)
(* ELSE, ENDIF, DO, WHILE, ENDDO, BREAK and MACROQUIT.                     *)
(*                                                                         *)
(* SAC has no parse tree.  A macro is a text file with a read position,    *)
(* and a conditional command works by moving that position: forward past a *)
(* clause that is not to run, backward to the top of a loop.  What is open *)
(* is remembered in the globals of cnd.h, one array slot per nesting       *)
(* level; all macros share them and nothing resets them.                   *)
(*                                                                         *)
(* A handler's argument i is the number of lines of the current macro read *)
(* when it is called, its own line included.                               *)
(***************************************************************************)
EXTENDS MacroText

CONSTANTS MIFLEVEL,   \* slots for nested IF clauses (10 in cnd.h)
          MDOLEVEL,   \* slots for nested loops (10 in cnd.h)
          MaxItems    \* bound: the longest list a DO statement makes

ASSUME LevelAssumption == MIFLEVEL \in Nat /\ MDOLEVEL \in Nat
ASSUME ItemAssumption  == MaxItems \in Nat \ {0}

VARIABLES text,          \* the macro file that kvarsname's "fileunit" names
          pos,           \* lines of it read so far
          nerr,          \* 0, or 1 when the last command raised an error
          macro_active,  \* cleared by MACROQUIT
          niflevel,      \* open IF clauses
          lifresp,       \* [level] has a branch of the clause been taken?
          ndolevel,      \* open loops
          ndotype,       \* [level] 1 for WHILE, 0 for DO
          ndolines,      \* [level] lines from the loop statement to its ENDDO
          do_token,      \* [level] items of the DO list not yet iterated
          truth,         \* what the last condition evaluated to
          asked          \* the items the last DO statement listed or matched

levels == <<niflevel, lifresp, ndolevel, ndotype, ndolines, do_token>>
given  == <<truth, asked>>

Results == {"TRUE", "FALSE", "ERROR"}

CndTypeOK ==
  /\ pos \in 0..Len(text)
  /\ nerr \in {0, 1}
  /\ macro_active \in BOOLEAN
  /\ niflevel \in Int
  /\ lifresp \in [1..MIFLEVEL -> BOOLEAN]
  /\ ndolevel \in Nat
  /\ ndotype \in [1..MDOLEVEL -> {0, 1}]
  /\ ndolines \in [1..MDOLEVEL -> Nat]
  /\ do_token \in [1..MDOLEVEL -> 0..MaxItems]
  /\ truth \in Results
  /\ asked \in 0..MaxItems

CndInit ==
  /\ nerr = 0
  /\ macro_active = FALSE
  /\ niflevel = 0 /\ lifresp = [l \in 1..MIFLEVEL |-> FALSE]
  /\ ndolevel = 0 /\ ndotype = [l \in 1..MDOLEVEL |-> 0]
  /\ ndolines = [l \in 1..MDOLEVEL |-> 0]
  /\ do_token = [l \in 1..MDOLEVEL |-> 0]
  /\ truth = "TRUE" /\ asked = 0

-----------------------------------------------------------------------------
(* The forward searches. *)

Raise(error) == nerr' = IF error THEN 1 ELSE 0

\* Stop before the ELSE, ELSEIF or ENDIF that ends the clause (the line is
\* given back, to be executed next); an error at the end of the file.
skipif(i) ==
  /\ pos' = IF IfEnds(text, i) = {} THEN Len(text) ELSE EndIf(text, i) - 1
  /\ Raise(IfEnds(text, i) = {})

\* Mutant: the IF and ENDIF lines passed on the way are not counted.
skipdoCountsNoIfs(i, level) ==
  LET stop == IF DoEnds(text, i) = {} THEN Len(text) ELSE EndDo(text, i)
  IN  /\ pos' = stop
      /\ UNCHANGED niflevel
      /\ ndolevel' = IF DoEnds(text, i) = {} THEN level ELSE level - 1
      /\ Raise(DoEnds(text, i) = {})

\* Stop after the ENDDO that ends the loop.  The IF and ENDIF lines passed on
\* the way open and close clauses; the loop at the given level is closed.
skipdo(i, level) ==
  LET stop == IF DoEnds(text, i) = {} THEN Len(text) ELSE EndDo(text, i)
  IN  /\ pos' = stop
      /\ niflevel' = niflevel + NumIfs(text, i, stop)
      /\ ndolevel' = IF DoEnds(text, i) = {} THEN level ELSE level - 1
      /\ Raise(DoEnds(text, i) = {})

\* Mutant: the ENDDO line is not counted.
getdolenShort(i) ==
  (IF DoEnds(text, i) = {} THEN Len(text) ELSE EndDo(text, i)) - i - 1

getdolen(i) == (IF DoEnds(text, i) = {} THEN Len(text) ELSE EndDo(text, i)) - i

-----------------------------------------------------------------------------
(* IF clauses.  result is what evallogical makes of the condition. *)

Loops == <<ndolevel, ndotype, ndolines, do_token>>

Fail(i) == pos' = i /\ Raise(TRUE) /\ UNCHANGED levels

Evaluate(result) == truth' = result /\ UNCHANGED asked

\* Mutant: the slot keeps the response of the last clause at this level.
BranchNotRecorded(i, result) ==
  /\ UNCHANGED lifresp
  /\ IF result = "TRUE" THEN pos' = i /\ Raise(FALSE) ELSE skipif(i)
  /\ UNCHANGED Loops

\* The branch that follows line i runs, or is searched past.
Branch(i, result) ==
  /\ lifresp' = [lifresp EXCEPT ![niflevel'] = (result = "TRUE")]
  /\ IF result = "TRUE" THEN pos' = i /\ Raise(FALSE) ELSE skipif(i)
  /\ UNCHANGED Loops

xif(i, result) ==
  /\ Evaluate(result)
  /\ \/ result = "ERROR" /\ Fail(i)
     \/ result # "ERROR" /\ niflevel' = niflevel + 1 /\ Branch(i, result)

\* The clause's branch has run: search for the next branch or the ENDIF.
PassBranch(i) == lifresp[niflevel] /\ skipif(i) /\ UNCHANGED <<levels, given>>

xelseif(i, result) ==
  \/ niflevel =< 0 /\ Fail(i) /\ UNCHANGED given
  \/ niflevel > 0 /\ PassBranch(i)
  \/ /\ niflevel > 0 /\ ~lifresp[niflevel]
     /\ Evaluate(result)
     /\ \/ result = "ERROR" /\ Fail(i)
        \/ result # "ERROR" /\ UNCHANGED niflevel /\ Branch(i, result)

\* Mutant: the branch is run without asking whether another one has.
xelseAlways(i) ==
  \/ niflevel =< 0 /\ Fail(i) /\ UNCHANGED given
  \/ /\ niflevel > 0
     /\ pos' = i /\ Raise(FALSE) /\ UNCHANGED <<levels, given>>

xelse(i) ==
  \/ niflevel =< 0 /\ Fail(i) /\ UNCHANGED given
  \/ niflevel > 0 /\ PassBranch(i)
  \/ /\ niflevel > 0 /\ ~lifresp[niflevel]
     /\ pos' = i /\ Raise(FALSE) /\ UNCHANGED <<levels, given>>

\* Mutants: the outermost clause is not closed; no clause is closed.
xendifInner(i) ==
  /\ pos' = i
  /\ Raise(niflevel =< 1)
  /\ niflevel' = IF niflevel > 1 THEN niflevel - 1 ELSE niflevel
  /\ UNCHANGED <<lifresp, Loops, given>>
xendifNever(i) ==
  /\ pos' = i
  /\ Raise(niflevel =< 0)
  /\ UNCHANGED <<niflevel, lifresp, Loops, given>>

xendif(i) ==
  /\ pos' = i
  /\ Raise(niflevel =< 0)
  /\ niflevel' = IF niflevel > 0 THEN niflevel - 1 ELSE niflevel
  /\ UNCHANGED <<lifresp, Loops, given>>

-----------------------------------------------------------------------------
(* Loops. *)

\* The DO list once the statement has been read.  LIST always makes a list;
\* FROM, "=" and WILD link the items they count or match, and when there are
\* none they leave the level's slot as they find it.
MakeList(word, items, old) ==
  IF word = "DOLIST" \/ items > 0 THEN items ELSE old

\* What the slot holds; behind the last slot there may be anything.
Stored(level) ==
  IF level \in DOMAIN do_token THEN {do_token[level]} ELSE 0..MaxItems

\* getdolen's error is reported and then cleared, with the loop left open and
\* the file at its end; a syntax error closes the loop again.
xdo(i, word, items, syntaxok) ==
  \E old \in Stored(ndolevel + 1) :
  LET level == ndolevel + 1
      list  == MakeList(word, items, old)
  IN  /\ ndotype'  = [ndotype EXCEPT ![level] = 0]
      /\ ndolines' = [ndolines EXCEPT ![level] = getdolen(i)]
      /\ asked' = items
      /\ UNCHANGED <<lifresp, truth>>
      /\ \/ /\ DoEnds(text, i) = {}
            /\ pos' = Len(text) /\ ndolevel' = level /\ Raise(FALSE)
            /\ UNCHANGED <<niflevel, do_token>>
         \/ /\ DoEnds(text, i) # {} /\ ~syntaxok
            /\ pos' = i /\ Raise(TRUE)
            /\ UNCHANGED <<niflevel, ndolevel, do_token>>
         \/ /\ DoEnds(text, i) # {} /\ syntaxok /\ list = 0
            /\ skipdo(i, level)
            /\ do_token' = [do_token EXCEPT ![level] = list]
         \/ /\ DoEnds(text, i) # {} /\ syntaxok /\ list > 0
            /\ pos' = i /\ ndolevel' = level /\ Raise(FALSE)
            /\ do_token' = [do_token EXCEPT ![level] = list - 1]
            /\ UNCHANGED niflevel

\* Mutant: the slot keeps the kind of the last loop at this level.
xwhileNoType(i, result) ==
  /\ Evaluate(result)
  /\ \/ DoEnds(text, i) # {} /\ result = "ERROR" /\ Fail(i)
     \/ /\ DoEnds(text, i) # {} /\ result = "TRUE"
        /\ ndolevel' = ndolevel + 1
        /\ ndolines' = [ndolines EXCEPT ![ndolevel + 1] = getdolen(i)]
        /\ pos' = i /\ Raise(FALSE)
        /\ UNCHANGED <<niflevel, lifresp, ndotype, do_token>>
     \/ /\ DoEnds(text, i) # {} /\ result = "FALSE"
        /\ skipdo(i, ndolevel + 1)
        /\ UNCHANGED <<lifresp, ndotype, ndolines, do_token>>

xwhile(i, result) ==
  /\ Evaluate(result)
  /\ \/ DoEnds(text, i) # {} /\ result = "ERROR" /\ Fail(i)
     \/ /\ DoEnds(text, i) # {} /\ result = "TRUE"
        /\ ndolevel' = ndolevel + 1
        /\ ndotype'  = [ndotype EXCEPT ![ndolevel + 1] = 1]
        /\ ndolines' = [ndolines EXCEPT ![ndolevel + 1] = getdolen(i)]
        /\ pos' = i /\ Raise(FALSE)
        /\ UNCHANGED <<niflevel, lifresp, do_token>>
     \/ /\ DoEnds(text, i) # {} /\ result = "FALSE"
        /\ skipdo(i, ndolevel + 1)
        /\ UNCHANGED <<lifresp, ndotype, ndolines, do_token>>

\* A WHILE without an ENDDO: the condition is not looked at.
EndlessWhile ==
  /\ pos' = Len(text) /\ Raise(TRUE) /\ UNCHANGED <<levels, given>>

Backspace(i, n) == pos' = IF n < i THEN i - n ELSE 0

\* Mutant: the loop is left open when its statement is to run again.
AgainWhileOpen(i) ==
  /\ ndotype[ndolevel] = 1
  /\ Backspace(i, ndolines[ndolevel] + 1)
  /\ UNCHANGED <<ndolevel, do_token>>

\* Back to the WHILE statement, to evaluate it again.
AgainWhile(i) ==
  /\ ndotype[ndolevel] = 1
  /\ Backspace(i, ndolines[ndolevel] + 1)
  /\ ndolevel' = ndolevel - 1
  /\ UNCHANGED do_token

\* Mutants: an item beyond the list is taken; no item is taken off it.
AgainDoBeyond(i) ==
  /\ ndotype[ndolevel] = 0 /\ do_token[ndolevel] >= 0
  /\ Backspace(i, ndolines[ndolevel])
  /\ do_token' = [do_token EXCEPT ![ndolevel] = @ - 1]
  /\ UNCHANGED ndolevel
AgainDoForever(i) ==
  /\ ndotype[ndolevel] = 0 /\ do_token[ndolevel] > 0
  /\ Backspace(i, ndolines[ndolevel])
  /\ UNCHANGED <<ndolevel, do_token>>

\* Back to the line after the DO statement, with the next item.
AgainDo(i) ==
  /\ ndotype[ndolevel] = 0 /\ do_token[ndolevel] > 0
  /\ Backspace(i, ndolines[ndolevel])
  /\ do_token' = [do_token EXCEPT ![ndolevel] = @ - 1]
  /\ UNCHANGED ndolevel

ListDone(i) ==
  /\ ndotype[ndolevel] = 0 /\ do_token[ndolevel] = 0
  /\ pos' = i
  /\ ndolevel' = ndolevel - 1
  /\ UNCHANGED do_token

xenddo(i) ==
  /\ UNCHANGED given
  /\ \/ ndolevel = 0 /\ Fail(i)
     \/ /\ ndolevel > 0 /\ Raise(FALSE)
        /\ AgainWhile(i) \/ AgainDo(i) \/ ListDone(i)
        /\ UNCHANGED <<niflevel, lifresp, ndotype, ndolines>>

\* Mutant: BREAK is refused in the outermost loop.
xbreakInner(i) ==
  /\ UNCHANGED given
  /\ \/ ndolevel =< 1 /\ Fail(i)
     \/ /\ ndolevel > 1 /\ skipdo(i, ndolevel)
        /\ UNCHANGED <<lifresp, ndotype, ndolines, do_token>>

xbreak(i) ==
  /\ UNCHANGED given
  /\ \/ ndolevel = 0 /\ Fail(i)
     \/ /\ ndolevel > 0 /\ skipdo(i, ndolevel)
        /\ UNCHANGED <<lifresp, ndotype, ndolines, do_token>>

-----------------------------------------------------------------------------
macro_off(i) == macro_active' = FALSE /\ pos' = i /\ Raise(FALSE)

(***************************************************************************)
(* One conditional command.  At level 0, the terminal, it is an error.     *)
(***************************************************************************)
xcndc(word, i, level) ==
  /\ UNCHANGED text
  /\ \/ level < 1 /\ Fail(i) /\ UNCHANGED <<macro_active, given>>
     \/ /\ level >= 1 /\ word = "MACROQUIT" /\ macro_off(i)
        /\ UNCHANGED <<levels, given>>
     \/ /\ level >= 1 /\ UNCHANGED macro_active
        /\ \/ word = "IF"     /\ \E r \in Results : xif(i, r)
           \/ word = "ELSEIF" /\ \E r \in Results : xelseif(i, r)
           \/ word = "ELSE"   /\ xelse(i)
           \/ word = "ENDIF"  /\ xendif(i)
           \/ word = "DO"     /\ \E n \in 0..MaxItems, ok \in BOOLEAN :
                                    xdo(i, word, n, ok)
           \/ word = "DOLIST" /\ \E n \in 1..MaxItems, ok \in BOOLEAN :
                                    xdo(i, word, n, ok)
           \/ word = "WHILE"  /\ DoEnds(text, i) = {} /\ EndlessWhile
           \/ word = "WHILE"  /\ \E r \in Results : xwhile(i, r)
           \/ word = "ENDDO"  /\ xenddo(i)
           \/ word = "BREAK"  /\ xbreak(i)
=============================================================================
