----------------------------- MODULE MCMacroRun -----------------------------
(***************************************************************************)
(* Instances of MacroRun for TLC: every well-formed macro text of a given  *)
(* length over a given set of words, one word on a line.                   *)
(***************************************************************************)
EXTENDS MacroMeaning, TLC

CONSTANTS MaxLength,  \* bound: the longest text
          Words       \* the words texts are made of

One(word) == <<<<word>>>>

Pick(words) == {One(w) : w \in words \cap Words}

\* Blocks(n, inLoop): the well-formed texts of n lines.  BREAK is a word of
\* those inside a loop only.  Arms: what may stand between IF and ENDIF.
RECURSIVE Blocks(_, _), Arms(_, _), Statements(_, _)

Join(S, sep, T) == {a \o sep \o b : a \in S, b \in T}

Statements(n, inLoop) ==
  IF n = 1 THEN Pick({"CMD", "IFFT", "W", "MACROQUIT"})
                  \cup (IF inLoop THEN Pick({"BREAK"}) ELSE {})
  ELSE UNION {{a \o b \o One("ENDIF") : b \in Arms(n - 2, inLoop)} :
                a \in Pick({"IF"})}
       \cup UNION {{a \o b \o One("ENDDO") : b \in Blocks(n - 2, TRUE)} :
                a \in Pick(DoWords)}

Blocks(n, inLoop) ==
  IF n = 0 THEN {<<>>}
  ELSE UNION {Join(Statements(m, inLoop), <<>>, Blocks(n - m, inLoop)) :
                m \in 1..n}

Arms(n, inLoop) ==
  Blocks(n, inLoop)
    \cup UNION {Join(Blocks(m, inLoop), s, Blocks(n - 1 - m, inLoop)) :
                  m \in 0..(n - 1), s \in Pick({"ELSE"})}
    \cup UNION {Join(Blocks(m, inLoop), s, Arms(n - 1 - m, inLoop)) :
                  m \in 0..(n - 1), s \in Pick({"ELSEIF"})}

AllTexts == UNION {Blocks(n, FALSE) : n \in 0..MaxLength}

Has(t, words) == \E k \in 1..Len(t) : Is(t, k, words)

\* Leaving a DO loop with FROM, "=" or WILD by BREAK spoils a later such loop
\* (EmptyLoopRunsNoBody): the runs that pass have one or the other.
Unspoiled == {t \in AllTexts : ~(Has(t, {"DO"}) /\ Has(t, {"BREAK"}))}

\* Longer texts: what a shorter one cannot nest.
Sample == {
  <<<<"DOLIST">>, <<"IF">>, <<"DOLIST">>, <<"IF">>, <<"BREAK">>, <<"ENDIF">>,
    <<"ENDDO">>, <<"ELSE">>, <<"BREAK">>, <<"ENDIF">>, <<"CMD">>, <<"ENDDO">>>>,
  <<<<"WHILE">>, <<"DO">>, <<"IF">>, <<"CMD">>, <<"ELSEIF">>, <<"MACROQUIT">>,
    <<"ELSE">>, <<"CMD">>, <<"ENDIF">>, <<"ENDDO">>, <<"ENDDO">>, <<"CMD">>>>,
  <<<<"IF">>, <<"IF">>, <<"CMD">>, <<"ELSE">>, <<"CMD">>, <<"ENDIF">>,
    <<"ELSEIF">>, <<"DOLIST">>, <<"ENDDO">>, <<"ELSE">>, <<"WHILE">>, <<"IF">>,
    <<"BREAK">>, <<"ENDIF">>, <<"ENDDO">>, <<"ENDIF">>>>}

MCUnspoiled == Unspoiled \cup Sample
=============================================================================
