---------------------------- MODULE MCMacroExec ----------------------------
(***************************************************************************)
(* Instances of MacroExec for TLC: small macros that run each other.       *)
(***************************************************************************)
EXTENDS MacroNesting

MCInputs == {<<"MACRO">>, <<"MACRO", "MACRO">>, <<"CMD", "MACRO">>, <<"IF">>}

\* Macros of which no line runs a macro after another command: what happens
\* before it on the line is forgotten (SpoiledReadsNoLine).
Separate == {
  <<>>,
  <<<<"CMD">>, <<"MACRO">>>>,
  <<<<"MACRO", "CMD">>, <<"BAD", "CMD">>>>,
  <<<<"DOLIST">>, <<"MACRO">>, <<"ENDDO">>>>,
  <<<<"DOLIST">>, <<"IF">>, <<"MACRO">>, <<"BREAK">>, <<"ENDIF">>, <<"ENDDO">>>>,
  <<<<"IF">>, <<"MACRO">>, <<"ELSE">>, <<"CMD">>, <<"ENDIF">>>>,
  <<<<"IF">>, <<"MACROQUIT", "CMD">>, <<"ENDIF">>>>}

Joined == {<<<<"CMD", "MACRO">>, <<"CMD">>>>, <<<<"CMD">>>>}

Leaves == {<<<<"MACRO">>, <<"CMD">>>>, <<<<"CMD">>>>}

Both == {TRUE, FALSE}
Always == {TRUE}
=============================================================================
