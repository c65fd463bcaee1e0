---------------------------- MODULE MCMacroPause ----------------------------
(***************************************************************************)
(* Instances of MacroPause for TLC.                                        *)
(***************************************************************************)
EXTENDS MacroPause

CONSTANT MaxLength    \* bound: the longest macro

InFiles == Words \ {"$RESUME", "$KILL"}

Texts == UNION {[1..n -> InFiles] : n \in 0..MaxLength}

\* One pause.
Pauses == {<<"$TERMINAL", "CMD">>}

Answers == {"CMD", "$RESUME", "$KILL"}
InFile   == {"file"}
Anywhere == {"file", "pause"}
=============================================================================
