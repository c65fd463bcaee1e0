----------------------------- MODULE MCSession ------------------------------
(***************************************************************************)
(* Instances of Session for TLC.                                           *)
(***************************************************************************)
EXTENDS SessionMeaning

CONSTANT c            \* a file; the others are alike

Alike == Permutations(Files \ {c})

MCNames  == {"d1", "d10"}
MCBegins == {<<x, x>> : x \in MCNames} \cup {<<"d1", "d10">>}

Header(name, delta, even) == [name |-> name, delta |-> delta, even |-> even]

Spectral == [f \in Files |-> IF f = c THEN Header("d10", 1, FALSE)
                             ELSE Header("d1", 1, TRUE)]
Stacked  == [f \in Files |-> IF f = c THEN Header("d10", 2, TRUE)
                             ELSE Header("d1", 1, TRUE)]

\* READ: of a readable list one file can be read, or all are missing.
Readable   == {<<"ok">>, <<"ok", "bad">>, <<"ok", "ok">>, <<"missing">>}
AnyList    == {<<"ok">>, <<"ok", "bad">>, <<"ok", "ok">>, <<"missing">>, <<"bad">>}
OneOrNone  == {<<"ok">>, <<"bad">>, <<"missing">>}
TwoGood   == {<<"ok", "ok">>}
Missing   == {<<"missing">>}

\* Deletions that name no file twice, those of the stack from its end.
Distinct == {<<2>>, <<1, 3>>, <<1, 2>>}
Ends     == {<<3>>, <<2, 3>>}
Twice    == {<<3, 1, 3>>}
AnyOne   == {<<1>>, <<2>>}
NameLists == {<<"d1">>, <<"d10", "d1">>}
None     == {}

OneDelayed == {[delay |-> 0, incr |-> 1]}
=============================================================================
