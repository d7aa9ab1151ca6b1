--------------------------- MODULE MCJsonDocument ---------------------------
(* Small instance of JsonDocument: all texts of a few tokens, and documents *)
(* of two elements.                                                         *)
EXTENDS JsonDocument

MCLetters == {"a", "b", "n", "1"}
MCChars == MCLetters \cup {NUL, "[", "]", "{", "}", ",", ":", "\"", "'", "\\", "/", "*",
                           " ", "\n", "\t", "\r", "\f", "BS"}

Tokens == {<<"[">>, <<"]">>, <<"{">>, <<"}">>, <<",">>, <<":">>, <<"a">>,
           <<"\"", "b", "\"">>, <<"/", "*", ",", "*", "/">>, <<"\"">>}
Loose == UNION {[1..n -> Tokens] : n \in 0..3}

\* Values and keys: escapes, the other quote, brackets inside strings, nothing at all.
Values == {<<>>, <<"1">>, <<"'", "\"", "[", "'">>, <<"\"", "\\", "\\", "\"">>,
           <<"\"", "\\", "n", ",", "\"">>, <<"\"", "\\">>, <<"[", "]">>, <<"[", "1", "]">>,
           <<"{", "a", ":", "b", "}">>, <<" ", "/", "/", "]", "\n", "a", "\t">>}
Keys == {<<>>, <<"a">>, <<"\"", "a", "\"">>, <<"'", "\\", "'", "'">>}

Arrays == {<<"[">> \o v \o <<",">> \o u \o <<"]">> : v \in Values, u \in Values}
Objects == {<<"{">> \o j \o <<":">> \o v \o <<",">> \o k \o <<":">> \o u \o <<"}">> :
              j \in Keys, k \in Keys, v \in Values, u \in Values}

MCEdited == {AsText(<<"[", "1", "]">>), AsText(<<"{", "a", ":", "b", "}">>)}
MCTexts ==
  {AsText(s) : s \in {FlattenSeq(l) : l \in Loose} \cup Arrays \cup Objects} \cup MCEdited
MCEditKeys == {[text |-> <<"a">>, copied |-> FALSE], [text |-> <<"n">>, copied |-> TRUE]}
MCEditValues == {[text |-> <<"\\">>, copied |-> FALSE], [text |-> <<"1", "\"">>, copied |-> TRUE]}

MCCapacities == {34, 80}
MCLimits == {1, 3}
=============================================================================
