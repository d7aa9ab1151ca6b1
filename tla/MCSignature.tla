---------------------------- MODULE MCSignature ----------------------------
(* Small instance of Signature.                                            *)
EXTENDS Signature

Whole(w, a, t) == [keys |-> {"w", "a", "t"}, w |-> w, a |-> a, t |-> t]

\* A quiet and a busy curve that differ in every cell, one without a period, one with the
\* mean alone, and one that is no fingerprint.
MCMessages == {Whole(0, 16, 12), Whole(16, 4, 24), Whole(4, 8, 0),
               [keys |-> {"w"}, w |-> 12, a |-> 0, t |-> 0],
               [keys |-> {"a", "t"}, w |-> 0, a |-> 1, t |-> 24]}
\* Commands with what may stand around and inside them.
Fronts == {<<>>, <<" ">>, <<"\r", "\n">>}
Backs == {<<>>, <<"\n">>, <<NUL>>, <<" ", NUL>>}
Gaps == {<<>>, <<" ">>}
Before == {<<>>, <<"\"id\"", ":", "1", ",">>}
After == {<<>>, <<",", "\"note\"", ":", "\"v\"">>, <<",", "\"of\"", ":", "0">>}
Objects(n) == {<<"{">> \o b \o <<ValueKey>> \o g \o <<":">> \o h \o <<n>> \o a \o <<"}">> :
                 b \in Before, g \in Gaps, h \in Gaps, a \in After}
Around(s, says) ==
  {[payload |-> f \o p \o b, says |-> says] : f \in Fronts, p \in s, b \in Backs}
MCPayloads ==
  Around({<<"on">>, <<"open">>, <<"1">>} \cup Objects("1") \cup Objects("0.5"), "on")
  \cup Around({<<"off">>, <<"close">>, <<"0">>} \cup Objects("0") \cup Objects("0.4"), "off")
  \cup Around({<<>>, <<"on", "on">>, <<"{", "}">>, <<"-1">>, <<"1", NUL, "1">>,
               <<"{", "\"w\"", ":", "1", "}">>}, "none")
MCFlows == {1, 8, 16}
MCHours == {1, 4, 8, 20}
=============================================================================
