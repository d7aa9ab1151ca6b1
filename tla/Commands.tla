------------------------------ MODULE Commands ------------------------------
(***************************************************************************)
(* What the meter makes of a payload on its command topic: onMessage,      *)
(* parseCommand and jsonFloat.  A payload is a sequence of symbols, each   *)
(* a run of bytes that the code never cuts or looks into.                  *)
(***************************************************************************)
EXTENDS Naturals, Sequences, FiniteSetsExt, SequencesExt

CONSTANT MsgSize  \* sizeof(msg_)

ASSUME CommandsAssumption == MsgSize \in Nat \ {0}

NUL == "NUL"
Blanks == {" ", "\t", "\r", "\n"}
ValueKey == "\"v\""

\* The numbers payloads may hold, in tenths.
Tenths == [n \in {"0", "0.4", "0.5", "1"} |->
             CASE n = "0" -> 0 [] n = "0.4" -> 4 [] n = "0.5" -> 5 [] n = "1" -> 10]

Bytes(p) == SumFunction([i \in DOMAIN p |-> IF p[i] = NUL THEN 1 ELSE Len(p[i])])

\* Mutant: a terminator that was sent along stays.
TrimmedOfBlanks(p) ==
  LET kept == {i \in DOMAIN p : p[i] \notin Blanks}
  IN  IF kept = {} THEN <<>> ELSE SubSeq(p, Min(kept), Max(kept))

\* Without blanks in front, and without blanks and NULs behind.
Trimmed(p) ==
  LET front == {i \in DOMAIN p : p[i] \notin Blanks}
      back  == {i \in front : p[i] # NUL}
  IN  IF back = {} THEN <<>> ELSE SubSeq(p, Min(front), Max(back))

\* msg_ as a string: what fits of the payload, up to the first NUL.
Copied(p) ==
  SubSeq(p, 1, Max({n \in 0..Len(p) : /\ Bytes(SubSeq(p, 1, n)) < MsgSize
                                      /\ \A i \in 1..n : p[i] # NUL}))

Holds(p, s) == \E i \in DOMAIN p : p[i] = s
Behind(p, s) == SubSeq(p, Min({i \in DOMAIN p : p[i] = s}) + 1, Len(p))

\* strtod: a number behind blanks, and 0 for anything else.
Atof(p) ==
  LET t == Trimmed(p) IN IF t # <<>> /\ t[1] \in DOMAIN Tenths THEN Tenths[t[1]] ELSE 0

\* jsonFloat: the key, wherever it is, and behind its next colon the number.
HasFloat(p, key) == Holds(p, key) /\ Holds(Behind(p, key), ":")
Float(p, key) == Atof(Behind(Behind(p, key), ":"))

ParseCommand(p) ==
  CASE p \in {<<"on">>, <<"open">>, <<"1">>}   -> "on"
    [] p \in {<<"off">>, <<"close">>, <<"0">>} -> "off"
    [] /\ Bytes(p) >= 5 /\ p[1] = "{"
       /\ HasFloat(Copied(p), ValueKey)        -> IF Float(Copied(p), ValueKey) >= 5
                                                  THEN "on" ELSE "off"
    [] OTHER                                   -> "none"

-----------------------------------------------------------------------------
(* What a payload means to its sender, said without a search: on, off, or  *)
(* nothing.                                                                *)

\* The text of p, without what may stand around it, is at i..j.
TextAt(p, i, j) ==
  /\ i <= j /\ p[i] \notin Blanks /\ p[j] \notin Blanks \cup {NUL}
  /\ \A k \in DOMAIN p : /\ k < i => p[k] \in Blanks
                         /\ k > j => p[k] \in Blanks \cup {NUL}

\* The object s has its "v" at k, a colon at c and a number at n, all inside the
\* buffer and with blanks between them.
NumberAt(s, k, c, n) ==
  /\ k < c /\ c < n
  /\ s[k] = ValueKey /\ s[c] = ":" /\ s[n] \in DOMAIN Tenths
  /\ \A i \in 1..n : /\ s[i] # NUL
                     /\ i < k => s[i] # ValueKey
                     /\ k < i /\ i < n /\ i # c => s[i] \in Blanks
  /\ Bytes(s) >= 5 /\ Bytes(SubSeq(s, 1, n)) < MsgSize

Says(s, what) ==
  \/ s \in {<<"on">>, <<"open">>, <<"1">>} /\ what = "on"
  \/ s \in {<<"off">>, <<"close">>, <<"0">>} /\ what = "off"
  \/ /\ s[1] = "{"
     /\ \E k, c, n \in DOMAIN s :
          NumberAt(s, k, c, n) /\ what = (IF Tenths[s[n]] >= 5 THEN "on" ELSE "off")
  \/ /\ \A w \in {"on", "open", "1", "off", "close", "0"} : s # <<w>>
     /\ s[1] = "{" => \A i \in DOMAIN s : s[i] # ValueKey
     /\ what = "none"

Means(p, what) ==
  \/ \E i, j \in DOMAIN p : TextAt(p, i, j) /\ Says(SubSeq(p, i, j), what)
  \/ (\A i \in DOMAIN p : p[i] \in Blanks \cup {NUL}) /\ what = "none"
=============================================================================
