----------------------------- MODULE JsonParser -----------------------------
(***************************************************************************)
(* ArduinoJson's parser, character by character.  It reads and writes the  *)
(* same memory: strings are unquoted and unescaped in place, and the tree  *)
(* points at them.  A loop of the code over characters is a step for each. *)
(*                                                                         *)
(* A string in the tree is its characters; that the memory still holds     *)
(* them is the invariant StringsSurvive.  Nodes and containers take memory *)
(* from a StaticJsonBuffer, counted in `used'.                             *)
(***************************************************************************)
EXTENDS Integers, Sequences

CONSTANTS
  Texts,          \* texts to parse: functions from 0..n to characters, NUL at n
  Limits,         \* nestingLimit
  Capacities,     \* CAPACITY of the StaticJsonBuffer
  Chars,          \* the characters of the texts
  Letters,        \* those isLetterOrNumber accepts
  ContainerSize,  \* sizeof(JsonArray), sizeof(JsonObject), rounded up
  NodeSize        \* sizeof(node_type), rounded up

NUL == "NUL"
Blanks == {" ", "\t", "\r", "\n"}
Quotes == {"'", "\""}

\* The second half of Encoding's table: a letter and what it stands for.
Escapes == {<<"b", "BS">>, <<"f", "\f">>, <<"n", "\n">>, <<"r", "\r">>, <<"t", "\t">>}

\* Characters from 0 to a NUL, which is the only one.
IsText(t) == \E n \in DOMAIN t :
  /\ n \in Nat /\ t \in [0..n -> Chars]
  /\ \A i \in 0..n : t[i] = NUL <=> i = n

ASSUME JsonAssumption ==
  /\ \A t \in Texts : IsText(t)
  /\ Limits \subseteq Nat /\ Capacities \subseteq Nat
  /\ NUL \notin Letters
  /\ NUL \in Chars /\ \A e \in Escapes : e[2] \in Chars
  /\ {ContainerSize, NodeSize} \subseteq Nat \ {0}

VARIABLES
  text,     \* the text as it was given
  entry,    \* what the caller asked for: parse, parseArray or parseObject
  left,     \* _nestingLimit
  capacity, \* CAPACITY
  buf,      \* the memory of the text
  r,        \* _readPtr, or readPtr while a string is read
  w,        \* _writePtr, or writePtr
  pc,       \* what is read next
  next,     \* what comes after spaces and comments
  stack,    \* the containers that are open, the innermost first
  start,    \* startPtr of the string that is read
  quote,    \* its stopChar, or NUL when it has no quotes
  chars,    \* what has been written of it
  strings,  \* where each finished string starts, and its characters
  used,     \* bytes of the StaticJsonBuffer
  result    \* what the caller gets, once pc is "done"

place == <<pc, next>>
reading == <<start, quote, chars>>
given == <<text, entry, capacity>>
vars == <<given, left, buf, r, w, place, stack, reading, strings, used, result>>

Str(kind, s) == [kind |-> kind, text |-> s, items |-> <<>>]
Invalid == [kind |-> "invalid", text |-> <<>>, items |-> <<>>]

Begin(t, e, limit, room) ==
  /\ text = t /\ entry = e /\ left = limit /\ capacity = room
  /\ buf = t /\ r = 0 /\ w = 0
  /\ pc = "gap" /\ next = IF e = "parse" THEN "value" ELSE "open"
  /\ stack = <<>>
  /\ start = 0 /\ quote = NUL /\ chars = <<>>
  /\ strings = {} /\ used = 0 /\ result = Invalid

Init == \E t \in Texts, limit \in Limits, room \in Capacities,
           e \in {"parse", "array", "object"} : Begin(t, e, limit, room)

-----------------------------------------------------------------------------
(* Spaces and comments                                                     *)

Go(place_) == pc' = place_ /\ UNCHANGED next
GapThen(place_) == pc' = "gap" /\ next' = place_

\* "/" and "*" here, with nothing read beyond the end.
At(i, c) == buf[i] = c
Pair(c, d) == At(r, c) /\ At(r + 1, d)

Blank ==
  /\ pc = "gap"
  /\ \/ buf[r] \in Blanks /\ r' = r + 1 /\ UNCHANGED pc
     \/ Pair("/", "*") /\ r' = r + 2 /\ pc' = "C"
     \/ Pair("/", "/") /\ r' = r + 2 /\ pc' = "Cpp"
  /\ UNCHANGED <<given, left, buf, w, next, stack, reading, strings, used, result>>

CComment ==
  /\ pc = "C"
  /\ \/ At(r, NUL) /\ pc' = "gap" /\ UNCHANGED r
     \/ Pair("*", "/") /\ pc' = "gap" /\ r' = r + 2
     \/ ~At(r, NUL) /\ ~Pair("*", "/") /\ r' = r + 1 /\ UNCHANGED pc
  /\ UNCHANGED <<given, left, buf, w, next, stack, reading, strings, used, result>>

CppComment ==
  /\ pc = "Cpp"
  /\ IF buf[r] \in {NUL, "\n"} THEN pc' = "gap" /\ UNCHANGED r ELSE r' = r + 1 /\ UNCHANGED pc
  /\ UNCHANGED <<given, left, buf, w, next, stack, reading, strings, used, result>>

\* skipSpacesAndComments returns.
GapEnds ==
  /\ pc = "gap"
  /\ buf[r] \notin Blanks /\ ~Pair("/", "*") /\ ~Pair("/", "/")
  /\ pc' = next
  /\ UNCHANGED <<given, left, buf, r, w, next, stack, reading, strings, used, result>>

-----------------------------------------------------------------------------
(* The tree                                                                *)

Fits(bytes) == used + bytes <= capacity

\* A parse that fails anywhere fails as a whole.
Fail == pc' = "done" /\ result' = Invalid /\ stack' = <<>>

\* The node of a key, or a place behind the last one.
Slot(items, key) ==
  IF \E i \in DOMAIN items : items[i].key = key
  THEN CHOOSE i \in DOMAIN items : items[i].key = key
  ELSE Len(items) + 1

\* Nodes of the innermost container after add or set of a value.
With(frame, value) ==
  LET node == [key |-> frame.key, value |-> value]
      i    == IF frame.kind = "array" THEN Len(frame.items) + 1
                                      ELSE Slot(frame.items, frame.key)
  IN  IF i > Len(frame.items) THEN Append(frame.items, node)
                              ELSE [frame.items EXCEPT ![i] = node]

\* A value is complete: the caller gets it, or the innermost container takes it, when
\* there is memory for a node it needs.  `rest' is the stack without the value's own.
Deliver(value, rest) ==
  IF rest = <<>>
  THEN pc' = "done" /\ result' = value /\ stack' = <<>> /\ UNCHANGED <<next, used>>
  ELSE LET items == With(rest[1], value)
           more  == Len(items) > Len(rest[1].items)
       IN  IF rest[1].live /\ (more => Fits(NodeSize))
           THEN /\ stack' = <<[rest[1] EXCEPT !.items = items]>> \o Tail(rest)
                /\ used' = IF more THEN used + NodeSize ELSE used
                /\ GapThen("after")
                /\ UNCHANGED result
           ELSE Fail /\ UNCHANGED <<next, used>>

\* parseArray and parseObject make the container before they look for its bracket.  With
\* no memory they go on with invalid(), which takes nothing.
Enter(kind) ==
  /\ used' = IF Fits(ContainerSize) THEN used + ContainerSize ELSE used
  /\ IF At(r, IF kind = "array" THEN "[" ELSE "{")
     THEN /\ stack' = <<[kind |-> kind, live |-> Fits(ContainerSize), items |-> <<>>,
                         key |-> <<>>]>> \o stack
          /\ r' = r + 1
          /\ GapThen("first")
          /\ UNCHANGED result
     ELSE Fail /\ UNCHANGED <<r, next>>

Closer == IF stack[1].kind = "array" THEN "]" ELSE "}"

\* Whether the innermost container is one that parseAnythingTo counted.
Counted == Len(stack) > 1 \/ entry = "parse"

Leave ==
  /\ r' = r + 1
  /\ left' = IF Counted THEN left + 1 ELSE left
  /\ IF stack[1].live
     THEN Deliver([kind |-> stack[1].kind, text |-> <<>>, items |-> stack[1].items],
                  Tail(stack))
     ELSE Fail /\ UNCHANGED <<next, used>>

-----------------------------------------------------------------------------
(* Strings                                                                 *)

BeginString(then) ==
  /\ start' = w /\ chars' = <<>>
  /\ quote' = IF buf[r] \in Quotes THEN buf[r] ELSE NUL
  /\ pc' = IF buf[r] \in Quotes THEN "quoted" ELSE "raw"
  /\ next' = then

Unescape(c) ==
  IF \E e \in Escapes : e[1] = c THEN (CHOOSE e \in Escapes : e[1] = c)[2] ELSE c

WriteChar(c) ==
  /\ buf' = [buf EXCEPT ![w] = c] /\ w' = w + 1 /\ chars' = Append(chars, c)
  /\ UNCHANGED <<given, left, place, stack, start, quote, strings, used, result>>

\* Mutant: the next string starts on the terminator.
EndStringOnTerminator ==
  /\ buf' = [buf EXCEPT ![w] = NUL] /\ UNCHANGED w
  /\ strings' = strings \cup {[at |-> start, chars |-> chars]}
  /\ IF next = "colon"
     THEN /\ stack' = <<[stack[1] EXCEPT !.key = chars]>> \o Tail(stack)
          /\ pc' = "gap"
          /\ UNCHANGED <<next, used, result>>
     ELSE Deliver(Str(IF quote = NUL THEN "raw" ELSE "string", chars), stack)
  /\ UNCHANGED <<given, left, reading>>

\* The terminator is written; a key waits for its value, a value goes where it belongs.
EndString ==
  /\ buf' = [buf EXCEPT ![w] = NUL] /\ w' = w + 1
  /\ strings' = strings \cup {[at |-> start, chars |-> chars]}
  /\ IF next = "colon"
     THEN /\ stack' = <<[stack[1] EXCEPT !.key = chars]>> \o Tail(stack)
          /\ pc' = "gap"
          /\ UNCHANGED <<next, used, result>>
     ELSE Deliver(Str(IF quote = NUL THEN "raw" ELSE "string", chars), stack)
  /\ UNCHANGED <<given, left, reading>>

IsLetterOrNumber(c) == c \in Letters

Letter ==
  /\ pc = "raw" /\ IsLetterOrNumber(buf[r])
  /\ WriteChar(buf[r]) /\ r' = r + 1

RawEnds ==
  /\ pc = "raw" /\ ~IsLetterOrNumber(buf[r])
  /\ EndString /\ UNCHANGED r

Quoted ==
  /\ pc = "quoted" /\ buf[r + 1] \notin {NUL, quote}
  /\ IF At(r + 1, "\\")
     THEN /\ ~At(r + 2, NUL)
          /\ WriteChar(Unescape(buf[r + 2])) /\ r' = r + 2
     ELSE WriteChar(buf[r + 1]) /\ r' = r + 1

\* Mutant: a string ends at its quote only.
QuotedEndsAtQuote ==
  /\ pc = "quoted" /\ At(r + 1, quote) /\ r' = r + 2
  /\ EndString

\* At the quote, or at the end of the text, also behind a backslash.
QuotedEnds ==
  /\ pc = "quoted"
  /\ \/ At(r + 1, NUL) /\ r' = r + 1
     \/ At(r + 1, quote) /\ r' = r + 2
     \/ At(r + 1, "\\") /\ At(r + 2, NUL) /\ r' = r + 2
  /\ EndString

-----------------------------------------------------------------------------
(* Values                                                                  *)

\* parseArray and parseObject as the caller's entry: no limit is looked at.
Open ==
  /\ pc = "open"
  /\ Enter(entry)
  /\ UNCHANGED <<given, left, buf, w, reading, strings>>

TooDeep ==
  /\ pc = "value" /\ left = 0
  /\ Fail
  /\ UNCHANGED <<given, left, buf, r, w, next, reading, strings, used>>

Container ==
  /\ pc = "value" /\ left > 0 /\ buf[r] \in {"[", "{"}
  /\ left' = left - 1
  /\ Enter(IF At(r, "[") THEN "array" ELSE "object")
  /\ UNCHANGED <<given, buf, w, reading, strings>>

StringValue ==
  /\ pc = "value" /\ left > 0 /\ buf[r] \notin {"[", "{"}
  /\ BeginString("value")
  /\ UNCHANGED <<given, left, buf, r, w, stack, strings, used, result>>

\* Behind the opening bracket.
Empty ==
  /\ pc = "first" /\ At(r, Closer)
  /\ Leave
  /\ UNCHANGED <<given, buf, w, reading, strings>>

\* A key, in an object, or a value.
Element ==
  IF stack[1].kind = "array" THEN Go("value") /\ UNCHANGED reading ELSE BeginString("colon")

First ==
  /\ \/ pc = "first" /\ ~At(r, Closer)
     \/ pc = "more"
  /\ Element
  /\ UNCHANGED <<given, left, buf, r, w, stack, strings, used, result>>

\* Mutant: the colon may be missing.
ColonOptional ==
  /\ pc = "colon"
  /\ r' = IF At(r, ":") THEN r + 1 ELSE r
  /\ GapThen("value")
  /\ UNCHANGED <<given, left, buf, w, stack, reading, strings, used, result>>

Colon ==
  /\ pc = "colon"
  /\ IF At(r, ":") THEN r' = r + 1 /\ GapThen("value") /\ UNCHANGED <<stack, result>>
                  ELSE Fail /\ UNCHANGED <<r, next>>
  /\ UNCHANGED <<given, left, buf, w, reading, strings, used>>

Closed ==
  /\ pc = "after" /\ At(r, Closer)
  /\ Leave
  /\ UNCHANGED <<given, buf, w, reading, strings>>

Comma ==
  /\ pc = "after" /\ ~At(r, Closer)
  /\ IF At(r, ",") THEN r' = r + 1 /\ GapThen("more") /\ UNCHANGED <<stack, result>>
                  ELSE Fail /\ UNCHANGED <<r, next>>
  /\ UNCHANGED <<given, left, buf, w, reading, strings, used>>

Step == \/ Blank \/ CComment \/ CppComment \/ GapEnds
        \/ Letter \/ RawEnds \/ Quoted \/ QuotedEnds
        \/ Open \/ TooDeep \/ Container \/ StringValue
        \/ Empty \/ First \/ Colon \/ Closed \/ Comma

Spec == Init /\ [][Step]_vars

-----------------------------------------------------------------------------
(* Properties                                                              *)

\* What the parser has not read yet is still what was given, although it writes into the
\* same memory: no string, terminator included, reaches the next character to be read
\* (parseString).  In a quoted string the next one is behind r.
Unread == IF pc = "quoted" THEN r + 1 ELSE r
InputIntact == pc # "done" => \A i \in DOMAIN text : i >= Unread => buf[i] = text[i]

\* Every string of the tree stays as it was read, with its terminator, whatever is written
\* after it (parseString).
Holds(s) ==
  /\ \A i \in DOMAIN s.chars : buf[s.at + i - 1] = s.chars[i]
  /\ buf[s.at + Len(s.chars)] = NUL
StringsSurvive == \A s \in strings : Holds(s)
=============================================================================
