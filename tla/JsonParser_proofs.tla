-------------------------- MODULE JsonParser_proofs --------------------------
(***************************************************************************)
(* Proofs about the parser, for every text, every limit and every capacity *)
(* of the buffer: it never overwrites what it has yet to read, although it *)
(* unquotes strings in the memory it reads from, and what it has read      *)
(* stays as it was; its recursion is bounded by nestingLimit, and every    *)
(* step brings its end closer.                                             *)
(***************************************************************************)
EXTENDS JsonParser, SequenceTheorems, TLAPS

IsSeq(s) == \E S : s \in Seq(S)

\* What is on the stack matters only as far as there is something.
LEMMA OntoStack ==
  ASSUME NEW s, NEW x, IsSeq(s)
  PROVE  IsSeq(<<x>> \o s) /\ <<x>> \o s # <<>>
<1>1. PICK S : s \in Seq(S)
  BY DEF IsSeq
<1>2. <<x>> \in Seq(S \cup {x}) /\ s \in Seq(S \cup {x})
  BY <1>1
<1>3. <<x>> \o s \in Seq(S \cup {x}) /\ Len(<<x>> \o s) = Len(<<x>>) + Len(s)
  BY <1>2, ConcatProperties
<1>4. Len(<<x>>) = 1 /\ Len(s) \in Nat
  BY <1>1
<1>5. Len(<<x>> \o s) # 0
  BY <1>3, <1>4
<1>. QED
  BY <1>3, <1>5 DEF IsSeq

LEMMA OffStack ==
  ASSUME NEW s, IsSeq(s), s # <<>>
  PROVE  IsSeq(Tail(s))
  BY HeadTailProperties DEF IsSeq

\* One character more.
LEMMA OneMore ==
  ASSUME NEW s, NEW c, IsSeq(s)
  PROVE  /\ IsSeq(Append(s, c)) /\ Len(s) \in Nat /\ Len(Append(s, c)) = Len(s) + 1
         /\ DOMAIN s = 1..Len(s) /\ DOMAIN Append(s, c) = 1..(Len(s) + 1)
         /\ \A i \in 1..Len(s) : Append(s, c)[i] = s[i]
         /\ Append(s, c)[Len(s) + 1] = c
<1>1. PICK S : s \in Seq(S)
  BY DEF IsSeq
<1>2. s \in Seq(S \cup {c})
  BY <1>1
<1>3. Append(s, c) \in Seq(S \cup {c})
  BY <1>2, AppendProperties
<1>. QED
  BY <1>2, <1>3, AppendProperties DEF IsSeq

\* A text has an end, and all that is before the end of it.
LEMMA TheText ==
  ASSUME NEW t \in Texts
  PROVE  /\ 0 \in DOMAIN t /\ DOMAIN t \subseteq Nat
         /\ \A i \in DOMAIN t : t[i] # NUL => i + 1 \in DOMAIN t
         /\ \A i \in DOMAIN t : \A j \in 0..i : j \in DOMAIN t
<1>1. PICK n \in DOMAIN t : n \in Nat /\ t \in [0..n -> Chars]
                            /\ \A i \in 0..n : t[i] = NUL <=> i = n
  BY JsonAssumption DEF IsText
<1>. QED
  BY <1>1

-----------------------------------------------------------------------------
Gaps == {"gap", "C", "Cpp"}
InContainer == {"first", "more", "after", "colon"}
Ahead == {"value", "first", "more"}

\* Containers are open where the code is inside one.
StackInv ==
  /\ IsSeq(stack)
  /\ pc \in InContainer => stack # <<>>
  /\ pc \in Gaps \cup {"raw", "quoted"} /\ next \in InContainer => stack # <<>>
  /\ pc \in Gaps => next \in Ahead \cup InContainer \cup {"open"}

\* A value or a key is about to be read, or read without quotes.
Before == pc \in Ahead \cup {"raw"} \/ (pc \in Gaps /\ next \in Ahead)

\* Writing lags behind reading, and by one character at least where the next character
\* may be the first of a string without quotes: the bracket, comma or colon before it
\* makes room for the terminator.  Outside all containers the end of such a string is
\* the end of the parse.
PlaceInv ==
  /\ text \in Texts /\ DOMAIN buf = DOMAIN text
  /\ r \in DOMAIN text /\ w \in Nat /\ (pc # "done" => w <= r)
  /\ pc = "quoted" => r + 1 \in DOMAIN text /\ quote \in Quotes
  /\ Before /\ stack # <<>> => w < r

\* Finished strings lie before w, and the one that is read ends there.
StringInv ==
  /\ \A s \in strings : /\ s.at \in Nat /\ Len(s.chars) \in Nat
                        /\ DOMAIN s.chars = 1..Len(s.chars)
                        /\ s.at + Len(s.chars) < w
                        /\ Holds(s)
  /\ pc \in {"raw", "quoted"} =>
       /\ IsSeq(chars) /\ start \in Nat /\ start + Len(chars) = w
       /\ \A i \in DOMAIN chars : buf[start + i - 1] = chars[i]

ParserInv == StackInv /\ PlaceInv /\ InputIntact /\ StringInv

\* What is at r is what the text has there, and a character that is no terminator has
\* another behind it.
LEMMA NextThere ==
  ASSUME ParserInv, pc # "done"
  PROVE  /\ r \in Nat /\ w \in Nat /\ w <= r /\ w \in DOMAIN buf /\ DOMAIN text \subseteq Nat
         /\ pc # "quoted" /\ buf[r] # NUL => r + 1 \in DOMAIN text
         /\ pc # "quoted" /\ buf[r] # NUL /\ buf[r + 1] # NUL => r + 2 \in DOMAIN text
         /\ pc = "quoted" /\ buf[r + 1] # NUL => r + 2 \in DOMAIN text
         /\ pc = "quoted" /\ buf[r + 1] # NUL /\ buf[r + 2] # NUL => r + 3 \in DOMAIN text
<1>1. text \in Texts /\ r \in DOMAIN text /\ w \in Nat /\ w <= r /\ DOMAIN buf = DOMAIN text
  BY DEF ParserInv, PlaceInv
<1>2. DOMAIN text \subseteq Nat /\ r \in Nat
  BY <1>1, TheText
<1>3. \A i \in DOMAIN text : i >= Unread /\ buf[i] # NUL => i + 1 \in DOMAIN text
  BY <1>1, TheText DEF ParserInv, InputIntact
<1>4. w \in DOMAIN buf
  <2>1. w \in 0..r
    BY <1>1, <1>2
  <2>. QED
    BY <1>1, <2>1, TheText
<1>5. CASE pc # "quoted"
  <2>1. Unread = r
    BY <1>5 DEF Unread
  <2>2. buf[r] # NUL => r + 1 \in DOMAIN text
    BY <1>1, <1>2, <1>3, <2>1
  <2>3. buf[r] # NUL /\ buf[r + 1] # NUL => r + 2 \in DOMAIN text
    BY <1>2, <1>3, <2>1, <2>2
  <2>. QED
    BY <1>1, <1>2, <1>4, <1>5, <2>2, <2>3
<1>6. CASE pc = "quoted"
  <2>1. Unread = r + 1 /\ r + 1 \in DOMAIN text
    BY <1>6 DEF Unread, ParserInv, PlaceInv
  <2>2. buf[r + 1] # NUL => r + 2 \in DOMAIN text
    BY <1>2, <1>3, <2>1
  <2>3. buf[r + 1] # NUL /\ buf[r + 2] # NUL => r + 3 \in DOMAIN text
    BY <1>2, <1>3, <2>1, <2>2
  <2>. QED
    BY <1>1, <1>2, <1>4, <1>6, <2>2, <2>3
<1>. QED
  BY <1>5, <1>6

-----------------------------------------------------------------------------
\* When the parser begins.
LEMMA InitParserInv == Init => ParserInv
<1> SUFFICES ASSUME Init PROVE ParserInv
  OBVIOUS
<1>1. text \in Texts /\ buf = text /\ r = 0 /\ w = 0 /\ pc = "gap"
      /\ next \in {"value", "open"} /\ stack = <<>> /\ strings = {}
  BY DEF Init, Begin
<1>2. StackInv
  <2>1. <<>> \in Seq({})
    OBVIOUS
  <2>. QED
    BY <1>1, <2>1 DEF StackInv, IsSeq, InContainer, Ahead
<1>3. PlaceInv
  BY <1>1, TheText DEF PlaceInv
<1>4. InputIntact /\ StringInv
  BY <1>1 DEF InputIntact, StringInv
<1>. QED
  BY <1>2, <1>3, <1>4 DEF ParserInv

\* A step that writes nothing and reads on keeps the text and the strings.
LEMMA NothingWritten ==
  ASSUME ParserInv, UNCHANGED <<text, buf, w, strings>>, pc # "done",
         pc' # "done" => Unread' >= Unread /\ Unread' \in Int,
         pc' \notin {"raw", "quoted"} \/ (start' = w /\ chars' = <<>>)
  PROVE  InputIntact' /\ StringInv'
<1>1. InputIntact'
  <2>. SUFFICES ASSUME pc' # "done", NEW i \in DOMAIN text, i >= Unread'
                PROVE  buf[i] = text[i]
    BY DEF InputIntact
  <2>1. i \in Nat /\ Unread \in Int
    BY NextThere DEF Unread
  <2>2. i >= Unread
    BY <2>1
  <2>. QED
    BY <2>2 DEF ParserInv, InputIntact
<1>2. IsSeq(<<>>) /\ Len(<<>>) = 0 /\ DOMAIN <<>> = {}
  <2>1. <<>> \in Seq({})
    OBVIOUS
  <2>. QED
    BY <2>1 DEF IsSeq
<1>3. StringInv'
  <2>1. \A s \in strings : Holds(s) => Holds(s)'
    BY DEF Holds
  <2>2. w \in Nat
    BY NextThere
  <2>. QED
    BY <1>2, <2>1, <2>2 DEF ParserInv, StringInv
<1>. QED
  BY <1>1, <1>3

\* Spaces and comments.
LEMMA GapsKeep ==
  ASSUME ParserInv, Blank \/ CComment \/ CppComment \/ GapEnds
  PROVE  ParserInv'
<1>0. pc \in Gaps /\ UNCHANGED <<text, buf, w, next, stack, strings, start, chars>>
  BY DEF Blank, CComment, CppComment, GapEnds, Gaps, given, reading
<1>1. pc' \in Gaps \/ pc' = next
  BY <1>0 DEF Blank, CComment, CppComment, GapEnds, Gaps
<1>a. pc' \notin {"raw", "quoted", "done"} /\ pc # "quoted"
  BY <1>0, <1>1 DEF Gaps, Ahead, InContainer, ParserInv, StackInv
<1>2. r' \in DOMAIN text /\ r' >= r /\ r' \in Nat
  <2>1. CASE GapEnds
    BY <2>1, <1>0, NextThere DEF GapEnds, ParserInv, PlaceInv, Gaps
  <2>2. CASE Blank
    <3>1. buf[r] # NUL
      BY <2>2 DEF Blank, Blanks, Pair, At, NUL
    <3>2. CASE r' = r + 1
      BY <1>0, <3>1, <3>2, NextThere DEF Gaps
    <3>3. CASE r' = r + 2 /\ buf[r + 1] # NUL
      BY <1>0, <3>1, <3>3, NextThere DEF Gaps
    <3>. QED
      BY <2>2, <3>2, <3>3 DEF Blank, Pair, At, NUL
  <2>3. CASE CComment
    <3>1. CASE r' = r
      BY <1>0, <3>1, NextThere DEF Gaps, ParserInv, PlaceInv
    <3>2. CASE r' = r + 1 /\ buf[r] # NUL
      BY <1>0, <3>2, NextThere DEF Gaps
    <3>3. CASE r' = r + 2 /\ buf[r] # NUL /\ buf[r + 1] # NUL
      BY <1>0, <3>3, NextThere DEF Gaps
    <3>. QED
      BY <2>3, <3>1, <3>2, <3>3 DEF CComment, Pair, At, NUL
  <2>4. CASE CppComment
    <3>1. CASE r' = r
      BY <1>0, <3>1, NextThere DEF Gaps, ParserInv, PlaceInv
    <3>2. CASE r' = r + 1 /\ buf[r] # NUL
      BY <1>0, <3>2, NextThere DEF Gaps
    <3>. QED
      BY <2>4, <3>1, <3>2 DEF CppComment
  <2>. QED
    BY <2>1, <2>2, <2>3, <2>4
<1>3. StackInv'
  BY <1>0, <1>1, <1>a DEF ParserInv, StackInv, Gaps, Ahead, InContainer
<1>4. PlaceInv'
  <2>1. Before' => Before
    BY <1>0, <1>1, <1>a DEF Before, Gaps, Ahead
  <2>2. w <= r /\ r \in Nat /\ w \in Nat
    BY <1>0, NextThere DEF Gaps
  <2>3. UNCHANGED w
    BY DEF Blank, CComment, CppComment, GapEnds
  <2>. QED
    BY <1>0, <1>2, <1>a, <2>1, <2>2, <2>3 DEF ParserInv, PlaceInv
<1>5. InputIntact' /\ StringInv'
  <2>1. Unread' = r' /\ Unread = r
    BY <1>a DEF Unread
  <2>2. UNCHANGED w /\ r \in Nat
    BY <1>0, NextThere DEF Blank, CComment, CppComment, GapEnds, Gaps
  <2>. QED
    BY <1>0, <1>2, <1>a, <2>1, <2>2, NothingWritten DEF Gaps
<1>. QED
  BY <1>3, <1>4, <1>5 DEF ParserInv

-----------------------------------------------------------------------------
\* A value that is complete ends the parse, or goes into the container around it.
LEMMA AfterDeliver ==
  ASSUME NEW value, NEW rest, IsSeq(rest), Deliver(value, rest)
  PROVE  /\ IsSeq(stack')
         /\ pc' = "done" \/ (pc' = "gap" /\ next' = "after" /\ stack' # <<>>)
<1>1. IsSeq(<<>>)
  <2>1. <<>> \in Seq({})
    OBVIOUS
  <2>. QED
    BY <2>1 DEF IsSeq
<1>2. CASE rest = <<>>
  BY <1>1, <1>2 DEF Deliver
<1>3. CASE rest # <<>>
  <2>1. IsSeq(Tail(rest))
    BY <1>3, OffStack
  <2>2. CASE Fail
    BY <1>1, <2>2 DEF Fail
  <2>3. CASE pc' = "gap" /\ next' = "after" /\ \E x : stack' = <<x>> \o Tail(rest)
    BY <2>1, <2>3, OntoStack
  <2>. QED
    BY <1>3, <2>2, <2>3 DEF Deliver, GapThen
<1>. QED
  BY <1>2, <1>3

\* The other steps that write nothing.
LEMMA ReadingKeeps ==
  ASSUME ParserInv,
         Open \/ TooDeep \/ Container \/ StringValue \/ Empty \/ First \/ Colon
         \/ Closed \/ Comma
  PROVE  ParserInv'
<1>0. /\ UNCHANGED <<text, buf, w, strings>>
      /\ pc \in {"open", "value", "first", "more", "colon", "after"}
  BY DEF Open, TooDeep, Container, StringValue, Empty, First, Colon, Closed, Comma, given
<1>1. /\ r \in Nat /\ w \in Nat /\ w <= r /\ text \in Texts /\ DOMAIN buf = DOMAIN text
      /\ r \in DOMAIN text /\ (buf[r] # NUL => r + 1 \in DOMAIN text)
  BY <1>0, NextThere DEF ParserInv, PlaceInv
<1>2. IsSeq(stack) /\ (pc \in InContainer => stack # <<>>) /\ IsSeq(<<>>)
  <2>1. <<>> \in Seq({})
    OBVIOUS
  <2>. QED
    BY <2>1 DEF ParserInv, StackInv, IsSeq
\* Either the parse is over, or a bracket, comma or colon was passed, or a string begins.
<1> DEFINE Over   == pc' = "done" /\ r' \in {r, r + 1} /\ IsSeq(stack')
           Passed == /\ pc' = "gap" /\ next' \in Ahead \cup InContainer /\ r' = r + 1
                     /\ IsSeq(stack') /\ (next' \in InContainer => stack' # <<>>)
           Starts == /\ pc' \in {"raw", "quoted", "value"} /\ r' = r /\ UNCHANGED stack
                     /\ (pc' # "value" => start' = w /\ chars' = <<>>
                                          /\ (next' \in InContainer => stack # <<>>))
                     /\ (pc' = "quoted" => buf[r] # NUL /\ quote' \in Quotes)
                     /\ (pc \in Ahead)
<1>3. (Over \/ Passed \/ Starts) /\ (r' = r + 1 => buf[r] # NUL)
  <2>1. ASSUME NEW kind, Enter(kind)
        PROVE  (Over \/ Passed) /\ (r' = r + 1 => buf[r] # NUL)
    <3>1. CASE Fail /\ r' = r
      BY <1>1, <1>2, <3>1 DEF Fail
    <3>2. CASE /\ buf[r] # NUL /\ pc' = "gap" /\ next' = "first" /\ r' = r + 1
               /\ \E x : stack' = <<x>> \o stack
      BY <1>2, <3>2, OntoStack DEF Ahead, InContainer
    <3>. QED
      BY <2>1, <3>1, <3>2 DEF Enter, GapThen, At, NUL
  <2>2. CASE Open
    BY <2>1, <2>2 DEF Open
  <2>3. CASE TooDeep
    BY <1>1, <1>2, <2>3 DEF TooDeep, Fail
  <2>4. CASE Container
    <3>1. pc = "value" /\ \E kind : Enter(kind)
      BY <2>4 DEF Container
    <3>. QED
      BY <2>1, <3>1
  <2>5. ASSUME NEW then, BeginString(then), pc \in Ahead, r' = r, UNCHANGED stack,
               then \in InContainer => stack # <<>>
        PROVE  Starts
    BY <2>5 DEF BeginString, Quotes, NUL
  <2>6. CASE StringValue
    <3>1. BeginString("value") /\ pc \in Ahead /\ r' = r /\ UNCHANGED stack
      BY <2>6 DEF StringValue, Ahead
    <3>2. "value" \notin InContainer
      BY DEF InContainer
    <3>3. Starts
      BY <2>5, <3>1, <3>2
    <3>. QED
      BY <1>1, <3>1, <3>3
  <2>7. CASE First
    <3>1. pc \in Ahead /\ r' = r /\ UNCHANGED stack /\ stack # <<>>
      BY <1>2, <2>7 DEF First, Ahead, InContainer
    <3>2. CASE Go("value")
      BY <1>1, <3>1, <3>2 DEF Go
    <3>3. CASE BeginString("colon")
      BY <1>1, <2>5, <3>1, <3>3
    <3>. QED
      BY <1>1, <2>7, <3>1, <3>2, <3>3 DEF First, Element
  <2>8. CASE Colon
    <3>1. CASE At(r, ":")
      BY <1>2, <2>8, <3>1 DEF Colon, GapThen, At, NUL, Ahead, InContainer
    <3>2. CASE ~At(r, ":")
      BY <1>1, <1>2, <2>8, <3>2 DEF Colon, Fail
    <3>. QED
      BY <3>1, <3>2
  <2>9. CASE Comma
    <3>1. CASE At(r, ",")
      BY <1>2, <2>9, <3>1 DEF Comma, GapThen, At, NUL, Ahead, InContainer
    <3>2. CASE ~At(r, ",")
      <4>1. Fail /\ r' = r
        BY <2>9, <3>2 DEF Comma
      <4>. QED
        BY <1>1, <1>2, <4>1 DEF Fail
    <3>. QED
      BY <3>1, <3>2
  <2>10. CASE Empty \/ Closed
    <3>1. Leave /\ At(r, Closer) /\ stack # <<>>
      BY <1>2, <2>10 DEF Empty, Closed, InContainer
    <3>2. r' = r + 1 /\ buf[r] # NUL
      BY <3>1 DEF Leave, At, Closer, NUL
    <3>3. CASE Fail
      BY <1>2, <3>2, <3>3 DEF Fail
    <3>4. CASE \E value : Deliver(value, Tail(stack))
      <4>1. IsSeq(Tail(stack))
        BY <1>2, <3>1, OffStack
      <4>2. IsSeq(stack') /\ (pc' = "done" \/ (pc' = "gap" /\ next' = "after" /\ stack' # <<>>))
        BY <3>4, <4>1, AfterDeliver
      <4>. QED
        BY <3>2, <4>2 DEF Ahead, InContainer
    <3>. QED
      BY <3>1, <3>3, <3>4 DEF Leave
  <2>. QED
    BY <1>0, <2>2, <2>3, <2>4, <2>6, <2>7, <2>8, <2>9, <2>10
<1>4. StackInv'
  <2>1. CASE Over
    BY <2>1 DEF StackInv, Gaps, InContainer
  <2>2. CASE Passed
    BY <2>2 DEF StackInv, Gaps, InContainer
  <2>3. CASE Starts
    BY <1>2, <2>3 DEF StackInv, Gaps, InContainer
  <2>. QED
    BY <1>3, <2>1, <2>2, <2>3
<1>5. r' \in DOMAIN text /\ r' >= r
  BY <1>1, <1>3
<1>6. PlaceInv'
  <2>1. CASE Over
    BY <1>0, <1>1, <1>5, <2>1 DEF PlaceInv, Before, Gaps, Ahead
  <2>2. CASE Passed
    BY <1>0, <1>1, <1>5, <2>2 DEF PlaceInv
  <2>3. CASE Starts
    <3>1. stack # <<>> => w < r
      BY <2>3 DEF ParserInv, PlaceInv, Before
    <3>. QED
      BY <1>0, <1>1, <1>5, <2>3, <3>1 DEF PlaceInv
  <2>. QED
    BY <1>3, <2>1, <2>2, <2>3
<1>7. InputIntact' /\ StringInv'
  <2>1. Unread' >= Unread /\ Unread' \in Int
    BY <1>0, <1>1, <1>3 DEF Unread
  <2>2. pc' \notin {"raw", "quoted"} \/ (start' = w /\ chars' = <<>>)
    BY <1>3
  <2>. QED
    BY <1>0, <2>1, <2>2, NothingWritten
<1>. QED
  BY <1>4, <1>6, <1>7 DEF ParserInv

-----------------------------------------------------------------------------
\* Writing below what is still to be read, and behind all strings, keeps both.
LEMMA WritingKeeps ==
  ASSUME ParserInv, pc \in {"raw", "quoted"}, NEW c,
         buf' = [buf EXCEPT ![w] = c], UNCHANGED text
  PROVE  /\ buf'[w] = c /\ \A i \in DOMAIN text : i # w => buf'[i] = buf[i]
         /\ DOMAIN buf' = DOMAIN text
         /\ \A s \in strings : Holds(s)'
         /\ \A i \in DOMAIN chars : buf'[start + i - 1] = chars[i]
<1>1. w \in DOMAIN buf /\ w \in Nat /\ DOMAIN buf = DOMAIN text
  BY NextThere DEF ParserInv, PlaceInv
<1>2. buf'[w] = c /\ DOMAIN buf' = DOMAIN buf /\ \A i \in DOMAIN text : i # w => buf'[i] = buf[i]
  BY <1>1
<1>3. \A j \in 0..(w - 1) : buf'[j] = buf[j]
  <2>. SUFFICES ASSUME NEW j \in 0..(w - 1) PROVE buf'[j] = buf[j]
    OBVIOUS
  <2>1. text \in Texts /\ j \in 0..w /\ j # w
    BY <1>1 DEF ParserInv, PlaceInv
  <2>2. j \in DOMAIN text
    BY <1>1, <2>1, TheText
  <2>. QED
    BY <1>2, <2>1, <2>2
<1>4. ASSUME NEW s \in strings PROVE Holds(s)'
  <2>1. /\ s.at \in Nat /\ Len(s.chars) \in Nat /\ DOMAIN s.chars = 1..Len(s.chars)
        /\ s.at + Len(s.chars) < w /\ Holds(s)
    BY DEF ParserInv, StringInv
  <2>2. \A i \in DOMAIN s.chars : s.at + i - 1 \in 0..(w - 1)
    BY <1>1, <2>1
  <2>3. s.at + Len(s.chars) \in 0..(w - 1)
    BY <1>1, <2>1
  <2>. QED
    BY <1>3, <2>1, <2>2, <2>3 DEF Holds
<1>5. ASSUME NEW i \in DOMAIN chars PROVE buf'[start + i - 1] = chars[i]
  <2>1. IsSeq(chars) /\ start \in Nat /\ start + Len(chars) = w /\ buf[start + i - 1] = chars[i]
    BY DEF ParserInv, StringInv
  <2>2. Len(chars) \in Nat /\ DOMAIN chars = 1..Len(chars)
    BY <2>1, OneMore
  <2>3. start + i - 1 \in 0..(w - 1)
    BY <1>1, <2>1, <2>2
  <2>. QED
    BY <1>3, <2>1, <2>3
<1>. QED
  BY <1>1, <1>2, <1>4, <1>5

\* A character of a string is read and written.
LEMMA CharKeeps ==
  ASSUME ParserInv, Letter \/ Quoted
  PROVE  ParserInv'
<1>0. PICK c : WriteChar(c)
  BY DEF Letter, Quoted
<1>1. /\ buf' = [buf EXCEPT ![w] = c] /\ w' = w + 1 /\ chars' = Append(chars, c)
      /\ UNCHANGED <<text, pc, next, stack, start, quote, strings>> /\ pc \in {"raw", "quoted"}
  BY <1>0 DEF WriteChar, Letter, Quoted, given, place
<1>2. /\ r \in Nat /\ w \in Nat /\ w <= r /\ text \in Texts /\ DOMAIN text \subseteq Nat
  BY <1>1, NextThere DEF ParserInv, PlaceInv
<1>3. r' \in DOMAIN text /\ r' \in Nat /\ r' >= r + 1
      /\ (pc = "quoted" => r' + 1 \in DOMAIN text)
  <2>1. CASE Letter
    <3>1. pc = "raw" /\ buf[r] # NUL /\ r' = r + 1
      BY <2>1, JsonAssumption DEF Letter, IsLetterOrNumber
    <3>. QED
      BY <1>2, <3>1, NextThere
  <2>2. CASE Quoted
    <3>1. pc = "quoted" /\ buf[r + 1] # NUL
      BY <2>2 DEF Quoted
    <3>2. CASE r' = r + 2 /\ buf[r + 2] # NUL
      BY <1>2, <3>1, <3>2, NextThere
    <3>3. CASE r' = r + 1
      BY <1>2, <3>1, <3>3, NextThere DEF ParserInv, PlaceInv
    <3>. QED
      BY <2>2, <3>2, <3>3 DEF Quoted, At
  <2>. QED
    BY <2>1, <2>2
<1>4. StackInv'
  BY <1>1 DEF ParserInv, StackInv, Gaps, InContainer
<1>w. /\ buf'[w] = c /\ \A i \in DOMAIN text : i # w => buf'[i] = buf[i]
      /\ DOMAIN buf' = DOMAIN text
      /\ \A s \in strings : Holds(s)'
      /\ \A i \in DOMAIN chars : buf'[start + i - 1] = chars[i]
  BY <1>1, WritingKeeps
<1>5. PlaceInv'
  <2>1. Before' => Before
    BY <1>1 DEF Before, Gaps, Ahead
  <2>2. Before' /\ stack' # <<>> => w' < r'
    BY <1>1, <1>2, <1>3, <2>1 DEF ParserInv, PlaceInv
  <2>3. w' \in Nat /\ w' <= r'
    BY <1>1, <1>2, <1>3
  <2>. QED
    BY <1>1, <1>2, <1>3, <1>w, <2>2, <2>3 DEF ParserInv, PlaceInv
<1>6. InputIntact'
  <2>. SUFFICES ASSUME NEW i \in DOMAIN text, i >= Unread' PROVE buf'[i] = text[i]
    BY <1>1 DEF InputIntact
  <2>1. i \in Nat /\ i >= Unread /\ i # w
    BY <1>1, <1>2, <1>3 DEF Unread
  <2>. QED
    BY <1>1, <1>w, <2>1 DEF ParserInv, InputIntact
<1>7. StringInv'
  <2>1. \A s \in strings : s.at \in Nat /\ Len(s.chars) \in Nat
                           /\ DOMAIN s.chars = 1..Len(s.chars) /\ s.at + Len(s.chars) < w'
    BY <1>1, <1>2 DEF ParserInv, StringInv
  <2>2. IsSeq(chars) /\ start \in Nat /\ start + Len(chars) = w
    BY <1>1 DEF ParserInv, StringInv
  <2>3. /\ IsSeq(chars') /\ Len(chars) \in Nat /\ Len(chars') = Len(chars) + 1
        /\ DOMAIN chars = 1..Len(chars) /\ DOMAIN chars' = 1..(Len(chars) + 1)
        /\ \A i \in 1..Len(chars) : chars'[i] = chars[i]
        /\ chars'[Len(chars) + 1] = c
    BY <1>1, <2>2, OneMore
  <2>4. start + Len(chars') = w'
    BY <1>1, <2>2, <2>3
  <2>5. ASSUME NEW i \in DOMAIN chars' PROVE buf'[start + i - 1] = chars'[i]
    <3>1. CASE i = Len(chars) + 1
      <4>1. start + i - 1 = w
        BY <2>2, <2>3, <3>1
      <4>. QED
        BY <1>w, <2>3, <3>1, <4>1
    <3>2. CASE i \in 1..Len(chars)
      BY <1>w, <2>3, <3>2
    <3>. QED
      BY <2>3, <3>1, <3>2
  <2>. QED
    BY <1>1, <1>w, <2>1, <2>2, <2>3, <2>4, <2>5 DEF StringInv
<1>. QED
  BY <1>4, <1>5, <1>6, <1>7 DEF ParserInv

\* A string ends.
LEMMA EndKeeps ==
  ASSUME ParserInv, RawEnds \/ QuotedEnds
  PROVE  ParserInv'
<1>0. EndString /\ pc \in {"raw", "quoted"}
  BY DEF RawEnds, QuotedEnds
<1>1. /\ buf' = [buf EXCEPT ![w] = NUL] /\ w' = w + 1
      /\ UNCHANGED <<text, start, chars>>
      /\ strings' = strings \cup {[at |-> start, chars |-> chars]}
  BY <1>0 DEF EndString, given, reading
<1>2. /\ r \in Nat /\ w \in Nat /\ w <= r /\ text \in Texts /\ DOMAIN text \subseteq Nat
      /\ r \in DOMAIN text
  BY <1>0, NextThere DEF ParserInv, PlaceInv
<1>3. r' \in DOMAIN text /\ r' \in Nat /\ r' >= Unread
      /\ (pc = "raw" => r' = r) /\ (pc = "quoted" => r' >= r + 1)
  <2>1. CASE RawEnds
    BY <1>2, <2>1 DEF RawEnds, Unread
  <2>2. CASE QuotedEnds
    <3>1. pc = "quoted" /\ r + 1 \in DOMAIN text
      BY <2>2 DEF QuotedEnds, ParserInv, PlaceInv
    <3>2. CASE r' = r + 1
      BY <1>2, <3>1, <3>2 DEF Unread
    <3>3. CASE r' = r + 2 /\ buf[r + 1] # NUL
      BY <1>2, <3>1, <3>3, NextThere DEF Unread
    <3>4. quote # NUL
      BY <3>1 DEF ParserInv, PlaceInv, Quotes, NUL
    <3>. QED
      BY <2>2, <3>2, <3>3, <3>4 DEF QuotedEnds, At, NUL
  <2>. QED
    BY <2>1, <2>2
<1>4. /\ IsSeq(stack') /\ pc' \notin {"raw", "quoted"}
      /\ pc' # "done" => /\ pc' = "gap" /\ next' \in {"after", "colon"}
                         /\ stack' # <<>> /\ stack # <<>>
  <2>1. IsSeq(stack) /\ (next = "colon" => stack # <<>>)
    BY <1>0 DEF ParserInv, StackInv, InContainer
  <2>2. CASE next = "colon"
    <3>1. IsSeq(Tail(stack))
      BY <2>1, <2>2, OffStack
    <3>2. pc' = "gap" /\ next' = next /\ \E x : stack' = <<x>> \o Tail(stack)
      BY <1>0, <2>2 DEF EndString
    <3>. QED
      BY <2>1, <2>2, <3>1, <3>2, OntoStack
  <2>3. CASE next # "colon"
    <3>1. Deliver(Str(IF quote = NUL THEN "raw" ELSE "string", chars), stack)
      BY <1>0, <2>3 DEF EndString
    <3>2. stack = <<>> => pc' = "done"
      BY <3>1 DEF Deliver
    <3>. QED
      BY <2>1, <3>1, <3>2, AfterDeliver
  <2>. QED
    BY <2>2, <2>3
<1>w. /\ buf'[w] = NUL /\ \A i \in DOMAIN text : i # w => buf'[i] = buf[i]
      /\ DOMAIN buf' = DOMAIN text
      /\ \A s \in strings : Holds(s)'
      /\ \A i \in DOMAIN chars : buf'[start + i - 1] = chars[i]
  BY <1>0, <1>1, WritingKeeps
<1>5. pc' # "done" => w < r'
  <2>1. CASE pc = "raw"
    <3>1. stack # <<>> => w < r
      BY <2>1 DEF ParserInv, PlaceInv, Before
    <3>. QED
      BY <1>3, <1>4, <2>1, <3>1
  <2>2. CASE pc = "quoted"
    BY <1>2, <1>3, <2>2
  <2>. QED
    BY <1>0, <2>1, <2>2
<1>6. StackInv'
  BY <1>4 DEF StackInv, Gaps, InContainer
<1>7. PlaceInv'
  <2>1. ~Before' \/ pc' = "done"
    BY <1>4 DEF Before, Gaps, Ahead
  <2>2. ~Before'
    BY <1>4, <2>1 DEF Before, Gaps, Ahead
  <2>3. w' \in Nat /\ (pc' # "done" => w' <= r')
    BY <1>1, <1>2, <1>3, <1>5
  <2>. QED
    BY <1>1, <1>2, <1>3, <1>4, <1>w, <2>2, <2>3 DEF PlaceInv
<1>8. InputIntact'
  <2>. SUFFICES ASSUME pc' # "done", NEW i \in DOMAIN text, i >= r' PROVE buf'[i] = text[i]
    BY <1>1, <1>4 DEF InputIntact, Unread
  <2>1. i \in Nat /\ i # w /\ i >= Unread
    BY <1>2, <1>3, <1>5 DEF Unread
  <2>. QED
    BY <1>0, <1>w, <2>1 DEF ParserInv, InputIntact
<1>9. StringInv'
  <2>1. IsSeq(chars) /\ start \in Nat /\ start + Len(chars) = w
    BY <1>0 DEF ParserInv, StringInv
  <2>2. Len(chars) \in Nat /\ DOMAIN chars = 1..Len(chars)
    BY <2>1, OneMore
  <2> DEFINE new == [at |-> start, chars |-> chars]
  <2>3. ASSUME NEW s \in strings
        PROVE  /\ s.at \in Nat /\ Len(s.chars) \in Nat /\ DOMAIN s.chars = 1..Len(s.chars)
               /\ s.at + Len(s.chars) < w' /\ Holds(s)'
    BY <1>1, <1>2, <1>w DEF ParserInv, StringInv
  <2>4. /\ new.at \in Nat /\ Len(new.chars) \in Nat /\ DOMAIN new.chars = 1..Len(new.chars)
        /\ new.at + Len(new.chars) < w'
    BY <1>1, <1>2, <2>1, <2>2
  <2>5. /\ \A i \in DOMAIN new.chars : buf'[new.at + i - 1] = new.chars[i]
        /\ buf'[new.at + Len(new.chars)] = NUL
    BY <1>w, <2>1
  <2>6. \A s \in strings' : s \in strings \/ s = new
    BY <1>1
  <2>7. \A s \in strings' : /\ s.at \in Nat /\ Len(s.chars) \in Nat
                            /\ DOMAIN s.chars = 1..Len(s.chars)
                            /\ s.at + Len(s.chars) < w'
                            /\ \A i \in DOMAIN s.chars : buf'[s.at + i - 1] = s.chars[i]
                            /\ buf'[s.at + Len(s.chars)] = NUL
    <3>1. ASSUME NEW s \in strings
          PROVE  /\ \A i \in DOMAIN s.chars : buf'[s.at + i - 1] = s.chars[i]
                 /\ buf'[s.at + Len(s.chars)] = NUL
      BY <2>3 DEF Holds
    <3> HIDE DEF new
    <3>. QED
      BY <2>3, <2>4, <2>5, <2>6, <3>1
  <2>. QED
    BY <1>4, <2>7 DEF StringInv, Holds
<1>. QED
  BY <1>6, <1>7, <1>8, <1>9 DEF ParserInv

-----------------------------------------------------------------------------
LEMMA ParserInvHolds == Spec => []ParserInv
<1>1. ParserInv /\ [Step]_vars => ParserInv'
  <2>1. ParserInv /\ UNCHANGED vars => ParserInv'
    <3>. SUFFICES ASSUME ParserInv, UNCHANGED vars PROVE ParserInv'
      OBVIOUS
    <3>1. UNCHANGED <<text, buf, r, w, pc, next, stack, start, quote, chars, strings>>
      BY DEF vars, given, place, reading
    <3>2. StackInv' /\ PlaceInv'
      BY <3>1 DEF ParserInv, StackInv, PlaceInv, Before
    <3>3. InputIntact'
      BY <3>1 DEF ParserInv, InputIntact, Unread
    <3>4. StringInv'
      BY <3>1 DEF ParserInv, StringInv, Holds
    <3>. QED
      BY <3>2, <3>3, <3>4 DEF ParserInv
  <2>. QED
    BY <2>1, GapsKeep, ReadingKeeps, CharKeeps, EndKeeps DEF Step
<1>. QED
  BY <1>1, InitParserInv, PTL DEF Spec

\* Whatever the text, the parser reads what it was given: no string that it unquotes and
\* terminates in place reaches a character that is still to be read (parseString).
THEOREM InputStaysIntact == Spec => []InputIntact
<1>1. ParserInv => InputIntact
  BY DEF ParserInv
<1>. QED
  BY <1>1, ParserInvHolds, PTL

\* Whatever the text, every string the tree points at is still there, with its
\* terminator, when the parser has gone on, and when it is done (parseString).
THEOREM StringsStay == Spec => []StringsSurvive
<1>1. ParserInv => StringsSurvive
  BY DEF ParserInv, StringInv, StringsSurvive
<1>. QED
  BY <1>1, ParserInvHolds, PTL

-----------------------------------------------------------------------------
(* The end of the parse, and how deep it goes                              *)

\* What comes after spaces and comments, and at most how many steps it is from there to
\* one that reads on, or to the end.
Targets == Ahead \cup InContainer \cup {"open"}
Rank == [t \in Targets |-> IF t = "value" THEN 4 ELSE IF t \in {"first", "more"} THEN 5 ELSE 1]

Weight(p, n) == IF p = "done" THEN 0
                ELSE IF p \in {"raw", "quoted"} THEN 3
                ELSE IF p = "gap" THEN Rank[n] + 1
                ELSE IF p \in {"C", "Cpp"} THEN Rank[n] + 2
                ELSE Rank[p]

\* A bound on the steps that are left of the parse.
End == CHOOSE n \in Nat : DOMAIN text = 0..n
StepsLeft == 8 * (End - r) + Weight(pc, next)
ComesCloser == StepsLeft \in Nat /\ StepsLeft' \in Nat /\ StepsLeft' < StepsLeft

\* The container that the caller asked for is not open yet.
Opening == pc = "open" \/ (pc \in Gaps /\ next = "open")

\* Where the parser is, and which containers it may have open there: all that are open
\* took one of nestingLimit, but for the one the caller asked for.
Depth == IF entry = "parse" \/ stack = <<>> THEN Len(stack) ELSE Len(stack) - 1
PcOK == pc \in Gaps \cup Targets \cup {"raw", "quoted", "done"}
EntryOK == IF entry = "parse" THEN ~Opening
                              ELSE pc # "done" => (stack = <<>> <=> Opening)
LimitKept == pc # "done" => left \in Nat /\ \E limit \in Limits : left + Depth = limit
DepthInv == PcOK /\ EntryOK /\ LimitKept

\* Every place has a rank.
LEMMA RankIs ==
  /\ \A t \in Targets : Rank[t] \in 1..5
  /\ Rank["after"] = 1 /\ Rank["colon"] = 1 /\ Rank["open"] = 1
  /\ Rank["value"] = 4 /\ Rank["first"] = 5 /\ Rank["more"] = 5
  BY DEF Rank, Targets, Ahead, InContainer

\* What a place weighs; only the end weighs nothing.
LEMMA WeightIs ==
  ASSUME NEW p \in Gaps \cup Targets \cup {"raw", "quoted", "done"}, NEW n,
         p \in Gaps => n \in Targets
  PROVE  /\ Weight(p, n) \in 0..7
         /\ p = "done" => Weight(p, n) = 0
         /\ p # "done" => Weight(p, n) > 0
         /\ p \in {"raw", "quoted"} => Weight(p, n) = 3
         /\ p = "gap" => Weight(p, n) = Rank[n] + 1
         /\ p \in {"C", "Cpp"} => Weight(p, n) = Rank[n] + 2
         /\ p \in Targets => Weight(p, n) = Rank[p]
<1>1. CASE p = "done" \/ p \in {"raw", "quoted"}
  BY <1>1 DEF Weight, Targets, Ahead, InContainer
<1>2. CASE p \in Gaps
  <2>1. Rank[n] \in 1..5 /\ p \notin Targets
    BY <1>2, RankIs DEF Gaps, Targets, Ahead, InContainer
  <2> QED BY <1>2, <2>1 DEF Weight, Gaps
<1>3. CASE p \in Targets
  <2>1. Rank[p] \in 1..5
    BY <1>3, RankIs
  <2>2. p \notin Gaps \cup {"raw", "quoted", "done"}
    BY <1>3 DEF Gaps, Targets, Ahead, InContainer
  <2> QED BY <1>3, <2>1, <2>2 DEF Weight, Gaps
<1> QED BY <1>1, <1>2, <1>3

\* A text ends somewhere.
LEMMA TheEnd ==
  ASSUME NEW t \in Texts
  PROVE  \E n \in Nat : DOMAIN t = 0..n
  BY JsonAssumption DEF IsText

\* One container more or less.
LEMMA StackLengths ==
  ASSUME NEW s, IsSeq(s)
  PROVE  /\ Len(s) \in Nat /\ (Len(s) = 0 <=> s = <<>>)
         /\ \A x : Len(<<x>> \o s) = Len(s) + 1 /\ <<x>> \o s # <<>>
         /\ s # <<>> => /\ Len(Tail(s)) = Len(s) - 1
                        /\ \A x : Len(<<x>> \o Tail(s)) = Len(s) /\ <<x>> \o Tail(s) # <<>>
<1>1. ASSUME NEW q, IsSeq(q), NEW x
      PROVE  Len(q) \in Nat /\ Len(<<x>> \o q) = Len(q) + 1 /\ <<x>> \o q # <<>>
  <2>1. PICK S : q \in Seq(S)
    BY <1>1 DEF IsSeq
  <2>2. <<x>> \in Seq(S \cup {x}) /\ q \in Seq(S \cup {x}) /\ Len(<<x>>) = 1
    BY <2>1
  <2>3. Len(<<x>> \o q) = Len(<<x>>) + Len(q)
    BY <2>2, ConcatProperties
  <2> QED BY <1>1, <2>2, <2>3, OntoStack
<1>2. Len(s) \in Nat /\ (Len(s) = 0 <=> s = <<>>)
  <2>1. PICK S : s \in Seq(S)
    BY DEF IsSeq
  <2> QED BY <2>1, EmptySeq
<1>3. ASSUME s # <<>> PROVE IsSeq(Tail(s)) /\ Len(Tail(s)) = Len(s) - 1
  <2>1. PICK S : s \in Seq(S)
    BY DEF IsSeq
  <2> QED BY <1>3, <2>1, HeadTailProperties DEF IsSeq
<1>4. ASSUME s # <<>>, NEW x PROVE Len(<<x>> \o Tail(s)) = Len(s) /\ <<x>> \o Tail(s) # <<>>
  <2>1. Len(<<x>> \o Tail(s)) = Len(Tail(s)) + 1 /\ <<x>> \o Tail(s) # <<>>
    BY <1>1, <1>3, <1>4
  <2> QED BY <1>2, <1>3, <1>4, <2>1
<1> QED BY <1>1, <1>2, <1>3, <1>4

\* A value that is complete leaves as many containers open as there were around it.
LEMMA DeliverDepth ==
  ASSUME NEW value, NEW rest, IsSeq(rest), Deliver(value, rest)
  PROVE  \/ pc' = "done"
         \/ /\ pc' = "gap" /\ next' = "after" /\ rest # <<>>
            /\ Len(stack') = Len(rest) /\ stack' # <<>>
<1>1. CASE rest = <<>> \/ Fail
  BY <1>1 DEF Deliver, Fail
<1>2. CASE rest # <<>> /\ GapThen("after") /\ \E x : stack' = <<x>> \o Tail(rest)
  BY <1>2, StackLengths DEF GapThen
<1> QED BY <1>1, <1>2 DEF Deliver

\* Where a string or a container may begin nothing is opened for the caller.
LEMMA NotOpening ==
  ASSUME DepthInv, pc \notin Gaps \cup {"open", "done"}
  PROVE  ~Opening /\ (entry # "parse" => stack # <<>>)
  BY DEF Opening, DepthInv, EntryOK

\* No step of the parser breaks it.
LEMMA DepthStep ==
  ASSUME ParserInv, DepthInv, [Step]_vars
  PROVE  DepthInv'
<1>1. /\ IsSeq(stack) /\ (pc \in InContainer => stack # <<>>)
      /\ (pc \in {"raw", "quoted"} /\ next = "colon" => stack # <<>>)
      /\ (pc \in Gaps => next \in Targets)
  BY DEF ParserInv, StackInv, Targets, InContainer
<1>2. Len(stack) \in Nat /\ (Len(stack) = 0 <=> stack = <<>>)
  BY <1>1, StackLengths
<1>3. entry' = entry
  BY DEF Step, Blank, CComment, CppComment, GapEnds, Letter, RawEnds, Quoted, QuotedEnds,
         Open, TooDeep, Container, StringValue, Empty, First, Colon, Closed, Comma,
         WriteChar, EndString, given, vars
<1>4. ASSUME pc' = "done" PROVE DepthInv'
  BY <1>4 DEF DepthInv, PcOK, EntryOK, LimitKept, Opening, Gaps
\* The depth and what is left of the limit change by the same.
<1>5. ASSUME pc # "done", PcOK', EntryOK', left' \in Int, left' >= 0,
             left' + Depth' = left + Depth
      PROVE  DepthInv'
  BY <1>5 DEF DepthInv, LimitKept
\* As many containers are open as before.
<1>6. ASSUME pc # "done", Opening' <=> Opening, PcOK', left' = left,
             Len(stack') = Len(stack), stack' = <<>> <=> stack = <<>>
      PROVE  DepthInv'
  <2>1. EntryOK'
    BY <1>3, <1>6 DEF DepthInv, EntryOK
  <2>2. Depth' = Depth
    BY <1>3, <1>6 DEF Depth
  <2>3. left' \in Nat
    BY <1>6 DEF DepthInv, LimitKept
  <2> QED BY <1>5, <1>6, <2>1, <2>2, <2>3
<1>7. CASE Blank \/ CComment \/ CppComment \/ GapEnds
  <2>1. pc \in Gaps /\ (pc' \in Gaps \/ pc' = next) /\ UNCHANGED <<next, stack, left>>
    BY <1>7 DEF Blank, CComment, CppComment, GapEnds, Gaps
  <2>2. pc # "done" /\ next \notin Gaps /\ next \in Targets
    BY <1>1, <2>1 DEF Gaps, Targets, Ahead, InContainer
  <2>3. (Opening' <=> Opening) /\ PcOK'
    BY <2>1, <2>2 DEF Opening, PcOK, Gaps
  <2> QED BY <1>6, <2>1, <2>2, <2>3
<1>8. CASE Letter \/ Quoted
  <2>1. pc \in {"raw", "quoted"} /\ UNCHANGED <<pc, stack, left>>
    BY <1>8 DEF Letter, Quoted, WriteChar, place
  <2>2. ~Opening /\ ~Opening' /\ pc # "done" /\ PcOK'
    BY <2>1 DEF Opening, Gaps, PcOK
  <2> QED BY <1>6, <2>1, <2>2
<1>9. CASE RawEnds \/ QuotedEnds
  <2>1. pc \in {"raw", "quoted"} /\ EndString /\ left' = left
    BY <1>9 DEF RawEnds, QuotedEnds, EndString
  <2>2. ~Opening /\ pc # "done"
    BY <2>1 DEF Opening, Gaps
  <2>3. CASE next = "colon"
    <3>1. /\ pc' = "gap" /\ next' = "colon" /\ stack # <<>>
          /\ \E x : stack' = <<x>> \o Tail(stack)
      BY <1>1, <2>1, <2>3 DEF EndString
    <3>2. Len(stack') = Len(stack) /\ stack' # <<>>
      BY <1>1, <3>1, StackLengths
    <3>3. ~Opening' /\ PcOK'
      BY <3>1 DEF Opening, PcOK, Gaps
    <3> QED BY <1>6, <2>1, <2>2, <3>1, <3>2, <3>3
  <2>4. CASE next # "colon"
    <3>1. PICK value : Deliver(value, stack)
      BY <2>1, <2>4 DEF EndString
    <3>2. CASE pc' # "done"
      <4>1. /\ pc' = "gap" /\ next' = "after" /\ stack # <<>>
            /\ Len(stack') = Len(stack) /\ stack' # <<>>
        BY <1>1, <3>1, <3>2, DeliverDepth
      <4>2. ~Opening' /\ PcOK'
        BY <4>1 DEF Opening, PcOK, Gaps
      <4> QED BY <1>6, <2>1, <2>2, <4>1, <4>2
    <3> QED BY <1>4, <3>2
  <2> QED BY <2>3, <2>4
<1>10. CASE StringValue \/ First \/ Colon \/ Comma
  <2>1. pc \in {"value", "first", "more", "colon", "after"} /\ UNCHANGED left
    BY <1>10 DEF StringValue, First, Colon, Comma
  <2>2. ~Opening /\ pc # "done"
    BY <2>1 DEF Opening, Gaps
  <2>3. CASE pc' # "done"
    <3>1. /\ UNCHANGED stack
          /\ \/ pc' \in {"raw", "quoted", "value"}
             \/ pc' = "gap" /\ next' \in {"value", "more"}
      BY <1>10, <2>3 DEF StringValue, First, Element, Colon, Comma, BeginString, Go, GapThen, Fail
    <3>2. ~Opening' /\ PcOK'
      BY <3>1 DEF Opening, PcOK, Gaps, Targets, Ahead
    <3> QED BY <1>6, <2>1, <2>2, <3>1, <3>2
  <2> QED BY <1>4, <2>3
\* A container is entered.
<1>11. ASSUME NEW kind, Enter(kind), pc' # "done"
       PROVE  /\ Len(stack') = Len(stack) + 1 /\ stack' # <<>>
              /\ ~Opening' /\ PcOK'
  <2>1. pc' = "gap" /\ next' = "first" /\ \E x : stack' = <<x>> \o stack
    BY <1>11 DEF Enter, Fail, GapThen
  <2>2. ~Opening' /\ PcOK'
    BY <2>1 DEF Opening, PcOK, Gaps
  <2> QED BY <1>1, <2>1, <2>2, StackLengths
<1>12. CASE Open
  <2>1. pc = "open" /\ Enter(entry) /\ left' = left
    BY <1>12 DEF Open
  <2>2. entry # "parse" /\ stack = <<>> /\ left \in Nat
    BY <2>1 DEF Opening, DepthInv, EntryOK, LimitKept
  <2>3. CASE pc' # "done"
    <3>1. Len(stack') = Len(stack) + 1 /\ stack' # <<>> /\ ~Opening' /\ PcOK'
      BY <1>11, <2>1, <2>3
    <3>2. Depth = 0 /\ Depth' = 0
      BY <1>2, <1>3, <2>2, <3>1 DEF Depth
    <3>3. EntryOK'
      BY <1>3, <3>1 DEF EntryOK
    <3> QED BY <1>5, <2>1, <2>2, <3>1, <3>2, <3>3
  <2> QED BY <1>4, <2>3
<1>13. CASE Container
  <2>1. pc = "value" /\ left > 0 /\ left' = left - 1 /\ \E kind : Enter(kind)
    BY <1>13 DEF Container
  <2>2. ~Opening /\ (entry # "parse" => stack # <<>>) /\ left \in Nat
    BY <2>1, NotOpening DEF Gaps, DepthInv, LimitKept
  <2>3. CASE pc' # "done"
    <3>1. Len(stack') = Len(stack) + 1 /\ stack' # <<>> /\ ~Opening' /\ PcOK'
      BY <1>11, <2>1, <2>3
    <3>2. Depth \in Int /\ Depth' = Depth + 1
      BY <1>2, <1>3, <2>2, <3>1 DEF Depth
    <3>3. EntryOK'
      BY <1>3, <3>1 DEF EntryOK
    <3>4. left' \in Int /\ left' >= 0 /\ left' + Depth' = left + Depth
      BY <2>1, <2>2, <3>2
    <3> QED BY <1>5, <2>1, <3>1, <3>3, <3>4
  <2> QED BY <1>4, <2>3
<1>14. CASE Empty \/ Closed
  <2>1. Leave /\ pc \in {"first", "after"}
    BY <1>14 DEF Empty, Closed
  <2>2. stack # <<>> /\ left \in Nat
    BY <1>1, <2>1 DEF InContainer, DepthInv, LimitKept
  <2>3. IsSeq(Tail(stack)) /\ Len(Tail(stack)) = Len(stack) - 1
    BY <1>1, <2>2, OffStack, StackLengths
  <2>4. CASE pc' # "done"
    <3>1. PICK value : Deliver(value, Tail(stack))
      BY <2>1, <2>4 DEF Leave, Fail
    <3>2. /\ pc' = "gap" /\ next' = "after" /\ Tail(stack) # <<>>
          /\ Len(stack') = Len(Tail(stack)) /\ stack' # <<>>
      BY <2>3, <2>4, <3>1, DeliverDepth
    <3>3. Len(Tail(stack)) # 0 /\ Len(Tail(stack)) \in Nat
      BY <2>3, <3>2, StackLengths
    <3>4. left' = left + 1
      <4>1. Counted
        BY <1>2, <2>3, <3>3 DEF Counted
      <4> QED BY <2>1, <4>1 DEF Leave
    <3>5. Depth \in Int /\ Depth' = Depth - 1
      BY <1>2, <1>3, <2>2, <2>3, <3>2 DEF Depth
    <3>6. ~Opening' /\ PcOK'
      BY <3>2 DEF Opening, PcOK, Gaps
    <3>7. EntryOK'
      BY <1>3, <3>2, <3>6 DEF EntryOK
    <3>8. left' \in Int /\ left' >= 0 /\ left' + Depth' = left + Depth
      BY <2>2, <3>4, <3>5
    <3> QED BY <1>5, <2>1, <3>6, <3>7, <3>8
  <2> QED BY <1>4, <2>4
<1>15. CASE TooDeep
  BY <1>4, <1>15 DEF TooDeep, Fail
<1>16. CASE UNCHANGED vars
  <2>1. UNCHANGED <<pc, next, stack, left>>
    BY <1>16 DEF vars, place
  <2> QED BY <1>3, <2>1 DEF DepthInv, PcOK, EntryOK, LimitKept, Opening, Depth
<1> QED BY <1>7, <1>8, <1>9, <1>10, <1>12, <1>13, <1>14, <1>15, <1>16 DEF Step

\* When the parser begins nothing is open, and the whole limit is left.
LEMMA InitDepth == Init => DepthInv
<1> SUFFICES ASSUME Init PROVE DepthInv
  OBVIOUS
<1>1. /\ pc = "gap" /\ stack = <<>> /\ left \in Limits /\ left \in Nat
      /\ next = IF entry = "parse" THEN "value" ELSE "open"
  BY JsonAssumption DEF Init, Begin
<1>2. Depth = 0
  BY <1>1 DEF Depth
<1> QED BY <1>1, <1>2 DEF DepthInv, PcOK, EntryOK, LimitKept, Opening, Gaps

\* So it always holds.
LEMMA DepthHolds == Spec => [](ParserInv /\ DepthInv)
<1>1. ParserInv /\ DepthInv /\ [Step]_vars => DepthInv'
  BY DepthStep
<1> QED BY <1>1, InitDepth, ParserInvHolds, PTL DEF Spec

\* The recursion of the parser is bounded: containers are never open deeper than
\* nestingLimit, one more when the caller asked for an array or an object, whatever the
\* text (parseAnythingTo).
THEOREM NestingBounded ==
  Spec => [](pc # "done" => \E limit \in Limits :
               Len(stack) <= IF entry = "parse" THEN limit ELSE limit + 1)
<1>1. ASSUME ParserInv, DepthInv, pc # "done"
      PROVE  \E limit \in Limits : Len(stack) <= IF entry = "parse" THEN limit ELSE limit + 1
  <2>1. IsSeq(stack)
    BY <1>1 DEF ParserInv, StackInv
  <2>2. Len(stack) \in Nat /\ (Len(stack) = 0 <=> stack = <<>>)
    BY <2>1, StackLengths
  <2>3. PICK limit \in Limits : left + Depth = limit
    BY <1>1 DEF DepthInv, LimitKept
  <2>4. limit \in Nat /\ left \in Nat
    BY <1>1, JsonAssumption DEF DepthInv, LimitKept
  <2>5. Len(stack) <= IF entry = "parse" THEN limit ELSE limit + 1
    <3>1. CASE entry = "parse"
      BY <2>2, <2>3, <2>4, <3>1 DEF Depth
    <3>2. CASE entry # "parse"
      BY <2>2, <2>3, <2>4, <3>2 DEF Depth
    <3> QED BY <3>1, <3>2
  <2> QED BY <2>5
<1> QED BY <1>1, DepthHolds, PTL

\* A step that reads on, or comes closer to one that does.
LEMMA CloserStep ==
  ASSUME ParserInv, ParserInv', DepthInv, DepthInv', Step
  PROVE  ComesCloser
<1>1. PICK n \in Nat : DOMAIN text = 0..n /\ n = End /\ n = End'
  <2>1. text \in Texts /\ text' = text
    BY DEF ParserInv, PlaceInv, Step, Blank, CComment, CppComment, GapEnds, Letter, RawEnds,
           Quoted, QuotedEnds, Open, TooDeep, Container, StringValue, Empty, First, Colon,
           Closed, Comma, WriteChar, EndString, given
  <2>2. \E n \in Nat : DOMAIN text = 0..n
    BY <2>1, TheEnd
  <2>3. PICK n \in Nat : DOMAIN text = 0..n /\ n = End
    BY <2>2 DEF End
  <2>4. End' = End
    BY <2>1 DEF End
  <2> QED BY <2>3, <2>4
<1>2. r \in 0..n /\ r' \in 0..n
  <2>1. text' = text
    BY DEF Step, Blank, CComment, CppComment, GapEnds, Letter, RawEnds,
           Quoted, QuotedEnds, Open, TooDeep, Container, StringValue, Empty, First, Colon,
           Closed, Comma, WriteChar, EndString, given
  <2> QED BY <1>1, <2>1 DEF ParserInv, PlaceInv
<1> DEFINE W == Weight(pc, next)
           V == Weight(pc', next')
<1>3. /\ pc \in Gaps \cup Targets \cup {"raw", "quoted", "done"}
      /\ pc' \in Gaps \cup Targets \cup {"raw", "quoted", "done"}
      /\ (pc \in Gaps => next \in Targets) /\ (pc' \in Gaps => next' \in Targets)
  BY DEF DepthInv, PcOK, ParserInv, StackInv, Targets
<1>4. W \in 0..7 /\ V \in 0..7
  BY <1>3, WeightIs
<1>5. /\ StepsLeft = 8 * (n - r) + W
      /\ StepsLeft' = 8 * (n - r') + V
  BY <1>1 DEF StepsLeft
<1> HIDE DEF W, V
<1>6. ASSUME r' > r \/ (r' = r /\ V < W)
      PROVE  ComesCloser
  <2>1. PICK a \in Nat, b \in Nat, c \in Nat, d \in Nat :
          a = r /\ b = r' /\ c = W /\ d = V
    BY <1>2, <1>4
  <2>2. a <= n /\ b <= n /\ c <= 7 /\ d <= 7 /\ (b > a \/ (b = a /\ d < c))
    BY <1>2, <1>4, <1>6, <2>1
  <2>3. /\ 8 * (n - a) + c \in Nat /\ 8 * (n - b) + d \in Nat
        /\ 8 * (n - b) + d < 8 * (n - a) + c
    BY <2>2
  <2> QED BY <1>5, <2>1, <2>3 DEF ComesCloser
<1>7. ASSUME pc # "done", pc' = "done" PROVE V < W
  BY <1>3, <1>7, WeightIs DEF V, W
<1>8. r \in Int /\ r' \in Int
  BY <1>2
<1>9. CASE Blank \/ Letter \/ Quoted \/ QuotedEnds \/ Empty \/ Closed
  <2>1. r' = r + 1 \/ r' = r + 2
    BY <1>9 DEF Blank, Letter, Quoted, QuotedEnds, Empty, Closed, Leave
  <2> QED BY <1>6, <1>8, <2>1
<1>10. CASE CComment \/ CppComment
  <2>1. \/ r' = r + 1 \/ r' = r + 2
        \/ r' = r /\ pc \in {"C", "Cpp"} /\ pc' = "gap" /\ next' = next
    BY <1>10 DEF CComment, CppComment
  <2>2. ASSUME pc \in {"C", "Cpp"}, pc' = "gap", next' = next PROVE V < W
    <3>1. next \in Targets /\ Rank[next] \in 1..5
      BY <1>3, <2>2, RankIs DEF Gaps
    <3>2. W = Rank[next] + 2 /\ V = Rank[next] + 1
      BY <1>3, <2>2, WeightIs DEF V, W
    <3> QED BY <3>1, <3>2
  <2> QED BY <1>6, <1>8, <2>1, <2>2
<1>11. CASE GapEnds
  <2>1. r' = r /\ pc = "gap" /\ pc' = next
    BY <1>11 DEF GapEnds
  <2>2. next \in Targets /\ Rank[next] \in 1..5
    BY <1>3, <2>1, RankIs DEF Gaps
  <2>3. W = Rank[next] + 1 /\ V = Rank[next]
    BY <1>3, <2>1, <2>2, WeightIs DEF V, W
  <2> QED BY <1>6, <2>1, <2>2, <2>3
<1>12. CASE RawEnds
  <2>1. pc = "raw" /\ r' = r /\ EndString
    BY <1>12 DEF RawEnds
  <2>2. pc' = "done" \/ (pc' = "gap" /\ next' \in {"colon", "after"})
    <3>1. IsSeq(stack)
      BY DEF ParserInv, StackInv
    <3> QED BY <2>1, <3>1, DeliverDepth DEF EndString
  <2>3. CASE pc' = "gap" /\ next' \in {"colon", "after"}
    <3>1. W = 3 /\ V = 2
      BY <1>3, <2>1, <2>3, WeightIs, RankIs DEF V, W
    <3> QED BY <1>6, <2>1, <3>1
  <2> QED BY <1>6, <1>7, <2>1, <2>2, <2>3
<1>13. CASE Open \/ Container \/ TooDeep \/ Colon \/ Comma
  <2>1. pc # "done" /\ (r' = r + 1 \/ (r' = r /\ pc' = "done"))
    BY <1>13 DEF Open, Container, TooDeep, Colon, Comma, Enter, Fail
  <2> QED BY <1>6, <1>7, <1>8, <2>1
<1>14. CASE StringValue
  <2>1. pc = "value" /\ r' = r /\ pc' \in {"raw", "quoted"}
    BY <1>14 DEF StringValue, BeginString
  <2>2. W = 4 /\ V = 3
    BY <1>3, <2>1, WeightIs, RankIs DEF V, W, Targets, Ahead
  <2> QED BY <1>6, <2>1, <2>2
<1>15. CASE First
  <2>1. pc \in {"first", "more"} /\ r' = r /\ pc' \in {"raw", "quoted", "value"}
    BY <1>15 DEF First, Element, BeginString, Go
  <2>2. W = 5
    BY <1>3, <2>1, WeightIs, RankIs DEF W, Targets, Ahead
  <2>3. V = 3 \/ V = 4
    BY <1>3, <2>1, WeightIs, RankIs DEF V, Targets, Ahead
  <2> QED BY <1>6, <2>1, <2>2, <2>3
<1> QED BY <1>9, <1>10, <1>11, <1>12, <1>13, <1>14, <1>15 DEF Step

\* Whatever the text, every step of the parser brings the end of the parse closer: it
\* reads on, or it is one of at most seven in a row that do not (parseAnythingTo,
\* skipSpacesAndComments).  A text of n characters takes at most 8 * n + 5 steps.
THEOREM EveryStepCloser ==
  Spec => /\ StepsLeft <= 8 * End + 5
          /\ [][ComesCloser]_vars
<1>1. /\ ParserInv /\ DepthInv /\ (ParserInv /\ DepthInv)' /\ [Step]_vars
      => [ComesCloser]_vars
  BY CloserStep
<1>2. Init => StepsLeft <= 8 * End + 5
  <2>. SUFFICES ASSUME Init PROVE StepsLeft <= 8 * End + 5
    OBVIOUS
  <2>1. text \in Texts /\ r = 0 /\ pc = "gap" /\ next \in {"value", "open"}
    BY DEF Init, Begin
  <2>2. End \in Nat
    BY <2>1, TheEnd DEF End
  <2>3. Weight(pc, next) \in {2, 5}
    BY <2>1, RankIs DEF Weight
  <2>. QED
    BY <2>1, <2>2, <2>3 DEF StepsLeft
<1> QED BY <1>1, <1>2, DepthHolds, PTL DEF Spec
=============================================================================
