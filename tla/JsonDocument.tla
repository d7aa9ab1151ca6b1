---------------------------- MODULE JsonDocument ----------------------------
(***************************************************************************)
(* A text that was parsed, perhaps edited, printed, compact or pretty, and *)
(* parsed again.  Edits change the outermost array or object; they take    *)
(* memory from the buffer the parse took it from, and give none back.      *)
(***************************************************************************)
EXTENDS JsonParser, SequencesExt

CONSTANTS
  Edited,      \* the texts of the documents that are edited
  EditKeys,    \* keys, and whether they are given as a String: [text, copied]
  EditValues,  \* string values, the same
  MaxEdits     \* bound: edits of a document

VARIABLES
  phase,  \* "given", or how the text that is parsed now was printed
  first,  \* the value that was printed
  edits,  \* edits so far, for the bound
  whole   \* no edit left a node without its key or its own value

docVars == <<phase, first, edits, whole>>
allVars == <<vars, docVars>>

-----------------------------------------------------------------------------
(* Printing                                                                *)

\* The first half of Encoding's table, and the one it shares with the parser.
Specials == Escapes \cup {<<"\"", "\"">>, <<"\\", "\\">>}

\* Mutant: the table without the first entries, as the parser uses it.
WrittenPlain(c) ==
  IF \E e \in Escapes : e[2] = c THEN <<"\\", (CHOOSE e \in Escapes : e[2] = c)[1]>> ELSE <<c>>

Written(c) ==
  IF \E e \in Specials : e[2] = c THEN <<"\\", (CHOOSE e \in Specials : e[2] = c)[1]>> ELSE <<c>>

WriteString(s) == <<"\"">> \o FlattenSeq([i \in DOMAIN s |-> Written(s[i])]) \o <<"\"">>

\* A comma before every element but the first.
Joined(parts) ==
  FlattenSeq([i \in DOMAIN parts |-> IF i = 1 THEN parts[i] ELSE <<",">> \o parts[i]])

Bracketed(open, parts, close) == <<open>> \o Joined(parts) \o <<close>>

\* The members of an object, with their values as they are written.
WriteObject(items, values) ==
  Bracketed("{", [i \in DOMAIN items |-> WriteString(items[i].key) \o <<":">>
                                            \o values[i]], "}")

RECURSIVE WriteTo(_)
WriteTo(v) ==
  LET values == [i \in DOMAIN v.items |-> WriteTo(v.items[i].value)]
  IN  CASE v.kind = "raw"    -> v.text
        [] v.kind = "string" -> WriteString(v.text)
        [] v.kind = "array"  -> Bracketed("[", values, "]")
        [] v.kind = "object" -> WriteObject(v.items, values)

\* IndentedPrint and Prettyfier, character by character:
\* [out, level, newLine, previous, inString].
MaxLevel == 15
Tabs(level) == [i \in 1..(2 * level) |-> " "]

SinkWrite(p, c) ==
  [p EXCEPT !.out = @ \o (IF p.newLine THEN Tabs(p.level) ELSE <<>>) \o <<c>>,
            !.newLine = (c = "\n")]

Println(p) == SinkWrite(SinkWrite(p, "\r"), "\n")
Indent(p)   == [p EXCEPT !.level = IF @ < MaxLevel THEN @ + 1 ELSE @]
Unindent(p) == [p EXCEPT !.level = IF @ > 0 THEN @ - 1 ELSE @]

InEmptyBlock(p) == p.previous \in {"{", "["}
IndentIfNeeded(p)   == IF InEmptyBlock(p) THEN Println(Indent(p)) ELSE p
UnindentIfNeeded(p) == IF InEmptyBlock(p) THEN p ELSE Println(Unindent(p))

\* Mutant: quotes are not looked at.
MarkupOnly(p, c) ==
  CASE c \in {"}", "]"} -> SinkWrite(UnindentIfNeeded(p), c)
    [] c = ":"          -> SinkWrite(SinkWrite(p, ":"), " ")
    [] c = ","          -> Println(SinkWrite(p, ","))
    [] OTHER            -> SinkWrite(IndentIfNeeded(p), c)

Markup(p, c) == IF p.inString THEN SinkWrite(p, c) ELSE MarkupOnly(p, c)

Prettify(p, c) ==
  [Markup(p, c) EXCEPT
     !.previous = c,
     !.inString = IF c = "\"" THEN ~p.inString \/ p.previous = "\\" ELSE @]

Pretty(s) ==
  FoldLeft(Prettify, [out |-> <<>>, level |-> 0, newLine |-> TRUE, previous |-> NUL,
                      inString |-> FALSE], s).out

-----------------------------------------------------------------------------
(* A document through parser and printer                                   *)

AsText(s) == [i \in 0..Len(s) |-> IF i = Len(s) THEN NUL ELSE s[i + 1]]

DocInit == Init /\ phase = "given" /\ first = Invalid /\ edits = 0 /\ whole = TRUE

Parse == Step /\ UNCHANGED docVars

-----------------------------------------------------------------------------
(* Editing                                                                 *)

\* What a node without value prints: nothing; and a null pointer for a string.
Undefined == Str("raw", <<>>)
NullString == Str("raw", <<NUL>>)

\* The bytes strdup takes; a char pointer is not copied.
CopySize(s) == IF s.copied THEN Len(s.text) + 1 ELSE 0

\* An edit leaves these nodes and took so many bytes.
Leaves(items, bytes, isWhole) ==
  /\ result' = [result EXCEPT !.items = items]
  /\ used' = used + bytes
  /\ whole' = isWhole
  /\ edits' = edits + 1
  /\ UNCHANGED <<given, left, buf, r, w, place, stack, reading, strings, phase, first>>

Nothing == Leaves(result.items, 0, TRUE)

\* A caller that was told of a node that lacks something uses the document no more.
Editable(kind) ==
  /\ phase = "given" /\ pc = "done" /\ result.kind = kind
  /\ text \in Edited /\ whole /\ edits < MaxEdits

\* JsonArray's setNodeValue, after `bytes' went to the node: the value stays what it was
\* when there is no memory for a copy.
SetElement(items, i, v, bytes) ==
  IF v.copied => Fits(bytes + CopySize(v))
  THEN Leaves([items EXCEPT ![i].value = Str("string", v.text)], bytes + CopySize(v), TRUE)
  ELSE Leaves(items, bytes, i <= Len(result.items))

\* addNode
Add(v) ==
  /\ Editable("array")
  /\ IF Fits(NodeSize)
     THEN SetElement(Append(result.items, [key |-> <<>>, value |-> Undefined]),
                     Len(result.items) + 1, v, NodeSize)
     ELSE Nothing

\* setNodeAt of an array, and what set() does beyond its end.
SetAt(i, v) ==
  /\ Editable("array")
  /\ IF i \in DOMAIN result.items THEN SetElement(result.items, i, v, 0) ELSE Nothing

\* removeNode unlinks a node and keeps its memory.
RemoveNode(i) == Leaves(RemoveAt(result.items, i), 0, TRUE)

RemoveElement(i) == Editable("array") /\ i \in DOMAIN result.items /\ RemoveNode(i)

\* A container of the document's buffer; without memory it is invalid(), which prints as
\* an empty one that may be too much for the memory it is parsed in.
Fresh(kind) == [kind |-> kind, text |-> <<>>, items |-> <<>>]
FreshSize == IF Fits(ContainerSize) THEN ContainerSize ELSE 0

\* createNestedArray, createNestedObject: nobody looks whether add() had memory for the
\* node, so the caller may hold a container that is not in the document.
AddNested(kind) ==
  /\ Editable("array")
  /\ IF Fits(FreshSize + NodeSize)
     THEN Leaves(Append(result.items, [key |-> <<>>, value |-> Fresh(kind)]),
                 FreshSize + NodeSize, Fits(ContainerSize))
     ELSE Leaves(result.items, FreshSize, TRUE)

\* setNodeKey of a new node, after `bytes' went to it and others: the nodes, the bytes, and
\* whether it has its key.
Keyed(items, key, bytes) ==
  IF key.copied => Fits(bytes + CopySize(key))
  THEN [items |-> Append(items, [key |-> key.text, value |-> Undefined]),
        bytes |-> bytes + CopySize(key), ok |-> TRUE]
  ELSE [items |-> Append(items, [key |-> <<NUL>>, value |-> Undefined]),
        bytes |-> bytes, ok |-> FALSE]

\* The node of a key, a new one when there is none.
Located(key, bytes) ==
  IF Slot(result.items, key.text) \in DOMAIN result.items
  THEN [items |-> result.items, bytes |-> bytes, ok |-> TRUE]
  ELSE Keyed(result.items, key, bytes + NodeSize)

\* JsonObject's setNodeValue: without memory for a copy the value becomes a null pointer.
SetMember(l, i, v) ==
  IF v.copied => Fits(l.bytes + CopySize(v))
  THEN Leaves([l.items EXCEPT ![i].value = Str("string", v.text)], l.bytes + CopySize(v), TRUE)
  ELSE Leaves([l.items EXCEPT ![i].value = NullString], l.bytes, FALSE)

\* setNodeAt of an object, of a value that goes into the node itself or is copied.
Set(key, v) ==
  LET l == Located(key, 0)
  IN  /\ Editable("object")
      /\ IF ~Fits(l.bytes) THEN Nothing
         ELSE IF ~l.ok THEN Leaves(l.items, l.bytes, FALSE)
         ELSE SetMember(l, Slot(l.items, key.text), v)

RemoveMember(key) ==
  /\ Editable("object") /\ Slot(result.items, key.text) \in DOMAIN result.items
  /\ RemoveNode(Slot(result.items, key.text))

\* The same as AddNested, under a key.
SetNested(key, kind) ==
  LET l == Located(key, FreshSize)
  IN  /\ Editable("object")
      /\ IF ~Fits(l.bytes) THEN Leaves(result.items, FreshSize, TRUE)
         ELSE IF ~l.ok THEN Leaves(l.items, l.bytes, FALSE)
         ELSE Leaves([l.items EXCEPT ![Slot(l.items, key.text)].value = Fresh(kind)],
                     l.bytes, Fits(ContainerSize))

Edit ==
  \/ \E v \in EditValues : Add(v) \/ \E i \in 1..2 : SetAt(i, v)
  \/ \E i \in 1..2 : RemoveElement(i)
  \/ \E kind \in {"array", "object"} : AddNested(kind)
  \/ \E key \in EditKeys : \/ \E v \in EditValues : Set(key, v)
                          \/ RemoveMember(key)
                          \/ \E kind \in {"array", "object"} : SetNested(key, kind)

-----------------------------------------------------------------------------
\* The caller prints what it got, and parses that, one level deeper if it added one.
Reread ==
  /\ phase = "given" /\ pc = "done" /\ result # Invalid /\ whole
  /\ first' = result
  /\ phase' \in {"compact", "pretty"}
  /\ LET printed == WriteTo(result)
         t == AsText(IF phase' = "compact" THEN printed ELSE Pretty(printed))
     IN  text' = t /\ buf' = t
  /\ r' = 0 /\ w' = 0
  /\ pc' = "gap" /\ next' = IF entry = "parse" THEN "value" ELSE "open"
  /\ stack' = <<>> /\ start' = 0 /\ quote' = NUL /\ chars' = <<>>
  /\ strings' = {} /\ used' = 0 /\ result' = Invalid
  /\ left' = IF edits > 0 THEN left + 1 ELSE left
  /\ UNCHANGED <<entry, capacity, edits, whole>>

DocNext == Parse \/ Edit \/ Reread

\* The parser runs; the caller may keep what it has.
DocSpec == DocInit /\ [][DocNext]_allVars /\ WF_allVars(Parse)

-----------------------------------------------------------------------------
(* Properties                                                              *)

\* A string that ends in a backslash leads the prettyfier astray: it takes the closing
\* quote for an escaped one.
RECURSIVE Misleads(_)
Misleads(v) ==
  LET ends(s) == s # <<>> /\ Last(s) = "\\"
  IN  \/ v.kind = "string" /\ ends(v.text)
      \/ \E i \in DOMAIN v.items :
           (v.kind = "object" /\ ends(v.items[i].key)) \/ Misleads(v.items[i].value)

\* What was parsed, from whatever text with comments, quotes of both kinds, missing values or
\* keys given twice, and then edited without losing a part of a node, is printed as a text
\* that parses to the same value, within the same memory and nesting; a pretty text does as
\* well, unless a string misleads the prettyfier (setNodeAt, addNode, removeNode, writeTo,
\* writeString, Prettyfier).
PrintedReadsBack ==
  phase # "given" /\ pc = "done" => result = first \/ (phase = "pretty" /\ Misleads(first))

\* Every parse ends, whatever the text (parseArray, parseObject, parseString).
ParseEnds == <>(pc = "done")
=============================================================================
