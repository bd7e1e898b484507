----------------------------- MODULE JsonParser -----------------------------
(***************************************************************************)
(* The recursive-descent JSON parser of src/src/parser.c.                  *)
(*                                                                         *)
(* A text is a sequence of symbols.  A symbol stands for one character, or *)
(* for a run of them that the parser never looks into: a number that       *)
(* strtod reads in one call, a literal, a run of plain characters in a     *)
(* string.  All white space is the one symbol " ".  Operators bear the     *)
(* names of the C functions; each takes the text and a position, and       *)
(* returns the error, the value, and the position after it (state->pos).   *)
(***************************************************************************)
EXTENDS Integers, Sequences, FiniteSets

CONSTANT NumberOf  \* the values of the symbols that are numbers

NumberSymbols == DOMAIN NumberOf

-----------------------------------------------------------------------------
\* Characters.

NUL == "NUL"

\* Beyond the end of the text there is the zero character.
peek(text, pos) == IF pos > Len(text) THEN NUL ELSE text[pos]

RECURSIVE skip_whitespace(_, _)
skip_whitespace(text, pos) ==
  IF peek(text, pos) = " " THEN skip_whitespace(text, pos + 1) ELSE pos

\* consume: the end of the text is never passed.
consume(text, pos) == IF pos > Len(text) THEN pos ELSE pos + 1

NoValue == [type |-> "NONE"]
Parsed(value, pos) == [err |-> "PARSE_OK", value |-> value, pos |-> pos]
SyntaxError == [err |-> "PARSE_ERR_SYNTAX", value |-> NoValue, pos |-> 0]

-----------------------------------------------------------------------------
\* Strings and numbers.

RECURSIVE MeasureString(_, _, _)

\* Mutant: an escaped quote ends the string.
MeasureString_NoEscape(text, pos, len) ==
  IF pos > Len(text) \/ text[pos] = "\"" THEN [pos |-> pos, len |-> len]
  ELSE MeasureString(text, pos + 1, len + 1)

\* The first loop of parse_string, from the character after the quote: where
\* it stops, and the number of characters it counted, an escape being one.
MeasureString(text, pos, len) ==
  IF pos > Len(text) \/ text[pos] = "\"" THEN [pos |-> pos, len |-> len]
  ELSE IF text[pos] # "\\" THEN MeasureString(text, pos + 1, len + 1)
  ELSE IF pos + 1 > Len(text) THEN [pos |-> pos + 1, len |-> len]
  ELSE MeasureString(text, pos + 2, len + 1)

Unescaped(c) == IF c \in {"n", "t", "r"} THEN "control " \o c ELSE c

\* The second loop: it copies from start and stops `len' characters of the
\* text later, escapes not counted as one.
RECURSIVE CopyString(_, _, _)
CopyString(text, pos, end) ==
  IF pos >= end THEN <<>>
  ELSE IF text[pos] = "\\" /\ pos + 1 < end
       THEN <<Unescaped(text[pos + 1])>> \o CopyString(text, pos + 2, end)
       ELSE <<text[pos]>> \o CopyString(text, pos + 1, end)

\* A string that the text ends in is accepted as it is.
parse_string(text, at) ==
  LET pos == skip_whitespace(text, at)
      body == MeasureString(text, pos + 1, 0)
  IN IF peek(text, pos) # "\"" THEN SyntaxError
     ELSE Parsed([type |-> "JSON_STRING", string |-> CopyString(text, pos + 1, pos + 1 + body.len)],
                 consume(text, body.pos))

\* A number is one symbol: the run that strtod reads.  strtod takes more than
\* the numbers of JSON (01, 0x1, inf after a minus): such a run is a symbol too.
parse_number(text, at) ==
  LET pos == skip_whitespace(text, at)
  IN IF peek(text, pos) \notin NumberSymbols THEN SyntaxError
     ELSE Parsed([type |-> "JSON_NUMBER", number |-> NumberOf[text[pos]]], pos + 1)

-----------------------------------------------------------------------------
\* Arrays, objects, values.

Literals ==
  [l \in {"true", "false", "null"} |->
     IF l = "null" THEN [type |-> "JSON_NULL"] ELSE [type |-> "JSON_BOOL", boolean |-> l = "true"]]

Array(items) == [type |-> "JSON_ARRAY", items |-> items]
Object(keys, values) == [type |-> "JSON_OBJECT", keys |-> keys, values |-> values]

\* The position after the symbol c, or 0 (expect).
expect(text, at, c) ==
  LET pos == skip_whitespace(text, at) IN IF peek(text, pos) = c THEN pos + 1 ELSE 0

RECURSIVE parse_value(_, _), ParseItems(_, _, _), ParseMembers(_, _, _, _)

\* The loop of parse_array, with the items read so far.
ParseItems(text, at, items) ==
  LET item == parse_value(text, at)
      read == Append(items, item.value)
      next == skip_whitespace(text, item.pos)
  IN IF item.err # "PARSE_OK" THEN item
     ELSE IF peek(text, next) = "]" THEN Parsed(Array(read), next + 1)
     ELSE IF expect(text, next, ",") = 0 THEN SyntaxError
     ELSE ParseItems(text, expect(text, next, ","), read)

parse_array(text, at) ==
  LET pos == skip_whitespace(text, at + 1)
  IN IF peek(text, pos) = "]" THEN Parsed(Array(<<>>), pos + 1)
     ELSE ParseItems(text, pos, <<>>)

\* The loop of parse_object.
ParseMembers(text, at, keys, values) ==
  LET key == parse_string(text, at)
      colon == IF key.err = "PARSE_OK" THEN expect(text, key.pos, ":") ELSE 0
      value == IF colon # 0 THEN parse_value(text, colon) ELSE SyntaxError
      next == skip_whitespace(text, value.pos)
      read == [keys |-> Append(keys, key.value.string), values |-> Append(values, value.value)]
  IN IF value.err # "PARSE_OK" THEN value
     ELSE IF peek(text, next) = "}" THEN Parsed(Object(read.keys, read.values), next + 1)
     ELSE IF expect(text, next, ",") = 0 THEN SyntaxError
     ELSE ParseMembers(text, expect(text, next, ","), read.keys, read.values)

parse_object(text, at) ==
  LET pos == skip_whitespace(text, at + 1)
  IN IF peek(text, pos) = "}" THEN Parsed(Object(<<>>, <<>>), pos + 1)
     ELSE ParseMembers(text, pos, <<>>, <<>>)

parse_value(text, at) ==
  LET pos == skip_whitespace(text, at)
      c == peek(text, pos)
  IN CASE c = "\"" -> parse_string(text, pos)
       [] c = "[" -> parse_array(text, pos)
       [] c = "{" -> parse_object(text, pos)
       [] c \in DOMAIN Literals -> Parsed(Literals[c], pos + 1)
       [] c \in NumberSymbols \cup {"-"} -> parse_number(text, pos)
       [] OTHER -> SyntaxError

-----------------------------------------------------------------------------
(***************************************************************************)
(* The reference: which sequences of symbols are JSON values (RFC 8259),   *)
(* and which value a sequence denotes.                                     *)
(***************************************************************************)
RECURSIVE Trim(_)
Trim(s) ==
  IF s # <<>> /\ Head(s) = " " THEN Trim(Tail(s))
  ELSE IF s # <<>> /\ s[Len(s)] = " " THEN Trim(SubSeq(s, 1, Len(s) - 1))
  ELSE s

Inner(s) == SubSeq(s, 2, Len(s) - 1)
Enclosed(s, open, close) == Len(s) >= 2 /\ s[1] = open /\ s[Len(s)] = close

\* Every backslash escapes the character after it; no quote is unescaped.
RECURSIVE IsStringBody(_)
IsStringBody(s) ==
  \/ s = <<>>
  \/ s # <<>> /\ Head(s) \notin {"\"", "\\"} /\ IsStringBody(Tail(s))
  \/ Len(s) >= 2 /\ Head(s) = "\\" /\ IsStringBody(SubSeq(s, 3, Len(s)))

IsString(s) == Enclosed(s, "\"", "\"") /\ IsStringBody(Inner(s))

\* The ways to cut s in two at a symbol.
Cuts(s, c) == {<<SubSeq(s, 1, k - 1), SubSeq(s, k + 1, Len(s))>> : k \in {j \in DOMAIN s : s[j] = c}}

RECURSIVE IsValue(_), IsItems(_), IsMember(_), IsMembers(_)
IsValue(text) ==
  LET s == Trim(text)
  IN \/ Len(s) = 1 /\ s[1] \in NumberSymbols \cup DOMAIN Literals
     \/ IsString(s)
     \/ Enclosed(s, "[", "]") /\ (Trim(Inner(s)) = <<>> \/ IsItems(Inner(s)))
     \/ Enclosed(s, "{", "}") /\ (Trim(Inner(s)) = <<>> \/ IsMembers(Inner(s)))
IsItems(s) == IsValue(s) \/ \E cut \in Cuts(s, ",") : IsValue(cut[1]) /\ IsItems(cut[2])
IsMember(s) == \E cut \in Cuts(s, ":") : IsString(Trim(cut[1])) /\ IsValue(cut[2])
IsMembers(s) == IsMember(s) \/ \E cut \in Cuts(s, ",") : IsMember(cut[1]) /\ IsMembers(cut[2])

\* A string without an escape denotes its characters; one with escapes is a
\* string, of which nothing more is said.
DenotesString(s, string) ==
  IsString(s) /\ ("\\" \in {s[i] : i \in DOMAIN s} \/ string = Inner(s))

RECURSIVE Denotes(_, _), DenotesItems(_, _), DenotesMembers(_, _, _)
Denotes(text, v) ==
  LET s == Trim(text)
  IN CASE v.type = "JSON_STRING" -> DenotesString(s, v.string)
       [] v.type = "JSON_NUMBER" -> Len(s) = 1 /\ s[1] \in NumberSymbols /\ NumberOf[s[1]] = v.number
       [] v.type = "JSON_ARRAY" ->
            /\ Enclosed(s, "[", "]")
            /\ IF v.items = <<>> THEN Trim(Inner(s)) = <<>> ELSE DenotesItems(Inner(s), v.items)
       [] v.type = "JSON_OBJECT" ->
            /\ Enclosed(s, "{", "}")
            /\ IF v.keys = <<>> THEN Trim(Inner(s)) = <<>> ELSE DenotesMembers(Inner(s), v.keys, v.values)
       [] OTHER -> Len(s) = 1 /\ s[1] \in DOMAIN Literals /\ Literals[s[1]] = v
DenotesItems(s, items) ==
  IF Len(items) = 1 THEN Denotes(s, items[1])
  ELSE \E cut \in Cuts(s, ",") : Denotes(cut[1], items[1]) /\ DenotesItems(cut[2], Tail(items))
DenotesMember(s, key, value) ==
  \E cut \in Cuts(s, ":") : DenotesString(Trim(cut[1]), key) /\ Denotes(cut[2], value)
DenotesMembers(s, keys, values) ==
  IF Len(keys) = 1 THEN DenotesMember(s, keys[1], values[1])
  ELSE \E cut \in Cuts(s, ",") :
         /\ DenotesMember(cut[1], keys[1], values[1])
         /\ DenotesMembers(cut[2], Tail(keys), Tail(values))
=============================================================================
