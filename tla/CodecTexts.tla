------------------------------ MODULE CodecTexts -------------------------------
(* What the supervisor and the container say to one another in JSON, and the    *)
(* parameters the container hands on in YAML, on every text that can be put     *)
(* together from a few pieces.                                                  *)
(*                                                                              *)
(* kind is what the text is: a document as it arrives in a frame; a number      *)
(* literal; the characters of a string, before it is written; or, for a string  *)
(* literal as any JSON writer may escape it, nothing: StringLoop has it then.   *)
EXTENDS ParamsFile, StringLoop

CONSTANTS
  Kinds,        \* the kinds of text of this instance
  MaxPieces     \* bound on the pieces a text of a kind grows by: a function

ASSUME KindsAssumption ==
  /\ Kinds \subseteq {"document", "literal", "number", "content"}
  /\ DOMAIN MaxPieces = Kinds

VARIABLES kind, text, pieces
vars == <<kind, text, pieces, loop>>

\* What a text starts with: a member and an item are deep in a document.
Seeds == [document |-> {<<>>, <<"{", Quotes, "A", Quotes, ":">>, <<"[", "1", ",">>},
          number   |-> {<<>>, <<"1">>, <<"2">>},
          content  |-> {<<>>}]

\* What it grows by: a symbol, or several that mean nothing apart.
Growths == [document |-> {<<c>> : c \in {"{", "}", "[", "]", ":", ",", Blank, "-", "true"}}
                         \cup {<<Quotes, "A", Quotes>>},
            number   |-> {<<c>> : c \in {"-", "+", ".", "0", "1", "7"}}
                         \cup {<<"e", "1">>, <<"e", "-", "7">>, <<"e", "2", "0">>},
            content  |-> {<<c>> : c \in Control \cup {"A", "n", "'", Quotes, Backslash,
                                                       ":", ",", Blank}}]

Init ==
  /\ kind \in Kinds
  /\ text \in IF kind = "literal" THEN {<<>>} ELSE Seeds[kind]
  /\ pieces = 0 /\ InitString

Grow ==
  /\ kind # "literal" /\ pieces < MaxPieces[kind]
  /\ \E piece \in Growths[kind] : text' = text \o piece
  /\ pieces' = pieces + 1
  /\ UNCHANGED <<kind, loop>>

WritePiece ==
  /\ kind = "literal" /\ pieces < MaxPieces[kind]
  /\ \E piece \in Pieces : Write(piece)
  /\ pieces' = pieces + 1
  /\ UNCHANGED <<kind, text>>

CloseAndRead ==
  /\ kind = "literal" /\ (EndString \/ ReadStep)
  /\ UNCHANGED <<kind, text, pieces>>

Next == Grow \/ WritePiece \/ CloseAndRead

Spec == Init /\ [][Next]_vars

-------------------------------------------------------------------------------
(* The grammar, as what a text is and not how it is read. *)

Trimmed(s) ==
  LET solid == {i \in DOMAIN s : s[i] # Blank}
      ends == {<<i, j>> \in solid \X solid : \A k \in solid : i <= k /\ k <= j}
  IN IF solid = {} THEN <<>>
     ELSE LET e == CHOOSE x \in ends : TRUE IN SubSeq(s, e[1], e[2])

Inside(s) == SubSeq(s, 2, Len(s) - 1)
Between(s, open, close) == Len(s) >= 2 /\ s[1] = open /\ s[Len(s)] = close

IsNumber(s) ==
  /\ s # <<>> /\ ToSet(s) \subseteq NumberSymbols
  /\ Len(s) = 1 => s[1] \notin Signs

IsString(s) == Between(s, Quotes, Quotes) /\ Quotes \notin ToSet(Inside(s))

RECURSIVE IsValue(_)
IsItem(s) == IsValue(Trimmed(s))

IsMember(s) ==
  \E k \in DOMAIN s : /\ s[k] = ":"
                      /\ IsString(Trimmed(SubSeq(s, 1, k - 1)))
                      /\ IsItem(SubSeq(s, k + 1, Len(s)))

\* Cut at commas, every part is an item (a member).
RECURSIVE IsList(_, _)
IsList(s, members) ==
  LET isPart(p) == IF members THEN IsMember(p) ELSE IsItem(p)
  IN \/ isPart(s)
     \/ \E k \in DOMAIN s : /\ s[k] = "," /\ isPart(SubSeq(s, 1, k - 1))
                            /\ IsList(SubSeq(s, k + 1, Len(s)), members)

IsValue(s) ==
  \/ Len(s) = 1 /\ s[1] \in DOMAIN Literals
  \/ IsNumber(s)
  \/ IsString(s)
  \/ Between(s, "[", "]") /\ (Trimmed(Inside(s)) = <<>> \/ IsList(Inside(s), FALSE))
  \/ Between(s, "{", "}") /\ (Trimmed(Inside(s)) = <<>> \/ IsList(Inside(s), TRUE))

-------------------------------------------------------------------------------
(* The properties. *)

\* What text has behind one of its prefixes.
Rest(s) == SubSeq(text, Len(s) + 1, Len(text))

\* The parser takes exactly the documents of the grammar: a bracket that does
\* not match, a comma that trails, a key that is missing or a second value
\* behind the first is refused, and nothing well formed is; a string literal it
\* takes for what the loop of parse_string makes of it (control_json.cpp:
\* 126-137 and 170-289).
AcceptsExactlyTheGrammar ==
  /\ kind = "document" => (Parse(text).ok <=> IsItem(text))
  /\ kind = "literal" /\ stage \in {"done", "failed"} =>
       Parse(<<Quotes>> \o literal)
         = IF stage = "done" THEN Read(String(out), at + 1) ELSE Fail

\* What the writer puts together, the parser takes apart: whatever characters a
\* key and a value have, the frame reads back as the members it was given, the
\* first of two with one key (control_json.cpp:242 and 448-555).
FramesReadBack ==
  kind = "content" =>
    \A key \in Prefixes(text) :
      LET r == Parse(Written(<<[key |-> key, text |-> Quote(Rest(key))],
                               [key |-> <<"pid">>, text |-> Decimal(-12)],
                               [key |-> Rest(key), text |-> <<"true">>]>>))
      IN /\ r.ok
         /\ AsString(Member(r.value, key), <<"none">>) = Rest(key)
         /\ AsInt64(Member(r.value, <<"pid">>), 0) = {-12}
         /\ Rest(key) # key => AsBool(Member(r.value, Rest(key)), FALSE)

(* Of a number literal as the typed reads return it. *)

\* An integer that fits its type is read to the last bit.
ReadExactly ==
  Prefix(text).found /\ DigitsEnd(text, Unsigned(text)) = Len(text) + 1 =>
    LET n == Prefix(text).value
    IN /\ n \in MinInt .. MaxInt => AsInt64(Number(text), 0) = {n}
       /\ n \in 0 .. (2 ^ Width - 1) => AsUint64(Number(text), 0) = n

\* as_int64 takes the whole part of a fraction without exponent.
ReadTruncated ==
  LET d == Real(text)
  IN /\ d.found /\ "e" \notin ToSet(text) /\ RealEnds(text)
     /\ \A i \in DOMAIN text : text[i] \in Signs => i = 1
     /\ Cardinality(Truncated(d)) = 1
     => AsInt64(Number(text), 0) = Truncated(d)

\* Integers are read at full width, at which a double would round them, also
\* past the top of the signed type (control_json.hpp:76-78); a fraction is read
\* as its whole part, whether strtoll stops at the point or finds no digit
\* before it (control_json.cpp:92-98).
NumbersAreReadExactly == kind = "number" => ReadExactly /\ ReadTruncated

-------------------------------------------------------------------------------
(* Parameters, from the supervisor's frame to the component's reader. *)

\* The frame's JSON for a parameter, and the text the container writes for it.
Sent(type, json) ==
  Written(<<[key |-> <<"name">>, text |-> Quote(<<"p">>)],
            [key |-> <<"type">>, text |-> Decimal(Types[type])],
            [key |-> <<type, "_value">>, text |-> json]>>)
HandedOn(type, json) == WrittenValue(Parameter(Parse(Sent(type, json)).value))

\* A JSON array of two texts.
JsonArray(a, b) == <<"[">> \o a \o <<",">> \o b \o <<"]">>

\* A string comes back as it was sent, unless it has a carriage return or a
\* control character, which the file holds as they are.
ScalarSurvives ==
  ToSet(text) \cap (Control \ {"LF", "TAB"}) = {} =>
    LoadedScalar(HandedOn("string", Quote(text)))
      = {[type |-> "string", value |-> text]}

\* So do the items of an array, unless one has an apostrophe or a line break,
\* which the file holds as they are.
ArraySurvives ==
  ToSet(text) \cap ((Control \ {"TAB"}) \cup {"'"}) = {} =>
    \A item \in Prefixes(text) :
      LoadedArray(HandedOn("stringArray",
                           JsonArray(Quote(item), Quote(Rest(item)))))
        = {[type |-> "stringArray", value |-> <<item, Rest(item)>>]}

\* A string parameter reaches the component as the string the supervisor sent,
\* with quotes of either kind, backslashes, colons, line feeds, tabs and spaces
\* at its ends, and also when it looks like a number (clone_isolated_component_
\* manager.cpp:534-569); an array does item by item, also where an item holds the
\* comma or the quotes of the notation (614-620).
StringsSurvive == kind = "content" => ScalarSurvives /\ ArraySurvives

\* A number reaches the component in the type it was sent in and with its value:
\* a double stays a double when it is whole, negative zero, or large or small
\* enough for an exponent (clone_isolated_component_manager.cpp:523-533).
NumbersKeepTheirType ==
  kind = "number" /\ Parse(text).ok =>
    /\ \E d \in LoadedScalar(HandedOn("double", text)) :
         d.type = "double" /\ d.value = AsDouble(Number(text), 0)
    /\ \E n \in LoadedScalar(HandedOn("integer", text)) :
         n.type = "integer" /\ n.value \in AsInt64(Number(text), 0)
=============================================================================
