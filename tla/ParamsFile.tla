------------------------------ MODULE ParamsFile -------------------------------
(* A component's parameters on their way to it: parameter_from_json             *)
(* (control_channel.cpp) reads one from a load frame, write_params_file         *)
(* (clone_isolated_component_manager.cpp) writes it into the file the component *)
(* process is started with, and the process reads that file back with the YAML  *)
(* reader of rcl, which is external.                                            *)
EXTENDS ControlJson

\* rcl_interfaces/msg/ParameterType.
Types == ("bool" :> 1) @@ ("integer" :> 2) @@ ("double" :> 3) @@ ("string" :> 4)
         @@ ("byteArray" :> 5) @@ ("boolArray" :> 6) @@ ("integerArray" :> 7)
         @@ ("doubleArray" :> 8) @@ ("stringArray" :> 9)
TypeNamed(tag) == IF \E t \in DOMAIN Types : Types[t] = tag
                    THEN CHOOSE t \in DOMAIN Types : Types[t] = tag ELSE "other"

Byte(n) == n % (2 ^ ByteWidth)

\* A member as the value of a parameter of this type.  An integer outside
\* int64_t may be read in several ways: one of them.
ValueAs(type, value) ==
  LET anInt(item) == CHOOSE n \in AsInt64(item, 0) : TRUE
      each(f(_)) == [i \in DOMAIN Items(value) |-> f(Items(value)[i])]
  IN CASE type = "bool" -> AsBool(value, FALSE)
       [] type = "integer" -> anInt(value)
       [] type = "double" -> AsDouble(value, 0)
       [] type = "string" -> AsString(value, <<>>)
       [] type = "byteArray" -> each(LAMBDA x : Byte(AsUint64(x, 0)))
       [] type = "boolArray" -> each(LAMBDA x : AsBool(x, FALSE))
       [] type = "integerArray" -> each(anInt)
       [] type = "doubleArray" -> each(LAMBDA x : AsDouble(x, 0))
       [] type = "stringArray" -> each(LAMBDA x : AsString(x, <<>>))
       [] OTHER -> <<>>

\* parameter_from_json: the type tag decides which member is the value.
Parameter(v) ==
  LET type == TypeNamed(Byte(AsUint64(Member(v, <<"type">>), 0)))
  IN [type |-> type, value |-> ValueAs(type, Member(v, <<type, "_value">>))]

-------------------------------------------------------------------------------
(* Doubles, written with "%.17g". *)

Zeros(n) == [i \in 1 .. n |-> "0"]

\* %.17g: an exponent where the first digit stands below 10 ^ -4 or above
\* 10 ^ 16, and no decimal point unless a digit follows it.
Printed(d) ==
  LET s == Spell(d.digits)
      x == Len(s) - 1 + d.power
      size == IF x < 0 THEN -x ELSE x
      point(k) == SubSeq(s, 1, k) \o (IF k = Len(s) THEN <<>> ELSE <<".">>)
                  \o SubSeq(s, k + 1, Len(s))
      exponent == <<"e", IF x < 0 THEN "-" ELSE "+">>
                  \o (IF size < 10 THEN <<"0">> ELSE <<>>) \o Spell(size)
  IN (IF d.negative THEN <<"-">> ELSE <<>>)
     \o CASE x < -4 \/ x > 16 -> point(1) \o exponent
          [] x \in -4 .. -1 -> <<"0", ".">> \o Zeros(-x - 1) \o s
          [] x \in 0 .. 16 /\ d.power >= 0 -> s \o Zeros(d.power)
          [] OTHER -> point(x + 1)

\* The defect of looking for the decimal point alone.
MarkedByPoint(s) == "." \in ToSet(s)

\* What marks the text as a double's already.
Marked(s) == ToSet(s) \cap {".", "e"} # {}

WrittenDouble(d) ==
  Printed(d) \o (IF Marked(Printed(d)) THEN <<>> ELSE <<".", "0">>)

-------------------------------------------------------------------------------
(* Strings. *)

\* The characters for which needs_quoting chooses the double-quoted style.
Special == {"'", Quotes, ":", "#", "LF", "{", "}", "[", "]", "*", "&", "!", "|", ">",
            "<", "%", "+"}

\* The defect of leaving the apostrophe out of the list.
NeedsQuotingNoApostrophe(s) == s = <<>> \/ ToSet(s) \cap (Special \ {"'"}) # {}

NeedsQuoting(s) == s = <<>> \/ ToSet(s) \cap Special # {}

YamlEscaped(c) ==
  CASE c \in {Quotes, Backslash} -> <<Backslash, c>>
    [] c = "LF" -> <<Backslash, "n">>
    [] c = "TAB" -> <<Backslash, "t">>
    [] OTHER -> <<c>>

SingleQuoted(s) == <<"'">> \o s \o <<"'">>
DoubleQuoted(s) ==
  <<Quotes>> \o FlattenSeq([i \in DOMAIN s |-> YamlEscaped(s[i])]) \o <<Quotes>>

WrittenString(s) == IF NeedsQuoting(s) THEN DoubleQuoted(s) ELSE SingleQuoted(s)

-------------------------------------------------------------------------------
(* Whole values. *)

\* The items of a sequence, separated.
Separated(texts) ==
  FlattenSeq([i \in DOMAIN texts |->
                (IF i > 1 THEN <<",", Blank>> ELSE <<>>) \o texts[i]])

\* write_params_file, for one parameter: the text behind its name.  A string in
\* an array is put between apostrophes as it is.
WrittenValue(param) ==
  LET bool(b) == IF b THEN <<"true">> ELSE <<"false">>
      items(f(_)) == [i \in DOMAIN param.value |-> f(param.value[i])]
      list(f(_)) == <<"[">> \o Separated(items(f)) \o <<"]">>
  IN CASE param.type = "bool" -> bool(param.value)
       [] param.type = "integer" -> Decimal(param.value)
       [] param.type = "double" -> WrittenDouble(param.value)
       [] param.type = "string" -> WrittenString(param.value)
       [] param.type \in {"byteArray", "integerArray"} -> list(Decimal)
       [] param.type = "boolArray" -> list(bool)
       [] param.type = "doubleArray" -> list(WrittenDouble)
       [] param.type = "stringArray" -> list(SingleQuoted)
       [] OTHER -> <<"null">>

-------------------------------------------------------------------------------
(* The reader of rcl and libyaml: external. *)

\* A line break inside a quoted scalar is folded into a space.
Folded(c) == IF c \in {"LF", "CR"} THEN Blank ELSE c

\* The characters libyaml refuses to find in a file as they are.
Unprintable == {"SOH", "BS", "FF"}

\* A quoted scalar whose first character is at i_: in single quotes an
\* apostrophe is doubled, in double quotes a backslash escapes.
RECURSIVE QuotedFrom(_, _, _, _)
QuotedFrom(quote, s, i, out) ==
  LET c == At(s, i)
      e == At(s, i + 1)
  IN CASE c \in {End} \cup Unprintable -> Fail
       [] c = "'" /\ quote = "'" /\ e = "'" ->
            QuotedFrom(quote, s, i + 2, Append(out, "'"))
       [] c = quote /\ ~(quote = "'" /\ e = "'") -> Read(out, i + 1)
       [] c = Backslash /\ quote = Quotes ->
            IF e \in DOMAIN Escapes
              THEN QuotedFrom(quote, s, i + 2, Append(out, Escapes[e])) ELSE Fail
       [] OTHER -> QuotedFrom(quote, s, i + 1, Append(out, Folded(c)))

\* A scalar without quotes ends at a comma or a closing bracket.
PlainEnd(s, i) ==
  CHOOSE j \in i .. (Len(s) + 1) : /\ At(s, j) \in {End, ",", "]"}
                                   /\ \A k \in i .. (j - 1) : s[k] \notin {",", "]"}

\* strtod reads s to its end: no point behind the point or the exponent.
RealEnds(s) ==
  \A i, j \in DOMAIN s : i < j /\ s[j] = "." => s[i] \notin {".", "e"}

\* What rcl makes of a plain scalar: a bool, an integer if strtoll reads it to
\* its end, else a double if strtod does, else a string.
Plain(s) ==
  CASE s = <<"true">> -> [type |-> "bool", value |-> TRUE]
    [] s = <<"false">> -> [type |-> "bool", value |-> FALSE]
    [] s = <<"null">> -> [type |-> "other", value |-> <<>>]
    [] DigitsEnd(s, Unsigned(s)) = Len(s) + 1 /\ Prefix(s).found ->
         [type |-> "integer", value |-> Prefix(s).value]
    [] ToSet(s) \subseteq NumberSymbols /\ Real(s).found /\ RealEnds(s) ->
         [type |-> "double", value |-> Real(s)]
    [] OTHER -> [type |-> "string", value |-> s]

ScalarFrom(s, i) ==
  IF At(s, i) \in {"'", Quotes}
    THEN LET r == QuotedFrom(At(s, i), s, i + 1, <<>>)
         IN [r EXCEPT !.value = [type |-> "string", value |-> @]]
    ELSE Read(Plain(SubSeq(s, i, PlainEnd(s, i) - 1)), PlainEnd(s, i))

RECURSIVE SequenceFrom(_, _, _)
AfterScalar(s, r, out) ==
  LET next == SkipWs(s, r.at)
      all == Append(out, r.value)
  IN CASE ~r.ok -> Fail
       [] r.ok /\ At(s, next) = "," -> SequenceFrom(s, next + 1, all)
       [] r.ok /\ At(s, next) = "]" -> Read(all, next + 1)
       [] OTHER -> Fail

SequenceFrom(s, i, out) == AfterScalar(s, ScalarFrom(s, SkipWs(s, i)), out)

\* The value behind a parameter's name, if there is one: a scalar, or a sequence
\* of scalars of one type.  A line ends it, and a text that goes on is no YAML.
LoadedScalar(s) ==
  {r.value : r \in {x \in {ScalarFrom(s, 1)} : x.ok /\ x.at = Len(s) + 1}}

ArrayOf == [bool |-> "boolArray", integer |-> "integerArray", double |-> "doubleArray",
            string |-> "stringArray", other |-> "other"]
OfOneType(values) == \A i, j \in DOMAIN values : values[i].type = values[j].type

LoadedArray(s) ==
  {[type |-> ArrayOf[r.value[1].type],
    value |-> [i \in DOMAIN r.value |-> r.value[i].value]] :
     r \in {x \in {SequenceFrom(s, 2, <<>>)} :
              x.ok /\ x.at = Len(s) + 1 /\ OfOneType(x.value)}}
=============================================================================
