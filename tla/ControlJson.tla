------------------------------ MODULE ControlJson ------------------------------
(* The JSON of the control channel: the recursive-descent parser, the typed     *)
(* readers of a parsed value, and the writer (control_json.cpp).  The symbols   *)
(* of a text and the characters of its strings are those of JsonStrings; the    *)
(* white space of the grammar is " ".                                           *)
EXTENDS JsonStrings, SequencesExt, FiniteSets, TLC

CONSTANTS
  Width,       \* bits of int64_t and uint64_t
  ByteWidth    \* bits of uint8_t

ASSUME WidthAssumption == ByteWidth \in 1 .. Width /\ Width \in 2 .. 15

Blank == " "

-------------------------------------------------------------------------------
(* Strings. *)

\* parse_string after its opening quote, with what it has read so far.
RECURSIVE StringFrom(_, _, _)
StringFrom(s, i, out) ==
  LET c == Character(s, i)
  IN CASE At(s, i) = End -> Fail
       [] At(s, i) = Quotes -> Read(out, i + 1)
       [] At(s, i) \notin {End, Quotes} /\ ~c.ok -> Fail
       [] OTHER -> StringFrom(s, c.at, Append(out, c.value))

-------------------------------------------------------------------------------
(* Values. *)

Null == [type |-> "null", v |-> <<>>]
Bool(b) == [type |-> "bool", v |-> b]
Number(digits) == [type |-> "number", v |-> digits]
String(s) == [type |-> "string", v |-> s]
Array(items) == [type |-> "array", v |-> items]
Object(members) == [type |-> "object", v |-> members]

Literals == ("true" :> Bool(TRUE)) @@ ("false" :> Bool(FALSE)) @@ ("null" :> Null)

Digits == ("0" :> 0) @@ ("1" :> 1) @@ ("2" :> 2) @@ ("3" :> 3) @@ ("4" :> 4)
          @@ ("5" :> 5) @@ ("6" :> 6) @@ ("7" :> 7) @@ ("8" :> 8) @@ ("9" :> 9)
Signs == {"-", "+"}
NumberSymbols == DOMAIN Digits \cup Signs \cup {".", "e"}

\* skip_ws.
RECURSIVE SkipWs(_, _)
SkipWs(s, i) == IF At(s, i) = Blank THEN SkipWs(s, i + 1) ELSE i

RECURSIVE RunFrom(_, _)
RunFrom(s, i) == IF At(s, i) \in NumberSymbols THEN RunFrom(s, i + 1) ELSE i

\* parse_number: the longest run of number symbols, kept as text, of which more
\* than a sign must be left.
NumberFrom(s, i) ==
  LET start == IF At(s, i) \in Signs THEN i + 1 ELSE i
      end == RunFrom(s, start)
  IN IF end = start THEN Fail ELSE Read(Number(SubSeq(s, i, end - 1)), end)

\* object_.emplace: a key that is there already keeps its value.
Emplace(members, key, value) == members @@ (key :> value)

\* What follows an item or a member at i_: a comma, or the closing bracket.
Continues(s, i) == At(s, i) = ","

\* The defect of not telling the brackets apart.
ClosesAny(s, i, bracket) == At(s, i) \in {bracket, "]", "}"}

Closes(s, i, bracket) == At(s, i) = bracket

\* parse_value, parse_array and parse_object: the last two from where an item or
\* a member must start, with what they have read so far.
RECURSIVE ValueFrom(_, _), ItemsFrom(_, _, _), MembersFrom(_, _, _)

\* parse_array behind an item.
AfterItem(s, item, items) ==
  LET next == SkipWs(s, item.at)
      all == Append(items, item.value)
  IN CASE ~item.ok -> Fail
       [] item.ok /\ Continues(s, next) -> ItemsFrom(s, next + 1, all)
       [] item.ok /\ Closes(s, next, "]") -> Read(Array(all), next + 1)
       [] OTHER -> Fail

ItemsFrom(s, i, items) == AfterItem(s, ValueFrom(s, SkipWs(s, i)), items)

\* parse_object behind a member's value.
AfterMember(s, key, item, members) ==
  LET next == SkipWs(s, item.at)
      all == Emplace(members, key, item.value)
  IN CASE ~item.ok -> Fail
       [] item.ok /\ Continues(s, next) -> MembersFrom(s, next + 1, all)
       [] item.ok /\ Closes(s, next, "}") -> Read(Object(all), next + 1)
       [] OTHER -> Fail

\* parse_object behind a key: a colon, and the value.
AfterKey(s, key, members) ==
  LET colon == SkipWs(s, key.at)
  IN IF key.ok /\ At(s, colon) = ":"
       THEN AfterMember(s, key.value, ValueFrom(s, SkipWs(s, colon + 1)), members)
       ELSE Fail

KeyFrom(s, i) == IF At(s, i) = Quotes THEN StringFrom(s, i + 1, <<>>) ELSE Fail

MembersFrom(s, i, members) == AfterKey(s, KeyFrom(s, SkipWs(s, i)), members)

\* The code takes a closing bracket for an empty array or object only where the
\* first item would start.
ArrayFrom(s, i) ==
  IF At(s, SkipWs(s, i)) = "]" THEN Read(Array(<<>>), SkipWs(s, i) + 1)
  ELSE ItemsFrom(s, i, <<>>)

ObjectFrom(s, i) ==
  IF At(s, SkipWs(s, i)) = "}" THEN Read(Object(<<>>), SkipWs(s, i) + 1)
  ELSE MembersFrom(s, i, <<>>)

ValueFrom(s, i) ==
  CASE At(s, i) = "{" -> ObjectFrom(s, i + 1)
    [] At(s, i) = "[" -> ArrayFrom(s, i + 1)
    [] At(s, i) = Quotes -> LET r == StringFrom(s, i + 1, <<>>)
                            IN IF r.ok THEN Read(String(r.value), r.at) ELSE Fail
    [] At(s, i) \in DOMAIN Literals -> Read(Literals[At(s, i)], i + 1)
    [] OTHER -> NumberFrom(s, i)

\* parse: one value, white space around it, and nothing behind it.
Parse(s) ==
  LET r == ValueFrom(s, SkipWs(s, 1))
  IN IF r.ok /\ SkipWs(s, r.at) = Len(s) + 1 THEN r ELSE Fail

-------------------------------------------------------------------------------
(* Typed reads: what a value of another type yields is the fallback. *)

\* operator[]: a missing key, or a value that is no object, yields null.
Member(v, key) ==
  IF v.type = "object" /\ key \in DOMAIN v.v THEN v.v[key] ELSE Null

\* items(): empty unless the value is an array.
Items(v) == IF v.type = "array" THEN v.v ELSE <<>>

AsString(v, fallback) == IF v.type = "string" THEN v.v ELSE fallback
AsBool(v, fallback) == IF v.type = "bool" THEN v.v ELSE fallback

\* The number digit symbols spell, and the digits of a number.
Spelled(digits) == FoldLeft(LAMBDA n, d : 10 * n + Digits[d], 0, digits)
Spell(n) ==
  LET digit(k) == CHOOSE d \in DOMAIN Digits : Digits[d] = (n \div 10 ^ k) % 10
      size == CHOOSE k \in 1 .. 10 : n < 10 ^ k /\ (k = 1 \/ n >= 10 ^ (k - 1))
  IN [k \in 1 .. size |-> digit(size - k)]
Decimal(n) == IF n < 0 THEN <<"-">> \o Spell(-n) ELSE Spell(n)

\* The end of the run of digits that starts at i.
DigitsEnd(s, i) ==
  CHOOSE j \in i .. (Len(s) + 1) : /\ At(s, j) \notin DOMAIN Digits
                                   /\ \A k \in i .. (j - 1) : s[k] \in DOMAIN Digits

Negative(s) == At(s, 1) = "-"
Unsigned(s) == IF At(s, 1) \in Signs THEN 2 ELSE 1

\* strtoll and strtoull read the longest prefix that is an integer: whether
\* there is one, and its value without regard to the width.
Prefix(s) ==
  LET end == DigitsEnd(s, Unsigned(s))
      size == Spelled(SubSeq(s, Unsigned(s), end - 1))
  IN [found |-> end > Unsigned(s), value |-> IF Negative(s) THEN -size ELSE size]

\* strtod reads the longest prefix that is a decimal number: whether there is
\* one, its sign, its digits without the zeros behind them, and its exponent.
\* The value is digits * 10 ^ power.
Real(s) ==
  LET start == Unsigned(s)
      dot == DigitsEnd(s, start)
      end == IF At(s, dot) = "." THEN DigitsEnd(s, dot + 1) ELSE dot
      digits == SelectSeq(SubSeq(s, start, end - 1), LAMBDA c : c # ".")
      kept == SelectLastInSeq(digits, LAMBDA c : c # "0")
      fraction == IF end = dot THEN 0 ELSE end - dot - 1
      first == IF At(s, end + 1) \in Signs THEN end + 2 ELSE end + 1
      last == IF At(s, end) = "e" THEN DigitsEnd(s, first) - 1 ELSE 0
      exponent == IF last < first THEN 0 ELSE Spelled(SubSeq(s, first, last))
  IN [found |-> digits # <<>>, negative |-> Negative(s),
      digits |-> Spelled(SubSeq(digits, 1, kept)),
      power |-> IF kept = 0 THEN 0
                ELSE (IF At(s, end + 1) = "-" THEN -exponent ELSE exponent)
                     - fraction + (Len(digits) - kept)]

\* A digit as a double.
Whole(n) == [found |-> TRUE, negative |-> FALSE, digits |-> n, power |-> 0]

AsDouble(v, fallback) ==
  IF v.type = "number" /\ Real(v.v).found THEN Real(v.v) ELSE Whole(fallback)

MinInt == -(2 ^ (Width - 1))
MaxInt == 2 ^ (Width - 1) - 1

\* static_cast<int64_t> of a double: the whole part, and, outside int64_t, where
\* the conversion is undefined, what the processors the container is built for
\* make of it.
Truncated(d) ==
  LET small == d.power <= 4 \/ d.digits = 0
      part == CASE d.power <= -9 -> 0
                [] d.power \in -8 .. -1 -> d.digits \div 10 ^ (-d.power)
                [] OTHER -> d.digits * 10 ^ d.power
      n == IF d.negative THEN -part ELSE part
  IN IF small /\ n \in MinInt .. MaxInt THEN {n} ELSE {MinInt, MaxInt}

\* as_int64: the set of the values it may return.
AsInt64(v, fallback) ==
  IF v.type # "number" THEN {fallback}
  ELSE IF Prefix(v.v).found /\ Prefix(v.v).value \in MinInt .. MaxInt
    THEN {Prefix(v.v).value}
    ELSE Truncated(AsDouble(v, fallback))

\* The defect the text in number_ prevents: five bits of mantissa for eight of
\* integer, as a double has 53 for 64.
AsUint64Rounded(v, fallback) ==
  IF v.type # "number" \/ ~Prefix(v.v).found THEN fallback
  ELSE LET n == Prefix(v.v).value IN IF n < 32 THEN n ELSE n - (n % 8)

\* as_uint64: strtoull negates what follows a minus in the unsigned type, and
\* refuses what the type cannot hold.
AsUint64(v, fallback) ==
  LET n == Prefix(v.v).value
      size == IF n < 0 THEN -n ELSE n
  IN IF v.type # "number" THEN fallback
     ELSE IF ~Prefix(v.v).found \/ size >= 2 ^ Width THEN fallback
     ELSE n % (2 ^ Width)

-------------------------------------------------------------------------------
(* The writer. *)

Quote(s) == <<Quotes>> \o FlattenSeq([i \in DOMAIN s |-> Escaped(s[i])]) \o <<Quotes>>

\* ObjectWriter: the members, each a key and the text of its value, in order.
Written(members) ==
  LET member(i) == (IF i = 1 THEN <<"{">> ELSE <<",">>)
                   \o Quote(members[i].key) \o <<":">> \o members[i].text
  IN IF members = <<>> THEN <<"{", "}">>
     ELSE FlattenSeq([i \in DOMAIN members |-> member(i)]) \o <<"}">>
=============================================================================
