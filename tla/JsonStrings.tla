----------------------------- MODULE JsonStrings -----------------------------
(***************************************************************************)
(* One character of a JSON string, as parse_string reads it and quote      *)
(* writes it (control_json.cpp).                                           *)
(*                                                                         *)
(* A text is a sequence of symbols.  A symbol is one character, or a run   *)
(* of characters whose inside the code never splits: a literal word, the   *)
(* four hex digits of an escape, a name.  "LF", "CR", "TAB", "BS" and "FF" *)
(* are what the short escapes denote; "SOH" stands for the control         *)
(* characters that have none.                                              *)
(***************************************************************************)
EXTENDS Integers, Sequences

Quotes == "\""
Backslash == "\\"
Control == {"LF", "CR", "TAB", "BS", "FF", "SOH"}

\* The text's symbol at i_, or End where i_ has reached its size.
End == "end of text"
At(s, i) == IF i <= Len(s) THEN s[i] ELSE End

\* What a parsing function returns: whether it succeeded, what it read, and
\* where it left i_.
Read(v, i) == [ok |-> TRUE, value |-> v, at |-> i]
Fail == [ok |-> FALSE, value |-> <<>>, at |-> 0]

-----------------------------------------------------------------------------
(* The reader. *)

\* The escapes of one letter, and what each denotes.
Escapes == [e \in {Quotes, Backslash, "/", "b", "f", "n", "r", "t"} |->
              CASE e = "b" -> "BS" [] e = "f" -> "FF" [] e = "n" -> "LF"
                [] e = "r" -> "CR" [] e = "t" -> "TAB" [] OTHER -> e]

\* The groups of four hex digits that occur, with the character each denotes
\* alone: a surrogate alone becomes the three bytes append_utf8 makes of it.
High == "d83d"
Low == "de00"
Units == [u \in {"0001", "0041", High, Low} |->
            CASE u = "0001" -> "SOH" [] u = "0041" -> "A" [] OTHER -> u]

\* The one character a surrogate pair denotes.
Pair == "U+1F600"

\* The defect of not giving it back: the escape behind an unpaired half is lost.
UnicodeEscapeNoRestore(s, i) ==
  LET unit == At(s, i)
      another == At(s, i + 1) = Backslash /\ At(s, i + 2) = "u"
      second == At(s, i + 3)
  IN CASE unit \notin DOMAIN Units -> Fail
       [] unit = High /\ another /\ second \notin DOMAIN Units -> Fail
       [] unit = High /\ another -> Read(IF second = Low THEN Pair ELSE High, i + 4)
       [] OTHER -> Read(Units[unit], i + 1)

\* parse_string from the hex digits of a \u escape at i: a high half with a \u
\* right behind it takes that escape too if it is the low half, and gives it back
\* (the saved i_) if it is not.
UnicodeEscape(s, i) ==
  LET unit == At(s, i)
      another == At(s, i + 1) = Backslash /\ At(s, i + 2) = "u"
      second == At(s, i + 3)
  IN CASE unit \notin DOMAIN Units -> Fail
       [] unit = High /\ another /\ second \notin DOMAIN Units -> Fail
       [] unit = High /\ another /\ second = Low -> Read(Pair, i + 4)
       [] OTHER -> Read(Units[unit], i + 1)

\* The text's next character, at i, of a string: plain or escaped.
Character(s, i) ==
  LET e == At(s, i + 1)
  IN CASE At(s, i) # Backslash -> Read(At(s, i), i + 1)
       [] At(s, i) = Backslash /\ e \in DOMAIN Escapes -> Read(Escapes[e], i + 2)
       [] At(s, i) = Backslash /\ e = "u" -> UnicodeEscape(s, i + 2)
       [] OTHER -> Fail

-----------------------------------------------------------------------------
(* The writer. *)

\* The defect of escaping the quotes and not the backslash.
EscapedQuotesOnly(c) == IF c = Quotes THEN <<Backslash, Quotes>> ELSE <<c>>

\* What quote writes for a character.
Escaped(c) ==
  CASE c = "SOH" -> <<Backslash, "u", "0001">>
    [] c \in (Control \ {"SOH"}) \cup {Quotes, Backslash} ->
         <<Backslash, CHOOSE e \in DOMAIN Escapes \ {"/"} : Escapes[e] = c>>
    [] OTHER -> <<c>>
=============================================================================
