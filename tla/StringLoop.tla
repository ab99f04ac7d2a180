------------------------------ MODULE StringLoop ------------------------------
(***************************************************************************)
(* A string literal from its writer to parse_string, one character at a    *)
(* time (control_json.cpp:335-409).  The writer is the supervisor's, which *)
(* may escape what it likes and stop where it likes, or the container's    *)
(* quote; the reader is the loop of parse_string behind the opening quote. *)
(***************************************************************************)
EXTENDS JsonStrings

CONSTANT Characters    \* what a string may hold

ASSUME CharactersAssumption == End \notin Characters

VARIABLES
  stage,      \* "write", "read", "done" or "failed"
  literal,    \* the text behind the opening quote
  log,        \* what the writer wrote: each piece, with the place it starts at
              \* and the string spelled before it
  meaning,    \* the string the literal spells
  whole,      \* the literal is well formed
  at,         \* i_
  out         \* what parse_string has read

written == <<literal, log, meaning, whole>>
loop == <<stage, written, at, out>>

\* The ways to write one character, or one unit of UTF-16.
Pieces == {<<c>> : c \in Characters \ {Quotes, Backslash}}
          \cup {<<Backslash, e>> : e \in DOMAIN Escapes}
          \cup {<<Backslash, "u", u>> : u \in DOMAIN Units}

\* What a piece denotes alone.
Denotes(piece) == CASE Len(piece) = 1 -> piece[1]
                    [] Len(piece) = 2 -> Escapes[piece[2]]
                    [] OTHER -> Units[piece[3]]

\* What no literal ends in: nothing, half an escape, or an escape there is none
\* of.
Spoilt == {<<>>, <<Backslash>>, <<Backslash, "u">>}
          \cup {<<Backslash, c>> : c \in Characters \ (DOMAIN Escapes \cup {"u"})}
          \cup {<<Backslash, "u", c>> : c \in Characters \ DOMAIN Units}

HighHalf == <<Backslash, "u", High>>
LowHalf == <<Backslash, "u", Low>>

InitString == /\ stage = "write" /\ literal = <<>> /\ log = <<>>
              /\ meaning = <<>> /\ whole = TRUE /\ at = 1 /\ out = <<>>

\* A low half behind a high half makes the two one character, as in UTF-16.
Write(piece) ==
  /\ stage = "write"
  /\ literal' = literal \o piece
  /\ log' = Append(log, [piece |-> piece, from |-> Len(literal) + 1,
                         before |-> meaning])
  /\ IF piece = LowHalf /\ log # <<>> /\ log[Len(log)].piece = HighHalf
     THEN meaning' = [meaning EXCEPT ![Len(meaning)] = Pair]
     ELSE meaning' = Append(meaning, Denotes(piece))
  /\ UNCHANGED <<stage, whole, at, out>>

Close ==
  /\ stage = "write" /\ stage' = "read"
  /\ literal' = Append(literal, Quotes)
  /\ UNCHANGED <<log, meaning, whole, at, out>>

Spoil(rest) ==
  /\ stage = "write" /\ stage' = "read"
  /\ literal' = literal \o rest /\ whole' = FALSE
  /\ UNCHANGED <<log, meaning, at, out>>

\* A turn of the loop.
ReadCharacter ==
  LET c == Character(literal, at)
  IN /\ stage = "read" /\ At(literal, at) \notin {End, Quotes} /\ c.ok
     /\ out' = Append(out, c.value) /\ at' = c.at
     /\ UNCHANGED <<stage, written>>

ReadQuotes ==
  /\ stage = "read" /\ At(literal, at) = Quotes
  /\ stage' = "done" /\ at' = at + 1
  /\ UNCHANGED <<written, out>>

\* "unterminated string", or an escape there is none of.
Refuse ==
  /\ stage = "read"
  /\ \/ At(literal, at) = End
     \/ At(literal, at) \notin {End, Quotes} /\ ~Character(literal, at).ok
  /\ stage' = "failed"
  /\ UNCHANGED <<written, at, out>>

ReadStep == ReadCharacter \/ ReadQuotes \/ Refuse

EndString == Close \/ \E rest \in Spoilt : Spoil(rest)

NextString == (\E piece \in Pieces : Write(piece)) \/ EndString \/ ReadStep

SpecString == InitString /\ [][NextString]_loop

-----------------------------------------------------------------------------
(* Properties. *)

\* However a writer chose to escape a string, the parser takes it and reads
\* the characters the escapes spell in UTF-16: a pair is joined wherever it
\* stands, also right behind an unpaired high half, and no escape is lost or
\* read twice.  A literal that has no end, or an escape there is none of, it
\* refuses (control_json.cpp:335-409).
StringsDecodeAsUtf16 ==
  /\ stage = "done" => whole /\ out = meaning /\ at = Len(literal) + 1
  /\ stage = "failed" => ~whole

=============================================================================
