--------------------------- MODULE StringLoopProofs ---------------------------
(***************************************************************************)
(* parse_string reads what the writer meant, for strings of any length and *)
(* every way to escape them.                                               *)
(***************************************************************************)
EXTENDS StringLoop, SequenceTheorems, TLAPS

Symbols == Characters \cup {Quotes, Backslash, "u"} \cup DOMAIN Escapes
           \cup DOMAIN Units
Meanings == Characters \cup {Escapes[e] : e \in DOMAIN Escapes}
            \cup {Units[u] : u \in DOMAIN Units} \cup {Pair}
Logged == [piece : Pieces, from : Nat \ {0}, before : Seq(Meanings)]

TypesInv ==
  /\ stage \in {"write", "read", "done", "failed"} /\ whole \in BOOLEAN
  /\ literal \in Seq(Symbols) /\ meaning \in Seq(Meanings)
  /\ log \in Seq(Logged)

\* Where piece k starts, or would, and what is spelled before it.
From(k) == IF k <= Len(log) THEN log[k].from
           ELSE IF log = <<>> THEN 1
                ELSE log[Len(log)].from + Len(log[Len(log)].piece)
Before(k) == IF k <= Len(log) THEN log[k].before ELSE meaning

\* Piece k is the second half of a pair.
Joins(k) == k > 1 /\ log[k - 1].piece = HighHalf /\ log[k].piece = LowHalf

Stands(piece, i) ==
  /\ i + Len(piece) <= Len(literal) + 1
  /\ \A j \in 1 .. Len(piece) : literal[i + j - 1] = piece[j]

\* The pieces lie in the text end to end, and each adds to the meaning.
PieceInv(k) ==
  /\ Stands(log[k].piece, From(k))
  /\ From(k + 1) = From(k) + Len(log[k].piece)
  /\ Before(k + 1) = IF Joins(k)
                     THEN [Before(k) EXCEPT ![Len(Before(k))] = Pair]
                     ELSE Append(Before(k), Denotes(log[k].piece))
LayoutInv == /\ From(1) = 1 /\ Before(1) = <<>>
             /\ \A k \in 1 .. Len(log) : PieceInv(k)

\* At i the text breaks off, or has an escape there is none of.
Broken(i) ==
  \/ At(literal, i) = End
  \/ /\ At(literal, i) = Backslash
     /\ \/ At(literal, i + 1) \notin DOMAIN Escapes \cup {"u"}
        \/ At(literal, i + 1) = "u" /\ At(literal, i + 2) \notin DOMAIN Units

\* What is behind the pieces.
TailInv ==
  LET end == From(Len(log) + 1)
  IN /\ stage = "write" => whole /\ Len(literal) + 1 = end
     /\ stage # "write" /\ whole => Len(literal) = end /\ literal[end] = Quotes
     /\ ~whole => Broken(end)

\* The reader is between two pieces, has read the meaning of those before, and
\* is not inside a pair.
Between(k) == /\ at = From(k) /\ out = Before(k)
              /\ k <= Len(log) => ~Joins(k)
ReaderInv ==
  /\ stage = "write" => at = 1 /\ out = <<>>
  /\ stage = "read" => \E k \in 1 .. Len(log) + 1 : Between(k)
  /\ StringsDecodeAsUtf16

LoopInv == TypesInv /\ LayoutInv /\ TailInv /\ ReaderInv

-----------------------------------------------------------------------------
(* Pieces. *)

\* The symbols that play a part are different ones.
LEMMA Distinct ==
  /\ DOMAIN Escapes = {Quotes, Backslash, "/", "b", "f", "n", "r", "t"}
  /\ DOMAIN Units = {"0001", "0041", High, Low}
  /\ "u" \notin DOMAIN Escapes /\ End \notin DOMAIN Escapes \cup {"u", Backslash}
  /\ Quotes # Backslash /\ Quotes # End /\ High # Low
  /\ Units[High] = High /\ Units[Low] = Low
BY DEF Escapes, Units, Quotes, Backslash, End, High, Low

\* A piece is a character as it is, a short escape, or the escape of a unit.
LEMMA PieceKinds ==
  ASSUME NEW p \in Pieces
  PROVE  /\ p \in Seq(Symbols) /\ Len(p) \in 1 .. 3 /\ Denotes(p) \in Meanings
         /\ \/ /\ Len(p) = 1 /\ p[1] \in Characters \ {Quotes, Backslash}
               /\ Denotes(p) = p[1]
            \/ /\ Len(p) = 2 /\ p[1] = Backslash /\ p[2] \in DOMAIN Escapes
               /\ Denotes(p) = Escapes[p[2]]
            \/ /\ Len(p) = 3 /\ p[1] = Backslash /\ p[2] = "u"
               /\ p[3] \in DOMAIN Units /\ Denotes(p) = Units[p[3]]
               /\ p = <<Backslash, "u", p[3]>>
<1>1. CASE \E c \in Characters \ {Quotes, Backslash} : p = <<c>>
  BY <1>1 DEF Symbols, Meanings, Denotes
<1>2. CASE \E e \in DOMAIN Escapes : p = <<Backslash, e>>
  <2>1. PICK e \in DOMAIN Escapes : p = <<Backslash, e>>
    BY <1>2
  <2>2. Denotes(p) = Escapes[e]
    BY <2>1 DEF Denotes
  <2>3. {Backslash} \cup DOMAIN Escapes \subseteq Symbols
    BY DEF Symbols
  <2> HIDE DEF Symbols, Denotes, Escapes
  <2> QED BY <2>1, <2>2, <2>3 DEF Meanings
<1>3. CASE \E u \in DOMAIN Units : p = <<Backslash, "u", u>>
  <2>1. PICK u \in DOMAIN Units : p = <<Backslash, "u", u>>
    BY <1>3
  <2>2. Denotes(p) = Units[u]
    BY <2>1 DEF Denotes
  <2>3. {Backslash, "u"} \cup DOMAIN Units \subseteq Symbols
    BY DEF Symbols
  <2> QED BY <2>1, <2>2, <2>3 DEF Meanings
<1> QED BY <1>1, <1>2, <1>3 DEF Pieces

\* A piece of two symbols is a short escape, ...
LEMMA ShortEscape ==
  ASSUME NEW p \in Pieces, Len(p) = 2
  PROVE  /\ p[1] = Backslash /\ p[2] \in DOMAIN Escapes
         /\ Denotes(p) = Escapes[p[2]]
BY PieceKinds

\* ... and one of three the escape of a unit.
LEMMA UnitEscape ==
  ASSUME NEW p \in Pieces, Len(p) = 3
  PROVE  /\ p[1] = Backslash /\ p[2] = "u" /\ p[3] \in DOMAIN Units
         /\ Denotes(p) = Units[p[3]] /\ p = <<Backslash, "u", p[3]>>
BY PieceKinds

\* What Character makes of a character as it is, ...
LEMMA ReadsPlain ==
  ASSUME NEW s, NEW i, At(s, i) # Backslash
  PROVE  Character(s, i) = Read(At(s, i), i + 1)
BY DEF Character

\* ... of a short escape, ...
LEMMA ReadsEscape ==
  ASSUME NEW s, NEW i, At(s, i) = Backslash, At(s, i + 1) \in DOMAIN Escapes
  PROVE  Character(s, i) = Read(Escapes[At(s, i + 1)], i + 2)
BY Distinct DEF Character

\* ... of the escape of a unit, ...
LEMMA ReadsUnit ==
  ASSUME NEW s, NEW i, At(s, i) = Backslash, At(s, i + 1) = "u"
  PROVE  Character(s, i) = UnicodeEscape(s, i + 2)
BY Distinct DEF Character

\* ... and of an escape there is none of.
LEMMA ReadsNothing ==
  ASSUME NEW i \in Nat, Broken(i), At(literal, i) # End
  PROVE  ~Character(literal, i).ok
<1>1. CASE At(literal, i + 1) \notin DOMAIN Escapes \cup {"u"}
  BY <1>1 DEF Broken, Character, Fail
<1>2. CASE At(literal, i + 1) = "u" /\ At(literal, i + 2) \notin DOMAIN Units
  <2>1. UnicodeEscape(literal, i + 2) = Fail
    BY <1>2, Distinct DEF UnicodeEscape
  <2> QED BY <1>2, <2>1, ReadsUnit DEF Broken, Fail
<1> QED BY <1>1, <1>2 DEF Broken

\* A piece where it stands.
LEMMA PieceAt ==
  ASSUME TypesInv, NEW p \in Pieces, NEW i \in Nat \ {0}, Stands(p, i),
         NEW j \in 1 .. Len(p)
  PROVE  At(literal, i + j - 1) = p[j]
<1>1. Len(p) \in Nat /\ Len(literal) \in Nat
  BY PieceKinds, LenProperties DEF TypesInv
<1> QED BY <1>1 DEF Stands, At

-----------------------------------------------------------------------------
(* The reader. *)

\* What is known of piece k, from the invariant.
LEMMA PieceFacts ==
  ASSUME TypesInv, LayoutInv, NEW k \in 1 .. Len(log)
  PROVE  /\ Len(log) \in Nat /\ log[k] \in Logged /\ log[k].piece \in Pieces
         /\ From(k) = log[k].from /\ From(k) \in Nat \ {0}
         /\ Before(k) = log[k].before /\ Before(k) \in Seq(Meanings)
         /\ Stands(log[k].piece, From(k))
         /\ From(k + 1) = From(k) + Len(log[k].piece)
<1>1. Len(log) \in Nat /\ log[k] \in Logged
  BY ElementOfSeq, LenProperties DEF TypesInv
<1>2. PieceInv(k)
  BY DEF LayoutInv
<1> QED BY <1>1, <1>2 DEF Logged, From, Before, PieceInv

\* The place behind the last piece.
LEMMA EndFacts ==
  ASSUME TypesInv, LayoutInv
  PROVE  Len(log) \in Nat /\ From(Len(log) + 1) \in Nat \ {0}
<1>1. Len(log) \in Nat
  BY LenProperties DEF TypesInv
<1>2. CASE log = <<>>
  BY <1>1, <1>2 DEF From
<1>3. CASE log # <<>>
  <2>1. Len(log) \in 1 .. Len(log)
    BY <1>3, EmptySeq DEF TypesInv
  <2> QED BY <2>1, PieceFacts, PieceKinds
<1> QED BY <1>1, <1>2, <1>3

\* Behind the pieces the literal ends, or is refused.
LEMMA ReadsEnd ==
  ASSUME TypesInv, LayoutInv, TailInv, stage # "write"
  PROVE  LET end == From(Len(log) + 1)
         IN /\ whole => At(literal, end) = Quotes /\ end = Len(literal)
            /\ ~whole => At(literal, end) # Quotes
            /\ ~whole => \/ At(literal, end) = End
                         \/ ~Character(literal, end).ok
<1> DEFINE end == From(Len(log) + 1)
<1>1. end \in Nat \ {0} /\ Len(literal) \in Nat
  BY EndFacts, LenProperties DEF TypesInv
<1>2. CASE whole
  BY <1>1, <1>2 DEF TailInv, At
<1>3. CASE ~whole
  <2>1. Broken(end)
    BY <1>3 DEF TailInv
  <2>2. At(literal, end) # Quotes
    BY <2>1, Distinct DEF Broken
  <2> QED BY <1>1, <1>3, <2>1, <2>2, ReadsNothing
<1> QED BY <1>2, <1>3

\* The \u escape of a low half, where the loop looks for it behind a high half,
\* is a piece of its own: an escaped backslash with a "u" behind it is none.
LEMMA SecondHalf ==
  ASSUME TypesInv, LayoutInv, TailInv, stage # "write", NEW k \in 1 .. Len(log),
         At(literal, From(k + 1)) = Backslash,
         At(literal, From(k + 1) + 1) = "u"
  PROVE  /\ At(literal, From(k + 1) + 2) = Low
              => k + 1 \in 1 .. Len(log) /\ log[k + 1].piece = LowHalf
         /\ At(literal, From(k + 1) + 2) \notin DOMAIN Units => ~whole
<1>1. Len(log) \in Nat /\ From(k + 1) \in Nat \ {0}
  BY PieceFacts, PieceKinds
<1>2. CASE k = Len(log)
  <2>1. ~whole
    BY <1>2, ReadsEnd, Distinct
  <2>2. Broken(From(k + 1))
    BY <1>2, <2>1 DEF TailInv
  <2> QED BY <2>1, <2>2, Distinct DEF Broken
<1>3. CASE k < Len(log)
  <2> DEFINE p == log[k + 1].piece
  <2>1. /\ k + 1 \in 1 .. Len(log) /\ p \in Pieces
        /\ Stands(p, From(k + 1))
    BY <1>1, <1>3, PieceFacts
  <2>2. \A j \in 1 .. Len(p) : At(literal, From(k + 1) + j - 1) = p[j]
    BY <1>1, <2>1, PieceAt
  <2> HIDE DEF p
  <2>3. Len(p) \in 1 .. 3
    BY <2>1, PieceKinds
  <2>4. p[1] = Backslash
    BY <1>1, <2>2, <2>3
  <2>5. Len(p) # 1
    BY <2>1, <2>4, PieceKinds
  <2>6. p[2] = "u"
    BY <1>1, <2>2, <2>3, <2>5
  <2>7. Len(p) = 3 /\ p[3] \in DOMAIN Units /\ p = <<Backslash, "u", p[3]>>
    BY <2>1, <2>5, <2>6, PieceKinds, Distinct
  <2>8. At(literal, From(k + 1) + 2) = p[3]
    BY <1>1, <2>2, <2>7
  <2> QED BY <2>1, <2>7, <2>8 DEF LowHalf, p
<1> QED BY <1>1, <1>2, <1>3
\* One turn of the loop at piece k takes that piece, or a pair of them, and adds
\* what they mean to the string; it fails only before the spoilt end.
LEMMA ReadsPiece ==
  ASSUME TypesInv, LayoutInv, TailInv, stage # "write",
         NEW k \in 1 .. Len(log), ~Joins(k)
  PROVE  LET c == Character(literal, From(k))
         IN /\ At(literal, From(k)) \notin {End, Quotes}
            /\ whole => c.ok
            /\ c.ok => \E m \in 1 .. Len(log) + 1 :
                         /\ c.at = From(m) /\ Append(Before(k), c.value) = Before(m)
                         /\ m <= Len(log) => ~Joins(m)
<1> DEFINE p == log[k].piece
           i == From(k)
           c == Character(literal, i)
<1>1. /\ Len(log) \in Nat /\ p \in Pieces /\ i \in Nat \ {0} /\ Stands(p, i)
      /\ From(k + 1) = i + Len(p) /\ Before(k) \in Seq(Meanings)
  BY PieceFacts
<1>2. \A j \in 1 .. Len(p) : At(literal, i + j - 1) = p[j]
  BY <1>1, PieceAt
<1>3. Before(k + 1) = Append(Before(k), Denotes(p))
  BY DEF LayoutInv, PieceInv
<1>4. k + 1 \in 1 .. Len(log) + 1 /\ (k + 1) - 1 = k
  BY <1>1
<1> HIDE DEF p
<1>5. Len(p) \in 1 .. 3 /\ 1 \in 1 .. Len(p)
  BY <1>1, PieceKinds
<1>6. At(literal, i) = p[1]
  <2>1. i + 1 - 1 = i
    BY <1>1
  <2> QED BY <1>2, <1>5, <2>1
<1>7. At(literal, i) \notin {End, Quotes}
  BY <1>1, <1>6, PieceKinds, CharactersAssumption, Distinct
\* It is enough that the turn reads the piece and no half of a pair.
<1>8. ASSUME c = Read(Denotes(p), i + Len(p)),
             k + 1 <= Len(log) => ~Joins(k + 1)
      PROVE  /\ c.ok /\ c.at = From(k + 1)
             /\ Append(Before(k), c.value) = Before(k + 1)
             /\ k + 1 <= Len(log) => ~Joins(k + 1)
  BY <1>1, <1>3, <1>8 DEF Read
<1>9. p # HighHalf => ~Joins(k + 1)
  BY <1>4 DEF Joins, p
<1>10. CASE Len(p) = 1
  <2>1. p # HighHalf
    BY <1>10 DEF HighHalf
  <2>2. c = Read(Denotes(p), i + 1)
    BY <1>1, <1>6, <1>10, PieceKinds, ReadsPlain
  <2> QED BY <1>4, <1>7, <1>8, <1>9, <1>10, <2>1, <2>2
<1>11. CASE Len(p) = 2
  <2>1. p # HighHalf
    BY <1>11 DEF HighHalf
  <2>2. /\ p[1] = Backslash /\ p[2] \in DOMAIN Escapes
        /\ Denotes(p) = Escapes[p[2]]
    BY <1>1, <1>11, ShortEscape
  <2>3. At(literal, i) = Backslash /\ At(literal, i + 1) = p[2]
    BY <1>1, <1>2, <1>6, <1>11, <2>2
  <2>4. c = Read(Denotes(p), i + 2)
    BY <2>2, <2>3, ReadsEscape
  <2> QED BY <1>4, <1>7, <1>8, <1>9, <1>11, <2>1, <2>4
<1>12. CASE Len(p) = 3
  <2>2. /\ p[1] = Backslash /\ p[2] = "u" /\ p[3] \in DOMAIN Units
        /\ Denotes(p) = Units[p[3]] /\ p = <<Backslash, "u", p[3]>>
    BY <1>1, <1>12, UnitEscape
  <2>1. /\ At(literal, i) = Backslash /\ At(literal, i + 1) = "u"
        /\ At(literal, i + 2) = p[3]
    <3>1. 2 \in 1 .. Len(p) /\ 3 \in 1 .. Len(p)
      BY <1>12
    <3>2. At(literal, i + 1) = p[2] /\ At(literal, i + 2) = p[3]
      BY <1>1, <1>2, <3>1
    <3> QED BY <1>6, <2>2, <3>2
  <2>3. c = UnicodeEscape(literal, i + 2)
    BY <2>1, ReadsUnit
  <2>4. /\ (i + 2) + 1 = From(k + 1) /\ (i + 2) + 2 = From(k + 1) + 1
        /\ (i + 2) + 3 = From(k + 1) + 2 /\ (i + 2) + 4 = From(k + 1) + 3
    BY <1>1, <1>12
  <2> DEFINE next == From(k + 1)
             another == At(literal, next) = Backslash /\ At(literal, next + 1) = "u"
             second == At(literal, next + 2)
  <2>5. CASE p[3] # High
    <3>1. p # HighHalf
      BY <2>5 DEF HighHalf
    <3>2. c = Read(Denotes(p), i + 3)
      BY <1>1, <2>1, <2>2, <2>3, <2>5, Distinct DEF UnicodeEscape
    <3> QED BY <1>4, <1>7, <1>8, <1>9, <1>12, <3>1, <3>2
  <2>6. CASE p[3] = High /\ another /\ second \notin DOMAIN Units
    <3>1. c = Fail
      BY <2>1, <2>2, <2>3, <2>4, <2>6, Distinct DEF UnicodeEscape
    <3>2. ~whole
      BY <2>6, SecondHalf
    <3> QED BY <1>7, <3>1, <3>2 DEF Fail
  <2>7. CASE p[3] = High /\ another /\ second = Low
    <3>1. c = Read(Pair, next + 3)
      BY <2>1, <2>2, <2>3, <2>4, <2>7, Distinct DEF UnicodeEscape
    <3>2. k + 1 \in 1 .. Len(log) /\ log[k + 1].piece = LowHalf /\ p = HighHalf
      BY <2>2, <2>7, SecondHalf DEF HighHalf
    <3>3. Joins(k + 1) /\ ~Joins(k + 2)
      BY <1>1, <1>4, <3>2, Distinct DEF Joins, p, HighHalf, LowHalf
    <3>4. /\ Before(k + 2) = [Before(k + 1) EXCEPT ![Len(Before(k + 1))] = Pair]
          /\ From(k + 2) = next + Len(LowHalf)
      <4>1. PieceInv(k + 1) /\ (k + 1) + 1 = k + 2
        BY <1>1, <3>2 DEF LayoutInv
      <4> QED BY <3>2, <3>3, <4>1 DEF PieceInv
    <3>5. Before(k + 2) = Append(Before(k), Pair)
      <4>1. Denotes(p) \in Meanings /\ Pair \in Meanings
        BY <1>1, PieceKinds DEF Meanings
      <4> QED BY <1>1, <1>3, <3>4, <4>1
    <3>6. Len(LowHalf) = 3
      BY DEF LowHalf
    <3>7. k + 2 \in 1 .. Len(log) + 1
      BY <1>1, <3>2
    <3> QED BY <1>7, <3>1, <3>3, <3>4, <3>5, <3>6, <3>7 DEF Read
  <2>8. CASE p[3] = High /\ ~(another /\ (second \notin DOMAIN Units \/ second = Low))
    <3>1. c = Read(Denotes(p), i + 3)
      BY <1>1, <2>1, <2>2, <2>3, <2>4, <2>8, Distinct DEF UnicodeEscape
    <3>2. ASSUME k + 1 <= Len(log), Joins(k + 1) PROVE FALSE
      <4> DEFINE q == log[k + 1].piece
      <4>1. /\ k + 1 \in 1 .. Len(log) /\ q = LowHalf /\ q \in Pieces
            /\ next \in Nat \ {0} /\ Stands(q, next)
        BY <1>1, <3>2, PieceFacts DEF Joins
      <4>2. \A j \in 1 .. Len(q) : At(literal, next + j - 1) = q[j]
        BY <4>1, PieceAt
      <4>3. another /\ second = Low
        BY <4>1, <4>2 DEF LowHalf
      <4> QED BY <2>8, <4>3
    <3> QED BY <1>4, <1>7, <1>8, <1>12, <3>1, <3>2
  <2> QED BY <2>5, <2>6, <2>7, <2>8
<1> QED BY <1>5, <1>10, <1>11, <1>12

-----------------------------------------------------------------------------
(* The steps. *)

\* The invariant before the first piece.
LEMMA LoopInit == InitString => LoopInv
BY DEF InitString, LoopInv, TypesInv, LayoutInv, TailInv, ReaderInv, From, Before,
       StringsDecodeAsUtf16

\* A step of the reader keeps the invariant.
LEMMA ReadKeeps == ASSUME LoopInv, ReadStep PROVE LoopInv'
<1>1. /\ UNCHANGED written /\ stage = "read"
      /\ stage' \in {"read", "done", "failed"}
  BY DEF ReadStep, ReadCharacter, ReadQuotes, Refuse
<1>2. UNCHANGED <<literal, log, meaning, whole>>
  BY <1>1 DEF written
<1>3. TypesInv'
  BY <1>1 DEF LoopInv, TypesInv, written
<1>4. LayoutInv'
  BY <1>2 DEF LoopInv, LayoutInv, PieceInv, Stands, From, Before, Joins
<1>5. TailInv'
  BY <1>1, <1>2 DEF LoopInv, TailInv, Broken, At, From
<1>6. PICK k \in 1 .. Len(log) + 1 : Between(k)
  BY <1>1 DEF LoopInv, ReaderInv
<1>7. Len(log) \in Nat
  BY LenProperties DEF LoopInv, TypesInv
<1>8. CASE ReadCharacter
  <2>1. k <= Len(log)
    BY <1>1, <1>6, <1>7, <1>8, ReadsEnd
       DEF ReadCharacter, Between, LoopInv
  <2>2. k \in 1 .. Len(log) /\ ~Joins(k)
    BY <1>6, <1>7, <2>1 DEF Between
  <2>3. PICK m \in 1 .. Len(log) + 1 :
          /\ at' = From(m) /\ out' = Before(m)
          /\ m <= Len(log) => ~Joins(m)
    BY <1>1, <1>6, <1>8, <2>2, ReadsPiece DEF ReadCharacter, Between, LoopInv
  <2>4. Between(m)' /\ m \in 1 .. Len(log') + 1
    BY <1>2, <2>3 DEF Between, From, Before, Joins
  <2>5. stage' = "read"
    BY <1>1, <1>8 DEF ReadCharacter
  <2> QED BY <1>3, <1>4, <1>5, <2>4, <2>5
          DEF LoopInv, ReaderInv, StringsDecodeAsUtf16
<1>9. CASE ReadQuotes
  <2>1. k = Len(log) + 1
    BY <1>1, <1>6, <1>7, <1>9, ReadsPiece DEF ReadQuotes, Between, LoopInv
  <2>2. whole /\ at = Len(literal) /\ out = meaning
    BY <1>1, <1>6, <1>7, <1>9, <2>1, ReadsEnd
       DEF ReadQuotes, Between, Before, LoopInv, TypesInv
  <2>3. stage' = "done" /\ at' = Len(literal) + 1 /\ out' = out
    BY <1>9, <2>2 DEF ReadQuotes
  <2> QED BY <1>1, <1>3, <1>4, <1>5, <2>2, <2>3
          DEF LoopInv, ReaderInv, StringsDecodeAsUtf16, written
<1>10. CASE Refuse
  <2>1. ~whole
    <3>1. ASSUME k <= Len(log), whole PROVE FALSE
      BY <1>1, <1>6, <1>7, <1>10, <3>1, ReadsPiece DEF Refuse, Between, LoopInv
    <3>2. ASSUME k = Len(log) + 1, whole PROVE FALSE
      BY <1>1, <1>6, <1>10, <3>2, ReadsEnd, Distinct DEF Refuse, Between, LoopInv
    <3> QED BY <1>6, <1>7, <3>1, <3>2
  <2>2. stage' = "failed"
    BY <1>10 DEF Refuse
  <2> QED BY <1>1, <1>3, <1>4, <1>5, <2>1, <2>2
          DEF LoopInv, ReaderInv, StringsDecodeAsUtf16, written
<1> QED BY <1>8, <1>9, <1>10 DEF ReadStep

\* A piece stands in another text.
StandsNow(piece, i, text) ==
  /\ i + Len(piece) <= Len(text) + 1
  /\ \A j \in 1 .. Len(piece) : text[i + j - 1] = piece[j]

\* A text that is put behind the literal leaves the pieces where they are.
LEMMA PiecesStand ==
  ASSUME TypesInv, NEW rest \in Seq(Symbols), literal' = literal \o rest
  PROVE  /\ literal' \in Seq(Symbols) /\ Len(literal') = Len(literal) + Len(rest)
         /\ \A i \in Nat \ {0} : i <= Len(literal) => literal'[i] = literal[i]
         /\ \A j \in 1 .. Len(rest) : literal'[Len(literal) + j] = rest[j]
         /\ \A p \in Pieces, i \in Nat \ {0} :
              Stands(p, i) => StandsNow(p, i, literal')
<1>1. /\ Len(literal) \in Nat /\ Len(rest) \in Nat
  BY LenProperties DEF TypesInv
<1>2. /\ literal' \in Seq(Symbols) /\ Len(literal') = Len(literal) + Len(rest)
      /\ \A i \in 1 .. Len(literal) + Len(rest) :
           literal'[i] = IF i <= Len(literal) THEN literal[i]
                         ELSE rest[i - Len(literal)]
  BY ConcatProperties DEF TypesInv
<1>3. \A i \in Nat \ {0} : i <= Len(literal) => literal'[i] = literal[i]
  BY <1>1, <1>2
<1>4. \A j \in 1 .. Len(rest) : literal'[Len(literal) + j] = rest[j]
  BY <1>1, <1>2
<1>5. ASSUME NEW p \in Pieces, NEW i \in Nat \ {0}, Stands(p, i)
      PROVE  StandsNow(p, i, literal')
  <2>1. Len(p) \in 1 .. 3
    BY PieceKinds
  <2>2. \A j \in 1 .. Len(p) : literal'[i + j - 1] = literal[i + j - 1]
    BY <1>1, <1>3, <1>5, <2>1 DEF Stands
  <2> QED BY <1>1, <1>2, <1>5, <2>1, <2>2 DEF Stands, StandsNow
<1> QED BY <1>2, <1>3, <1>4, <1>5
\* A piece that is written joins the others, and adds to the meaning.
LEMMA WriteKeeps == ASSUME LoopInv, NEW piece \in Pieces, Write(piece) PROVE LoopInv'
<1>0. PICK n \in Nat : n = Len(log)
  BY LenProperties DEF LoopInv, TypesInv
<1> DEFINE r == [piece |-> piece, from |-> Len(literal) + 1, before |-> meaning]
<1>1. /\ n = Len(log) /\ n \in Nat /\ Len(literal) \in Nat /\ r \in Logged
      /\ log \in Seq(Logged) /\ meaning \in Seq(Meanings)
  BY <1>0, LenProperties DEF LoopInv, TypesInv, Logged
<1>2. /\ log' = Append(log, r) /\ literal' = literal \o piece
      /\ stage = "write" /\ UNCHANGED <<stage, whole, at, out>>
  BY DEF Write
<1> HIDE DEF r
<1>3. /\ log' \in Seq(Logged) /\ Len(log') = n + 1 /\ log'[n + 1] = r
      /\ \A k \in 1 .. n : log'[k] = log[k]
  BY <1>1, <1>2
<1>4. From(n + 1) = Len(literal) + 1 /\ Before(n + 1) = meaning
  BY <1>1, <1>2 DEF LoopInv, TailInv, Before
<1>5. \A k \in 1 .. n + 1 : log'[k].from = From(k) /\ log'[k].before = Before(k)
  <2>1. ASSUME NEW k \in 1 .. n
        PROVE  log'[k].from = From(k) /\ log'[k].before = Before(k)
    BY <1>1, <1>3, PieceFacts DEF LoopInv
  <2>2. log'[n + 1].from = From(n + 1) /\ log'[n + 1].before = Before(n + 1)
    BY <1>3, <1>4 DEF r
  <2> QED BY <1>1, <2>1, <2>2
<1>6. /\ piece \in Seq(Symbols) /\ Len(piece) \in 1 .. 3
      /\ Denotes(piece) \in Meanings
  BY PieceKinds
<1>7. /\ literal' \in Seq(Symbols) /\ Len(literal') = Len(literal) + Len(piece)
      /\ \A j \in 1 .. Len(piece) : literal'[Len(literal) + j] = piece[j]
      /\ \A p \in Pieces, i \in Nat \ {0} :
           Stands(p, i) => StandsNow(p, i, literal')
  BY <1>2, <1>6, PiecesStand DEF LoopInv
<1>8. meaning' \in Seq(Meanings)
  <2>1. [meaning EXCEPT ![Len(meaning)] = Pair] \in Seq(Meanings)
    <3>1. Len(meaning) \in Nat /\ meaning \in [1 .. Len(meaning) -> Meanings]
      BY <1>1, LenProperties
    <3>2. [meaning EXCEPT ![Len(meaning)] = Pair] \in [1 .. Len(meaning) -> Meanings]
      BY <3>1 DEF Meanings
    <3> QED BY <3>1, <3>2, SeqDef
  <2>2. Append(meaning, Denotes(piece)) \in Seq(Meanings)
    BY <1>1, <1>6
  <2>3. \/ meaning' = [meaning EXCEPT ![Len(meaning)] = Pair]
        \/ meaning' = Append(meaning, Denotes(piece))
    BY DEF Write
  <2> QED BY <2>1, <2>2, <2>3
<1>9. TypesInv'
  BY <1>2, <1>3, <1>7, <1>8 DEF LoopInv, TypesInv
<1>10. ASSUME NEW k \in 1 .. n PROVE PieceInv(k)'
  <2>1. /\ k \in 1 .. n + 1 /\ k + 1 \in 1 .. n + 1 /\ k <= n + 1 /\ k + 1 <= n + 1
        /\ k > 1 => k - 1 \in 1 .. n
    BY <1>1
  <2>2. /\ log'[k] = log[k] /\ log[k].piece \in Pieces /\ From(k) \in Nat \ {0}
        /\ k > 1 => log'[k - 1] = log[k - 1]
    BY <1>1, <1>3, <2>1, PieceFacts DEF LoopInv
  <2>3. /\ Stands(log[k].piece, From(k)) /\ From(k + 1) = From(k) + Len(log[k].piece)
        /\ Before(k + 1) = IF Joins(k)
                           THEN [Before(k) EXCEPT ![Len(Before(k))] = Pair]
                           ELSE Append(Before(k), Denotes(log[k].piece))
    BY <1>1 DEF LoopInv, LayoutInv, PieceInv
  <2>4. StandsNow(log[k].piece, From(k), literal')
    BY <1>7, <2>2, <2>3
  <2>5. /\ From(k)' = From(k) /\ From(k + 1)' = From(k + 1)
        /\ Before(k)' = Before(k) /\ Before(k + 1)' = Before(k + 1)
    <3>1. /\ log'[k].from = From(k) /\ log'[k + 1].from = From(k + 1)
          /\ log'[k].before = Before(k) /\ log'[k + 1].before = Before(k + 1)
      BY <1>5, <2>1
    <3>2. k <= Len(log') /\ k + 1 <= Len(log')
      BY <1>3, <2>1
    <3>3. From(k)' = log'[k].from /\ From(k + 1)' = log'[k + 1].from
      BY <3>2 DEF From
    <3>4. Before(k)' = log'[k].before /\ Before(k + 1)' = log'[k + 1].before
      BY <3>2 DEF Before
    <3> QED BY <3>1, <3>3, <3>4
  <2>6. Joins(k)' <=> Joins(k)
    BY <2>2 DEF Joins
  <2>7. Stands(log[k].piece, From(k))'
    BY <2>2, <2>4, <2>5 DEF Stands, StandsNow
  <2> QED BY <2>2, <2>3, <2>5, <2>6, <2>7 DEF PieceInv
<1>11. From(n + 2)' = Len(literal) + 1 + Len(piece) /\ Before(n + 2)' = meaning'
  <2>1. ~(n + 2 <= Len(log')) /\ log' # <<>>
    BY <1>1, <1>3
  <2>2. From(n + 2)' = log'[Len(log')].from + Len(log'[Len(log')].piece)
    BY <2>1 DEF From
  <2>3. Before(n + 2)' = meaning'
    BY <2>1 DEF Before
  <2> QED BY <1>3, <2>2, <2>3 DEF r
<1>12. PieceInv(n + 1)'
  <2>1. From(n + 1)' = Len(literal) + 1 /\ Before(n + 1)' = meaning
    <3>1. n + 1 <= Len(log')
      BY <1>1, <1>3
    <3>2. From(n + 1)' = log'[n + 1].from /\ Before(n + 1)' = log'[n + 1].before
      BY <3>1 DEF From, Before
    <3> QED BY <1>3, <3>2 DEF r
  <2>2. Joins(n + 1)' <=> /\ piece = LowHalf /\ log # <<>>
                          /\ log[Len(log)].piece = HighHalf
    <3>1. n > 0 <=> log # <<>>
      BY <1>1, EmptySeq
    <3>2. n > 0 => log'[(n + 1) - 1] = log[n]
      BY <1>1, <1>3
    <3>3. n + 1 > 1 <=> n > 0
      BY <1>1
    <3>4. log'[n + 1].piece = piece
      BY <1>3 DEF r
    <3> QED BY <1>1, <3>1, <3>2, <3>3, <3>4 DEF Joins
  <2>3. StandsNow(piece, Len(literal) + 1, literal')
    BY <1>1, <1>6, <1>7 DEF StandsNow
  <2>4. log'[n + 1].piece = piece /\ (n + 1) + 1 = n + 2
    BY <1>1, <1>3 DEF r
  <2>5. Stands(log[n + 1].piece, From(n + 1))'
    BY <2>1, <2>3, <2>4 DEF Stands, StandsNow, From
  <2>6. From((n + 1) + 1)' = From(n + 1)' + Len(log'[n + 1].piece)
    BY <1>1, <1>11, <2>1, <2>4
  <2>7. Before((n + 1) + 1)' = IF Joins(n + 1)'
                     THEN [Before(n + 1)' EXCEPT ![Len(Before(n + 1)')] = Pair]
                     ELSE Append(Before(n + 1)', Denotes(log'[n + 1].piece))
    BY <1>11, <2>1, <2>2, <2>4 DEF Write
  <2> QED BY <2>5, <2>6, <2>7 DEF PieceInv
<1>13. LayoutInv'
  <2>1. From(1)' = 1 /\ Before(1)' = <<>>
    <3>1. 1 <= Len(log')
      BY <1>1, <1>3
    <3>2. From(1)' = log'[1].from /\ Before(1)' = log'[1].before
      BY <3>1 DEF From, Before
    <3> QED BY <1>1, <1>5, <3>2 DEF LoopInv, LayoutInv
  <2>2. \A k \in 1 .. n + 1 : PieceInv(k)'
    BY <1>1, <1>10, <1>12
  <2> QED BY <1>3, <2>1, <2>2 DEF LayoutInv
<1>14. TailInv'
  <2>1. From(Len(log) + 1)' = Len(literal) + 1 + Len(piece)
    <3>1. Len(log') + 1 = n + 2
      BY <1>1, <1>3
    <3> QED BY <1>11, <3>1 DEF From
  <2> QED BY <1>1, <1>2, <1>6, <1>7, <2>1 DEF LoopInv, TailInv
<1>15. ReaderInv'
  BY <1>2 DEF LoopInv, ReaderInv, StringsDecodeAsUtf16
<1> QED BY <1>9, <1>13, <1>14, <1>15 DEF LoopInv

\* A text put behind the last piece leaves the pieces what they were, and sends
\* the reader to the first.
LEMMA TextBehind ==
  ASSUME LoopInv, stage = "write", stage' = "read", NEW rest \in Seq(Symbols),
         literal' = literal \o rest, whole' \in BOOLEAN,
         UNCHANGED <<log, meaning, at, out>>
  PROVE  /\ TypesInv' /\ LayoutInv' /\ ReaderInv'
         /\ whole /\ From(Len(log) + 1)' = Len(literal) + 1
         /\ Len(literal) \in Nat /\ Len(literal') = Len(literal) + Len(rest)
         /\ \A j \in 1 .. Len(rest) : literal'[Len(literal) + j] = rest[j]
<1>1. /\ literal' \in Seq(Symbols) /\ Len(literal') = Len(literal) + Len(rest)
      /\ \A j \in 1 .. Len(rest) : literal'[Len(literal) + j] = rest[j]
      /\ \A p \in Pieces, i \in Nat \ {0} :
           Stands(p, i) => StandsNow(p, i, literal')
  BY PiecesStand DEF LoopInv
<1>2. TypesInv'
  BY <1>1 DEF LoopInv, TypesInv
<1>3. LayoutInv'
  <2>1. ASSUME NEW k \in 1 .. Len(log) PROVE PieceInv(k)'
    <3>1. PieceInv(k) /\ log[k].piece \in Pieces /\ From(k) \in Nat \ {0}
      BY PieceFacts DEF LoopInv, LayoutInv
    <3>2. StandsNow(log[k].piece, From(k), literal')
      BY <1>1, <3>1 DEF PieceInv
    <3>3. Stands(log[k].piece, From(k))'
      BY <3>2 DEF Stands, StandsNow, From
    <3> QED BY <3>1, <3>3 DEF PieceInv, From, Before, Joins
  <2> QED BY <2>1 DEF LoopInv, LayoutInv, From, Before
<1>4. ReaderInv'
  <2>1. Len(log) \in Nat
    BY LenProperties DEF LoopInv, TypesInv
  <2>2. From(1) = 1 /\ Before(1) = <<>> /\ at = 1 /\ out = <<>>
    BY DEF LoopInv, LayoutInv, ReaderInv
  <2>3. Between(1)'
    BY <2>2 DEF Between, From, Before, Joins
  <2> QED BY <2>1, <2>3 DEF ReaderInv, StringsDecodeAsUtf16
<1>5. whole /\ Len(literal) \in Nat /\ From(Len(log) + 1)' = Len(literal) + 1
  BY LenProperties DEF LoopInv, TypesInv, TailInv, From
<1> QED BY <1>1, <1>2, <1>3, <1>4, <1>5

\* The closing quotes are where the pieces end.
LEMMA CloseKeeps == ASSUME LoopInv, Close PROVE LoopInv'
<1>1. <<Quotes>> \in Seq(Symbols) /\ Len(<<Quotes>>) = 1 /\ <<Quotes>>[1] = Quotes
  BY DEF Symbols
<1>2. literal' = literal \o <<Quotes>>
  BY DEF LoopInv, TypesInv, Close
<1>3. /\ stage = "write" /\ stage' = "read" /\ whole' \in BOOLEAN
      /\ UNCHANGED <<log, meaning, whole, at, out>>
  BY DEF Close, LoopInv, TypesInv
<1>4. /\ TypesInv' /\ LayoutInv' /\ ReaderInv' /\ whole
      /\ From(Len(log) + 1)' = Len(literal) + 1 /\ Len(literal) \in Nat
      /\ Len(literal') = Len(literal) + Len(<<Quotes>>)
      /\ \A j \in 1 .. Len(<<Quotes>>) : literal'[Len(literal) + j] = <<Quotes>>[j]
  BY <1>1, <1>2, <1>3, TextBehind
<1>5. Len(literal') = Len(literal) + 1 /\ literal'[Len(literal) + 1] = Quotes
  BY <1>1, <1>4
<1>6. TailInv'
  BY <1>3, <1>4, <1>5 DEF TailInv
<1> QED BY <1>4, <1>6 DEF LoopInv

\* A literal is spoilt where the pieces end.
LEMMA SpoilKeeps == ASSUME LoopInv, NEW rest \in Spoilt, Spoil(rest) PROVE LoopInv'
<1>1. /\ rest \in Seq(Symbols)
      /\ \/ rest = <<>>
         \/ /\ Len(rest) \in {1, 2, 3} /\ rest[1] = Backslash
            /\ Len(rest) = 2 => rest[2] \notin DOMAIN Escapes
            /\ Len(rest) = 3 => rest[2] = "u" /\ rest[3] \notin DOMAIN Units
  <2>1. CASE rest = <<>>
    BY <2>1
  <2>5. CASE rest = <<Backslash>>
    <3>1. Backslash \in Symbols
      BY DEF Symbols
    <3>2. Len(<<Backslash>>) = 1 /\ <<Backslash>>[1] = Backslash
      OBVIOUS
    <3> QED BY <2>5, <3>1, <3>2
  <2>4. CASE rest = <<Backslash, "u">>
    BY <2>4, Distinct DEF Symbols
  <2>2. CASE \E c \in Characters \ (DOMAIN Escapes \cup {"u"}) :
               rest = <<Backslash, c>>
    BY <2>2, Distinct DEF Symbols
  <2>3. CASE \E c \in Characters \ DOMAIN Units : rest = <<Backslash, "u", c>>
    BY <2>3, Distinct DEF Symbols
  <2> QED BY <2>1, <2>2, <2>3, <2>4, <2>5 DEF Spoilt
<1>2. /\ stage = "write" /\ stage' = "read" /\ literal' = literal \o rest
      /\ whole' = FALSE /\ UNCHANGED <<log, meaning, at, out>>
  BY DEF Spoil
<1>3. /\ TypesInv' /\ LayoutInv' /\ ReaderInv'
      /\ From(Len(log) + 1)' = Len(literal) + 1 /\ Len(literal) \in Nat
      /\ Len(literal') = Len(literal) + Len(rest)
      /\ \A j \in 1 .. Len(rest) : literal'[Len(literal) + j] = rest[j]
  BY <1>1, <1>2, TextBehind
<1>4. End \notin DOMAIN Units
  BY DEF Units, End, High, Low
<1>5. PICK end \in Nat : end = Len(literal) + 1
  BY <1>3
<1>6. \A j \in 0 .. Len(rest) - 1 : At(literal', end + j) = rest[j + 1]
  BY <1>1, <1>3, <1>5 DEF At
<1>7. At(literal', end + Len(rest)) = End
  BY <1>1, <1>3, <1>5 DEF At
<1>8. Broken(end)'
  <2>1. CASE rest = <<>>
    BY <1>5, <1>7, <2>1 DEF Broken
  <2>2. CASE Len(rest) = 1 /\ rest[1] = Backslash
    <3>1. At(literal', end) = Backslash /\ At(literal', end + 1) = End
      BY <1>5, <1>6, <1>7, <2>2
    <3> QED BY <3>1, Distinct DEF Broken
  <2>3. CASE Len(rest) = 2 /\ rest[1] = Backslash /\ rest[2] \notin DOMAIN Escapes
    <3>1. /\ At(literal', end) = Backslash /\ At(literal', end + 1) = rest[2]
          /\ At(literal', end + 2) = End
      BY <1>5, <1>6, <1>7, <2>3
    <3> QED BY <1>4, <2>3, <3>1 DEF Broken
  <2>4. CASE /\ Len(rest) = 3 /\ rest[1] = Backslash /\ rest[2] = "u"
             /\ rest[3] \notin DOMAIN Units
    <3>1. /\ At(literal', end) = Backslash /\ At(literal', end + 1) = "u"
          /\ At(literal', end + 2) = rest[3]
      BY <1>5, <1>6, <2>4
    <3> QED BY <2>4, <3>1 DEF Broken
  <2> QED BY <1>1, <2>1, <2>2, <2>3, <2>4
<1>9. TailInv'
  BY <1>2, <1>3, <1>5, <1>8 DEF TailInv, From, Broken
<1> QED BY <1>3, <1>9 DEF LoopInv

-----------------------------------------------------------------------------
(* Theorems. *)

\* Every step keeps the invariant.
LEMMA LoopStep == LoopInv /\ [NextString]_loop => LoopInv'
<1> SUFFICES ASSUME LoopInv, [NextString]_loop PROVE LoopInv'
  OBVIOUS
<1>1. CASE \E piece \in Pieces : Write(piece)
  BY <1>1, WriteKeeps
<1>2. CASE EndString
  BY <1>2, CloseKeeps, SpoilKeeps DEF EndString
<1>3. CASE ReadStep
  BY <1>3, ReadKeeps
<1>4. CASE UNCHANGED loop
  BY <1>4 DEF loop, written, LoopInv, TypesInv, LayoutInv, PieceInv, Stands, From,
              Before, Joins, TailInv, Broken, At, ReaderInv, Between,
              StringsDecodeAsUtf16
<1> QED BY <1>1, <1>2, <1>3, <1>4 DEF NextString

\* A string of any length, however its writer escapes it, is read as the
\* characters its escapes spell in UTF-16, up to its closing quotes; a literal
\* that has none, or an escape there is none of, is refused
\* (control_json.cpp:335-409).
THEOREM StringsAreRead == SpecString => []StringsDecodeAsUtf16
<1>1. LoopInv => StringsDecodeAsUtf16
  BY DEF LoopInv, ReaderInv
<1> QED BY <1>1, LoopInit, LoopStep, PTL DEF SpecString

\* What quote writes for a character is one piece, and means that character, also
\* right behind the piece of another: the container's own strings are among
\* those the theorem above speaks of (control_json.cpp:454-488).
THEOREM QuoteIsAWriter ==
  ASSUME NEW c \in Characters
  PROVE  /\ Escaped(c) \in Pieces /\ Denotes(Escaped(c)) = c
         /\ Write(Escaped(c)) => meaning' = Append(meaning, c)
<1>1. CASE c = "SOH"
  <2>3. Escaped(c) = <<Backslash, "u", "0001">>
    BY <1>1 DEF Escaped, Control, Quotes, Backslash
  <2>1. "0001" \in DOMAIN Units /\ Units["0001"] = "SOH" /\ "0001" # Low
    BY DEF Units, High, Low
  <2>2. Denotes(Escaped(c)) = c
    BY <1>1, <2>1, <2>3 DEF Denotes
  <2> QED BY <2>1, <2>2, <2>3 DEF Pieces, Write, LowHalf
<1>2. CASE c \in (Control \ {"SOH"}) \cup {Quotes, Backslash}
  <2> DEFINE e == CHOOSE x \in DOMAIN Escapes \ {"/"} : Escapes[x] = c
  <2>1. \E x \in DOMAIN Escapes \ {"/"} : Escapes[x] = c
    BY <1>2 DEF Escapes, Control, Quotes, Backslash
  <2>2. e \in DOMAIN Escapes /\ Escapes[e] = c
    BY <2>1
  <2>3. c # "SOH"
    BY <1>2 DEF Control, Quotes, Backslash
  <2>4. Escaped(c) = <<Backslash, e>>
    BY <1>2, <2>3 DEF Escaped
  <2> HIDE DEF e
  <2>5. Denotes(Escaped(c)) = c
    BY <2>2, <2>4 DEF Denotes
  <2> QED BY <2>2, <2>4, <2>5 DEF Pieces, Write, LowHalf
<1>3. CASE c \notin Control \cup {Quotes, Backslash}
  <2>1. Escaped(c) = <<c>>
    BY <1>3 DEF Escaped, Control
  <2>2. Denotes(Escaped(c)) = c
    BY <2>1 DEF Denotes
  <2> QED BY <1>3, <2>1, <2>2 DEF Pieces, Write, LowHalf
<1> QED BY <1>1, <1>2, <1>3
=============================================================================
