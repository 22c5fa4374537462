------------------------- MODULE BusinessStateProofs -------------------------
(***************************************************************************)
(* Proofs about BusinessState, for every character set, every peer, item   *)
(* and attribute, and however much of the file was written.                *)
(*                                                                         *)
(* The file format is read back by cutting a text at its marks, twice, and *)
(* by undoing the escapes, so the proofs go along these lines:             *)
(*  - an escaped value has no mark in it, and what is read of a beginning  *)
(*    of it is a beginning of the value;                                   *)
(*  - of a beginning of parts that a mark ends, cutting gives the first    *)
(*    parts and a beginning of the next one;                               *)
(*  - so a beginning of the file gives the first entries and at most one   *)
(*    more, of the kind, the peer and the id that were written.            *)
(* FileInv says that the file is such a beginning.                         *)
(***************************************************************************)
EXTENDS BusinessState, SequenceFoldProofs

(* Characters and texts                                                    *)

\* The characters the format gives a meaning, and what they have to do with each other.
LEMMA Marks ==
  /\ {Backslash, Tab, Newline, Return, "t", "n", "r", "V", "1", "CATALOG", "RECORD"} \subseteq Chars
  /\ Backslash # Tab /\ Backslash # Newline /\ Backslash # Return
  /\ Tab # Newline /\ Tab # Return /\ Newline # Return
  /\ {Backslash, "t", "n", "r", "V", "1", "CATALOG", "RECORD"} \cap {Tab, Newline, Return} = {}
  /\ "t" # Backslash /\ "n" # Backslash /\ "r" # Backslash
BY BusinessStateAssumption DEF Backslash, Tab, Newline, Return, Kinds

\* The characters of which fields and lines are made.
Clean == Chars \ {Tab, Newline, Return}

\* What an escape may name.
Escapes == {Backslash, "t", "n", "r"}

\* A character is written as it is, or as an escape that names it.
LEMMA EscapedForms ==
  ASSUME NEW c \in Chars
  PROVE  \/ c \in Clean /\ c # Backslash /\ Escaped(c) = <<c>>
         \/ \E m \in Escapes : Escaped(c) = <<Backslash, m>> /\ Unescaped(m) = c
<1>1. Unescaped(Backslash) = Backslash /\ Unescaped("t") = Tab
      /\ Unescaped("n") = Newline /\ Unescaped("r") = Return
  BY DEF Unescaped, Backslash
<1>2. CASE c = Backslash
  BY <1>1, <1>2 DEF Escaped, Escapes
<1>3. CASE c = Tab
  BY <1>1, <1>3, Marks DEF Escaped, Escapes
<1>4. CASE c = Newline
  BY <1>1, <1>4, Marks DEF Escaped, Escapes
<1>5. CASE c = Return
  BY <1>1, <1>5, Marks DEF Escaped, Escapes
<1>6. CASE c \notin {Backslash, Tab, Newline, Return}
  <2>1. Escaped(c) = <<c>>
    BY <1>6 DEF Escaped
  <2> QED BY <1>6, <2>1 DEF Clean
<1> QED BY <1>2, <1>3, <1>4, <1>5, <1>6

\* ... so with clean characters only.
LEMMA EscapedClean ==
  ASSUME NEW c \in Chars
  PROVE  Escaped(c) \in Seq(Clean) /\ Escaped(c) \in Text
<1>1. Backslash \in Clean /\ Escapes \subseteq Clean /\ Clean \subseteq Chars
  BY Marks DEF Clean, Escapes
<1>2. Escaped(c) \in Seq(Clean)
  <2>1. CASE c \in Clean /\ Escaped(c) = <<c>>
    BY <2>1
  <2>2. ASSUME NEW m \in Escapes, Escaped(c) = <<Backslash, m>> PROVE Escaped(c) \in Seq(Clean)
    <3>1. m \in Clean /\ Backslash \in Clean
      BY <1>1
    <3> QED BY <2>2, <3>1
  <2> QED BY <2>1, <2>2, EscapedForms
<1>3. Seq(Clean) \subseteq Text
  BY <1>1 DEF Text
<1> QED BY <1>2, <1>3

\* escapeValue, character by character.
LEMMA EscapeSteps ==
  /\ escapeValue(<<>>) = <<>>
  /\ \A v \in Text : escapeValue(v) \in Text
  /\ \A v \in Text, c \in Chars : escapeValue(Append(v, c)) = escapeValue(v) \o Escaped(c)
<1> DEFINE turn == [text \in Text |-> [c \in Chars |-> text \o Escaped(c)]]
<1>1. turn \in Turns(Text, Chars) /\ <<>> \in Text
  <2>1. \A text \in Text, c \in Chars : text \o Escaped(c) \in Text
    BY EscapedClean DEF Text
  <2>2. <<>> \in Text
    BY DEF Text
  <2> QED BY <2>1, <2>2 DEF Turns
<1>2. \A v : escapeValue(v) = Fold(turn, <<>>, v)
  BY DEF escapeValue
<1>3. \A text \in Text, c \in Chars : turn[text][c] = text \o Escaped(c)
  OBVIOUS
<1> HIDE DEF turn
<1>4. /\ Fold(turn, <<>>, <<>>) = <<>>
      /\ \A v \in Seq(Chars) : Fold(turn, <<>>, v) \in Text
      /\ \A v \in Seq(Chars), c \in Chars : Fold(turn, <<>>, Append(v, c)) = turn[Fold(turn, <<>>, v)][c]
  BY <1>1, FoldLaws
<1> QED BY <1>2, <1>3, <1>4, Zenon DEF Text

\* An escaped value has no mark in it.
LEMMA EscapeClean ==
  ASSUME NEW v \in Text
  PROVE  escapeValue(v) \in Seq(Clean)
<1> DEFINE Good == {u \in Text : escapeValue(u) \in Seq(Clean)}
<1>1. <<>> \in Good
  <2>1. <<>> \in Seq(Clean) /\ <<>> \in Text
    BY DEF Text
  <2> QED BY <2>1, EscapeSteps
<1>2. ASSUME NEW u \in Seq(Chars), u \in Good, NEW c \in Chars PROVE Append(u, c) \in Good
  <2>1. escapeValue(Append(u, c)) = escapeValue(u) \o Escaped(c)
    BY <1>2, EscapeSteps
  <2>2. escapeValue(u) \in Seq(Clean) /\ Escaped(c) \in Seq(Clean)
    BY <1>2, EscapedClean
  <2>3. Append(u, c) \in Text
    BY <1>2 DEF Text
  <2>4. escapeValue(u) \o Escaped(c) \in Seq(Clean)
    BY <2>2
  <2> QED BY <2>1, <2>3, <2>4
<1> HIDE DEF Good
<1>3. Seq(Chars) \subseteq Good
  BY <1>1, <1>2, SequenceInduction
<1> QED BY <1>3 DEF Good, Text

\* What has been read of a value when a text has been gone through.
Closed(v)     == [value |-> v, open |-> FALSE, ok |-> TRUE]
ReadAll(text) == Fold([s \in Reading |-> [c \in Chars |-> ReadChar(s, c)]], Closed(<<>>), text)

\* unescapeValue, character by character.
LEMMA ReadSteps ==
  /\ \A t : unescapeValue(t) = [value |-> ReadAll(t).value, ok |-> ReadAll(t).ok /\ ~ReadAll(t).open]
  /\ ReadAll(<<>>) = Closed(<<>>)
  /\ \A t \in Text : ReadAll(t) \in Reading
  /\ \A t \in Text, c \in Chars : ReadAll(Append(t, c)) = ReadChar(ReadAll(t), c)
<1> DEFINE turn == [s \in Reading |-> [c \in Chars |-> ReadChar(s, c)]]
<1>0. \A t : unescapeValue(t) = [value |-> ReadAll(t).value, ok |-> ReadAll(t).ok /\ ~ReadAll(t).open]
  BY Zenon DEF unescapeValue, ReadAll, Closed
<1>1. Closed(<<>>) \in Reading
  BY DEF Closed, Reading, Text
<1>2. ASSUME NEW s \in Reading, NEW c \in Chars PROVE ReadChar(s, c) \in Reading
  <2>1. s.value \in Text /\ s.open \in BOOLEAN /\ s.ok \in BOOLEAN
    BY <1>2 DEF Reading
  <2>2. c \in Escapes => Unescaped(c) \in Chars
    BY Marks DEF Unescaped, Escapes, Backslash
  <2>3. Append(s.value, c) \in Text /\ (c \in Escapes => Append(s.value, Unescaped(c)) \in Text)
    BY <1>2, <2>1, <2>2 DEF Text
  <2>4. CASE ~s.open /\ c = Backslash
    <3>1. ReadChar(s, c) = [value |-> s.value, open |-> TRUE, ok |-> s.ok]
      BY <2>4 DEF ReadChar
    <3> QED BY <2>1, <3>1 DEF Reading
  <2>5. CASE ~s.open /\ c # Backslash
    <3>1. ReadChar(s, c) = [value |-> Append(s.value, c), open |-> FALSE, ok |-> s.ok]
      BY <2>5 DEF ReadChar
    <3> QED BY <2>1, <2>3, <3>1 DEF Reading
  <2>6. CASE s.open /\ c \in Escapes
    <3>1. ReadChar(s, c) = [value |-> Append(s.value, Unescaped(c)), open |-> FALSE, ok |-> s.ok]
      BY <2>6 DEF ReadChar, Escapes
    <3> QED BY <2>1, <2>3, <2>6, <3>1 DEF Reading
  <2>7. CASE s.open /\ c \notin Escapes
    <3>1. ReadChar(s, c) = [value |-> s.value, open |-> FALSE, ok |-> FALSE]
      BY <2>7 DEF ReadChar, Escapes
    <3> QED BY <2>1, <3>1 DEF Reading
  <2> QED BY <2>1, <2>4, <2>5, <2>6, <2>7
<1>3. turn \in Turns(Reading, Chars)
  BY <1>2 DEF Turns
<1>4. \A s \in Reading, c \in Chars : turn[s][c] = ReadChar(s, c)
  OBVIOUS
<1>5. \A t : ReadAll(t) = Fold(turn, Closed(<<>>), t)
  BY DEF ReadAll
<1> HIDE DEF turn
<1>6. /\ Fold(turn, Closed(<<>>), <<>>) = Closed(<<>>)
      /\ \A t \in Seq(Chars) : Fold(turn, Closed(<<>>), t) \in Reading
      /\ \A t \in Seq(Chars), c \in Chars :
           Fold(turn, Closed(<<>>), Append(t, c)) = turn[Fold(turn, Closed(<<>>), t)][c]
  BY <1>1, <1>3, FoldLaws
<1> QED BY <1>0, <1>4, <1>5, <1>6, Zenon DEF Text

\* Reading an escaped character.
LEMMA ReadEscaped ==
  ASSUME NEW t \in Text, NEW v \in Text, ReadAll(t) = Closed(v), NEW c \in Chars
  PROVE  /\ ReadAll(t \o Escaped(c)) = Closed(Append(v, c))
         /\ \A y \in Prefixes(Escaped(c)) :
              ReadAll(t \o y).open \/ y = <<>> \/ y = Escaped(c)
<1>0. Closed(v).value = v /\ ~Closed(v).open /\ Closed(v).ok
  BY DEF Closed
<1>1. CASE c \in Clean /\ c # Backslash /\ Escaped(c) = <<c>>
  <2>1. ReadAll(Append(t, c)) = ReadChar(Closed(v), c)
    BY ReadSteps, Zenon
  <2>2. ReadChar(Closed(v), c) = [value |-> Append(v, c), open |-> FALSE, ok |-> TRUE]
    BY <1>0, <1>1, Zenon DEF ReadChar, Closed
  <2>3. t \o <<c>> = Append(t, c)
    BY DEF Text
  <2>4. \A y \in Prefixes(<<c>>) : y = <<>> \/ y = <<c>>
    <3>1. <<c>> = Append(<<>>, c) /\ <<>> \in Seq(Chars)
      OBVIOUS
    <3>2. \A y \in Prefixes(<<>>) : y = <<>>
      BY DEF Prefixes
    <3> QED BY <3>1, <3>2, PrefixOfAppend
  <2> QED BY <1>1, <2>1, <2>2, <2>3, <2>4, Zenon DEF Closed
<1>2. ASSUME NEW m \in Escapes, Escaped(c) = <<Backslash, m>>, Unescaped(m) = c
      PROVE  /\ ReadAll(t \o Escaped(c)) = Closed(Append(v, c))
             /\ \A y \in Prefixes(Escaped(c)) : ReadAll(t \o y).open \/ y = <<>> \/ y = Escaped(c)
  <2> DEFINE opened == [value |-> v, open |-> TRUE, ok |-> TRUE]
  <2>1. Backslash \in Chars /\ m \in Chars
    BY <1>2, Marks DEF Escapes
  <2>2. Append(t, Backslash) \in Text /\ t \o <<Backslash>> = Append(t, Backslash)
        /\ t \o <<Backslash, m>> = Append(Append(t, Backslash), m)
    BY <2>1 DEF Text
  <2>3. ReadAll(Append(t, Backslash)) = opened
    <3>1. ReadAll(Append(t, Backslash)) = ReadChar(Closed(v), Backslash)
      BY <2>1, ReadSteps, Zenon
    <3>2. ReadChar(Closed(v), Backslash) = opened
      BY <1>0, Zenon DEF ReadChar
    <3> QED BY <3>1, <3>2
  <2>4. ReadAll(Append(Append(t, Backslash), m)) = Closed(Append(v, c))
    <3>1. ReadAll(Append(Append(t, Backslash), m)) = ReadChar(opened, m)
      BY <2>1, <2>2, <2>3, ReadSteps, Zenon
    <3>2. opened.open /\ opened.value = v /\ opened.ok
      OBVIOUS
    <3>3. ReadChar(opened, m) = [value |-> Append(opened.value, Unescaped(m)), open |-> FALSE, ok |-> opened.ok]
      <4> HIDE DEF opened
      <4> QED BY <1>2, <3>2, Zenon DEF ReadChar, Escapes
    <3> QED BY <1>2, <3>1, <3>2, <3>3 DEF Closed
  <2>5. \A y \in Prefixes(<<Backslash, m>>) : y = <<>> \/ y = <<Backslash>> \/ y = <<Backslash, m>>
    <3>1. <<Backslash, m>> = Append(<<Backslash>>, m) /\ <<Backslash>> = Append(<<>>, Backslash)
          /\ <<>> \in Seq(Chars) /\ <<Backslash>> \in Seq(Chars)
      BY <2>1
    <3>2. \A y \in Prefixes(<<>>) : y = <<>>
      BY DEF Prefixes
    <3> QED BY <2>1, <3>1, <3>2, PrefixOfAppend
  <2>6. opened.open
    OBVIOUS
  <2> HIDE DEF opened
  <2> QED BY <1>2, <2>2, <2>3, <2>4, <2>5, <2>6, Zenon
<1> QED BY <1>1, <1>2, EscapedForms

\* Reading an escaped value, or a beginning of it.
ReadsBack(v) ==
  /\ ReadAll(escapeValue(v)) = Closed(v)
  /\ \A x \in Prefixes(escapeValue(v)) :
       ReadAll(x).open \/ \E w \in Prefixes(v) : ReadAll(x) = Closed(w)

\* Every value is read back so.
LEMMA ReadEscapedValue ==
  ASSUME NEW v \in Text
  PROVE  ReadsBack(v)
<1> DEFINE Good == {u \in Text : ReadsBack(u)}
<1>1. <<>> \in Good
  <2>1. <<>> \in Text /\ escapeValue(<<>>) = <<>> /\ ReadAll(<<>>) = Closed(<<>>)
    BY EscapeSteps, ReadSteps DEF Text
  <2>2. \A x \in Prefixes(<<>>) : x = <<>>
    BY EmptyPrefixes
  <2>3. <<>> \in Prefixes(<<>>)
    BY EmptyPrefixes
  <2>4. ReadsBack(<<>>)
    BY <2>1, <2>2, <2>3, Zenon DEF ReadsBack
  <2> QED BY <2>1, <2>4
<1>2. ASSUME NEW u \in Seq(Chars), u \in Good, NEW c \in Chars PROVE Append(u, c) \in Good
  <2>1. u \in Text /\ ReadsBack(u) /\ Append(u, c) \in Text
    BY <1>2 DEF Text
  <2>2. escapeValue(Append(u, c)) = escapeValue(u) \o Escaped(c)
        /\ escapeValue(u) \in Text /\ Escaped(c) \in Text
    BY <1>2, <2>1, EscapeSteps, EscapedClean
  <2>3. ReadAll(escapeValue(u) \o Escaped(c)) = Closed(Append(u, c))
        /\ \A y \in Prefixes(Escaped(c)) :
             ReadAll(escapeValue(u) \o y).open \/ y = <<>> \/ y = Escaped(c)
    <3>1. ReadAll(escapeValue(u)) = Closed(u)
      BY <2>1 DEF ReadsBack
    <3> QED BY <1>2, <2>1, <2>2, <3>1, ReadEscaped
  <2>4. ASSUME NEW w \in Prefixes(u) PROVE w \in Prefixes(Append(u, c))
    <3>1. \A x \in Prefixes(u) : x \in Prefixes(Append(u, c))
      BY <1>2, PrefixOfAppend
    <3> QED BY <2>4, <3>1
  <2>5. ASSUME NEW x \in Prefixes(escapeValue(u) \o Escaped(c))
        PROVE  ReadAll(x).open \/ \E w \in Prefixes(Append(u, c)) : ReadAll(x) = Closed(w)
    <3>1. CASE x \in Prefixes(escapeValue(u))
      BY <2>1, <2>4, <3>1, Zenon DEF ReadsBack
    <3>2. ASSUME NEW y \in Prefixes(Escaped(c)), x = escapeValue(u) \o y
          PROVE  ReadAll(x).open \/ \E w \in Prefixes(Append(u, c)) : ReadAll(x) = Closed(w)
      <4>1. CASE y = <<>>
        <5>1. x = escapeValue(u)
          BY <2>2, <3>2, <4>1 DEF Text
        <5>2. ReadAll(x) = Closed(u) /\ u \in Prefixes(u)
          BY <1>2, <2>1, <5>1, PrefixEnds DEF ReadsBack
        <5> QED BY <2>4, <5>2
      <4>2. CASE y = Escaped(c)
        <5>1. Append(u, c) \in Prefixes(Append(u, c))
          BY <2>1, PrefixEnds DEF Text
        <5> QED BY <2>3, <3>2, <4>2, <5>1, Zenon
      <4> QED BY <2>3, <3>2, <4>1, <4>2, Zenon
    <3> QED BY <2>2, <2>5, <3>1, <3>2, PrefixOfConcat DEF Text
  <2>6. ReadsBack(Append(u, c))
    BY <2>2, <2>3, <2>5, Zenon DEF ReadsBack
  <2> QED BY <2>1, <2>6
<1> HIDE DEF Good
<1>3. Seq(Chars) \subseteq Good
  BY <1>1, <1>2, SequenceInduction
<1> QED BY <1>3 DEF Good, Text

\* A field gives back its value, and a beginning of a field that can be read a
\* beginning of it.
LEMMA UnescapeField ==
  ASSUME NEW v \in Text
  PROVE  /\ unescapeValue(escapeValue(v)).ok /\ unescapeValue(escapeValue(v)).value = v
         /\ \A x \in Prefixes(escapeValue(v)) :
              unescapeValue(x).ok => unescapeValue(x).value \in Prefixes(v)
<1>1. ReadsBack(v)
  BY ReadEscapedValue
<1>2. \A t : unescapeValue(t).value = ReadAll(t).value
             /\ (unescapeValue(t).ok <=> (ReadAll(t).ok /\ ~ReadAll(t).open))
  BY ReadSteps
<1>3. \A w : Closed(w).value = w /\ Closed(w).ok /\ ~Closed(w).open
  BY DEF Closed
<1>4. ASSUME NEW x \in Prefixes(escapeValue(v)), unescapeValue(x).ok
      PROVE  unescapeValue(x).value \in Prefixes(v)
  <2>1. ~ReadAll(x).open
    BY <1>2, <1>4, Zenon
  <2>2. PICK w \in Prefixes(v) : ReadAll(x) = Closed(w)
    BY <1>1, <1>4, <2>1, Zenon DEF ReadsBack
  <2>3. unescapeValue(x).value = w
    BY <1>2, <1>3, <2>2, Zenon
  <2> QED BY <2>2, <2>3
<1>5. unescapeValue(escapeValue(v)).ok /\ unescapeValue(escapeValue(v)).value = v
  BY <1>1, <1>2, <1>3, Zenon DEF ReadsBack
<1> QED BY <1>4, <1>5

-----------------------------------------------------------------------------
(* Cutting a text                                                          *)

\* Cut, character by character.
LEMMA CutSteps ==
  ASSUME NEW mark \in Chars
  PROVE  /\ Cut(<<>>, mark) = [parts |-> <<>>, rest |-> <<>>]
         /\ \A t \in Text : Cut(t, mark).parts \in Seq(Text) /\ Cut(t, mark).rest \in Text
         /\ \A t \in Text, c \in Chars :
              Cut(Append(t, c), mark) =
                IF c = mark THEN [parts |-> Append(Cut(t, mark).parts, Cut(t, mark).rest), rest |-> <<>>]
                ELSE [parts |-> Cut(t, mark).parts, rest |-> Append(Cut(t, mark).rest, c)]
<1> DEFINE S == [parts : Seq(Text), rest : Text]
           first == [parts |-> <<>>, rest |-> <<>>]
           next(s, c) == IF c = mark THEN [parts |-> Append(s.parts, s.rest), rest |-> <<>>]
                         ELSE [parts |-> s.parts, rest |-> Append(s.rest, c)]
           turn == [s \in S |-> [c \in Chars |-> next(s, c)]]
<1>1. first \in S
  BY DEF Text
<1>2. ASSUME NEW s \in S, NEW c \in Chars PROVE next(s, c) \in S
  <2>1. s.parts \in Seq(Text) /\ s.rest \in Text
    BY <1>2
  <2>2. Append(s.parts, s.rest) \in Seq(Text) /\ Append(s.rest, c) \in Text /\ <<>> \in Text
    BY <1>2, <2>1 DEF Text
  <2>3. CASE c = mark
    BY <2>2, <2>3
  <2>4. CASE c # mark
    BY <2>1, <2>2, <2>4
  <2> QED BY <2>3, <2>4
<1>3. \A t : Cut(t, mark) = Fold(turn, first, t)
  BY DEF Cut
<1> HIDE DEF next
<1>4. turn \in Turns(S, Chars)
  BY <1>2 DEF Turns
<1>5. \A s \in S, c \in Chars : turn[s][c] = next(s, c)
  OBVIOUS
<1>6. \A s \in S : s.parts \in Seq(Text) /\ s.rest \in Text
  OBVIOUS
<1> HIDE DEF turn, S, first
<1>7. /\ Fold(turn, first, <<>>) = first
      /\ \A t \in Seq(Chars) : Fold(turn, first, t) \in S
      /\ \A t \in Seq(Chars), c \in Chars : Fold(turn, first, Append(t, c)) = turn[Fold(turn, first, t)][c]
  BY <1>1, <1>4, FoldLaws
<1>8. \A t \in Text, c \in Chars : Cut(Append(t, c), mark) = next(Cut(t, mark), c)
  BY <1>3, <1>5, <1>7, Zenon DEF Text
<1>9. \A t \in Text : Cut(t, mark).parts \in Seq(Text) /\ Cut(t, mark).rest \in Text
  BY <1>3, <1>6, <1>7, Zenon DEF Text
<1> QED BY <1>3, <1>7, <1>8, <1>9, Zenon DEF first, next

\* A beginning of two texts.
LEMMA PrefixOfTexts ==
  \A s \in Text, t \in Text : \A x \in Prefixes(s \o t) :
    x \in Prefixes(s) \/ \E y \in Prefixes(t) : x = s \o y
<1> TAKE s \in Text, t \in Text
<1> QED BY PrefixOfEither DEF Text

\* Texts without the mark.
Without(mark) == Seq(Chars \ {mark})

\* A text without the mark is added to the rest.
LEMMA CutPart ==
  ASSUME NEW mark \in Chars, NEW t \in Text, NEW y \in Without(mark)
  PROVE  Cut(t \o y, mark) = [parts |-> Cut(t, mark).parts, rest |-> Cut(t, mark).rest \o y]
<1> DEFINE Good == {u \in Without(mark) :
                     Cut(t \o u, mark) = [parts |-> Cut(t, mark).parts, rest |-> Cut(t, mark).rest \o u]}
<1>0. Cut(t, mark).parts \in Seq(Text) /\ Cut(t, mark).rest \in Text
  BY CutSteps
<1>1. <<>> \in Good
  <2>1. <<>> \in Without(mark) /\ t \o <<>> = t /\ Cut(t, mark).rest \o <<>> = Cut(t, mark).rest
    BY <1>0 DEF Text, Without
  <2>2. Cut(t, mark) = [parts |-> Cut(t, mark).parts, rest |-> Cut(t, mark).rest]
    <3>1. t = <<>> \/ \E s \in Text, c \in Chars : t = Append(s, c)
      <4>1. CASE t # <<>>
        <5>1. Len(t) > 0 /\ t[Len(t)] \in Chars /\ SubSeq(t, 1, Len(t) - 1) \in Seq(Chars)
              /\ t = Append(SubSeq(t, 1, Len(t) - 1), t[Len(t)])
          BY <4>1 DEF Text
        <5> QED BY <5>1 DEF Text
      <4> QED BY <4>1
    <3>2. ASSUME NEW a, NEW b, Cut(t, mark) = [parts |-> a, rest |-> b]
          PROVE  Cut(t, mark) = [parts |-> Cut(t, mark).parts, rest |-> Cut(t, mark).rest]
      BY <3>2
    <3>3. \E a, b : Cut(t, mark) = [parts |-> a, rest |-> b]
      <4>1. CASE t = <<>>
        BY <4>1, CutSteps, Zenon
      <4>2. ASSUME NEW s \in Text, NEW c \in Chars, t = Append(s, c)
            PROVE  \E a, b : Cut(t, mark) = [parts |-> a, rest |-> b]
        <5>1. Cut(t, mark) = IF c = mark THEN [parts |-> Append(Cut(s, mark).parts, Cut(s, mark).rest), rest |-> <<>>]
                             ELSE [parts |-> Cut(s, mark).parts, rest |-> Append(Cut(s, mark).rest, c)]
          BY <4>2, CutSteps, Zenon
        <5> QED BY <5>1, Zenon
      <4> QED BY <3>1, <4>1, <4>2
    <3> QED BY <3>2, <3>3
  <2> QED BY <2>1, <2>2
<1>2. ASSUME NEW u \in Seq(Chars \ {mark}), u \in Good, NEW c \in Chars \ {mark} PROVE Append(u, c) \in Good
  <2>1. t \o u \in Text /\ t \o Append(u, c) = Append(t \o u, c) /\ Append(u, c) \in Without(mark)
    BY <1>2 DEF Text, Without
  <2>2. Cut(t \o u, mark).parts = Cut(t, mark).parts /\ Cut(t \o u, mark).rest = Cut(t, mark).rest \o u
    BY <1>2
  <2>3. Cut(Append(t \o u, c), mark)
          = [parts |-> Cut(t \o u, mark).parts, rest |-> Append(Cut(t \o u, mark).rest, c)]
    BY <1>2, <2>1, CutSteps
  <2>4. Append(Cut(t, mark).rest \o u, c) = Cut(t, mark).rest \o Append(u, c)
    <3>1. \A r \in Seq(Chars), w \in Seq(Chars), d \in Chars : Append(r \o w, d) = r \o Append(w, d)
      OBVIOUS
    <3>2. u \in Seq(Chars)
      BY <1>2
    <3> QED BY <1>0, <1>2, <3>1, <3>2 DEF Text
  <2> QED BY <2>1, <2>2, <2>3, <2>4
<1> HIDE DEF Good
<1>3. Seq(Chars \ {mark}) \subseteq Good
  BY <1>1, <1>2, SequenceInduction
<1> QED BY <1>3 DEF Good, Without

\* Parts, each ended by the mark.
Ended(parts, mark) ==
  Fold([text \in Text |-> [part \in Text |-> text \o (part \o <<mark>>)]], <<>>, parts)

\* ... one part after the other.
LEMMA EndedSteps ==
  ASSUME NEW mark \in Chars
  PROVE  /\ Ended(<<>>, mark) = <<>>
         /\ \A parts \in Seq(Text) : Ended(parts, mark) \in Text
         /\ \A parts \in Seq(Text), part \in Text :
              Ended(Append(parts, part), mark) = Ended(parts, mark) \o (part \o <<mark>>)
<1> DEFINE turn == [text \in Text |-> [part \in Text |-> text \o (part \o <<mark>>)]]
<1>1. turn \in Turns(Text, Text) /\ <<>> \in Text
  <2>1. \A text \in Text, part \in Text : text \o (part \o <<mark>>) \in Text
    BY DEF Text
  <2>2. <<>> \in Text
    BY DEF Text
  <2> QED BY <2>1, <2>2 DEF Turns
<1>2. \A parts : Ended(parts, mark) = Fold(turn, <<>>, parts)
  BY DEF Ended
<1>3. \A text \in Text, part \in Text : turn[text][part] = text \o (part \o <<mark>>)
  OBVIOUS
<1> HIDE DEF turn
<1>4. /\ Fold(turn, <<>>, <<>>) = <<>>
      /\ \A parts \in Seq(Text) : Fold(turn, <<>>, parts) \in Text
      /\ \A parts \in Seq(Text), part \in Text :
           Fold(turn, <<>>, Append(parts, part)) = turn[Fold(turn, <<>>, parts)][part]
  BY <1>1, FoldLaws
<1>5. ASSUME NEW parts \in Seq(Text), NEW part \in Text
      PROVE  Ended(Append(parts, part), mark) = Ended(parts, mark) \o (part \o <<mark>>)
  BY <1>2, <1>3, <1>4, <1>5, Zenon
<1> QED BY <1>2, <1>4, <1>5, Zenon

\* What cutting gives of a beginning of ended parts.
CutAt(parts, mark, x) ==
  \E k \in 0..Len(parts) :
    /\ Cut(x, mark).parts = SubSeq(parts, 1, k)
    /\ \/ k < Len(parts) /\ Cut(x, mark).rest \in Prefixes(parts[k + 1])
       \/ k = Len(parts) /\ Cut(x, mark).rest = <<>> /\ x = Ended(parts, mark)

\* Cutting gives the parts again, and of a beginning the first of them.
CutsBack(parts, mark) ==
  /\ Cut(Ended(parts, mark), mark) = [parts |-> parts, rest |-> <<>>]
  /\ \A x \in Prefixes(Ended(parts, mark)) : CutAt(parts, mark, x)

\* It does when no part has the mark in it.
LEMMA CutEnded ==
  ASSUME NEW mark \in Chars, NEW parts \in Seq(Without(mark))
  PROVE  CutsBack(parts, mark)
<1> DEFINE Good == {ps \in Seq(Without(mark)) : CutsBack(ps, mark)}
<1>0. \A part \in Without(mark) : part \in Text
  BY DEF Without, Text
<1>1. <<>> \in Good
  <2>1. Ended(<<>>, mark) = <<>> /\ Cut(<<>>, mark) = [parts |-> <<>>, rest |-> <<>>]
    BY EndedSteps, CutSteps
  <2>2. SubSeq(<<>>, 1, 0) = <<>> /\ Len(<<>>) = 0 /\ <<>> \in Seq(Without(mark)) /\ 0 \in 0..0
    OBVIOUS
  <2>3. CutAt(<<>>, mark, <<>>)
    <3>1. Cut(<<>>, mark).parts = <<>> /\ Cut(<<>>, mark).rest = <<>>
      BY <2>1
    <3> QED BY <2>1, <2>2, <3>1, Zenon DEF CutAt
  <2>4. CutsBack(<<>>, mark)
    BY <2>1, <2>3, EmptyPrefixes DEF CutsBack
  <2> QED BY <2>2, <2>4
<1>2. ASSUME NEW ps \in Seq(Without(mark)), ps \in Good, NEW part \in Without(mark)
      PROVE  Append(ps, part) \in Good
  <2> DEFINE more == Append(ps, part)
             text == Ended(ps, mark)
  <2>0. PICK n \in Nat : n = Len(ps)
    BY <1>2
  <2>1. CutsBack(ps, mark) /\ ps \in Seq(Text) /\ part \in Text /\ part \in Seq(Chars)
    <3>1. ps \in Seq(Text)
      BY <1>0, <1>2
    <3> QED BY <1>0, <1>2, <3>1 DEF Text
  <2>2. text \in Text /\ Ended(more, mark) = text \o Append(part, mark)
    <3>1. part \o <<mark>> = Append(part, mark)
      BY <2>1
    <3> QED BY <2>1, <3>1, EndedSteps
  <2>3. more \in Seq(Without(mark)) /\ Len(more) = n + 1 /\ more[n + 1] = part
        /\ \A k \in 0..n : SubSeq(more, 1, k) = SubSeq(ps, 1, k)
    BY <1>2, <2>0
  <2>3a. \A k \in 1..n : more[k] = ps[k]
    BY <1>2, <2>0
  <2>4. SubSeq(more, 1, n) = ps /\ SubSeq(more, 1, n + 1) = more
    BY <1>2, <2>0, <2>3, SubSeqFull
  <2> HIDE DEF more, text
  <2>5. Cut(text, mark).parts = ps /\ Cut(text, mark).rest = <<>>
    BY <2>1 DEF CutsBack, text
  <2>6. ASSUME NEW y \in Prefixes(part)
        PROVE  Cut(text \o y, mark) = [parts |-> ps, rest |-> y]
    <3>1. part \in Seq(Chars \ {mark})
      BY <1>2 DEF Without
    <3>2. y \in Without(mark) /\ <<>> \o y = y
      BY <2>6, <3>1, PrefixType DEF Without
    <3> QED BY <2>2, <2>5, <3>2, CutPart
  <2>7. Cut(text \o Append(part, mark), mark) = [parts |-> more, rest |-> <<>>]
    <3>1. text \o Append(part, mark) = Append(text \o part, mark) /\ text \o part \in Text
      BY <2>1, <2>2 DEF Text
    <3>2. Cut(text \o part, mark) = [parts |-> ps, rest |-> part]
      BY <2>1, <2>6, PrefixEnds
    <3>3. Cut(text \o part, mark).parts = ps /\ Cut(text \o part, mark).rest = part
      BY <3>2
    <3> QED BY <3>1, <3>3, CutSteps DEF more
  <2>8. ASSUME NEW x \in Prefixes(text) PROVE CutAt(more, mark, x)
    <3>1. PICK k \in 0..n :
            /\ Cut(x, mark).parts = SubSeq(ps, 1, k)
            /\ \/ k < n /\ Cut(x, mark).rest \in Prefixes(ps[k + 1])
               \/ k = n /\ Cut(x, mark).rest = <<>> /\ x = text
      BY <2>0, <2>1, <2>8, Zenon DEF CutsBack, CutAt, text
    <3>2. k < n + 1 /\ k \in 0..(n + 1)
      BY <3>1
    <3>3. Cut(x, mark).rest \in Prefixes(more[k + 1])
      <4>1. CASE k < n /\ Cut(x, mark).rest \in Prefixes(ps[k + 1])
        <5>1. k + 1 \in 1..n
          BY <3>1, <4>1
        <5> QED BY <2>3a, <4>1, <5>1
      <4>2. CASE k = n /\ Cut(x, mark).rest = <<>>
        BY <2>1, <2>3, <4>2, PrefixEnds
      <4> QED BY <3>1, <4>1, <4>2
    <3>4. Cut(x, mark).parts = SubSeq(more, 1, k)
      BY <2>3, <3>1
    <3> QED BY <2>3, <3>2, <3>3, <3>4, Zenon DEF CutAt
  <2>9. ASSUME NEW y \in Prefixes(Append(part, mark)) PROVE CutAt(more, mark, text \o y)
    <3>1. CASE y \in Prefixes(part)
      <4>1. Cut(text \o y, mark).parts = ps /\ Cut(text \o y, mark).rest = y
        BY <2>6, <3>1
      <4>2. n \in 0..(n + 1) /\ n < n + 1
        BY <2>0
      <4> QED BY <2>3, <2>4, <3>1, <4>1, <4>2, Zenon DEF CutAt
    <3>2. CASE y = Append(part, mark)
      <4>1. Cut(text \o y, mark).parts = more /\ Cut(text \o y, mark).rest = <<>>
        BY <2>7, <3>2
      <4>2. n + 1 \in 0..(n + 1)
        BY <2>0
      <4>3. text \o y = Ended(more, mark)
        BY <2>2, <3>2
      <4> QED BY <2>3, <2>4, <4>1, <4>2, <4>3, Zenon DEF CutAt
    <3> QED BY <2>1, <2>9, <3>1, <3>2, PrefixOfAppend
  <2>10. ASSUME NEW x \in Prefixes(Ended(more, mark)) PROVE CutAt(more, mark, x)
    <3>1. Append(part, mark) \in Seq(Chars) /\ text \in Seq(Chars)
      BY <2>1, <2>2 DEF Text
    <3>2. x \in Prefixes(text) \/ \E y \in Prefixes(Append(part, mark)) : x = text \o y
      <4>1. x \in Prefixes(text \o Append(part, mark))
        BY <2>2, <2>10
      <4> QED BY <3>1, <4>1, PrefixOfTexts, Zenon DEF Text
    <3> QED BY <2>8, <2>9, <3>2, Zenon
  <2>11. CutsBack(more, mark)
    BY <2>2, <2>7, <2>10, Zenon DEF CutsBack
  <2> QED BY <2>3, <2>11 DEF more
<1> HIDE DEF Good
<1>3. Seq(Without(mark)) \subseteq Good
  BY <1>1, <1>2, SequenceInduction
<1> QED BY <1>3 DEF Good

-----------------------------------------------------------------------------
(* The line of an entry                                                    *)

\* The fields of an entry, as they are written.
Fields(e) == << <<e.kind>>, escapeValue(e.peer), escapeValue(e.item.id),
                escapeValue(e.item.endTime), escapeValue(e.item.parental) >>

\* The line without its end.
Line(e) == <<e.kind, Tab>> \o escapeValue(e.peer) \o <<Tab>> \o escapeValue(e.item.id)
             \o <<Tab>> \o escapeValue(e.item.endTime) \o <<Tab>> \o escapeValue(e.item.parental)

\* The fields are clean.
LEMMA FieldTypes ==
  ASSUME NEW e \in Entry
  PROVE  /\ e.kind \in Kinds /\ e.peer \in Text
         /\ e.item.id \in Text /\ e.item.endTime \in Text /\ e.item.parental \in Text
         /\ <<e.kind>> \in Seq(Clean) /\ escapeValue(e.peer) \in Seq(Clean)
         /\ escapeValue(e.item.id) \in Seq(Clean) /\ escapeValue(e.item.endTime) \in Seq(Clean)
         /\ escapeValue(e.item.parental) \in Seq(Clean)
         /\ Fields(e) \in Seq(Seq(Clean)) /\ Len(Fields(e)) = 5
<1>1. /\ e.kind \in Kinds /\ e.peer \in Text
      /\ e.item.id \in Text /\ e.item.endTime \in Text /\ e.item.parental \in Text
  <2>1. e.kind \in Kinds /\ e.peer \in Text /\ e.item \in Item
    BY DEF Entry
  <2> QED BY <2>1 DEF Item
<1>2. e.kind \in Clean
  BY <1>1, Marks DEF Kinds, Clean
<1>3. /\ escapeValue(e.peer) \in Seq(Clean) /\ escapeValue(e.item.id) \in Seq(Clean)
      /\ escapeValue(e.item.endTime) \in Seq(Clean) /\ escapeValue(e.item.parental) \in Seq(Clean)
  BY <1>1, EscapeClean
<1>4. <<e.kind>> \in Seq(Clean)
  BY <1>2
<1>5. Fields(e) \in Seq(Seq(Clean)) /\ Len(Fields(e)) = 5
  BY <1>3, <1>4 DEF Fields
<1> QED BY <1>1, <1>3, <1>4, <1>5

\* Concatenation is associative.
LEMMA Associative ==
  \A s \in Text, t \in Text, u \in Text : (s \o t) \o u = s \o (t \o u) /\ s \o t \in Text
BY DEF Text

\* The same fields, as what marks end: all but the last, and all.
LEMMA LineFields ==
  ASSUME NEW e \in Entry
  PROVE  /\ Line(e) = Ended(SubSeq(Fields(e), 1, 4), Tab) \o Fields(e)[5]
         /\ Ended(Fields(e), Tab) = Append(Line(e), Tab)
         /\ Line(e) \in Seq(Clean \cup {Tab})
         /\ \A text \in Text : appendItemLine(text, e) = text \o (Line(e) \o <<Newline>>)
<1> DEFINE f1 == <<e.kind>>
           f2 == escapeValue(e.peer)
           f3 == escapeValue(e.item.id)
           f4 == escapeValue(e.item.endTime)
           f5 == escapeValue(e.item.parental)
           tab == <<Tab>>
           a1 == <<e.kind, Tab>>
           a2 == a1 \o f2
           a3 == a2 \o tab
           a4 == a3 \o f3
           a5 == a4 \o tab
           a6 == a5 \o f4
           a7 == a6 \o tab
           a8 == a7 \o f5
<1>1. Fields(e) = <<f1, f2, f3, f4, f5>> /\ Line(e) = a8
  BY DEF Fields, Line
<1>2. \A text : appendItemLine(text, e)
          = (((((((((text \o a1) \o f2) \o tab) \o f3) \o tab) \o f4) \o tab) \o f5) \o <<Newline>>)
  BY Zenon DEF appendItemLine
<1>3. /\ f1 \in Seq(Clean) /\ f2 \in Seq(Clean) /\ f3 \in Seq(Clean)
      /\ f4 \in Seq(Clean) /\ f5 \in Seq(Clean)
  BY FieldTypes
<1>4. Seq(Clean) \subseteq Text /\ Tab \in Chars /\ e.kind \in Chars
  BY FieldTypes, Marks DEF Clean, Text, Kinds
<1>5. tab \in Text /\ a1 \in Text /\ a1 = f1 \o tab /\ <<>> \o (f1 \o tab) = f1 \o tab
  BY <1>4 DEF Text
<1>6. tab \in Seq(Clean \cup {Tab}) /\ tab = <<Tab>>
  OBVIOUS
<1>d2. a2 = a1 \o f2
  OBVIOUS
<1>d3. a3 = a2 \o tab
  OBVIOUS
<1>d4. a4 = a3 \o f3
  OBVIOUS
<1>d5. a5 = a4 \o tab
  OBVIOUS
<1>d6. a6 = a5 \o f4
  OBVIOUS
<1>d7. a7 = a6 \o tab
  OBVIOUS
<1>d8. a8 = a7 \o f5
  OBVIOUS
<1> HIDE DEF f1, f2, f3, f4, f5, tab, a1, a2, a3, a4, a5, a6, a7, a8
<1>t0. tab \in Text
  BY <1>5
<1>t1. a1 \in Text
  BY <1>5
<1>f1. f1 \in Text
  BY <1>3, <1>4
<1>f2. f2 \in Text
  BY <1>3, <1>4
<1>f3. f3 \in Text
  BY <1>3, <1>4
<1>f4. f4 \in Text
  BY <1>3, <1>4
<1>f5. f5 \in Text
  BY <1>3, <1>4
<1>t2. a2 \in Text
  BY <1>d2, <1>t1, <1>f2, Associative, Zenon
<1>t3. a3 \in Text
  BY <1>d3, <1>t2, <1>t0, Associative, Zenon
<1>t4. a4 \in Text
  BY <1>d4, <1>t3, <1>f3, Associative, Zenon
<1>t5. a5 \in Text
  BY <1>d5, <1>t4, <1>t0, Associative, Zenon
<1>t6. a6 \in Text
  BY <1>d6, <1>t5, <1>f4, Associative, Zenon
<1>t7. a7 \in Text
  BY <1>d7, <1>t6, <1>t0, Associative, Zenon
<1>t8. a8 \in Text
  BY <1>d8, <1>t7, <1>f5, Associative, Zenon
<1>7. Ended(<<f1>>, Tab) = a1
  <2>1. <<f1>> = Append(<<>>, f1) /\ <<>> \in Seq(Text)
    OBVIOUS
  <2>2. Ended(Append(<<>>, f1), Tab) = Ended(<<>>, Tab) \o (f1 \o <<Tab>>) /\ Ended(<<>>, Tab) = <<>>
    BY <1>4, <1>f1, <2>1, EndedSteps
  <2> QED BY <1>5, <1>6, <2>1, <2>2
<1>8. Ended(<<f1, f2>>, Tab) = a3
  <2>1. <<f1, f2>> = Append(<<f1>>, f2) /\ <<f1>> \in Seq(Text)
    BY <1>f1
  <2>2. Ended(Append(<<f1>>, f2), Tab) = Ended(<<f1>>, Tab) \o (f2 \o <<Tab>>)
    BY <1>4, <1>f2, <2>1, EndedSteps
  <2>3. a1 \o (f2 \o tab) = (a1 \o f2) \o tab
    BY <1>t1, <1>f2, <1>t0, Associative, Zenon
  <2> QED BY <1>6, <1>7, <1>d2, <1>d3, <2>1, <2>2, <2>3, Zenon
<1>9. Ended(<<f1, f2, f3>>, Tab) = a5
  <2>1. <<f1, f2, f3>> = Append(<<f1, f2>>, f3) /\ <<f1, f2>> \in Seq(Text)
    BY <1>f1, <1>f2
  <2>2. Ended(Append(<<f1, f2>>, f3), Tab) = Ended(<<f1, f2>>, Tab) \o (f3 \o <<Tab>>)
    BY <1>4, <1>f3, <2>1, EndedSteps
  <2>3. a3 \o (f3 \o tab) = (a3 \o f3) \o tab
    BY <1>t3, <1>f3, <1>t0, Associative, Zenon
  <2> QED BY <1>6, <1>8, <1>d4, <1>d5, <2>1, <2>2, <2>3, Zenon
<1>10. Ended(<<f1, f2, f3, f4>>, Tab) = a7
  <2>1. <<f1, f2, f3, f4>> = Append(<<f1, f2, f3>>, f4) /\ <<f1, f2, f3>> \in Seq(Text)
    BY <1>f1, <1>f2, <1>f3
  <2>2. Ended(Append(<<f1, f2, f3>>, f4), Tab) = Ended(<<f1, f2, f3>>, Tab) \o (f4 \o <<Tab>>)
    BY <1>4, <1>f4, <2>1, EndedSteps
  <2>3. a5 \o (f4 \o tab) = (a5 \o f4) \o tab
    BY <1>t5, <1>f4, <1>t0, Associative, Zenon
  <2> QED BY <1>6, <1>9, <1>d6, <1>d7, <2>1, <2>2, <2>3, Zenon
<1>11. Ended(<<f1, f2, f3, f4, f5>>, Tab) = a8 \o tab
  <2>1. <<f1, f2, f3, f4, f5>> = Append(<<f1, f2, f3, f4>>, f5) /\ <<f1, f2, f3, f4>> \in Seq(Text)
    BY <1>f1, <1>f2, <1>f3, <1>f4
  <2>2. Ended(Append(<<f1, f2, f3, f4>>, f5), Tab) = Ended(<<f1, f2, f3, f4>>, Tab) \o (f5 \o <<Tab>>)
    BY <1>4, <1>f5, <2>1, EndedSteps
  <2>3. a7 \o (f5 \o tab) = (a7 \o f5) \o tab
    BY <1>t7, <1>f5, <1>t0, Associative, Zenon
  <2> QED BY <1>6, <1>10, <1>d8, <2>1, <2>2, <2>3, Zenon
<1>12. SubSeq(Fields(e), 1, 4) = <<f1, f2, f3, f4>> /\ Fields(e)[5] = f5
  <2> DEFINE g == <<f1, f2, f3, f4, f5>>
             h == <<f1, f2, f3, f4>>
  <2>1. g \in Seq(Text) /\ Len(g) = 5 /\ h \in Seq(Text) /\ Len(h) = 4 /\ g[5] = f5
        /\ \A k \in 1..4 : h[k] = g[k]
    BY <1>f1, <1>f2, <1>f3, <1>f4, <1>f5
  <2> HIDE DEF g, h
  <2>2. SubSeq(g, 1, 4) \in Seq(Text) /\ Len(SubSeq(g, 1, 4)) = 4 /\ \A k \in 1..4 : SubSeq(g, 1, 4)[k] = g[k]
    <3>1. 4 \in 0..Len(g)
      BY <2>1
    <3> QED BY <2>1, <3>1, FirstElements
  <2>3. SubSeq(g, 1, 4) = h
    BY <2>1, <2>2, SeqEqual
  <2> QED BY <1>1, <2>1, <2>3 DEF g, h
<1>13. Line(e) \in Seq(Clean \cup {Tab})
  <2> DEFINE C == Clean \cup {Tab}
  <2>1. \A s \in Seq(C), t \in Seq(C) : s \o t \in Seq(C)
    OBVIOUS
  <2>2. Seq(Clean) \subseteq Seq(C)
    OBVIOUS
  <2>3. /\ f1 \in Seq(C) /\ f2 \in Seq(C) /\ f3 \in Seq(C) /\ f4 \in Seq(C) /\ f5 \in Seq(C) /\ tab \in Seq(C)
    BY <1>3, <1>6, <2>2
  <2> HIDE DEF C
  <2>4. a3 \in Seq(C)
    BY <1>5, <1>d2, <1>d3, <2>1, <2>3, Zenon
  <2>5. a5 \in Seq(C)
    BY <1>d4, <1>d5, <2>1, <2>3, <2>4, Zenon
  <2>6. a7 \in Seq(C)
    BY <1>d6, <1>d7, <2>1, <2>3, <2>5, Zenon
  <2>7. a8 \in Seq(C)
    BY <1>d8, <2>1, <2>3, <2>6, Zenon
  <2> QED BY <1>1, <2>7 DEF C
<1>14. ASSUME NEW text \in Text PROVE appendItemLine(text, e) = text \o (Line(e) \o <<Newline>>)
  <2>1. <<Newline>> \in Text
    BY Marks DEF Text
  <2>2. (text \o a1) \o f2 = text \o a2
    BY <1>14, <1>d2, <1>t1, <1>f2, Associative, Zenon
  <2>3. (text \o a2) \o tab = text \o a3
    BY <1>14, <1>d3, <1>t2, <1>t0, Associative, Zenon
  <2>4. (text \o a3) \o f3 = text \o a4
    BY <1>14, <1>d4, <1>t3, <1>f3, Associative, Zenon
  <2>5. (text \o a4) \o tab = text \o a5
    BY <1>14, <1>d5, <1>t4, <1>t0, Associative, Zenon
  <2>6. (text \o a5) \o f4 = text \o a6
    BY <1>14, <1>d6, <1>t5, <1>f4, Associative, Zenon
  <2>7. (text \o a6) \o tab = text \o a7
    BY <1>14, <1>d7, <1>t6, <1>t0, Associative, Zenon
  <2>8. (text \o a7) \o f5 = text \o a8
    BY <1>14, <1>d8, <1>t7, <1>f5, Associative, Zenon
  <2>9. (text \o a8) \o <<Newline>> = text \o (a8 \o <<Newline>>)
    BY <1>14, <1>t8, <2>1, Associative, Zenon
  <2> QED BY <1>1, <1>2, <2>2, <2>3, <2>4, <2>5, <2>6, <2>7, <2>8, <2>9
<1>15. a8 \o tab = Append(a8, Tab)
  BY <1>t8, <1>6 DEF Text
<1> QED BY <1>1, <1>d8, <1>10, <1>11, <1>12, <1>13, <1>14, <1>15, Zenon

\* What is left of an entry whose line was torn.
Torn(d, e) ==
  /\ d \in Entry
  /\ d.kind = e.kind /\ d.peer = e.peer /\ d.item.id = e.item.id
  /\ d.item.endTime \in Prefixes(e.item.endTime)
  /\ d.item.parental \in Prefixes(e.item.parental)

\* The fields of a beginning of a line: the first ones, and of the last a beginning.
LEMMA SplitLine ==
  ASSUME NEW e \in Entry, NEW x \in Prefixes(Line(e))
  PROVE  \E k \in 0..4 : \E rest \in Prefixes(Fields(e)[k + 1]) :
           splitFields(x) = Append(SubSeq(Fields(e), 1, k), rest)
<1>1. Fields(e) \in Seq(Without(Tab)) /\ Len(Fields(e)) = 5 /\ Tab \in Chars
  BY FieldTypes, Marks DEF Without, Clean
<1>2. Line(e) \in Seq(Clean \cup {Tab}) /\ Ended(Fields(e), Tab) = Append(Line(e), Tab)
  BY LineFields
<1>3. Line(e) \in Seq(Chars) /\ Append(Line(e), Tab) \in Seq(Chars)
  BY <1>1, <1>2 DEF Clean
<1>4. x \in Prefixes(Append(Line(e), Tab)) /\ Len(x) <= Len(Line(e))
  BY <1>1, <1>3, PrefixOfAppend, PrefixType
<1>5. CutAt(Fields(e), Tab, x)
  BY <1>1, <1>2, <1>4, CutEnded, Zenon DEF CutsBack
<1>6. PICK k \in 0..5 :
        /\ Cut(x, Tab).parts = SubSeq(Fields(e), 1, k)
        /\ \/ k < 5 /\ Cut(x, Tab).rest \in Prefixes(Fields(e)[k + 1])
           \/ k = 5 /\ Cut(x, Tab).rest = <<>> /\ x = Append(Line(e), Tab)
  BY <1>1, <1>2, <1>5, Zenon DEF CutAt
<1>7. x # Append(Line(e), Tab)
  BY <1>3, <1>4
<1>8. k \in 0..4
  BY <1>6, <1>7
<1>9. Cut(x, Tab).rest \in Prefixes(Fields(e)[k + 1])
  BY <1>6, <1>7
<1> QED BY <1>6, <1>8, <1>9, Zenon DEF splitFields

\* The fields of a whole line.
LEMMA SplitWhole ==
  ASSUME NEW e \in Entry
  PROVE  splitFields(Line(e)) = Fields(e)
<1>1. Fields(e) \in Seq(Without(Tab)) /\ Len(Fields(e)) = 5 /\ Tab \in Chars
  BY FieldTypes, Marks DEF Without, Clean
<1>2. 4 \in 0..Len(Fields(e)) /\ Fields(e)[5] \in Without(Tab)
  <2>1. 4 \in 0..Len(Fields(e)) /\ 5 \in 1..Len(Fields(e))
    BY <1>1
  <2> QED BY <1>1, <2>1, ElementOfSeq
<1>0. PICK first : first = SubSeq(Fields(e), 1, 4)
  OBVIOUS
<1>3. first \in Seq(Without(Tab)) /\ Len(first) = 4 /\ \A i \in 1..4 : first[i] = Fields(e)[i]
  BY <1>0, <1>1, <1>2, FirstElements
<1>4. Line(e) = Ended(first, Tab) \o Fields(e)[5]
  BY <1>0, LineFields
<1>5. Cut(Ended(first, Tab), Tab) = [parts |-> first, rest |-> <<>>]
  BY <1>1, <1>3, CutEnded, Zenon DEF CutsBack
<1>6. Ended(first, Tab) \in Text
  <2>1. first \in Seq(Text)
    BY <1>3 DEF Without, Text
  <2> QED BY <1>1, <2>1, EndedSteps
<1>7. Cut(Line(e), Tab) = [parts |-> first, rest |-> <<>> \o Fields(e)[5]]
  <2>1. Cut(Ended(first, Tab), Tab).parts = first /\ Cut(Ended(first, Tab), Tab).rest = <<>>
    BY <1>5
  <2> QED BY <1>1, <1>2, <1>4, <1>6, <2>1, CutPart
<1>8. <<>> \o Fields(e)[5] = Fields(e)[5]
  BY <1>2 DEF Without
<1>9. splitFields(Line(e)) = Append(first, Fields(e)[5])
  BY <1>7, <1>8 DEF splitFields
<1>10. Append(first, Fields(e)[5]) \in Seq(Without(Tab)) /\ Len(Append(first, Fields(e)[5])) = 5
       /\ \A i \in 1..5 : Append(first, Fields(e)[5])[i] = Fields(e)[i]
  <2>1. \A f \in Seq(Without(Tab)), last \in Without(Tab) : Append(f, last) \in Seq(Without(Tab))
          /\ Len(Append(f, last)) = Len(f) + 1 /\ Append(f, last)[Len(f) + 1] = last
          /\ \A i \in 1..Len(f) : Append(f, last)[i] = f[i]
    BY AppendProperties
  <2>2. \A i \in 1..5 : i = 5 \/ i \in 1..4
    OBVIOUS
  <2> DEFINE all == Append(first, Fields(e)[5])
  <2>3. all \in Seq(Without(Tab)) /\ Len(all) = Len(first) + 1 /\ all[Len(first) + 1] = Fields(e)[5]
        /\ \A i \in 1..Len(first) : all[i] = first[i]
    BY <1>2, <1>3, <2>1, Zenon
  <2> HIDE DEF all
  <2>4. Len(first) = 4 /\ 4 + 1 = 5
    BY <1>3
  <2>5. Len(all) = 5 /\ all[5] = Fields(e)[5] /\ \A i \in 1..4 : all[i] = first[i]
    BY <2>3, <2>4, Zenon
  <2>6. \A i \in 1..5 : all[i] = Fields(e)[i]
    BY <1>3, <2>2, <2>5, Zenon
  <2> QED BY <2>3, <2>5, <2>6 DEF all
<1>11. Append(first, Fields(e)[5]) = Fields(e)
  BY <1>1, <1>10, SeqEqual
<1> QED BY <1>9, <1>11

\* The fields as decodeItem reads them.
FieldAt(fields, i) == unescapeValue(IF i <= Len(fields) THEN fields[i] ELSE <<>>)

\* decodeItem in these terms.
LEMMA Decoded ==
  ASSUME NEW line, NEW fields, splitFields(line) = fields
  PROVE  /\ decodeItem(line).ok <=> /\ FieldsOk(fields)
                                    /\ \E k \in Kinds : fields[1] = <<k>>
                                    /\ \A i \in 2..5 : FieldAt(fields, i).ok
         /\ decodeItem(line).entry
              = [kind |-> fields[1][1], peer |-> FieldAt(fields, 2).value,
                 item |-> [id |-> FieldAt(fields, 3).value, endTime |-> FieldAt(fields, 4).value,
                           parental |-> FieldAt(fields, 5).value]]
<1> DEFINE good == /\ FieldsOk(fields)
                   /\ \E k \in Kinds : fields[1] = <<k>>
                   /\ \A i \in 2..5 : FieldAt(fields, i).ok
           entry == [kind |-> fields[1][1], peer |-> FieldAt(fields, 2).value,
                     item |-> [id |-> FieldAt(fields, 3).value, endTime |-> FieldAt(fields, 4).value,
                               parental |-> FieldAt(fields, 5).value]]
<1>1. decodeItem(line) = [ok |-> good, entry |-> entry]
  BY Zenon DEF decodeItem, FieldAt
<1> HIDE DEF good, entry
<1>2. decodeItem(line).ok = good /\ decodeItem(line).entry = entry
  BY <1>1
<1> QED BY <1>2, Zenon DEF good, entry

\* One field after the other.
LEMMA FieldNames ==
  ASSUME NEW e
  PROVE  /\ Fields(e)[1] = <<e.kind>> /\ Fields(e)[2] = escapeValue(e.peer)
         /\ Fields(e)[3] = escapeValue(e.item.id) /\ Fields(e)[4] = escapeValue(e.item.endTime)
         /\ Fields(e)[5] = escapeValue(e.item.parental)
BY DEF Fields

\* Fields with the kind, the peer and the id, and beginnings of the rest.
LEMMA FieldsTorn ==
  ASSUME NEW e \in Entry, NEW line, NEW fields, splitFields(line) = fields,
         fields[1] = <<e.kind>>,
         FieldAt(fields, 2) = unescapeValue(escapeValue(e.peer)),
         FieldAt(fields, 3) = unescapeValue(escapeValue(e.item.id)),
         NEW y4 \in Prefixes(escapeValue(e.item.endTime)), FieldAt(fields, 4) = unescapeValue(y4),
         NEW y5 \in Prefixes(escapeValue(e.item.parental)), FieldAt(fields, 5) = unescapeValue(y5),
         decodeItem(line).ok
  PROVE  Torn(decodeItem(line).entry, e)
<1> DEFINE d == decodeItem(line).entry
<1>1. e.kind \in Kinds /\ e.peer \in Text
      /\ e.item.id \in Text /\ e.item.endTime \in Text /\ e.item.parental \in Text
  BY FieldTypes
<1>2. FieldAt(fields, 4).ok /\ FieldAt(fields, 5).ok
  <2>1. \A i \in 2..5 : FieldAt(fields, i).ok
    BY Decoded, Zenon
  <2>2. 4 \in 2..5 /\ 5 \in 2..5
    OBVIOUS
  <2> QED BY <2>1, <2>2, Zenon
<1>3. d = [kind |-> fields[1][1], peer |-> FieldAt(fields, 2).value,
           item |-> [id |-> FieldAt(fields, 3).value, endTime |-> FieldAt(fields, 4).value,
                     parental |-> FieldAt(fields, 5).value]]
  BY Decoded, Zenon
<1>4. fields[1][1] = e.kind
  OBVIOUS
<1>5. FieldAt(fields, 2).value = e.peer /\ FieldAt(fields, 3).value = e.item.id
  BY <1>1, UnescapeField, Zenon
<1>6. FieldAt(fields, 4).value \in Prefixes(e.item.endTime)
  BY <1>1, <1>2, UnescapeField, Zenon
<1>7. FieldAt(fields, 5).value \in Prefixes(e.item.parental)
  BY <1>1, <1>2, UnescapeField, Zenon
<1>8. FieldAt(fields, 4).value \in Text /\ FieldAt(fields, 5).value \in Text
  BY <1>1, <1>6, <1>7, PrefixType DEF Text
<1> HIDE DEF d
<1>9. /\ d.kind = e.kind /\ d.peer = e.peer /\ d.item.id = e.item.id
      /\ d.item.endTime = FieldAt(fields, 4).value /\ d.item.parental = FieldAt(fields, 5).value
  BY <1>3, <1>4, <1>5
<1>10. d = [kind |-> e.kind, peer |-> e.peer,
            item |-> [id |-> e.item.id, endTime |-> FieldAt(fields, 4).value,
                      parental |-> FieldAt(fields, 5).value]]
  BY <1>3, <1>4, <1>5
<1>11. d \in Entry
  BY <1>1, <1>8, <1>10 DEF Entry, Item
<1> QED BY <1>6, <1>7, <1>9, <1>11, Zenon DEF Torn, d

\* A line that was torn is refused or gives back what was left of the entry.
LEMMA DecodeTorn ==
  ASSUME NEW e \in Entry, NEW x \in Prefixes(Line(e)), decodeItem(x).ok
  PROVE  Torn(decodeItem(x).entry, e)
<1>1. PICK k \in 0..4 : \E rest \in Prefixes(Fields(e)[k + 1]) :
           splitFields(x) = Append(SubSeq(Fields(e), 1, k), rest)
  BY SplitLine
<1>2. PICK rest \in Prefixes(Fields(e)[k + 1]) : splitFields(x) = Append(SubSeq(Fields(e), 1, k), rest)
  BY <1>1
<1>3. PICK fields : fields = splitFields(x)
  OBVIOUS
<1>4. Fields(e) \in Seq(Seq(Clean)) /\ Len(Fields(e)) = 5 /\ e.item.parental \in Text
  BY FieldTypes
<1>5. PICK front : front = SubSeq(Fields(e), 1, k)
  OBVIOUS
<1>6. front \in Seq(Seq(Clean)) /\ Len(front) = k /\ \A i \in 1..k : front[i] = Fields(e)[i]
  <2>1. k \in 0..Len(Fields(e))
    BY <1>1, <1>4
  <2> QED BY <1>4, <1>5, <2>1, FirstElements
<1>7. rest \in Seq(Clean)
  <2>1. k + 1 \in 1..Len(Fields(e))
    BY <1>1, <1>4
  <2>2. Fields(e)[k + 1] \in Seq(Clean)
    BY <1>4, <2>1, ElementOfSeq
  <2> QED BY <1>2, <2>2, PrefixType
<1>8. fields = Append(front, rest)
  BY <1>2, <1>3, <1>5
<1>9. Len(fields) = Len(front) + 1 /\ fields[Len(front) + 1] = rest
      /\ \A i \in 1..Len(front) : fields[i] = front[i]
  BY <1>6, <1>7, <1>8, AppendProperties
<1>10. Len(fields) = k + 1 /\ fields[k + 1] = rest /\ \A i \in 1..k : fields[i] = Fields(e)[i]
  <2>1. Len(front) = k
    BY <1>6
  <2> QED BY <1>6, <1>9, <2>1, Zenon
<1>11. k = 3 \/ k = 4
  <2>1. FieldsOk(fields)
    BY <1>3, Decoded, Zenon
  <2> QED BY <1>1, <1>10, <2>1 DEF FieldsOk
<1>12. \A i \in 1..3 : fields[i] = Fields(e)[i] /\ i <= Len(fields)
  <2>1. \A i \in 1..3 : i \in 1..k /\ i <= k + 1
    BY <1>11
  <2> QED BY <1>10, <2>1, Zenon
<1>13. /\ fields[1] = <<e.kind>>
       /\ FieldAt(fields, 2) = unescapeValue(escapeValue(e.peer))
       /\ FieldAt(fields, 3) = unescapeValue(escapeValue(e.item.id))
  <2>1. 1 \in 1..3 /\ 2 \in 1..3 /\ 3 \in 1..3
    OBVIOUS
  <2> QED BY <1>12, <2>1, FieldNames, Zenon DEF FieldAt
<1>14. CASE k = 3
  <2>1. 3 + 1 = 4 /\ 4 <= 4 /\ ~(5 <= 4)
    OBVIOUS
  <2>2. rest \in Prefixes(escapeValue(e.item.endTime)) /\ FieldAt(fields, 4) = unescapeValue(rest)
    BY <1>2, <1>10, <1>14, <2>1, FieldNames, Zenon DEF FieldAt
  <2>3. FieldAt(fields, 5) = unescapeValue(<<>>)
    BY <1>10, <1>14, <2>1, Zenon DEF FieldAt
  <2>4. <<>> \in Prefixes(escapeValue(e.item.parental))
    BY <1>4, EscapeSteps, PrefixEnds DEF Text
  <2> QED BY <1>3, <1>13, <2>2, <2>3, <2>4, FieldsTorn, Zenon
<1>15. CASE k = 4
  <2>1. 4 + 1 = 5 /\ 4 <= 5 /\ 5 <= 5 /\ 4 \in 1..4
    OBVIOUS
  <2>2. fields[4] = escapeValue(e.item.endTime)
    BY <1>10, <1>15, <2>1, FieldNames, Zenon
  <2>3. FieldAt(fields, 4) = unescapeValue(escapeValue(e.item.endTime))
    BY <1>10, <1>15, <2>1, <2>2, Zenon DEF FieldAt
  <2>4. rest \in Prefixes(escapeValue(e.item.parental)) /\ FieldAt(fields, 5) = unescapeValue(rest)
    BY <1>2, <1>10, <1>15, <2>1, FieldNames, Zenon DEF FieldAt
  <2>5. escapeValue(e.item.endTime) \in Prefixes(escapeValue(e.item.endTime))
    BY FieldTypes, EscapeSteps, PrefixEnds DEF Text
  <2> QED BY <1>3, <1>13, <2>3, <2>4, <2>5, FieldsTorn, Zenon
<1> QED BY <1>11, <1>14, <1>15

\* A whole line gives back its entry.
LEMMA DecodeWhole ==
  ASSUME NEW e \in Entry
  PROVE  decodeItem(Line(e)).ok /\ decodeItem(Line(e)).entry = e
<1>1. splitFields(Line(e)) = Fields(e) /\ Len(Fields(e)) = 5
  BY SplitWhole, FieldTypes
<1>2. /\ e.kind \in Kinds /\ e.peer \in Text
      /\ e.item.id \in Text /\ e.item.endTime \in Text /\ e.item.parental \in Text
  BY FieldTypes
<1>3. \A i \in 2..5 : i <= 5 /\ (i = 2 \/ i = 3 \/ i = 4 \/ i = 5)
  OBVIOUS
<1>3a. 2 \in 2..5 /\ 3 \in 2..5 /\ 4 \in 2..5 /\ 5 \in 2..5
  OBVIOUS
<1>4. \A i \in 2..5 : FieldAt(Fields(e), i) = unescapeValue(Fields(e)[i])
  BY <1>1, <1>3, Zenon DEF FieldAt
<1>5. /\ FieldAt(Fields(e), 2).ok /\ FieldAt(Fields(e), 2).value = e.peer
      /\ FieldAt(Fields(e), 3).ok /\ FieldAt(Fields(e), 3).value = e.item.id
  BY <1>2, <1>3a, <1>4, FieldNames, UnescapeField, Zenon
<1>6. /\ FieldAt(Fields(e), 4).ok /\ FieldAt(Fields(e), 4).value = e.item.endTime
      /\ FieldAt(Fields(e), 5).ok /\ FieldAt(Fields(e), 5).value = e.item.parental
  BY <1>2, <1>3a, <1>4, FieldNames, UnescapeField, Zenon
<1>7. Fields(e)[1] = <<e.kind>> /\ Fields(e)[1][1] = e.kind
  BY FieldNames
<1>8. FieldsOk(Fields(e))
  BY <1>1 DEF FieldsOk
<1>9. decodeItem(Line(e)).ok
  BY <1>1, <1>2, <1>3, <1>5, <1>6, <1>7, <1>8, Decoded, Zenon
<1>10. decodeItem(Line(e)).entry
         = [kind |-> e.kind, peer |-> e.peer,
            item |-> [id |-> e.item.id, endTime |-> e.item.endTime, parental |-> e.item.parental]]
  BY <1>1, <1>5, <1>6, <1>7, Decoded, Zenon
<1>11. e = [kind |-> e.kind, peer |-> e.peer, item |-> e.item] /\ e.item \in Item
  BY DEF Entry
<1>12. e.item = [id |-> e.item.id, endTime |-> e.item.endTime, parental |-> e.item.parental]
  BY <1>11 DEF Item
<1> QED BY <1>9, <1>10, <1>11, <1>12, Zenon

-----------------------------------------------------------------------------
(* The lines of the file                                                   *)

\* The lines of entries, and these after the header.
ItemLines(es) == [i \in 1..Len(es) |-> Line(es[i])]
FileLines(es) == <<Header>> \o ItemLines(es)

\* A line has no line end in it.
LEMMA LineTypes ==
  /\ \A e \in Entry : Line(e) \in Without(Newline) /\ Line(e) \in Text /\ Line(e) # <<>>
  /\ \A e \in Entry : \A i \in 1..Len(Line(e)) : Line(e)[i] # Return
  /\ Header \in Without(Newline) /\ Header \in Text /\ Header # <<>>
  /\ \A i \in 1..Len(Header) : Header[i] # Return
<1>1. Clean \cup {Tab} \subseteq Chars \ {Newline, Return}
  BY Marks DEF Clean
<1>2. ASSUME NEW e \in Entry
      PROVE  /\ Line(e) \in Without(Newline) /\ Line(e) \in Text /\ Line(e) # <<>>
             /\ \A i \in 1..Len(Line(e)) : Line(e)[i] # Return
  <2>1. PICK line \in Seq(Clean \cup {Tab}) : line = Line(e)
    BY <1>2, LineFields
  <2>2. line \in Seq(Chars \ {Newline, Return})
    BY <1>1, <2>1
  <2>3. line \in Without(Newline) /\ line \in Text /\ \A i \in 1..Len(line) : line[i] # Return
    BY <2>2 DEF Without, Text
  <2>4. decodeItem(Line(e)).ok /\ splitFields(Line(e)) = Fields(e) /\ Len(Fields(e)) = 5
    BY <1>2, DecodeWhole, SplitWhole, FieldTypes
  <2>5. Line(e) # <<>>
    <3>1. Tab \in Chars
      BY Marks
    <3>2. Cut(<<>>, Tab).parts = <<>>
      BY <3>1, CutSteps
    <3>3. \A rest : Len(Append(<<>>, rest)) = 1
      OBVIOUS
    <3>4. Len(splitFields(<<>>)) = 1
      BY <3>2, <3>3, Zenon DEF splitFields
    <3> QED BY <2>4, <3>4
  <2> QED BY <2>1, <2>3, <2>5, Zenon
<1>3. Header \in Without(Newline) /\ Header \in Text /\ Header # <<>>
      /\ \A i \in 1..Len(Header) : Header[i] # Return
  <2>1. "V" \in Chars \ {Newline, Return} /\ "1" \in Chars \ {Newline, Return}
    BY Marks
  <2> QED BY <2>1 DEF Header, Without, Text
<1> QED BY <1>2, <1>3, Zenon

\* A text without a return is left as it is.
LEMMA NoReturn ==
  ASSUME NEW T, NEW s \in Seq(T), \A i \in 1..Len(s) : s[i] # Return, NEW x \in Prefixes(s)
  PROVE  WithoutReturn(x) = x
<1>1. x \in Seq(T) /\ Len(x) <= Len(s) /\ \A i \in 1..Len(x) : x[i] = s[i]
  BY PrefixType
<1>2. x # <<>> => Len(x) \in 1..Len(x)
  BY <1>1
<1>3. x # <<>> => x[Len(x)] # Return
  <2>1. Len(x) \in 1..Len(x) => Len(x) \in 1..Len(s)
    BY <1>1
  <2> QED BY <1>1, <1>2, <2>1
<1> QED BY <1>3, Zenon DEF WithoutReturn

\* The lines of one entry more.
LEMMA FileLinesSteps ==
  /\ ItemLines(<<>>) = <<>> /\ FileLines(<<>>) = <<Header>>
  /\ \A es \in Seq(Entry) : /\ ItemLines(es) \in Seq(Text) /\ Len(ItemLines(es)) = Len(es)
                            /\ FileLines(es) \in Seq(Without(Newline)) /\ FileLines(es) \in Seq(Text)
                            /\ Len(FileLines(es)) = Len(es) + 1 /\ FileLines(es)[1] = Header
                            /\ \A i \in 1..Len(es) : FileLines(es)[i + 1] = Line(es[i])
  /\ \A es \in Seq(Entry), e \in Entry : /\ ItemLines(Append(es, e)) = Append(ItemLines(es), Line(e))
                                         /\ FileLines(Append(es, e)) = Append(FileLines(es), Line(e))
<1>1. ItemLines(<<>>) = <<>> /\ FileLines(<<>>) = <<Header>>
  <2>1. ItemLines(<<>>) = <<>>
    BY DEF ItemLines
  <2>2. <<Header>> \o <<>> = <<Header>>
    OBVIOUS
  <2> QED BY <2>1, <2>2 DEF FileLines
<1>2. ASSUME NEW es \in Seq(Entry)
      PROVE  /\ ItemLines(es) \in Seq(Text) /\ Len(ItemLines(es)) = Len(es)
             /\ ItemLines(es) \in Seq(Without(Newline))
             /\ \A i \in 1..Len(es) : ItemLines(es)[i] = Line(es[i])
  <2>1. \A i \in 1..Len(es) : Line(es[i]) \in Text /\ Line(es[i]) \in Without(Newline)
    <3>1. \A i \in 1..Len(es) : es[i] \in Entry
      BY <1>2
    <3> QED BY <3>1, LineTypes
  <2> QED BY <1>2, <2>1 DEF ItemLines
<1>3. ASSUME NEW es \in Seq(Entry)
      PROVE  /\ FileLines(es) \in Seq(Without(Newline)) /\ FileLines(es) \in Seq(Text)
             /\ Len(FileLines(es)) = Len(es) + 1 /\ FileLines(es)[1] = Header
             /\ \A i \in 1..Len(es) : FileLines(es)[i + 1] = Line(es[i])
  <2>1. PICK lines : lines = ItemLines(es)
    OBVIOUS
  <2>2. PICK h \in Text : h = Header /\ h \in Without(Newline)
    BY LineTypes
  <2>3. lines \in Seq(Text) /\ Len(lines) = Len(es) /\ lines \in Seq(Without(Newline))
        /\ \A i \in 1..Len(es) : lines[i] = Line(es[i])
    BY <1>2, <1>3, <2>1
  <2>4. FileLines(es) = <<h>> \o lines
    BY <2>1, <2>2 DEF FileLines
  <2>5. <<h>> \o lines \in Seq(Without(Newline)) /\ <<h>> \o lines \in Seq(Text)
    BY <2>2, <2>3
  <2>6. Len(<<h>> \o lines) = Len(es) + 1 /\ (<<h>> \o lines)[1] = h
        /\ \A i \in 1..Len(es) : (<<h>> \o lines)[i + 1] = lines[i]
    BY <2>2, <2>3
  <2> QED BY <2>2, <2>3, <2>4, <2>5, <2>6, Zenon
<1>4. ASSUME NEW es \in Seq(Entry), NEW e \in Entry
      PROVE  /\ ItemLines(Append(es, e)) = Append(ItemLines(es), Line(e))
             /\ FileLines(Append(es, e)) = Append(FileLines(es), Line(e))
  <2>1. PICK n \in Nat : n = Len(es)
    BY <1>4
  <2>2. PICK more \in Seq(Entry) : more = Append(es, e)
    <3>1. Append(es, e) \in Seq(Entry)
      BY <1>4, AppendProperties
    <3> QED BY <3>1, Zenon
  <2>3. Len(more) = n + 1 /\ more[n + 1] = e /\ \A i \in 1..n : more[i] = es[i]
    BY <1>4, <2>1, <2>2
  <2>4. PICK line \in Text : line = Line(e)
    BY <1>4, LineTypes
  <2>5. PICK lines \in Seq(Text) : lines = ItemLines(es) /\ Len(lines) = n /\ \A i \in 1..n : lines[i] = Line(es[i])
    BY <1>2, <1>4, <2>1
  <2>6. PICK all \in Seq(Text) : /\ all = ItemLines(more) /\ Len(all) = n + 1
                                 /\ \A i \in 1..(n + 1) : all[i] = Line(more[i])
    BY <1>2, <2>2, <2>3
  <2>7. Append(lines, line) \in Seq(Text) /\ Len(Append(lines, line)) = n + 1
        /\ Append(lines, line)[n + 1] = line /\ \A i \in 1..n : Append(lines, line)[i] = lines[i]
    BY <2>1, <2>4, <2>5
  <2>8. \A i \in 1..(n + 1) : i = n + 1 \/ i \in 1..n
    BY <2>1
  <2>9. \A i \in 1..(n + 1) : all[i] = Append(lines, line)[i]
    <3> TAKE i \in 1..(n + 1)
    <3>1. CASE i = n + 1
      BY <2>3, <2>4, <2>6, <2>7, <3>1, Zenon
    <3>2. CASE i \in 1..n
      BY <2>3, <2>5, <2>6, <2>7, <3>2, Zenon
    <3> QED BY <2>8, <3>1, <3>2, Zenon
  <2>10. all = Append(lines, line)
    BY <2>6, <2>7, <2>9, SeqEqual
  <2>11. <<Header>> \o Append(lines, line) = Append(<<Header>> \o lines, line)
    <3>1. PICK h \in Text : h = Header
      BY LineTypes
    <3>2. <<h>> \o Append(lines, line) = Append(<<h>> \o lines, line)
      BY <2>4, <2>5, <3>1
    <3> QED BY <3>1, <3>2
  <2> QED BY <2>2, <2>4, <2>5, <2>6, <2>10, <2>11, Zenon DEF FileLines
<1> QED BY <1>1, <1>2, <1>3, <1>4, Zenon

\* FileText, entry by entry.
LEMMA FileTextSteps ==
  /\ FileText(<<>>) = Append(Header, Newline)
  /\ \A es \in Seq(Entry) : FileText(es) \in Text
  /\ \A es \in Seq(Entry), e \in Entry : FileText(Append(es, e)) = FileText(es) \o (Line(e) \o <<Newline>>)
<1> DEFINE turn == [text \in Text |-> [e \in Entry |-> appendItemLine(text, e)]]
           first == Append(Header, Newline)
<1>1. first \in Text /\ <<Newline>> \in Text
  BY Marks, LineTypes DEF Text
<1>2. \A text \in Text, e \in Entry : appendItemLine(text, e) = text \o (Line(e) \o <<Newline>>)
  BY LineFields
<1>3. \A text \in Text, e \in Entry : appendItemLine(text, e) \in Text
  <2> TAKE text \in Text, e \in Entry
  <2>1. Line(e) \in Text
    BY LineTypes
  <2>2. Line(e) \o <<Newline>> \in Text
    BY <1>1, <2>1, Associative, Zenon
  <2>3. text \o (Line(e) \o <<Newline>>) \in Text
    BY <2>2, Associative, Zenon
  <2> QED BY <1>2, <2>3, Zenon
<1>4. turn \in Turns(Text, Entry)
  BY <1>3 DEF Turns
<1>5. \A text \in Text, e \in Entry : turn[text][e] = text \o (Line(e) \o <<Newline>>)
  BY <1>2
<1>6. \A es : FileText(es) = Fold(turn, first, es)
  BY DEF FileText
<1> HIDE DEF turn, first
<1>7. /\ Fold(turn, first, <<>>) = first
      /\ \A es \in Seq(Entry) : Fold(turn, first, es) \in Text
      /\ \A es \in Seq(Entry), e \in Entry :
           Fold(turn, first, Append(es, e)) = turn[Fold(turn, first, es)][e]
  BY <1>1, <1>4, FoldLaws
<1>8. ASSUME NEW es \in Seq(Entry), NEW e \in Entry
      PROVE  FileText(Append(es, e)) = FileText(es) \o (Line(e) \o <<Newline>>)
  BY <1>5, <1>6, <1>7, <1>8, Zenon
<1> QED BY <1>6, <1>7, <1>8, Zenon DEF first

\* The file is its lines, each ended.
LEMMA FileTextEnded ==
  ASSUME NEW es \in Seq(Entry)
  PROVE  FileText(es) = Ended(FileLines(es), Newline)
<1> DEFINE Good == {fs \in Seq(Entry) : FileText(fs) = Ended(FileLines(fs), Newline)}
<1>0. Newline \in Chars
  BY Marks
<1>1. <<>> \in Good
  <2>1. <<Header>> = Append(<<>>, Header) /\ <<>> \in Seq(Text) /\ <<>> \in Seq(Entry)
    OBVIOUS
  <2>2. Ended(<<Header>>, Newline) = <<>> \o (Header \o <<Newline>>)
    BY <1>0, <2>1, LineTypes, EndedSteps
  <2>3. <<>> \o (Header \o <<Newline>>) = Append(Header, Newline)
    <3>1. PICK h \in Text : h = Header
      BY LineTypes
    <3>2. <<>> \o (h \o <<Newline>>) = Append(h, Newline)
      BY <1>0, <3>1 DEF Text
    <3> QED BY <3>1, <3>2
  <2> QED BY <2>1, <2>2, <2>3, FileTextSteps, FileLinesSteps
<1>2. ASSUME NEW fs \in Seq(Entry), fs \in Good, NEW e \in Entry PROVE Append(fs, e) \in Good
  <2>1. Append(fs, e) \in Seq(Entry)
    BY <1>2, AppendProperties
  <2>2. FileLines(Append(fs, e)) = Append(FileLines(fs), Line(e)) /\ FileLines(fs) \in Seq(Text) /\ Line(e) \in Text
    BY <1>2, FileLinesSteps, LineTypes
  <2>3. Ended(Append(FileLines(fs), Line(e)), Newline) = Ended(FileLines(fs), Newline) \o (Line(e) \o <<Newline>>)
    BY <1>0, <2>2, EndedSteps
  <2>4. FileText(Append(fs, e)) = FileText(fs) \o (Line(e) \o <<Newline>>)
    BY <1>2, FileTextSteps
  <2>5. FileText(fs) = Ended(FileLines(fs), Newline)
    BY <1>2
  <2> QED BY <2>1, <2>2, <2>3, <2>4, <2>5
<1> HIDE DEF Good
<1>3. Seq(Entry) \subseteq Good
  BY <1>1, <1>2, SequenceInduction
<1> QED BY <1>3 DEF Good

-----------------------------------------------------------------------------
(* Reading the lines                                                       *)

\* What decodeItem gives is an entry.
LEMMA DecodeType ==
  ASSUME NEW line \in Text, decodeItem(line).ok
  PROVE  decodeItem(line).entry \in Entry
<1>1. PICK fields : fields = splitFields(line)
  OBVIOUS
<1>2. fields \in Seq(Text)
  <2>1. Cut(line, Tab).parts \in Seq(Text) /\ Cut(line, Tab).rest \in Text
    BY Marks, CutSteps
  <2> QED BY <1>1, <2>1, AppendProperties DEF splitFields
<1>3. \A i \in 2..5 : FieldAt(fields, i).value \in Text
  <2> TAKE i \in 2..5
  <2>1. PICK t : t = IF i <= Len(fields) THEN fields[i] ELSE <<>>
    OBVIOUS
  <2>2. t \in Text
    <3>1. <<>> \in Text
      BY DEF Text
    <3>2. i <= Len(fields) => i \in 1..Len(fields)
      BY <1>2
    <3>3. i <= Len(fields) => fields[i] \in Text
      BY <1>2, <3>2, ElementOfSeq
    <3> QED BY <2>1, <3>1, <3>3
  <2>3. ReadAll(t).value \in Text
    BY <2>2, ReadSteps DEF Reading
  <2>4. FieldAt(fields, i).value = ReadAll(t).value
    BY <2>1, ReadSteps DEF FieldAt
  <2> QED BY <2>3, <2>4
<1>4. PICK k \in Kinds : fields[1] = <<k>>
  BY <1>1, Decoded, Zenon
<1>5. fields[1][1] = k
  BY <1>4
<1>6. 2 \in 2..5 /\ 3 \in 2..5 /\ 4 \in 2..5 /\ 5 \in 2..5
  OBVIOUS
<1>7. decodeItem(line).entry
        = [kind |-> k, peer |-> FieldAt(fields, 2).value,
           item |-> [id |-> FieldAt(fields, 3).value, endTime |-> FieldAt(fields, 4).value,
                     parental |-> FieldAt(fields, 5).value]]
  BY <1>1, <1>5, Decoded, Zenon
<1>8. [id |-> FieldAt(fields, 3).value, endTime |-> FieldAt(fields, 4).value,
       parental |-> FieldAt(fields, 5).value] \in Item
  BY <1>3, <1>6 DEF Item
<1> QED BY <1>3, <1>4, <1>6, <1>7, <1>8 DEF Entry

\* What restore has read when it has gone through some lines.
Reads == [ok : BOOLEAN, entries : Seq(Entry)]
Loop(s, lines) == Fold([r \in Reads |-> [line \in Text |-> ReadLine(r, line)]], s, lines)
Begun == [ok |-> TRUE, entries |-> <<>>]

\* ... line by line.
LEMMA LoopSteps ==
  ASSUME NEW s \in Reads
  PROVE  /\ Loop(s, <<>>) = s
         /\ \A lines \in Seq(Text) : Loop(s, lines) \in Reads
         /\ \A lines \in Seq(Text), line \in Text : Loop(s, Append(lines, line)) = ReadLine(Loop(s, lines), line)
<1> DEFINE turn == [r \in Reads |-> [line \in Text |-> ReadLine(r, line)]]
<1>1. ASSUME NEW r \in Reads, NEW line \in Text PROVE ReadLine(r, line) \in Reads
  <2>1. PICK whole : whole = WithoutReturn(line)
    OBVIOUS
  <2>2. whole \in Text
    <3>1. CASE line # <<>> /\ line[Len(line)] = Return
      <4>1. SubSeq(line, 1, Len(line) - 1) \in Seq(Chars)
        BY <1>1, <3>1 DEF Text
      <4> QED BY <2>1, <3>1, <4>1 DEF WithoutReturn, Text
    <3>2. CASE ~(line # <<>> /\ line[Len(line)] = Return)
      BY <1>1, <2>1, <3>2, Zenon DEF WithoutReturn
    <3> QED BY <3>1, <3>2
  <2>3. r.entries \in Seq(Entry)
    BY <1>1 DEF Reads
  <2>4. CASE ~r.ok \/ whole = <<>>
    <3>1. ReadLine(r, line) = r
      BY <2>1, <2>4, Zenon DEF ReadLine
    <3> QED BY <1>1, <3>1
  <2>5. CASE ~(~r.ok \/ whole = <<>>) /\ decodeItem(whole).ok
    <3>1. ReadLine(r, line) = [ok |-> TRUE, entries |-> Append(r.entries, decodeItem(whole).entry)]
      BY <2>1, <2>5, Zenon DEF ReadLine
    <3>2. Append(r.entries, decodeItem(whole).entry) \in Seq(Entry)
      BY <2>2, <2>3, <2>5, DecodeType, AppendProperties
    <3> QED BY <3>1, <3>2 DEF Reads
  <2>6. CASE ~(~r.ok \/ whole = <<>>) /\ ~decodeItem(whole).ok
    <3>1. ReadLine(r, line) = [ok |-> FALSE, entries |-> <<>>]
      BY <2>1, <2>6, Zenon DEF ReadLine
    <3> QED BY <3>1 DEF Reads
  <2> QED BY <2>4, <2>5, <2>6, Zenon
<1>2. turn \in Turns(Reads, Text)
  BY <1>1 DEF Turns
<1>3. \A r \in Reads, line \in Text : turn[r][line] = ReadLine(r, line)
  OBVIOUS
<1>4. \A lines : Loop(s, lines) = Fold(turn, s, lines)
  BY DEF Loop
<1> HIDE DEF turn
<1>5. /\ Fold(turn, s, <<>>) = s
      /\ \A lines \in Seq(Text) : Fold(turn, s, lines) \in Reads
      /\ \A lines \in Seq(Text), line \in Text : Fold(turn, s, Append(lines, line)) = turn[Fold(turn, s, lines)][line]
  BY <1>2, FoldLaws
<1>6. ASSUME NEW lines \in Seq(Text), NEW line \in Text
      PROVE  Loop(s, Append(lines, line)) = ReadLine(Loop(s, lines), line)
  BY <1>3, <1>4, <1>5, <1>6, Zenon
<1> QED BY <1>4, <1>5, <1>6, Zenon

\* Reading one line after some entries have been read.
LEMMA ReadOne ==
  ASSUME NEW es \in Seq(Entry), NEW e \in Entry, NEW x \in Prefixes(Line(e)), x # <<>>
  PROVE  ReadLine([ok |-> TRUE, entries |-> es], x)
           = IF decodeItem(x).ok THEN [ok |-> TRUE, entries |-> Append(es, decodeItem(x).entry)]
             ELSE [ok |-> FALSE, entries |-> <<>>]
<1>1. Line(e) \in Seq(Chars) /\ \A i \in 1..Len(Line(e)) : Line(e)[i] # Return
  BY LineTypes DEF Text
<1>2. WithoutReturn(x) = x
  BY <1>1, NoReturn
<1>3. PICK s : s = [ok |-> TRUE, entries |-> es]
  OBVIOUS
<1>4. s.ok /\ s.entries = es
  BY <1>3
<1>5. ReadLine(s, x) = IF decodeItem(x).ok THEN [ok |-> TRUE, entries |-> Append(s.entries, decodeItem(x).entry)]
                       ELSE [ok |-> FALSE, entries |-> <<>>]
  BY <1>2, <1>4, Zenon DEF ReadLine
<1> QED BY <1>3, <1>4, <1>5, Zenon

\* The lines of entries give back the entries.
LEMMA ReadEntries ==
  ASSUME NEW es \in Seq(Entry)
  PROVE  Loop(Begun, ItemLines(es)) = [ok |-> TRUE, entries |-> es]
<1> DEFINE Good == {fs \in Seq(Entry) : Loop(Begun, ItemLines(fs)) = [ok |-> TRUE, entries |-> fs]}
<1>0. Begun \in Reads
  BY DEF Begun, Reads
<1>1. <<>> \in Good
  <2>1. Loop(Begun, <<>>) = Begun
    BY <1>0, LoopSteps
  <2>2. <<>> \in Seq(Entry)
    OBVIOUS
  <2> QED BY <2>1, <2>2, FileLinesSteps, Zenon DEF Begun
<1>2. ASSUME NEW fs \in Seq(Entry), fs \in Good, NEW e \in Entry PROVE Append(fs, e) \in Good
  <2>1. Append(fs, e) \in Seq(Entry)
    BY <1>2, AppendProperties
  <2>2. ItemLines(Append(fs, e)) = Append(ItemLines(fs), Line(e)) /\ ItemLines(fs) \in Seq(Text) /\ Line(e) \in Text
    BY <1>2, FileLinesSteps, LineTypes
  <2>3. Loop(Begun, Append(ItemLines(fs), Line(e))) = ReadLine(Loop(Begun, ItemLines(fs)), Line(e))
    BY <1>0, <2>2, LoopSteps
  <2>4. Loop(Begun, ItemLines(fs)) = [ok |-> TRUE, entries |-> fs]
    BY <1>2
  <2>5. Line(e) \in Prefixes(Line(e)) /\ Line(e) # <<>>
    BY <1>2, <2>2, LineTypes, PrefixEnds DEF Text
  <2>6. ReadLine([ok |-> TRUE, entries |-> fs], Line(e)) = [ok |-> TRUE, entries |-> Append(fs, e)]
    BY <1>2, <2>5, ReadOne, DecodeWhole, Zenon
  <2> QED BY <2>1, <2>2, <2>3, <2>4, <2>6, Zenon
<1> HIDE DEF Good
<1>3. Seq(Entry) \subseteq Good
  BY <1>1, <1>2, SequenceInduction
<1> QED BY <1>3 DEF Good

-----------------------------------------------------------------------------
(* Restoring a file, or a beginning of it                                  *)

\* restore, of the lines it has.
LEMMA Restored ==
  ASSUME NEW text, NEW lines, LinesOf(text) = lines
  PROVE  /\ lines = <<>> => ~restore(text).ok
         /\ lines # <<>> => restore(text) = Loop([ok |-> WithoutReturn(Head(lines)) = Header, entries |-> <<>>], Tail(lines))
<1>1. restore(text) = IF lines = <<>> THEN [ok |-> FALSE, entries |-> <<>>]
                      ELSE Loop([ok |-> WithoutReturn(Head(lines)) = Header, entries |-> <<>>], Tail(lines))
  BY Zenon DEF restore, Loop, Reads
<1>2. ~[ok |-> FALSE, entries |-> <<>>].ok
  OBVIOUS
<1> QED BY <1>1, <1>2, Zenon

\* ... the header among them, and the rest.
LEMMA RestoredLines ==
  ASSUME NEW text, NEW rest \in Seq(Text), LinesOf(text) = <<Header>> \o rest
  PROVE  restore(text) = Loop(Begun, rest)
<1>1. PICK h \in Text : h = Header
  BY LineTypes
<1>2. <<h>> \o rest # <<>> /\ Head(<<h>> \o rest) = h /\ Tail(<<h>> \o rest) = rest
  BY <1>1
<1>3. Header \in Prefixes(Header) /\ Header \in Seq(Chars)
  BY LineTypes, PrefixEnds DEF Text
<1>4. WithoutReturn(Header) = Header
  BY <1>3, LineTypes, NoReturn
<1>5. restore(text) = Loop([ok |-> WithoutReturn(h) = Header, entries |-> <<>>], rest)
  BY <1>1, <1>2, Restored, Zenon
<1>6. (WithoutReturn(h) = Header) = TRUE
  BY <1>1, <1>4
<1> QED BY <1>5, <1>6, Zenon DEF Begun

\* The whole file gives back the entries.
LEMMA RestoreWhole ==
  ASSUME NEW es \in Seq(Entry)
  PROVE  restore(FileText(es)).ok /\ restore(FileText(es)).entries = es
<1>1. FileLines(es) \in Seq(Without(Newline)) /\ Newline \in Chars /\ ItemLines(es) \in Seq(Text)
  BY FileLinesSteps, Marks
<1>2. Cut(FileText(es), Newline) = [parts |-> FileLines(es), rest |-> <<>>]
  BY <1>1, FileTextEnded, CutEnded, Zenon DEF CutsBack
<1>3. Cut(FileText(es), Newline).parts = FileLines(es) /\ Cut(FileText(es), Newline).rest = <<>>
  BY <1>2
<1>4. LinesOf(FileText(es)) = <<Header>> \o ItemLines(es)
  BY <1>3, Zenon DEF LinesOf, FileLines
<1>5. restore(FileText(es)) = [ok |-> TRUE, entries |-> es]
  BY <1>1, <1>4, RestoredLines, ReadEntries, Zenon
<1> QED BY <1>5

\* What is restored of a beginning of the file: the first entries, and what is
\* left of the next one when its line was torn.
RestoredOf(es, entries) ==
  \E j \in 0..Len(es) :
    \/ entries = SubSeq(es, 1, j)
    \/ j < Len(es) /\ \E d \in Entry : Torn(d, es[j + 1]) /\ entries = Append(SubSeq(es, 1, j), d)

\* A beginning of a file that restore accepts gives such entries.
LEMMA RestoreTorn ==
  ASSUME NEW es \in Seq(Entry), NEW x \in Prefixes(FileText(es)), restore(x).ok
  PROVE  RestoredOf(es, restore(x).entries)
<1>0. PICK n \in Nat : n = Len(es)
  OBVIOUS
<1>1. /\ FileLines(es) \in Seq(Without(Newline)) /\ FileLines(es) \in Seq(Text) /\ Newline \in Chars
      /\ Len(FileLines(es)) = n + 1 /\ FileLines(es)[1] = Header
      /\ \A i \in 1..n : FileLines(es)[i + 1] = Line(es[i])
  BY <1>0, FileLinesSteps, Marks
<1>2. CutAt(FileLines(es), Newline, x)
  BY <1>1, FileTextEnded, CutEnded, Zenon DEF CutsBack
<1>3. PICK k \in 0..(n + 1) :
        /\ Cut(x, Newline).parts = SubSeq(FileLines(es), 1, k)
        /\ \/ k < n + 1 /\ Cut(x, Newline).rest \in Prefixes(FileLines(es)[k + 1])
           \/ k = n + 1 /\ Cut(x, Newline).rest = <<>>
  BY <1>1, <1>2, Zenon DEF CutAt
<1>4. PICK rest : rest = Cut(x, Newline).rest
  OBVIOUS
<1>5. LinesOf(x) = IF rest = <<>> THEN SubSeq(FileLines(es), 1, k) ELSE Append(SubSeq(FileLines(es), 1, k), rest)
  BY <1>3, <1>4, Zenon DEF LinesOf
<1>6. CASE k = 0
  <2>1. PICK lines \in Seq(Text) : lines = FileLines(es)
    BY <1>1
  <2>2. SubSeq(lines, 1, 0) = <<>> /\ SubSeq(es, 1, 0) = <<>>
    OBVIOUS
  <2>3. SubSeq(FileLines(es), 1, k) = <<>> /\ Append(<<>>, rest) = <<rest>>
    BY <1>6, <2>1, <2>2
  <2>4. LinesOf(x) = IF rest = <<>> THEN <<>> ELSE <<rest>>
    BY <1>5, <2>3, Zenon
  <2>5. LinesOf(x) # <<>> /\ LinesOf(x) = <<rest>>
    <3>1. LinesOf(x) # <<>>
      BY Restored, Zenon
    <3> QED BY <2>4, <3>1, Zenon
  <2>6. Head(<<rest>>) = rest /\ Tail(<<rest>>) = <<>>
    OBVIOUS
  <2>7. PICK s : s = [ok |-> WithoutReturn(rest) = Header, entries |-> <<>>]
    OBVIOUS
  <2>8. s \in Reads /\ s.entries = <<>>
    <3>1. (WithoutReturn(rest) = Header) \in BOOLEAN /\ <<>> \in Seq(Entry)
      OBVIOUS
    <3> QED BY <2>7, <3>1 DEF Reads
  <2>9. restore(x) = Loop(s, <<>>)
    BY <2>5, <2>6, <2>7, Restored, Zenon
  <2>10. restore(x).entries = SubSeq(es, 1, 0)
    BY <2>2, <2>8, <2>9, LoopSteps
  <2>11. 0 \in 0..Len(es)
    BY <1>0
  <2> QED BY <2>10, <2>11, Zenon DEF RestoredOf
<1>7. CASE k # 0
  <2>1. PICK j \in 0..n : k = j + 1
    <3>1. k - 1 \in 0..n /\ k = (k - 1) + 1
      BY <1>3, <1>7
    <3> QED BY <3>1, Zenon
  <2>2. PICK first : first = SubSeq(es, 1, j)
    OBVIOUS
  <2>3. first \in Seq(Entry) /\ Len(first) = j /\ \A i \in 1..j : first[i] = es[i]
    BY <1>0, <2>1, <2>2, FirstElements
  <2>4. SubSeq(FileLines(es), 1, k) = FileLines(first)
    <3>1. k \in 0..Len(FileLines(es))
      BY <1>1, <1>3
    <3>2. SubSeq(FileLines(es), 1, k) \in Seq(Text) /\ Len(SubSeq(FileLines(es), 1, k)) = j + 1
          /\ \A i \in 1..k : SubSeq(FileLines(es), 1, k)[i] = FileLines(es)[i]
      BY <1>1, <2>1, <3>1, FirstElements, Zenon
    <3>3. FileLines(first) \in Seq(Text) /\ Len(FileLines(first)) = j + 1 /\ FileLines(first)[1] = Header
          /\ \A i \in 1..j : FileLines(first)[i + 1] = Line(first[i])
      BY <2>3, FileLinesSteps, Zenon
    <3>4. ASSUME NEW i \in 1..(j + 1) PROVE SubSeq(FileLines(es), 1, k)[i] = FileLines(first)[i]
      <4>1. CASE i = 1
        BY <1>1, <2>1, <3>2, <3>3, <4>1
      <4>2. CASE i # 1
        <5>1. PICK m \in 1..j : i = m + 1
          <6>1. i - 1 \in 1..j /\ i = (i - 1) + 1
            BY <2>1, <4>2
          <6> QED BY <6>1, Zenon
        <5>2. m \in 1..n
          BY <2>1, <5>1
        <5> QED BY <1>1, <2>1, <2>3, <3>2, <3>3, <5>1, <5>2, Zenon
      <4> QED BY <4>1, <4>2
    <3> QED BY <3>2, <3>3, <3>4, SeqEqual
  <2>5. ItemLines(first) \in Seq(Text) /\ Loop(Begun, ItemLines(first)) = [ok |-> TRUE, entries |-> first]
    BY <2>3, FileLinesSteps, ReadEntries
  <2>6. CASE rest = <<>>
    <3>1. LinesOf(x) = <<Header>> \o ItemLines(first)
      BY <1>5, <2>4, <2>6, Zenon DEF FileLines
    <3>2. restore(x) = [ok |-> TRUE, entries |-> first]
      BY <2>5, <3>1, RestoredLines, Zenon
    <3>3. restore(x).entries = SubSeq(es, 1, j) /\ j \in 0..Len(es)
      BY <1>0, <2>1, <2>2, <3>2
    <3> QED BY <3>3, Zenon DEF RestoredOf
  <2>7. CASE rest # <<>>
    <3>1. k < n + 1 /\ rest \in Prefixes(FileLines(es)[k + 1])
      BY <1>3, <1>4, <2>7, Zenon
    <3>2. k \in 1..n /\ j < n
      BY <1>3, <1>7, <2>1, <3>1
    <3>3. es[k] \in Entry /\ rest \in Prefixes(Line(es[k]))
      BY <1>0, <1>1, <3>1, <3>2, ElementOfSeq
    <3>4. rest \in Text
      BY <3>3, LineTypes, PrefixType DEF Text
    <3>5. LinesOf(x) = <<Header>> \o Append(ItemLines(first), rest)
      <4>1. LinesOf(x) = Append(<<Header>> \o ItemLines(first), rest)
        BY <1>5, <2>4, <2>7, Zenon DEF FileLines
      <4>2. PICK h \in Text : h = Header
        BY LineTypes
      <4>3. PICK lines \in Seq(Text) : lines = ItemLines(first)
        BY <2>5
      <4>4. Append(<<h>> \o lines, rest) = <<h>> \o Append(lines, rest)
        BY <3>4, <4>2, <4>3
      <4> QED BY <4>1, <4>2, <4>3, <4>4
    <3>6. Append(ItemLines(first), rest) \in Seq(Text)
      BY <2>5, <3>4, AppendProperties
    <3>7. Begun \in Reads
      BY DEF Begun, Reads
    <3>8. restore(x) = ReadLine(Loop(Begun, ItemLines(first)), rest)
      <4>1. restore(x) = Loop(Begun, Append(ItemLines(first), rest))
        BY <3>5, <3>6, RestoredLines, Zenon
      <4>2. Loop(Begun, Append(ItemLines(first), rest)) = ReadLine(Loop(Begun, ItemLines(first)), rest)
        BY <2>5, <3>4, <3>7, LoopSteps
      <4> QED BY <4>1, <4>2
    <3>9. restore(x) = IF decodeItem(rest).ok THEN [ok |-> TRUE, entries |-> Append(first, decodeItem(rest).entry)]
                       ELSE [ok |-> FALSE, entries |-> <<>>]
      BY <2>3, <2>5, <2>7, <3>3, <3>8, ReadOne, Zenon
    <3>10. decodeItem(rest).ok
      <4>1. ~[ok |-> FALSE, entries |-> <<>>].ok
        OBVIOUS
      <4> QED BY <3>9, <4>1, Zenon
    <3>11. restore(x).entries = Append(first, decodeItem(rest).entry)
      BY <3>9, <3>10
    <3>12. Torn(decodeItem(rest).entry, es[j + 1])
      BY <2>1, <3>3, <3>10, DecodeTorn, Zenon
    <3>13. j < Len(es) /\ j \in 0..Len(es)
      BY <1>0, <2>1, <3>2
    <3> QED BY <2>2, <3>11, <3>12, <3>13, Zenon DEF RestoredOf, Torn
  <2> QED BY <2>6, <2>7
<1> QED BY <1>6, <1>7

-----------------------------------------------------------------------------
(* The lists of the peers                                                  *)

\* OfPeer, entry by entry.
LEMMA OfPeerSteps ==
  ASSUME NEW kind, NEW p
  PROVE  /\ OfPeer(<<>>, kind, p) = <<>>
         /\ \A es \in Seq(Entry) : OfPeer(es, kind, p) \in Seq(Item)
         /\ \A es \in Seq(Entry), e \in Entry :
              /\ e.kind = kind /\ e.peer = p => OfPeer(Append(es, e), kind, p) = Append(OfPeer(es, kind, p), e.item)
              /\ ~(e.kind = kind /\ e.peer = p) => OfPeer(Append(es, e), kind, p) = OfPeer(es, kind, p)
<1> DEFINE next(list, e) == IF e.kind = kind /\ e.peer = p THEN Append(list, e.item) ELSE list
           turn == [list \in Seq(Item) |-> [e \in Entry |-> next(list, e)]]
<1>1. ASSUME NEW list \in Seq(Item), NEW e \in Entry PROVE next(list, e) \in Seq(Item)
  <2>1. e.item \in Item
    BY <1>1 DEF Entry
  <2>2. Append(list, e.item) \in Seq(Item)
    BY <1>1, <2>1, AppendProperties
  <2> QED BY <1>1, <2>2
<1>2. turn \in Turns(Seq(Item), Entry)
  BY <1>1 DEF Turns
<1>3. \A list \in Seq(Item), e \in Entry :
        /\ e.kind = kind /\ e.peer = p => turn[list][e] = Append(list, e.item)
        /\ ~(e.kind = kind /\ e.peer = p) => turn[list][e] = list
  OBVIOUS
<1>4. \A es : OfPeer(es, kind, p) = Fold(turn, <<>>, es)
  BY DEF OfPeer
<1>5. <<>> \in Seq(Item)
  OBVIOUS
<1> HIDE DEF turn
<1>6. /\ Fold(turn, <<>>, <<>>) = <<>>
      /\ \A es \in Seq(Entry) : Fold(turn, <<>>, es) \in Seq(Item)
      /\ \A es \in Seq(Entry), e \in Entry :
           Fold(turn, <<>>, Append(es, e)) = turn[Fold(turn, <<>>, es)][e]
  BY <1>2, <1>5, FoldLaws
<1>7. ASSUME NEW es \in Seq(Entry), NEW e \in Entry
      PROVE  /\ e.kind = kind /\ e.peer = p
                  => Fold(turn, <<>>, Append(es, e)) = Append(Fold(turn, <<>>, es), e.item)
             /\ ~(e.kind = kind /\ e.peer = p) => Fold(turn, <<>>, Append(es, e)) = Fold(turn, <<>>, es)
  <2>1. PICK list \in Seq(Item) : list = Fold(turn, <<>>, es)
    BY <1>6, <1>7, Zenon
  <2>2. Fold(turn, <<>>, Append(es, e)) = turn[list][e]
    BY <1>6, <1>7, <2>1, Zenon
  <2> QED BY <1>3, <1>7, <2>1, <2>2
<1>8. OfPeer(<<>>, kind, p) = <<>> /\ \A es \in Seq(Entry) : OfPeer(es, kind, p) \in Seq(Item)
  BY <1>4, <1>6, Zenon
<1> QED BY <1>4, <1>7, <1>8, Zenon

\* An entry of the peer is one item more,
LEMMA OfPeerMore ==
  ASSUME NEW kind, NEW p, NEW es \in Seq(Entry), NEW e \in Entry, e.kind = kind, e.peer = p
  PROVE  OfPeer(Append(es, e), kind, p) = Append(OfPeer(es, kind, p), e.item)
BY OfPeerSteps

\* and any other none.
LEMMA OfPeerSame ==
  ASSUME NEW kind, NEW p, NEW es \in Seq(Entry), NEW e \in Entry, ~(e.kind = kind /\ e.peer = p)
  PROVE  OfPeer(Append(es, e), kind, p) = OfPeer(es, kind, p)
BY OfPeerSteps

\* The list of a peer in what is read first and then.
LEMMA OfPeerConcat ==
  ASSUME NEW kind, NEW p, NEW s \in Seq(Entry), NEW t \in Seq(Entry)
  PROVE  OfPeer(s \o t, kind, p) = OfPeer(s, kind, p) \o OfPeer(t, kind, p)
<1> DEFINE Good == {u \in Seq(Entry) : OfPeer(s \o u, kind, p) = OfPeer(s, kind, p) \o OfPeer(u, kind, p)}
<1>1. <<>> \in Good
  <2>1. s \o <<>> = s /\ <<>> \in Seq(Entry)
    OBVIOUS
  <2>2. OfPeer(<<>>, kind, p) = <<>> /\ OfPeer(s, kind, p) \in Seq(Item)
    BY OfPeerSteps
  <2>3. OfPeer(s, kind, p) \o <<>> = OfPeer(s, kind, p)
    BY <2>2
  <2> QED BY <2>1, <2>2, <2>3
<1>2. ASSUME NEW u \in Seq(Entry), u \in Good, NEW e \in Entry PROVE Append(u, e) \in Good
  <2>1. s \o u \in Seq(Entry) /\ Append(u, e) \in Seq(Entry) /\ s \o Append(u, e) = Append(s \o u, e)
    BY <1>2
  <2>2. PICK a \in Seq(Item), b \in Seq(Item) : a = OfPeer(s, kind, p) /\ b = OfPeer(u, kind, p)
    BY <1>2, OfPeerSteps
  <2>3. OfPeer(s \o u, kind, p) = a \o b
    BY <1>2, <2>2
  <2>4. e.item \in Item
    BY <1>2 DEF Entry
  <2>5. a \o Append(b, e.item) = Append(a \o b, e.item)
    BY <2>2, <2>4
  <2>6. CASE e.kind = kind /\ e.peer = p
    <3>1. OfPeer(Append(s \o u, e), kind, p) = Append(a \o b, e.item)
      <4>1. PICK both \in Seq(Entry) : both = s \o u
        BY <2>1
      <4>2. OfPeer(Append(both, e), kind, p) = Append(OfPeer(both, kind, p), e.item)
        <5>1. PICK list \in Seq(Item) : list = OfPeer(both, kind, p)
          BY OfPeerSteps
        <5>2. PICK f \in Entry : f = e
          BY <1>2
        <5>3. OfPeer(Append(both, f), kind, p) = Append(list, f.item)
          BY <2>6, <5>1, <5>2, OfPeerMore
        <5> QED BY <5>1, <5>2, <5>3
      <4> QED BY <2>3, <4>1, <4>2
    <3>2. OfPeer(Append(u, e), kind, p) = Append(b, e.item)
      BY <1>2, <2>2, <2>6, OfPeerMore
    <3> QED BY <2>1, <2>2, <2>5, <3>1, <3>2
  <2>7. CASE ~(e.kind = kind /\ e.peer = p)
    <3>1. OfPeer(Append(s \o u, e), kind, p) = a \o b
      BY <1>2, <2>1, <2>3, <2>7, OfPeerSame
    <3>2. OfPeer(Append(u, e), kind, p) = b
      BY <1>2, <2>2, <2>7, OfPeerSame
    <3> QED BY <2>1, <2>2, <3>1, <3>2
  <2> QED BY <2>6, <2>7
<1> HIDE DEF Good
<1>3. Seq(Entry) \subseteq Good
  BY <1>1, <1>2, SequenceInduction
<1> QED BY <1>3 DEF Good

\* The entries of one peer, and the list it has again of them.
OfOne(kind, p, items) == [i \in 1..Len(items) |-> [kind |-> kind, peer |-> p, item |-> items[i]]]

\* It has all of them, and nothing of another peer or kind.
LEMMA OfPeerOne ==
  ASSUME NEW kind \in Kinds, NEW p \in Text, NEW items \in Seq(Item)
  PROVE  /\ OfOne(kind, p, items) \in Seq(Entry)
         /\ OfPeer(OfOne(kind, p, items), kind, p) = items
         /\ \A k, q : k # kind \/ q # p => OfPeer(OfOne(kind, p, items), k, q) = <<>>
<1> DEFINE Good == {u \in Seq(Item) :
                      /\ OfOne(kind, p, u) \in Seq(Entry)
                      /\ OfPeer(OfOne(kind, p, u), kind, p) = u
                      /\ \A k, q : k # kind \/ q # p => OfPeer(OfOne(kind, p, u), k, q) = <<>>}
<1>1. <<>> \in Good
  <2>1. OfOne(kind, p, <<>>) = <<>> /\ <<>> \in Seq(Entry) /\ <<>> \in Seq(Item)
    BY DEF OfOne
  <2> QED BY <2>1, OfPeerSteps
<1>2. ASSUME NEW u \in Seq(Item), u \in Good, NEW item \in Item PROVE Append(u, item) \in Good
  <2>1. PICK e \in Entry : e = [kind |-> kind, peer |-> p, item |-> item]
    BY <1>2 DEF Entry
  <2>2. PICK es \in Seq(Entry) : es = OfOne(kind, p, u)
    BY <1>2
  <2>3. Append(u, item) \in Seq(Item)
    BY <1>2, AppendProperties
  <2>4. OfOne(kind, p, Append(u, item)) = Append(es, e)
    <3>1. PICK n \in Nat : n = Len(u)
      BY <1>2
    <3>2. PICK more \in Seq(Item) : more = Append(u, item)
      BY <2>3
    <3>3. Len(more) = n + 1 /\ more[n + 1] = item /\ \A i \in 1..n : more[i] = u[i]
      BY <1>2, <3>1, <3>2
    <3>4. es = [i \in 1..n |-> [kind |-> kind, peer |-> p, item |-> u[i]]]
      BY <2>2, <3>1 DEF OfOne
    <3>5. OfOne(kind, p, more) = [i \in 1..(n + 1) |-> [kind |-> kind, peer |-> p, item |-> more[i]]]
      BY <3>3 DEF OfOne
    <3>6. Len(es) = n
      BY <2>2, <3>1, <3>4
    <3>7. Append(es, e) = [i \in 1..(n + 1) |-> IF i = n + 1 THEN e ELSE es[i]]
      BY <2>1, <2>2, <3>6
    <3>8. ASSUME NEW i \in 1..(n + 1)
          PROVE  [kind |-> kind, peer |-> p, item |-> more[i]] = IF i = n + 1 THEN e ELSE es[i]
      <4>1. CASE i = n + 1
        BY <2>1, <3>3, <4>1
      <4>2. CASE i # n + 1
        <5>1. i \in 1..n
          BY <3>8, <4>2
        <5>2. es[i] = [kind |-> kind, peer |-> p, item |-> u[i]]
          BY <3>4, <5>1
        <5> QED BY <3>3, <4>2, <5>1, <5>2, Zenon
      <4> QED BY <4>1, <4>2
    <3> QED BY <3>2, <3>5, <3>7, <3>8, Zenon
  <2>5. e.kind = kind /\ e.peer = p /\ e.item = item
    BY <2>1
  <2>6. Append(es, e) \in Seq(Entry)
    BY AppendProperties
  <2>7. OfPeer(es, kind, p) = u /\ \A k, q : k # kind \/ q # p => OfPeer(es, k, q) = <<>>
    BY <1>2, <2>2
  <2>8. OfPeer(Append(es, e), kind, p) = Append(u, item)
    BY <2>5, <2>7, OfPeerMore
  <2>9. ASSUME NEW k, NEW q, k # kind \/ q # p PROVE OfPeer(Append(es, e), k, q) = <<>>
    <3>1. ~(e.kind = k /\ e.peer = q)
      BY <2>5, <2>9, Zenon
    <3>2. OfPeer(Append(es, e), k, q) = OfPeer(es, k, q)
      BY <3>1, OfPeerSame
    <3> QED BY <2>7, <2>9, <3>2, Zenon
  <2>10. /\ OfOne(kind, p, Append(u, item)) \in Seq(Entry)
         /\ OfPeer(OfOne(kind, p, Append(u, item)), kind, p) = Append(u, item)
         /\ \A k, q : k # kind \/ q # p => OfPeer(OfOne(kind, p, Append(u, item)), k, q) = <<>>
    <3>1. PICK more : more = Append(es, e)
      OBVIOUS
    <3>2. more \in Seq(Entry) /\ OfPeer(more, kind, p) = Append(u, item)
          /\ \A k, q : k # kind \/ q # p => OfPeer(more, k, q) = <<>>
      BY <2>6, <2>8, <2>9, <3>1
    <3> QED BY <2>4, <3>1, <3>2
  <2> QED BY <2>3, <2>10
<1> HIDE DEF Good
<1>3. Seq(Item) \subseteq Good
  BY <1>1, <1>2, SequenceInduction
<1> QED BY <1>3 DEF Good

\* The items of a peer's list are those of its entries.
LEMMA OfPeerItems ==
  ASSUME NEW kind, NEW p, NEW es \in Seq(Entry)
  PROVE  /\ \A i \in 1..Len(OfPeer(es, kind, p)) : \E m \in 1..Len(es) :
              es[m].kind = kind /\ es[m].peer = p /\ es[m].item = OfPeer(es, kind, p)[i]
         /\ \A m \in 1..Len(es) : es[m].kind = kind /\ es[m].peer = p =>
              \E i \in 1..Len(OfPeer(es, kind, p)) : OfPeer(es, kind, p)[i] = es[m].item
<1> DEFINE From(u) == \A i \in 1..Len(OfPeer(u, kind, p)) : \E m \in 1..Len(u) :
                        u[m].kind = kind /\ u[m].peer = p /\ u[m].item = OfPeer(u, kind, p)[i]
           Into(u) == \A m \in 1..Len(u) : u[m].kind = kind /\ u[m].peer = p =>
                        \E i \in 1..Len(OfPeer(u, kind, p)) : OfPeer(u, kind, p)[i] = u[m].item
           Good == {u \in Seq(Entry) : From(u) /\ Into(u)}
<1>1. <<>> \in Good
  <2>1. <<>> \in Seq(Entry) /\ Len(<<>>) = 0
    OBVIOUS
  <2>2. OfPeer(<<>>, kind, p) = <<>>
    BY OfPeerSteps
  <2> QED BY <2>1, <2>2
<1>2. ASSUME NEW u \in Seq(Entry), u \in Good, NEW e \in Entry PROVE Append(u, e) \in Good
  <2>1. PICK list \in Seq(Item) : list = OfPeer(u, kind, p)
    BY <1>2, OfPeerSteps
  <2>2. PICK more \in Seq(Entry) : more = Append(u, e)
    <3>1. Append(u, e) \in Seq(Entry)
      BY <1>2, AppendProperties
    <3> QED BY <3>1, Zenon
  <2>3. PICK n \in Nat : n = Len(u)
    BY <1>2
  <2>4. Len(more) = n + 1 /\ more[n + 1] = e /\ \A i \in 1..n : more[i] = u[i]
    BY <1>2, <2>2, <2>3
  <2>5. /\ \A i \in 1..Len(list) : \E m \in 1..n : u[m].kind = kind /\ u[m].peer = p /\ u[m].item = list[i]
        /\ \A m \in 1..n : u[m].kind = kind /\ u[m].peer = p => \E i \in 1..Len(list) : list[i] = u[m].item
    BY <1>2, <2>1, <2>3
  <2> HIDE DEF Good, From, Into
  <2>6. CASE e.kind = kind /\ e.peer = p
    <3>1. e.item \in Item
      BY <1>2 DEF Entry
    <3>2. PICK longer \in Seq(Item) : longer = Append(list, e.item)
      BY <2>1, <3>1, AppendProperties
    <3>3. OfPeer(more, kind, p) = longer
      BY <1>2, <2>1, <2>2, <2>6, <3>2, OfPeerMore
    <3>4. Len(longer) = Len(list) + 1 /\ longer[Len(list) + 1] = e.item /\ \A i \in 1..Len(list) : longer[i] = list[i]
      BY <2>1, <3>1, <3>2
    <3>5. \A i \in 1..Len(longer) : \E m \in 1..(n + 1) :
            more[m].kind = kind /\ more[m].peer = p /\ more[m].item = longer[i]
      <4> TAKE i \in 1..Len(longer)
      <4>1. CASE i = Len(list) + 1
        <5>1. n + 1 \in 1..(n + 1)
          BY <2>3
        <5> QED BY <2>4, <2>6, <3>4, <4>1, <5>1, Zenon
      <4>2. CASE i # Len(list) + 1
        <5>1. i \in 1..Len(list)
          BY <2>1, <3>4, <4>2
        <5>2. PICK m \in 1..n : u[m].kind = kind /\ u[m].peer = p /\ u[m].item = list[i]
          BY <2>5, <5>1
        <5>3. m \in 1..(n + 1)
          BY <5>2
        <5> QED BY <2>4, <3>4, <5>1, <5>2, <5>3, Zenon
      <4> QED BY <4>1, <4>2
    <3>6. \A m \in 1..(n + 1) : more[m].kind = kind /\ more[m].peer = p =>
            \E i \in 1..Len(longer) : longer[i] = more[m].item
      <4> TAKE m \in 1..(n + 1)
      <4>1. CASE m = n + 1
        <5>1. Len(list) + 1 \in 1..Len(longer)
          BY <2>1, <3>4
        <5> QED BY <2>4, <3>4, <4>1, <5>1, Zenon
      <4>2. CASE m # n + 1
        <5>1. m \in 1..n
          BY <4>2
        <5>2. ASSUME more[m].kind = kind, more[m].peer = p
              PROVE  \E i \in 1..Len(longer) : longer[i] = more[m].item
          <6>1. PICK i \in 1..Len(list) : list[i] = u[m].item
            BY <2>4, <2>5, <5>1, <5>2, Zenon
          <6>2. i \in 1..Len(longer)
            BY <2>1, <3>4, <6>1
          <6> QED BY <2>4, <3>4, <5>1, <6>1, <6>2, Zenon
        <5> QED BY <5>2
      <4> QED BY <4>1, <4>2
    <3> QED BY <2>2, <2>4, <3>3, <3>5, <3>6, Zenon DEF Good, From, Into
  <2>7. CASE ~(e.kind = kind /\ e.peer = p)
    <3>1. OfPeer(more, kind, p) = list
      BY <1>2, <2>1, <2>2, <2>7, OfPeerSame
    <3>2. \A i \in 1..Len(list) : \E m \in 1..(n + 1) :
            more[m].kind = kind /\ more[m].peer = p /\ more[m].item = list[i]
      <4> TAKE i \in 1..Len(list)
      <4>1. PICK m \in 1..n : u[m].kind = kind /\ u[m].peer = p /\ u[m].item = list[i]
        BY <2>5
      <4>2. m \in 1..(n + 1)
        BY <4>1
      <4> QED BY <2>4, <4>1, <4>2, Zenon
    <3>3. \A m \in 1..(n + 1) : more[m].kind = kind /\ more[m].peer = p =>
            \E i \in 1..Len(list) : list[i] = more[m].item
      <4> TAKE m \in 1..(n + 1)
      <4>1. m = n + 1 \/ m \in 1..n
        OBVIOUS
      <4>2. ASSUME m \in 1..n, more[m].kind = kind, more[m].peer = p
            PROVE  \E i \in 1..Len(list) : list[i] = more[m].item
        <5>1. more[m] = u[m]
          BY <2>4, <4>2, Zenon
        <5>2. PICK i \in 1..Len(list) : list[i] = u[m].item
          BY <2>5, <4>2, <5>1
        <5> QED BY <5>1, <5>2
      <4>3. m = n + 1 => ~(more[m].kind = kind /\ more[m].peer = p)
        BY <2>4, <2>7, Zenon
      <4> QED BY <4>1, <4>2, <4>3, Zenon
    <3> QED BY <2>2, <2>4, <3>1, <3>2, <3>3, Zenon DEF Good, From, Into
  <2> QED BY <2>6, <2>7
<1> HIDE DEF Good
<1>3. Seq(Entry) \subseteq Good
  BY <1>1, <1>2, SequenceInduction
<1> QED BY <1>3 DEF Good

-----------------------------------------------------------------------------
(* What is written of the maps                                             *)

\* A map of lists of what messages carried, and an entry of it.
Known(map) == DOMAIN map \subseteq Peers /\ \A p \in DOMAIN map : map[p] \in Seq(KnownItem)
KnownEntry == [kind : Kinds, peer : Peers, item : KnownItem]

\* What is known is of the types of the file.
LEMMA KnownTypes ==
  /\ KnownItem \subseteq Item /\ Seq(KnownItem) \subseteq Seq(Item)
  /\ KnownEntry \subseteq Entry /\ Seq(KnownEntry) \subseteq Seq(Entry)
  /\ \A p \in Peers : p \in Text
<1>1. Left \subseteq Text
  <2>1. ASSUME NEW v \in Values, NEW x \in Prefixes(v) PROVE x \in Text
    <3>1. v \in Seq(Chars)
      BY <2>1, BusinessStateAssumption DEF Text
    <3> QED BY <2>1, <3>1, PrefixType DEF Text
  <2> QED BY <2>1, Zenon DEF Left
<1>2. Devices \subseteq Text
  BY BusinessStateAssumption
<1>3. \A p \in Peers : p \in Text
  <2>1. PICK ids \in Seq(Text) : ids = PeerIds
    BY BusinessStateAssumption
  <2>2. \A i \in DOMAIN ids : ids[i] \in Text
    BY <2>1
  <2> QED BY <2>1, <2>2, Zenon DEF Peers, ToSet
<1>4. KnownItem \subseteq Item
  BY <1>1, <1>2 DEF KnownItem, Item
<1>5. KnownEntry \subseteq Entry
  BY <1>3, <1>4 DEF KnownEntry, Entry
<1> QED BY <1>3, <1>4, <1>5

\* The list of a peer, which may not be there.
LEMMA ItemsType ==
  ASSUME NEW map, Known(map), NEW p
  PROVE  Items(map, p) \in Seq(KnownItem) /\ Items(map, p) \in Seq(Item)
<1>1. <<>> \in Seq(KnownItem)
  OBVIOUS
<1>2. Items(map, p) \in Seq(KnownItem)
  BY <1>1 DEF Items, Known
<1> QED BY <1>2, KnownTypes

\* What is written of some of the peers.
EntriesOfIds(kind, map, ids) ==
  Fold([list \in Seq(Entry) |-> [p \in Text |->
          list \o [i \in 1..Len(Items(map, p)) |-> [kind |-> kind, peer |-> p, item |-> Items(map, p)[i]]]]],
       <<>>, ids)

\* ... peer by peer.
LEMMA EntriesOfSteps ==
  ASSUME NEW kind \in Kinds, NEW map, Known(map)
  PROVE  /\ EntriesOfIds(kind, map, <<>>) = <<>>
         /\ \A ids \in Seq(Text) : EntriesOfIds(kind, map, ids) \in Seq(Entry)
         /\ \A ids \in Seq(Text), p \in Text :
              EntriesOfIds(kind, map, Append(ids, p))
                = EntriesOfIds(kind, map, ids) \o OfOne(kind, p, Items(map, p))
<1> DEFINE turn == [list \in Seq(Entry) |-> [p \in Text |->
                      list \o [i \in 1..Len(Items(map, p)) |->
                                 [kind |-> kind, peer |-> p, item |-> Items(map, p)[i]]]]]
<1>1. \A list \in Seq(Entry), p \in Text : turn[list][p] = list \o OfOne(kind, p, Items(map, p))
  BY DEF OfOne
<1>2. ASSUME NEW list \in Seq(Entry), NEW p \in Text
      PROVE  list \o OfOne(kind, p, Items(map, p)) \in Seq(Entry)
  <2>1. OfOne(kind, p, Items(map, p)) \in Seq(Entry)
    BY ItemsType, OfPeerOne
  <2> QED BY <2>1
<1>3. turn \in Turns(Seq(Entry), Text)
  BY <1>2 DEF Turns, OfOne
<1>4. \A ids : EntriesOfIds(kind, map, ids) = Fold(turn, <<>>, ids)
  BY DEF EntriesOfIds
<1>5. <<>> \in Seq(Entry)
  OBVIOUS
<1> HIDE DEF turn
<1>6. /\ Fold(turn, <<>>, <<>>) = <<>>
      /\ \A ids \in Seq(Text) : Fold(turn, <<>>, ids) \in Seq(Entry)
      /\ \A ids \in Seq(Text), p \in Text :
           Fold(turn, <<>>, Append(ids, p)) = turn[Fold(turn, <<>>, ids)][p]
  BY <1>3, <1>5, FoldLaws
<1>7. ASSUME NEW ids \in Seq(Text), NEW p \in Text
      PROVE  EntriesOfIds(kind, map, Append(ids, p))
               = EntriesOfIds(kind, map, ids) \o OfOne(kind, p, Items(map, p))
  BY <1>1, <1>4, <1>6, <1>7, Zenon
<1> QED BY <1>4, <1>6, <1>7, Zenon

\* Among the ids, and each of them once.
Among(p, ids) == \E i \in 1..Len(ids) : ids[i] = p
Once(ids)     == \A i, j \in 1..Len(ids) : ids[i] = ids[j] => i = j

\* The lists come back of what was written of them.
LEMMA EntriesOfPeers ==
  ASSUME NEW kind \in Kinds, NEW map, Known(map), NEW ids \in Seq(Text)
  PROVE  /\ \A k, p : k # kind \/ ~Among(p, ids) => OfPeer(EntriesOfIds(kind, map, ids), k, p) = <<>>
         /\ Once(ids) => \A p : Among(p, ids) => OfPeer(EntriesOfIds(kind, map, ids), kind, p) = Items(map, p)
<1> DEFINE None(u) == \A k, p : k # kind \/ ~Among(p, u) => OfPeer(EntriesOfIds(kind, map, u), k, p) = <<>>
           Back(u) == Once(u) => \A p : Among(p, u) => OfPeer(EntriesOfIds(kind, map, u), kind, p) = Items(map, p)
           Good == {u \in Seq(Text) : None(u) /\ Back(u)}
<1>1. <<>> \in Good
  <2>1. <<>> \in Seq(Text) /\ EntriesOfIds(kind, map, <<>>) = <<>>
    BY EntriesOfSteps
  <2>2. \A p : ~Among(p, <<>>)
    BY DEF Among
  <2>3. \A k, p : OfPeer(<<>>, k, p) = <<>>
    BY OfPeerSteps
  <2> QED BY <2>1, <2>2, <2>3
<1>2. ASSUME NEW u \in Seq(Text), u \in Good, NEW q \in Text PROVE Append(u, q) \in Good
  <2>1. None(u) /\ Back(u)
    BY <1>2
  <2>2. PICK more \in Seq(Text) : more = Append(u, q)
    <3>1. Append(u, q) \in Seq(Text)
      BY <1>2, AppendProperties
    <3> QED BY <3>1, Zenon
  <2>3. PICK n \in Nat : n = Len(u)
    BY <1>2
  <2>4. Len(more) = n + 1 /\ more[n + 1] = q /\ \A i \in 1..n : more[i] = u[i]
    BY <1>2, <2>2, <2>3
  <2>5. PICK es \in Seq(Entry) : es = EntriesOfIds(kind, map, u)
    BY <1>2, EntriesOfSteps
  <2>6. PICK items \in Seq(Item) : items = Items(map, q)
    BY ItemsType
  <2>7. PICK new \in Seq(Entry) : new = OfOne(kind, q, items)
    BY <1>2, OfPeerOne
  <2>8. EntriesOfIds(kind, map, more) = es \o new
    BY <1>2, <2>2, <2>5, <2>6, <2>7, EntriesOfSteps, Zenon
  <2>9. \A k, p : OfPeer(EntriesOfIds(kind, map, more), k, p) = OfPeer(es, k, p) \o OfPeer(new, k, p)
    BY <2>8, OfPeerConcat
  <2>10. OfPeer(new, kind, q) = items /\ \A k, p : k # kind \/ p # q => OfPeer(new, k, p) = <<>>
    BY <1>2, <2>7, OfPeerOne
  <2>11. \A p : Among(p, more) <=> p = q \/ Among(p, u)
    <3> TAKE p
    <3>1. ASSUME Among(p, more) PROVE p = q \/ Among(p, u)
      <4>1. PICK i \in 1..(n + 1) : more[i] = p
        BY <2>4, <3>1 DEF Among
      <4>2. i = n + 1 \/ i \in 1..Len(u)
        BY <2>3
      <4> QED BY <2>3, <2>4, <4>1, <4>2, Zenon DEF Among
    <3>2. ASSUME Among(p, u) PROVE Among(p, more)
      <4>1. PICK i \in 1..n : u[i] = p
        BY <2>3, <3>2 DEF Among
      <4>2. i \in 1..Len(more)
        BY <2>4, <4>1
      <4> QED BY <2>4, <4>1, <4>2, Zenon DEF Among
    <3>3. Among(q, more)
      <4>1. n + 1 \in 1..Len(more)
        BY <2>4
      <4> QED BY <2>4, <4>1, Zenon DEF Among
    <3> QED BY <3>1, <3>2, <3>3
  <2>12. Once(more) => Once(u) /\ ~Among(q, u)
    <3>1. ASSUME Once(more) PROVE Once(u)
      <4>1. ASSUME NEW i \in 1..Len(u), NEW j \in 1..Len(u), u[i] = u[j] PROVE i = j
        <5>1. i \in 1..n /\ j \in 1..n /\ i \in 1..Len(more) /\ j \in 1..Len(more)
          BY <2>3, <2>4
        <5> QED BY <2>4, <3>1, <4>1, <5>1, Zenon DEF Once
      <4> QED BY <4>1 DEF Once
    <3>2. ASSUME Once(more), Among(q, u) PROVE FALSE
      <4>1. PICK i \in 1..n : u[i] = q
        BY <2>3, <3>2 DEF Among
      <4>2. i \in 1..Len(more) /\ n + 1 \in 1..Len(more) /\ i # n + 1
        BY <2>4, <4>1
      <4> QED BY <2>4, <3>2, <4>1, <4>2, Zenon DEF Once
    <3> QED BY <3>1, <3>2
  <2>13. <<>> \o <<>> = <<>> /\ <<>> \o items = items /\ \A list \in Seq(KnownItem) : list \o <<>> = list
    BY <2>6
  <2> HIDE DEF None, Back
  <2>14. None(more)
    <3>1. ASSUME NEW k, NEW p, k # kind \/ ~Among(p, more)
          PROVE  OfPeer(EntriesOfIds(kind, map, more), k, p) = <<>>
      <4>1. OfPeer(es, k, p) = <<>>
        BY <2>1, <2>5, <2>11, <3>1, Zenon DEF None
      <4>2. OfPeer(new, k, p) = <<>>
        BY <2>10, <2>11, <3>1, Zenon
      <4> QED BY <2>9, <2>13, <4>1, <4>2, Zenon
    <3> QED BY <3>1 DEF None
  <2>15. Back(more)
    <3>1. ASSUME Once(more), NEW p, Among(p, more)
          PROVE  OfPeer(EntriesOfIds(kind, map, more), kind, p) = Items(map, p)
      <4>1. CASE p = q
        <5>1. OfPeer(es, kind, p) = <<>>
          BY <2>1, <2>5, <2>12, <3>1, <4>1, Zenon DEF None
        <5> QED BY <2>6, <2>9, <2>10, <2>13, <4>1, <5>1, Zenon
      <4>2. CASE p # q
        <5>1. OfPeer(es, kind, p) = Items(map, p)
          BY <2>1, <2>5, <2>11, <2>12, <3>1, <4>2, Zenon DEF Back
        <5>2. OfPeer(new, kind, p) = <<>>
          BY <2>10, <4>2, Zenon
        <5>3. PICK list \in Seq(KnownItem) : list = Items(map, p)
          BY ItemsType
        <5>4. OfPeer(EntriesOfIds(kind, map, more), kind, p) = list \o <<>>
          BY <2>9, <5>1, <5>2, <5>3, Zenon
        <5>5. list \o <<>> = list
          BY <2>13, Zenon
        <5> QED BY <5>3, <5>4, <5>5, Zenon
      <4> QED BY <4>1, <4>2
    <3> QED BY <3>1 DEF Back
  <2> QED BY <2>2, <2>14, <2>15
<1> HIDE DEF Good
<1>3. Seq(Text) \subseteq Good
  BY <1>1, <1>2, SequenceInduction
<1> QED BY <1>3 DEF Good

\* Of the entries of both maps.
LEMMA EntriesLists ==
  ASSUME NEW cat, Known(cat), NEW rec, Known(rec)
  PROVE  /\ Entries(cat, rec) \in Seq(Entry)
         /\ \A p : OfPeer(Entries(cat, rec), "CATALOG", p) = Items(cat, p)
         /\ \A p : OfPeer(Entries(cat, rec), "RECORD", p) = Items(rec, p)
<1>1. "CATALOG" \in Kinds /\ "RECORD" \in Kinds /\ "CATALOG" # "RECORD"
  BY DEF Kinds
<1>2. PeerIds \in Seq(Text) /\ Once(PeerIds)
  <2>1. PICK ids \in Seq(Text) : ids = PeerIds
    BY BusinessStateAssumption
  <2>2. IsInjective(ids)
    BY <2>1, BusinessStateAssumption
  <2>3. DOMAIN ids = 1..Len(ids)
    BY <2>1
  <2> QED BY <2>1, <2>2, <2>3, Zenon DEF IsInjective, Once
<1>3. \A p : p \in Peers <=> Among(p, PeerIds)
  <2>1. DOMAIN PeerIds = 1..Len(PeerIds)
    BY <1>2
  <2> QED BY <2>1 DEF Peers, ToSet, Among
<1>4. PICK a \in Seq(Entry), b \in Seq(Entry) : a = EntriesOf("CATALOG", cat) /\ b = EntriesOf("RECORD", rec)
  <2>1. EntriesOf("CATALOG", cat) \in Seq(Entry)
    BY <1>1, <1>2, EntriesOfSteps, Zenon DEF EntriesOf, EntriesOfIds
  <2>2. EntriesOf("RECORD", rec) \in Seq(Entry)
    BY <1>1, <1>2, EntriesOfSteps, Zenon DEF EntriesOf, EntriesOfIds
  <2> QED BY <2>1, <2>2
<1>5. a = EntriesOfIds("CATALOG", cat, PeerIds) /\ b = EntriesOfIds("RECORD", rec, PeerIds)
  BY <1>4, Zenon DEF EntriesOf, EntriesOfIds
<1>6. Entries(cat, rec) = a \o b
  BY <1>4 DEF Entries
<1>7. ASSUME NEW map, Known(map), NEW p, ~Among(p, PeerIds) PROVE Items(map, p) = <<>>
  BY <1>3, <1>7, Zenon DEF Items, Known
<1>8. \A p : OfPeer(a, "CATALOG", p) = Items(cat, p) /\ OfPeer(a, "RECORD", p) = <<>>
  <2> TAKE p
  <2>1. /\ \A k, q : k # "CATALOG" \/ ~Among(q, PeerIds) => OfPeer(a, k, q) = <<>>
        /\ \A q : Among(q, PeerIds) => OfPeer(a, "CATALOG", q) = Items(cat, q)
    BY <1>1, <1>2, <1>5, EntriesOfPeers
  <2> QED BY <1>1, <1>7, <2>1, Zenon
<1>9. \A p : OfPeer(b, "RECORD", p) = Items(rec, p) /\ OfPeer(b, "CATALOG", p) = <<>>
  <2> TAKE p
  <2>1. /\ \A k, q : k # "RECORD" \/ ~Among(q, PeerIds) => OfPeer(b, k, q) = <<>>
        /\ \A q : Among(q, PeerIds) => OfPeer(b, "RECORD", q) = Items(rec, q)
    BY <1>1, <1>2, <1>5, EntriesOfPeers
  <2> QED BY <1>1, <1>7, <2>1, Zenon
<1>10. \A k, p : OfPeer(a \o b, k, p) = OfPeer(a, k, p) \o OfPeer(b, k, p)
  BY OfPeerConcat
<1>11. \A map, p : Known(map) => Items(map, p) \o <<>> = Items(map, p) /\ <<>> \o Items(map, p) = Items(map, p)
  <2>1. \A list \in Seq(Item) : list \o <<>> = list /\ <<>> \o list = list
    OBVIOUS
  <2> QED BY <2>1, ItemsType, Zenon
<1>12. a \o b \in Seq(Entry)
  OBVIOUS
<1>13. ASSUME NEW p PROVE OfPeer(a \o b, "CATALOG", p) = Items(cat, p) /\ OfPeer(a \o b, "RECORD", p) = Items(rec, p)
  <2>1. OfPeer(a \o b, "CATALOG", p) = Items(cat, p) \o <<>>
    BY <1>8, <1>9, <1>10, Zenon
  <2>2. OfPeer(a \o b, "RECORD", p) = <<>> \o Items(rec, p)
    BY <1>8, <1>9, <1>10, Zenon
  <2> QED BY <1>11, <2>1, <2>2
<1> QED BY <1>6, <1>12, <1>13, Zenon

\* The entries of known lists are known.
LEMMA EntriesKnown ==
  ASSUME NEW cat, Known(cat), NEW rec, Known(rec)
  PROVE  Entries(cat, rec) \in Seq(KnownEntry)
<1>1. PICK es \in Seq(Entry) : /\ es = Entries(cat, rec)
                               /\ \A p : OfPeer(es, "CATALOG", p) = Items(cat, p)
                               /\ \A p : OfPeer(es, "RECORD", p) = Items(rec, p)
  BY EntriesLists
<1>2. ASSUME NEW m \in 1..Len(es) PROVE es[m] \in KnownEntry
  <2>1. es[m] \in Entry
    BY <1>2, ElementOfSeq
  <2>2. es[m].kind \in {"CATALOG", "RECORD"}
    BY <2>1 DEF Entry, Kinds
  <2>3. PICK map : Known(map) /\ OfPeer(es, es[m].kind, es[m].peer) = Items(map, es[m].peer)
    BY <1>1, <2>2, Zenon
  <2>4. PICK i \in 1..Len(Items(map, es[m].peer)) : Items(map, es[m].peer)[i] = es[m].item
    <3>1. PICK kind, p : kind = es[m].kind /\ p = es[m].peer
      OBVIOUS
    <3>2. \E i \in 1..Len(OfPeer(es, kind, p)) : OfPeer(es, kind, p)[i] = es[m].item
      BY <1>2, <3>1, OfPeerItems
    <3> QED BY <2>3, <3>1, <3>2, Zenon
  <2>5. Items(map, es[m].peer) \in Seq(KnownItem)
    BY <2>3, ItemsType, Zenon
  <2>6. es[m].item \in KnownItem
    BY <2>4, <2>5, ElementOfSeq
  <2>7. es[m].peer \in Peers
    <3>1. Len(<<>>) = 0
      OBVIOUS
    <3>2. Items(map, es[m].peer) # <<>>
      BY <2>4, <3>1
    <3> QED BY <2>3, <3>2, Zenon DEF Items, Known
  <2> QED BY <2>1, <2>6, <2>7 DEF Entry, KnownEntry
<1> QED BY <1>1, <1>2

\* Grouped has the lists that are not empty.
LEMMA GroupedLists ==
  ASSUME NEW es \in Seq(Entry), NEW kind
  PROVE  Grouped(es, kind) = [p \in {q \in Text : OfPeer(es, kind, q) # <<>>} |-> OfPeer(es, kind, p)]
<1> DEFINE named == {e.peer : e \in {x \in ToSet(es) : x.kind = kind}}
<1>1. ASSUME NEW q \in named PROVE q \in Text /\ OfPeer(es, kind, q) # <<>>
  <2>1. PICK m \in 1..Len(es) : es[m].kind = kind /\ es[m].peer = q
    BY <1>1 DEF ToSet
  <2>2. es[m] \in Entry
    BY <2>1, ElementOfSeq
  <2>3. PICK list : list = OfPeer(es, kind, q)
    OBVIOUS
  <2>4. PICK i \in 1..Len(list) : list[i] = es[m].item
    BY <2>1, <2>3, OfPeerItems
  <2>5. list # <<>>
    BY <2>4
  <2> QED BY <2>1, <2>2, <2>3, <2>5 DEF Entry
<1>2. ASSUME NEW q, OfPeer(es, kind, q) # <<>> PROVE q \in named
  <2>1. PICK list \in Seq(Item) : list = OfPeer(es, kind, q)
    BY OfPeerSteps
  <2>2. 1 \in 1..Len(list)
    BY <1>2, <2>1
  <2>3. PICK m \in 1..Len(es) : es[m].kind = kind /\ es[m].peer = q
    <3>1. \A i \in 1..Len(list) : \E m \in 1..Len(es) : es[m].kind = kind /\ es[m].peer = q
      BY <2>1, OfPeerItems
    <3> QED BY <2>2, <3>1
  <2>4. es[m] \in ToSet(es)
    BY <2>3 DEF ToSet
  <2> QED BY <2>3, <2>4
<1>3. named = {q \in Text : OfPeer(es, kind, q) # <<>>}
  <2> HIDE DEF named
  <2> QED BY <1>1, <1>2
<1> QED BY <1>3, Zenon DEF Grouped

\* The lists of a map are those of the entries, and the map without what is empty.
ListsOf(es, kind, map) == \A p : OfPeer(es, kind, p) = Items(map, p)
NotEmpty(map)          == [p \in {q \in DOMAIN map : map[q] # <<>>} |-> map[p]]

\* The entries with the lists of a map make the map again, without what is empty.
LEMMA GroupedOf ==
  ASSUME NEW es \in Seq(Entry), NEW kind, NEW map, Known(map), ListsOf(es, kind, map)
  PROVE  Grouped(es, kind) = NotEmpty(map)
<1>0. \A p : OfPeer(es, kind, p) = Items(map, p)
  BY Zenon DEF ListsOf
<1>1. {q \in Text : OfPeer(es, kind, q) # <<>>} = {q \in DOMAIN map : map[q] # <<>>}
  <2>1. \A q : Items(map, q) # <<>> <=> q \in DOMAIN map /\ map[q] # <<>>
    BY DEF Items
  <2>2. \A q \in DOMAIN map : q \in Text
    BY KnownTypes, Zenon DEF Known
  <2> QED BY <1>0, <2>1, <2>2
<1>2. \A p \in {q \in DOMAIN map : map[q] # <<>>} : OfPeer(es, kind, p) = map[p]
  BY <1>0, Zenon DEF Items
<1>3. Grouped(es, kind) = [p \in {q \in Text : OfPeer(es, kind, q) # <<>>} |-> OfPeer(es, kind, p)]
  BY GroupedLists
<1> QED BY <1>1, <1>2, <1>3 DEF NotEmpty

\* So what was written of the maps and read again are the lists that were not empty.
LEMMA GroupedEntries ==
  ASSUME NEW cat, Known(cat), NEW rec, Known(rec)
  PROVE  /\ Grouped(Entries(cat, rec), "CATALOG") = NotEmpty(cat)
         /\ Grouped(Entries(cat, rec), "RECORD") = NotEmpty(rec)
<1>1. Entries(cat, rec) \in Seq(Entry)
  BY EntriesLists
<1>2. ListsOf(Entries(cat, rec), "CATALOG", cat) /\ ListsOf(Entries(cat, rec), "RECORD", rec)
  BY EntriesLists DEF ListsOf
<1> QED BY <1>1, <1>2, GroupedOf, Zenon

-----------------------------------------------------------------------------
(* Each id once in a catalog                                               *)

\* What TypeOK says of a catalog ...
UniqueIds(list) == \A i, j \in 1..Len(list) : list[i].id = list[j].id => i = j

\* ... and what the entries of the file must be for that.
UniqueIn(es) ==
  \A i, j \in 1..Len(es) :
    es[i].kind = "CATALOG" /\ es[j].kind = "CATALOG" /\ es[i].peer = es[j].peer /\ es[i].item.id = es[j].item.id
      => i = j

\* One item more keeps the ids unique when its id is new, and only then.
LEMMA UniqueAppend ==
  ASSUME NEW list \in Seq(Item), NEW item \in Item
  PROVE  UniqueIds(Append(list, item)) <=> UniqueIds(list) /\ \A i \in 1..Len(list) : list[i].id # item.id
<1>1. PICK n \in Nat : n = Len(list)
  OBVIOUS
<1>2. PICK more \in Seq(Item) : more = Append(list, item)
  BY AppendProperties, Zenon
<1>3. Len(more) = n + 1 /\ more[n + 1] = item /\ \A i \in 1..n : more[i] = list[i]
  BY <1>1, <1>2, AppendProperties
<1>4. \A i \in 1..(n + 1) : i \in 1..n \/ i = n + 1
  OBVIOUS
<1>5. \A i \in 1..n : i \in 1..(n + 1) /\ i # n + 1
  OBVIOUS
<1>6. n + 1 \in 1..(n + 1)
  OBVIOUS
<1>7. ASSUME UniqueIds(more) PROVE UniqueIds(list) /\ \A i \in 1..Len(list) : list[i].id # item.id
  <2>1. \A i, j \in 1..(n + 1) : more[i].id = more[j].id => i = j
    BY <1>3, <1>7, Zenon DEF UniqueIds
  <2>2. \A i, j \in 1..n : list[i].id = list[j].id => i = j
    BY <1>3, <1>5, <2>1, Zenon
  <2>3. \A i \in 1..n : list[i].id # item.id
    BY <1>3, <1>5, <1>6, <2>1, Zenon
  <2> QED BY <1>1, <2>2, <2>3, Zenon DEF UniqueIds
<1>8. ASSUME UniqueIds(list), \A i \in 1..Len(list) : list[i].id # item.id PROVE UniqueIds(more)
  <2>1. \A i, j \in 1..n : list[i].id = list[j].id => i = j
    BY <1>1, <1>8, Zenon DEF UniqueIds
  <2>2. ASSUME NEW i \in 1..(n + 1), NEW j \in 1..(n + 1), more[i].id = more[j].id PROVE i = j
    BY <1>1, <1>3, <1>4, <1>8, <2>1, <2>2, Zenon
  <2> QED BY <1>3, <2>2, Zenon DEF UniqueIds
<1> QED BY <1>2, <1>7, <1>8, Zenon

\* The same of the entries.
LEMMA UniqueInAppend ==
  ASSUME NEW es \in Seq(Entry), NEW e \in Entry
  PROVE  UniqueIn(Append(es, e)) <=>
           /\ UniqueIn(es)
           /\ e.kind = "CATALOG" => \A m \in 1..Len(es) :
                es[m].kind = "CATALOG" /\ es[m].peer = e.peer => es[m].item.id # e.item.id
<1>1. PICK n \in Nat : n = Len(es)
  OBVIOUS
<1>2. PICK more \in Seq(Entry) : more = Append(es, e)
  BY AppendProperties, Zenon
<1>3. Len(more) = n + 1 /\ more[n + 1] = e /\ \A i \in 1..n : more[i] = es[i]
  BY <1>1, <1>2, AppendProperties
<1>4. \A i \in 1..(n + 1) : i \in 1..n \/ i = n + 1
  OBVIOUS
<1>5. \A i \in 1..n : i \in 1..(n + 1) /\ i # n + 1
  OBVIOUS
<1>6. n + 1 \in 1..(n + 1)
  OBVIOUS
<1> DEFINE Apart(a, b) == ~(/\ a.kind = "CATALOG" /\ b.kind = "CATALOG"
                            /\ a.peer = b.peer /\ a.item.id = b.item.id)
<1>7. UniqueIn(es) <=> \A i, j \in 1..n : i = j \/ Apart(es[i], es[j])
  BY <1>1, Zenon DEF UniqueIn
<1>8. UniqueIn(more) <=> \A i, j \in 1..(n + 1) : i = j \/ Apart(more[i], more[j])
  BY <1>3, Zenon DEF UniqueIn
<1>9. \A a, b : Apart(a, b) => Apart(b, a)
  BY Zenon
<1>10. (e.kind = "CATALOG" => \A m \in 1..Len(es) :
          es[m].kind = "CATALOG" /\ es[m].peer = e.peer => es[m].item.id # e.item.id)
        <=> \A m \in 1..n : Apart(es[m], e)
  BY <1>1, Zenon
<1> HIDE DEF Apart
<1>11. ASSUME \A i, j \in 1..(n + 1) : i = j \/ Apart(more[i], more[j])
       PROVE  (\A i, j \in 1..n : i = j \/ Apart(es[i], es[j])) /\ \A m \in 1..n : Apart(es[m], e)
  BY <1>3, <1>5, <1>6, <1>11, Zenon
<1>12. ASSUME \A i, j \in 1..n : i = j \/ Apart(es[i], es[j]), \A m \in 1..n : Apart(es[m], e)
       PROVE  \A i, j \in 1..(n + 1) : i = j \/ Apart(more[i], more[j])
  <2> TAKE i, j \in 1..(n + 1)
  <2> QED BY <1>3, <1>4, <1>9, <1>12, Zenon
<1> QED BY <1>2, <1>7, <1>8, <1>10, <1>11, <1>12, Zenon

\* The ids are unique in every catalog exactly when they are in the entries.
LEMMA UniqueLists ==
  ASSUME NEW es \in Seq(Entry)
  PROVE  UniqueIn(es) <=> \A p : UniqueIds(OfPeer(es, "CATALOG", p))
<1> DEFINE All(u) == \A p : UniqueIds(OfPeer(u, "CATALOG", p))
           Good == {u \in Seq(Entry) : UniqueIn(u) <=> All(u)}
<1>1. <<>> \in Good
  <2>1. <<>> \in Seq(Entry) /\ \A p : OfPeer(<<>>, "CATALOG", p) = <<>>
    BY OfPeerSteps
  <2>2. UniqueIn(<<>>) /\ UniqueIds(<<>>)
    BY DEF UniqueIn, UniqueIds
  <2> QED BY <2>1, <2>2
<1>2. ASSUME NEW u \in Seq(Entry), u \in Good, NEW e \in Entry PROVE Append(u, e) \in Good
  <2>1. UniqueIn(u) <=> All(u)
    BY <1>2
  <2>2. PICK more \in Seq(Entry) : more = Append(u, e)
    <3>1. Append(u, e) \in Seq(Entry)
      BY <1>2, AppendProperties
    <3> QED BY <3>1, Zenon
  <2>3. UniqueIn(more) <=>
          /\ UniqueIn(u)
          /\ e.kind = "CATALOG" => \A m \in 1..Len(u) :
               u[m].kind = "CATALOG" /\ u[m].peer = e.peer => u[m].item.id # e.item.id
    BY <1>2, <2>2, UniqueInAppend
  <2>4. PICK list \in Seq(Item) : list = OfPeer(u, "CATALOG", e.peer)
    BY <1>2, OfPeerSteps
  <2>5. e.item \in Item
    BY <1>2 DEF Entry
  <2> HIDE DEF Good
  <2>6. CASE e.kind # "CATALOG"
    <3>1. \A p : OfPeer(more, "CATALOG", p) = OfPeer(u, "CATALOG", p)
      BY <1>2, <2>2, <2>6, OfPeerSame
    <3>2. UniqueIn(more) <=> All(more)
      BY <2>1, <2>3, <2>6, <3>1
    <3> QED BY <2>2, <3>2 DEF Good
  <2>7. CASE e.kind = "CATALOG"
    <3>1. OfPeer(more, "CATALOG", e.peer) = Append(list, e.item)
      BY <1>2, <2>2, <2>4, <2>7, OfPeerMore
    <3>2. \A p : p # e.peer => OfPeer(more, "CATALOG", p) = OfPeer(u, "CATALOG", p)
      BY <1>2, <2>2, OfPeerSame
    <3>3. UniqueIds(Append(list, e.item)) <=> UniqueIds(list) /\ \A i \in 1..Len(list) : list[i].id # e.item.id
      BY <2>4, <2>5, UniqueAppend
    <3>4. (\A i \in 1..Len(list) : list[i].id # e.item.id) <=>
          \A m \in 1..Len(u) : u[m].kind = "CATALOG" /\ u[m].peer = e.peer => u[m].item.id # e.item.id
      <4>1. \A i \in 1..Len(list) : \E m \in 1..Len(u) :
              u[m].kind = "CATALOG" /\ u[m].peer = e.peer /\ u[m].item = list[i]
        BY <1>2, <2>4, OfPeerItems
      <4>2. \A m \in 1..Len(u) : u[m].kind = "CATALOG" /\ u[m].peer = e.peer =>
              \E i \in 1..Len(list) : list[i] = u[m].item
        BY <1>2, <2>4, OfPeerItems
      <4>3. ASSUME \A i \in 1..Len(list) : list[i].id # e.item.id,
                   NEW m \in 1..Len(u), u[m].kind = "CATALOG", u[m].peer = e.peer
            PROVE  u[m].item.id # e.item.id
        <5>1. PICK i \in 1..Len(list) : list[i] = u[m].item
          BY <4>2, <4>3
        <5> QED BY <4>3, <5>1
      <4>4. ASSUME \A m \in 1..Len(u) : u[m].kind = "CATALOG" /\ u[m].peer = e.peer => u[m].item.id # e.item.id,
                   NEW i \in 1..Len(list)
            PROVE  list[i].id # e.item.id
        <5>1. PICK m \in 1..Len(u) : u[m].kind = "CATALOG" /\ u[m].peer = e.peer /\ u[m].item = list[i]
          BY <4>1, <4>4
        <5> QED BY <4>4, <5>1
      <4> QED BY <4>3, <4>4, Zenon
    <3>5. All(more) <=> All(u) /\ \A i \in 1..Len(list) : list[i].id # e.item.id
      BY <2>4, <3>1, <3>2, <3>3, Zenon
    <3>6. UniqueIn(more) <=> All(more)
      BY <2>1, <2>3, <2>7, <3>4, <3>5, Zenon
    <3> QED BY <2>2, <3>6 DEF Good
  <2> QED BY <2>6, <2>7
<1> HIDE DEF Good
<1>3. Seq(Entry) \subseteq Good
  BY <1>1, <1>2, SequenceInduction
<1> QED BY <1>3 DEF Good

\* An item replaces one or follows.
LEMMA WithItemType ==
  ASSUME NEW T, NEW list \in Seq(T), NEW item \in T
  PROVE  WithItem(list, item) \in Seq(T)
<1>1. CASE \E i \in 1..Len(list) : list[i].id = item.id
  <2>1. PICK i \in 1..Len(list) : i = CHOOSE j \in 1..Len(list) : list[j].id = item.id
    BY <1>1, Zenon
  <2>2. [list EXCEPT ![i] = item] \in Seq(T)
    BY <2>1
  <2> QED BY <1>1, <2>1, <2>2, Zenon DEF WithItem
<1>2. CASE ~\E i \in 1..Len(list) : list[i].id = item.id
  BY <1>2, AppendProperties, Zenon DEF WithItem
<1> QED BY <1>1, <1>2

\* ... so that the ids stay unique.
LEMMA WithItemUnique ==
  ASSUME NEW list \in Seq(Item), NEW item \in Item, UniqueIds(list)
  PROVE  UniqueIds(WithItem(list, item))
<1>1. CASE \E i \in 1..Len(list) : list[i].id = item.id
  <2>1. PICK i \in 1..Len(list) : /\ i = CHOOSE j \in 1..Len(list) : list[j].id = item.id
                                  /\ list[i].id = item.id
    BY <1>1, Zenon
  <2>2. PICK new \in Seq(Item) : new = [list EXCEPT ![i] = item]
    <3>1. [list EXCEPT ![i] = item] \in Seq(Item)
      BY <2>1
    <3> QED BY <3>1, Zenon
  <2>3. Len(new) = Len(list) /\ \A k \in 1..Len(list) : new[k].id = list[k].id
    BY <2>1, <2>2
  <2>4. UniqueIds(new)
    BY <2>3, Zenon DEF UniqueIds
  <2> QED BY <1>1, <2>1, <2>2, <2>4, Zenon DEF WithItem
<1>2. CASE ~\E i \in 1..Len(list) : list[i].id = item.id
  <2>1. UniqueIds(Append(list, item))
    BY <1>2, UniqueAppend
  <2> QED BY <1>2, <2>1, Zenon DEF WithItem
<1> QED BY <1>1, <1>2

\* A catalog after the items of a message.
Merged(list, items) == Fold([l \in Seq(Item) |-> [item \in Item |-> WithItem(l, item)]], list, items)

\* It keeps its type, and the ids unique.
LEMMA MergedKeeps ==
  ASSUME NEW list \in Seq(KnownItem), UniqueIds(list), NEW items \in Seq(KnownItem)
  PROVE  Merged(list, items) \in Seq(KnownItem) /\ UniqueIds(Merged(list, items))
<1> DEFINE turn == [l \in Seq(Item) |-> [item \in Item |-> WithItem(l, item)]]
           Good == {u \in Seq(KnownItem) : Merged(list, u) \in Seq(KnownItem) /\ UniqueIds(Merged(list, u))}
<1>1. turn \in Turns(Seq(Item), Item)
  BY WithItemType DEF Turns
<1>2. \A l \in Seq(Item), item \in Item : turn[l][item] = WithItem(l, item)
  OBVIOUS
<1>3. \A u : Merged(list, u) = Fold(turn, list, u)
  BY DEF Merged
<1> HIDE DEF turn
<1>4. list \in Seq(Item)
  BY KnownTypes
<1>5. /\ Fold(turn, list, <<>>) = list
      /\ \A u \in Seq(Item), item \in Item : Fold(turn, list, Append(u, item)) = turn[Fold(turn, list, u)][item]
  BY <1>1, <1>4, FoldLaws
<1>6. <<>> \in Good
  <2>1. <<>> \in Seq(KnownItem)
    OBVIOUS
  <2>2. Merged(list, <<>>) = list
    BY <1>3, <1>5, Zenon
  <2> QED BY <2>1, <2>2
<1>7. ASSUME NEW u \in Seq(KnownItem), u \in Good, NEW item \in KnownItem PROVE Append(u, item) \in Good
  <2>1. Append(u, item) \in Seq(KnownItem)
    BY <1>7, AppendProperties
  <2>2. PICK l \in Seq(KnownItem) : l = Merged(list, u) /\ UniqueIds(l)
    BY <1>7
  <2> HIDE DEF Good
  <2>3. u \in Seq(Item) /\ item \in Item /\ l \in Seq(Item)
    BY <1>7, KnownTypes
  <2>4. Merged(list, Append(u, item)) = WithItem(l, item)
    <3>1. l = Fold(turn, list, u)
      BY <1>3, <2>2, Zenon
    <3>2. Fold(turn, list, Append(u, item)) = turn[l][item]
      BY <1>5, <2>3, <3>1
    <3>3. turn[l][item] = WithItem(l, item)
      BY <1>2, <2>3, Zenon
    <3> QED BY <1>3, <3>2, <3>3, Zenon
  <2>5. WithItem(l, item) \in Seq(KnownItem)
    BY <1>7, WithItemType
  <2>6. UniqueIds(WithItem(l, item))
    BY <2>2, <2>3, WithItemUnique
  <2> QED BY <2>1, <2>4, <2>5, <2>6, Zenon DEF Good
<1> HIDE DEF Good
<1>8. Seq(KnownItem) \subseteq Good
  BY <1>6, <1>7, SequenceInduction
<1> QED BY <1>8 DEF Good

-----------------------------------------------------------------------------
(* What is read of a beginning of the file                                 *)

\* Entry by entry it is what was saved, but for the end of the last one.
LEMMA ReadIsSaved ==
  ASSUME NEW es \in Seq(Entry), NEW entries, RestoredOf(es, entries)
  PROVE  /\ entries \in Seq(Entry) /\ Len(entries) <= Len(es)
         /\ \A k \in 1..Len(entries) : /\ Torn(entries[k], es[k])
                                       /\ k < Len(entries) => entries[k] = es[k]
<1>1. ASSUME NEW e \in Entry PROVE Torn(e, e)
  <2>1. e.item.endTime \in Seq(Chars) /\ e.item.parental \in Seq(Chars)
    BY <1>1 DEF Entry, Item, Text
  <2>2. e.item.endTime \in Prefixes(e.item.endTime) /\ e.item.parental \in Prefixes(e.item.parental)
    BY <2>1, PrefixEnds, Zenon
  <2> QED BY <1>1, <2>2, Zenon DEF Torn
<1>2. \A k \in 1..Len(es) : es[k] \in Entry
  BY ElementOfSeq
<1>3. PICK j \in 0..Len(es) :
        \/ entries = SubSeq(es, 1, j)
        \/ j < Len(es) /\ \E d \in Entry : Torn(d, es[j + 1]) /\ entries = Append(SubSeq(es, 1, j), d)
  BY Zenon DEF RestoredOf
<1>4. PICK first \in Seq(Entry) : first = SubSeq(es, 1, j) /\ Len(first) = j /\ \A i \in 1..j : first[i] = es[i]
  BY FirstElements, Zenon
<1>5. CASE entries = SubSeq(es, 1, j)
  <2>1. entries \in Seq(Entry) /\ Len(entries) = j /\ j <= Len(es)
    BY <1>4, <1>5
  <2>2. \A k \in 1..j : entries[k] = es[k] /\ k \in 1..Len(es)
    BY <1>4, <1>5
  <2>3. \A k \in 1..j : Torn(entries[k], es[k])
    BY <1>1, <1>2, <2>2, Zenon
  <2> QED BY <2>1, <2>2, <2>3, Zenon
<1>6. CASE j < Len(es) /\ \E d \in Entry : Torn(d, es[j + 1]) /\ entries = Append(SubSeq(es, 1, j), d)
  <2>1. PICK d \in Entry : Torn(d, es[j + 1]) /\ entries = Append(first, d)
    BY <1>4, <1>6, Zenon
  <2>2. entries \in Seq(Entry) /\ Len(entries) = j + 1 /\ entries[j + 1] = d /\ \A i \in 1..j : entries[i] = first[i]
    BY <1>4, <2>1, AppendProperties
  <2>3. \A k \in 1..j : entries[k] = es[k] /\ k \in 1..Len(es)
    BY <1>4, <2>2
  <2>4. ASSUME NEW k \in 1..(j + 1) PROVE Torn(entries[k], es[k]) /\ (k < j + 1 => entries[k] = es[k])
    <3>1. CASE k = j + 1
      BY <2>1, <2>2, <3>1
    <3>2. CASE k # j + 1
      <4>1. k \in 1..j
        BY <3>2
      <4> QED BY <1>1, <1>2, <2>3, <4>1, Zenon
    <3> QED BY <3>1, <3>2
  <2>5. j + 1 <= Len(es)
    BY <1>6
  <2> QED BY <2>2, <2>4, <2>5, Zenon
<1> QED BY <1>3, <1>5, <1>6

\* So it is known, and its ids are as unique as they were.
LEMMA ReadIsKnown ==
  ASSUME NEW es \in Seq(KnownEntry), UniqueIn(es), NEW entries, RestoredOf(es, entries)
  PROVE  entries \in Seq(KnownEntry) /\ UniqueIn(entries)
<1>1. es \in Seq(Entry)
  BY KnownTypes
<1>2. /\ entries \in Seq(Entry) /\ Len(entries) <= Len(es)
      /\ \A k \in 1..Len(entries) : Torn(entries[k], es[k])
  BY <1>1, ReadIsSaved
<1>3. \A k \in 1..Len(entries) : k \in 1..Len(es)
  BY <1>2
<1>4. ASSUME NEW v \in Left, NEW x \in Prefixes(v) PROVE x \in Left
  <2>1. PICK w \in Values : v \in Prefixes(w)
    BY <1>4 DEF Left
  <2>2. w \in Seq(Chars)
    BY <2>1, BusinessStateAssumption DEF Text
  <2>3. x \in Prefixes(w)
    BY <1>4, <2>1, <2>2, PrefixTransitive
  <2> QED BY <2>1, <2>3 DEF Left
<1>5. ASSUME NEW k \in 1..Len(entries) PROVE entries[k] \in KnownEntry
  <2>1. PICK e \in KnownEntry : e = es[k]
    BY <1>3, <1>5, ElementOfSeq
  <2>2. PICK d \in Entry : d = entries[k] /\ Torn(d, e)
    BY <1>2, <1>5, <2>1, ElementOfSeq, Zenon
  <2>3. /\ d.kind = e.kind /\ d.peer = e.peer /\ d.item.id = e.item.id
        /\ d.item.endTime \in Prefixes(e.item.endTime) /\ d.item.parental \in Prefixes(e.item.parental)
    BY <2>2 DEF Torn
  <2>4. /\ e.kind \in Kinds /\ e.peer \in Peers /\ e.item.id \in Devices
        /\ e.item.endTime \in Left /\ e.item.parental \in Left
    BY <2>1 DEF KnownEntry, KnownItem
  <2>5. d.item.endTime \in Left /\ d.item.parental \in Left
    BY <1>4, <2>3, <2>4
  <2>6. d.item \in Item
    BY <2>2 DEF Entry
  <2>7. d.item \in KnownItem
    BY <2>3, <2>4, <2>5, <2>6 DEF Item, KnownItem
  <2> QED BY <2>2, <2>3, <2>4, <2>7 DEF Entry, KnownEntry
<1>6. \A k \in 1..Len(entries) : /\ entries[k].kind = es[k].kind /\ entries[k].peer = es[k].peer
                                 /\ entries[k].item.id = es[k].item.id
  BY <1>2, Zenon DEF Torn
<1>7. UniqueIn(entries)
  BY <1>3, <1>6, Zenon DEF UniqueIn
<1> QED BY <1>2, <1>5, <1>7

\* What known entries make is a known map.
LEMMA GroupedKnown ==
  ASSUME NEW es \in Seq(KnownEntry), NEW kind
  PROVE  /\ Known(Grouped(es, kind))
         /\ \A p \in DOMAIN Grouped(es, kind) : Grouped(es, kind)[p] = OfPeer(es, kind, p)
<1>1. es \in Seq(Entry)
  BY KnownTypes
<1>2. ASSUME NEW p PROVE OfPeer(es, kind, p) \in Seq(KnownItem)
  <2>1. PICK list \in Seq(Item) : list = OfPeer(es, kind, p)
    BY <1>1, OfPeerSteps
  <2>2. ASSUME NEW i \in 1..Len(list) PROVE list[i] \in KnownItem
    <3>1. PICK m \in 1..Len(es) : es[m].item = list[i]
      <4>1. \A n \in 1..Len(list) : \E m \in 1..Len(es) : es[m].item = list[n]
        BY <1>1, <2>1, OfPeerItems
      <4> QED BY <2>2, <4>1, Zenon
    <3>2. es[m] \in KnownEntry
      BY <3>1, ElementOfSeq
    <3> QED BY <3>1, <3>2 DEF KnownEntry
  <2> QED BY <2>1, <2>2
<1>3. ASSUME NEW p \in {e.peer : e \in {x \in ToSet(es) : x.kind = kind}} PROVE p \in Peers
  <2>1. PICK m \in 1..Len(es) : es[m].peer = p
    BY <1>3 DEF ToSet
  <2>2. es[m] \in KnownEntry
    BY <2>1, ElementOfSeq
  <2> QED BY <2>1, <2>2 DEF KnownEntry
<1> QED BY <1>2, <1>3, Zenon DEF Known, Grouped

-----------------------------------------------------------------------------
(* The inductive invariant                                                 *)

\* The file is a beginning of what the saved entries are written as; these are
\* what messages carried, and name no item of a catalog twice.
FileInv ==
  /\ saved \in Seq(KnownEntry) /\ UniqueIn(saved)
  /\ file \in Prefixes(FileText(saved))

\* The inductive invariant.
BusinessInv == TypeOK /\ FileInv

\* The type invariant, map by map.
LEMMA TypeOKParts ==
  TypeOK <=> /\ Known(catalog) /\ Known(records)
             /\ \A p \in DOMAIN catalog : UniqueIds(catalog[p])
             /\ updates \in 0..MaxUpdates
BY DEF TypeOK, Known, UniqueIds

\* A list of what messages carried, put for a peer.
LEMMA PutKnown ==
  ASSUME NEW map, Known(map), NEW p \in Peers, NEW items \in Seq(KnownItem)
  PROVE  Known(Put(map, p, items))
BY DEF Known, Put

\* Nothing is known of an empty map.
LEMMA EmptyKnown == Known(Empty) /\ DOMAIN Empty = {}
BY DEF Known, Empty

\* What a message carries is known.
LEMMA ListsKnown ==
  ASSUME NEW items \in Lists
  PROVE  items \in Seq(KnownItem)
<1>1. items \in Seq([id : Devices, endTime : Values, parental : Values])
  BY BusinessStateAssumption
<1>2. \A v \in Values : v \in Left
  <2> TAKE v \in Values
  <2>1. v \in Seq(Chars)
    BY BusinessStateAssumption DEF Text
  <2>2. v \in Prefixes(v)
    BY <2>1, PrefixEnds, Zenon
  <2> QED BY <2>2 DEF Left
<1>3. PICK Sent : Sent = [id : Devices, endTime : Values, parental : Values]
  OBVIOUS
<1>4. Sent \subseteq KnownItem
  BY <1>2, <1>3 DEF KnownItem
<1>5. items \in Seq(Sent)
  BY <1>1, <1>3
<1> QED BY <1>4, <1>5

\* It holds when the process starts.
LEMMA BusinessInit == Init => BusinessInv
<1> SUFFICES ASSUME Init PROVE BusinessInv
  OBVIOUS
<1>1. catalog = Empty /\ records = Empty /\ file = <<>> /\ saved = <<>> /\ updates = 0
  BY DEF Init
<1>2. 0 \in 0..MaxUpdates
  BY BusinessStateAssumption
<1>3. TypeOK
  BY <1>1, <1>2, EmptyKnown, TypeOKParts
<1>4. saved \in Seq(KnownEntry) /\ UniqueIn(saved)
  BY <1>1 DEF UniqueIn
<1>5. FileText(saved) \in Seq(Chars)
  BY <1>4, FileTextSteps, KnownTypes DEF Text
<1>6. file \in Prefixes(FileText(saved))
  BY <1>1, <1>5, PrefixEnds
<1> QED BY <1>3, <1>4, <1>6 DEF BusinessInv, FileInv

\* The steps that leave the file alone.
LEMMA FileKept ==
  ASSUME FileInv, UNCHANGED <<file, saved>>
  PROVE  FileInv'
BY DEF FileInv

\* A query that is sent empties the catalog of the peer.
LEMMA RequestKeeps ==
  ASSUME BusinessInv, NEW p \in Peers, RequestCatalog(p)
  PROVE  BusinessInv'
<1>1. /\ catalog' = Put(catalog, p, <<>>) /\ updates' = updates + 1 /\ updates < MaxUpdates
      /\ UNCHANGED <<records, file, saved>>
  BY DEF RequestCatalog
<1>2. /\ Known(catalog) /\ Known(records) /\ updates \in 0..MaxUpdates
      /\ \A q \in DOMAIN catalog : UniqueIds(catalog[q])
  BY TypeOKParts DEF BusinessInv
<1>3. <<>> \in Seq(KnownItem) /\ UniqueIds(<<>>)
  BY DEF UniqueIds
<1>4. Known(catalog')
  BY <1>1, <1>2, <1>3, PutKnown
<1>5. \A q \in DOMAIN catalog' : UniqueIds(catalog'[q])
  BY <1>1, <1>2, <1>3, Zenon DEF Put
<1>6. updates' \in 0..MaxUpdates
  BY <1>1, <1>2, BusinessStateAssumption
<1>7. Known(records')
  BY <1>1, <1>2
<1>8. TypeOK'
  BY <1>4, <1>5, <1>6, <1>7 DEF TypeOK, Known, UniqueIds
<1>9. FileInv'
  BY <1>1, FileKept DEF BusinessInv
<1> QED BY <1>8, <1>9 DEF BusinessInv

\* A response is merged into it.
LEMMA CatalogKeeps ==
  ASSUME BusinessInv, NEW p \in Peers, NEW items \in Lists, CatalogResponse(p, items)
  PROVE  BusinessInv'
<1>1. /\ catalog' = Put(catalog, p, Merged(Items(catalog, p), items)) /\ updates' = updates + 1
      /\ updates < MaxUpdates /\ UNCHANGED <<records, file, saved>>
  BY Zenon DEF CatalogResponse, appendCatalog, Merged
<1>2. /\ Known(catalog) /\ Known(records) /\ updates \in 0..MaxUpdates
      /\ \A q \in DOMAIN catalog : UniqueIds(catalog[q])
  BY TypeOKParts DEF BusinessInv
<1>3. items \in Seq(KnownItem) /\ Items(catalog, p) \in Seq(KnownItem)
  BY <1>2, ListsKnown, ItemsType
<1>4. UniqueIds(Items(catalog, p))
  <2>1. UniqueIds(<<>>)
    BY DEF UniqueIds
  <2> QED BY <1>2, <2>1, Zenon DEF Items
<1>5. PICK list \in Seq(KnownItem) : list = Merged(Items(catalog, p), items) /\ UniqueIds(list)
  BY <1>3, <1>4, MergedKeeps
<1>6. Known(catalog')
  BY <1>1, <1>2, <1>5, PutKnown
<1>7. \A q \in DOMAIN catalog' : UniqueIds(catalog'[q])
  BY <1>1, <1>2, <1>5, Zenon DEF Put
<1>8. updates' \in 0..MaxUpdates
  BY <1>1, <1>2, BusinessStateAssumption
<1>9. Known(records')
  BY <1>1, <1>2
<1>10. TypeOK'
  BY <1>6, <1>7, <1>8, <1>9 DEF TypeOK, Known, UniqueIds
<1>11. FileInv'
  BY <1>1, FileKept DEF BusinessInv
<1> QED BY <1>10, <1>11 DEF BusinessInv

\* The records of a peer are replaced.
LEMMA RecordKeeps ==
  ASSUME BusinessInv, NEW p \in Peers, NEW items \in Lists, RecordResponse(p, items)
  PROVE  BusinessInv'
<1>1. /\ records' = Put(records, p, items) /\ updates' = updates + 1 /\ updates < MaxUpdates
      /\ UNCHANGED <<catalog, file, saved>>
  BY DEF RecordResponse
<1>2. /\ Known(catalog) /\ Known(records) /\ updates \in 0..MaxUpdates
      /\ \A q \in DOMAIN catalog : UniqueIds(catalog[q])
  BY TypeOKParts DEF BusinessInv
<1>3. Known(records')
  BY <1>1, <1>2, ListsKnown, PutKnown
<1>4. updates' \in 0..MaxUpdates
  BY <1>1, <1>2, BusinessStateAssumption
<1>5. Known(catalog') /\ \A q \in DOMAIN catalog' : UniqueIds(catalog'[q])
  BY <1>1, <1>2
<1>6. TypeOK'
  BY <1>3, <1>4, <1>5 DEF TypeOK, Known, UniqueIds
<1>7. FileInv'
  BY <1>1, FileKept DEF BusinessInv
<1> QED BY <1>6, <1>7 DEF BusinessInv

\* A save leaves a beginning of the text of what is in the maps.
LEMMA SaveKeeps ==
  ASSUME BusinessInv, Save
  PROVE  BusinessInv'
<1>1. /\ file' \in Prefixes(FileText(Entries(catalog, records))) /\ saved' = Entries(catalog, records)
      /\ UNCHANGED <<catalog, records, updates>>
  BY DEF Save, serialize
<1>2. /\ Known(catalog) /\ Known(records) /\ \A q \in DOMAIN catalog : UniqueIds(catalog[q])
  BY TypeOKParts DEF BusinessInv
<1>3. saved' \in Seq(KnownEntry)
  BY <1>1, <1>2, EntriesKnown
<1>4. UniqueIn(saved')
  <2>1. \A p : UniqueIds(Items(catalog, p))
    <3>1. UniqueIds(<<>>)
      BY DEF UniqueIds
    <3> QED BY <1>2, <3>1, Zenon DEF Items
  <2>2. PICK es \in Seq(Entry) : es = Entries(catalog, records) /\ \A p : OfPeer(es, "CATALOG", p) = Items(catalog, p)
    BY <1>2, EntriesLists
  <2>3. \A p : UniqueIds(OfPeer(es, "CATALOG", p))
    BY <2>1, <2>2
  <2> QED BY <1>1, <2>2, <2>3, UniqueLists
<1>5. TypeOK'
  <2>1. TypeOK /\ UNCHANGED <<catalog, records, updates>>
    BY <1>1 DEF BusinessInv
  <2> QED BY <2>1 DEF TypeOK
<1>6. FileInv'
  BY <1>1, <1>3, <1>4 DEF FileInv
<1> QED BY <1>5, <1>6 DEF BusinessInv

\* A load, whatever was left of the file, makes maps that could have been.
LEMMA LoadKeeps ==
  ASSUME BusinessInv, Load
  PROVE  BusinessInv'
<1>1. PICK entries : /\ entries = restore(file).entries /\ restore(file).ok
                     /\ catalog' = Grouped(entries, "CATALOG") /\ records' = Grouped(entries, "RECORD")
                     /\ UNCHANGED <<file, saved, updates>>
  BY DEF Load
<1>2. saved \in Seq(KnownEntry) /\ UniqueIn(saved) /\ file \in Prefixes(FileText(saved)) /\ updates \in 0..MaxUpdates
  BY TypeOKParts DEF BusinessInv, FileInv
<1>3. RestoredOf(saved, entries)
  <2>1. saved \in Seq(Entry)
    BY <1>2, KnownTypes
  <2> QED BY <1>1, <1>2, <2>1, RestoreTorn
<1>4. entries \in Seq(KnownEntry) /\ UniqueIn(entries)
  BY <1>2, <1>3, ReadIsKnown
<1>5. Known(catalog') /\ Known(records')
  BY <1>1, <1>4, GroupedKnown
<1>6. \A p \in DOMAIN catalog' : UniqueIds(catalog'[p])
  <2>1. entries \in Seq(Entry)
    BY <1>4, KnownTypes
  <2>2. \A p : UniqueIds(OfPeer(entries, "CATALOG", p))
    BY <1>4, <2>1, UniqueLists
  <2>3. \A p \in DOMAIN Grouped(entries, "CATALOG") :
          Grouped(entries, "CATALOG")[p] = OfPeer(entries, "CATALOG", p)
    BY <1>4, GroupedKnown
  <2> QED BY <1>1, <2>2, <2>3, Zenon
<1>7. updates' \in 0..MaxUpdates
  BY <1>1, <1>2
<1>8. TypeOK'
  BY <1>5, <1>6, <1>7 DEF TypeOK, Known, UniqueIds
<1>9. FileInv'
  BY <1>1, FileKept DEF BusinessInv
<1> QED BY <1>8, <1>9 DEF BusinessInv

\* A new start forgets the maps and leaves the file.
LEMMA StartKeeps ==
  ASSUME BusinessInv, Start
  PROVE  BusinessInv'
<1>1. catalog' = Empty /\ records' = Empty /\ UNCHANGED <<file, saved, updates>>
  BY DEF Start
<1>2. updates' \in 0..MaxUpdates
  BY <1>1, TypeOKParts DEF BusinessInv
<1>3. TypeOK'
  BY <1>1, <1>2, EmptyKnown DEF TypeOK, Known
<1>4. FileInv'
  BY <1>1, FileKept DEF BusinessInv
<1> QED BY <1>3, <1>4 DEF BusinessInv

\* Every step keeps it.
LEMMA BusinessNext == BusinessInv /\ [Next]_vars => BusinessInv'
<1> SUFFICES ASSUME BusinessInv, [Next]_vars PROVE BusinessInv'
  OBVIOUS
<1>1. ASSUME NEW p \in Peers, RequestCatalog(p) PROVE BusinessInv'
  BY <1>1, RequestKeeps
<1>2. ASSUME NEW p \in Peers, NEW items \in Lists, CatalogResponse(p, items) PROVE BusinessInv'
  BY <1>2, CatalogKeeps
<1>3. ASSUME NEW p \in Peers, NEW items \in Lists, RecordResponse(p, items) PROVE BusinessInv'
  BY <1>3, RecordKeeps
<1>4. CASE Save
  BY <1>4, SaveKeeps
<1>5. CASE Load
  BY <1>5, LoadKeeps
<1>6. CASE Start
  BY <1>6, StartKeeps
<1>7. CASE UNCHANGED vars
  <2>1. TypeOK' /\ FileInv'
    BY <1>7 DEF BusinessInv, TypeOK, FileInv, vars
  <2> QED BY <2>1 DEF BusinessInv
<1> QED BY <1>1, <1>2, <1>3, <1>4, <1>5, <1>6, <1>7, Zenon DEF Next

\* The invariant of the specification.
LEMMA BusinessInvariant == Spec => []BusinessInv
BY BusinessInit, BusinessNext, PTL DEF Spec

-----------------------------------------------------------------------------
(* The theorems                                                            *)

\* Whatever is loaded, from however much of a file: the maps are of the node's
\* peers, their items are what messages carried, or what a torn line has left of
\* it, and no catalog names an item twice (BusinessState::appendCatalog, restore).
THEOREM BusinessTypeCorrect == Spec => []TypeOK
<1>1. BusinessInv => TypeOK
  BY DEF BusinessInv
<1> QED BY <1>1, BusinessInvariant, PTL

\* BusinessState::restore undoes BusinessState::serialize, for every character of
\* every id and attribute, tabs, line ends and backslashes among them: the lists
\* that are not empty come back as they were.
THEOREM RoundTripSafety == Spec => []RoundTrip
<1>1. BusinessInv => RoundTrip
  <2> SUFFICES ASSUME BusinessInv PROVE RoundTrip
    OBVIOUS
  <2>1. Known(catalog) /\ Known(records)
    BY TypeOKParts DEF BusinessInv
  <2>2. Entries(catalog, records) \in Seq(Entry)
    BY <2>1, EntriesLists
  <2>3. restore(serialize(catalog, records)).ok
        /\ restore(serialize(catalog, records)).entries = Entries(catalog, records)
    BY <2>2, RestoreWhole DEF serialize
  <2>4. /\ Grouped(Entries(catalog, records), "CATALOG") = NotEmpty(catalog)
        /\ Grouped(Entries(catalog, records), "RECORD") = NotEmpty(records)
    BY <2>1, GroupedEntries
  <2> QED BY <2>3, <2>4 DEF RoundTrip, NotEmpty
<1> QED BY <1>1, BusinessInvariant, PTL

\* Wherever the writing of the file stopped (BusinessState::saveToFile overwrites
\* it in place), loadFromFile fails or brings back the first of the saved items,
\* each under its own peer and id, and only the last may have lost the end of its
\* attributes.
THEOREM TornFileSafety == Spec => []TornFileIsPrefix
<1>1. BusinessInv => TornFileIsPrefix
  <2> SUFFICES ASSUME BusinessInv, restore(file).ok
               PROVE  LET read == restore(file)
                      IN  /\ Len(read.entries) <= Len(saved)
                          /\ \A k \in 1..Len(read.entries) :
                               LET e == read.entries[k]
                               IN  /\ e.kind = saved[k].kind /\ e.peer = saved[k].peer
                                   /\ e.item.id = saved[k].item.id
                                   /\ e.item.endTime \in Prefixes(saved[k].item.endTime)
                                   /\ e.item.parental \in Prefixes(saved[k].item.parental)
                                   /\ k < Len(read.entries) => e.item = saved[k].item
    BY DEF TornFileIsPrefix
  <2>1. saved \in Seq(Entry) /\ file \in Prefixes(FileText(saved))
    BY KnownTypes DEF BusinessInv, FileInv
  <2>2. PICK entries : entries = restore(file).entries
    OBVIOUS
  <2>3. RestoredOf(saved, entries)
    BY <2>1, <2>2, RestoreTorn
  <2>4. /\ Len(entries) <= Len(saved)
        /\ \A k \in 1..Len(entries) : Torn(entries[k], saved[k]) /\ (k < Len(entries) => entries[k] = saved[k])
    BY <2>1, <2>3, ReadIsSaved, Zenon
  <2> QED BY <2>2, <2>4 DEF Torn
<1> QED BY <1>1, BusinessInvariant, PTL
=============================================================================
