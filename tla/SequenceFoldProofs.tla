------------------------- MODULE SequenceFoldProofs -------------------------
(***************************************************************************)
(* What going through a sequence gives, turn by turn, and what can be      *)
(* shown of every sequence by going through it: the lemmas that the proofs *)
(* about texts, packets and lists of items rest on.                        *)
(***************************************************************************)
EXTENDS SequenceFold, SequencesExt, SequenceTheorems, WellFoundedInduction, TLAPS

(* Recursion on the length of a sequence                                   *)

\* A set of numbers that is not empty has a smallest one.
LEMMA Smallest ==
  ASSUME NEW S \in SUBSET Nat, S # {}
  PROVE  \E x \in S : \A y \in S : x <= y
<1>1. PICK x \in S : \A y \in S : ~(<<y, x>> \in OpToRel(<, Nat))
  BY NatLessThanWellFounded, WFMin, Zenon
<1>2. ASSUME NEW y \in S, y < x PROVE FALSE
  <2>1. <<y, x>> \in Nat \X Nat /\ <<y, x>>[1] = y /\ <<y, x>>[2] = x
    OBVIOUS
  <2>2. <<y, x>> \in OpToRel(<, Nat)
    BY <1>2, <2>1 DEF OpToRel
  <2> QED BY <1>1, <2>2
<1> QED BY <1>2

\* A function with a given value at 0 and a given step from each value to the next.
Buildable(S, first, n, turn) ==
  \E g \in [0..n -> S] : g[0] = first /\ \A k \in 1..n : g[k] = turn[<<k, g[k - 1]>>]

\* There is such a function.
LEMMA RecursionExists ==
  ASSUME NEW S, NEW first \in S, NEW n \in Nat, NEW turn \in [(1..n) \X S -> S]
  PROVE  Buildable(S, first, n, turn)
<1> DEFINE upTo(m) == Buildable(S, first, m, turn)
           bad == {m \in 0..n : ~upTo(m)}
<1> SUFFICES ASSUME bad # {} PROVE FALSE
  <2>1. n \in 0..n
    OBVIOUS
  <2> HIDE DEF upTo
  <2>2. bad = {} => upTo(n)
    BY <2>1
  <2> QED BY <2>2 DEF upTo
<1>1. PICK m \in bad : \A y \in bad : m <= y
  <2>1. bad \in SUBSET Nat
    OBVIOUS
  <2> HIDE DEF bad
  <2> QED BY <2>1, Smallest
<1>2. upTo(0)
  <2> DEFINE g == [k \in 0..0 |-> first]
  <2>1. g \in [0..0 -> S] /\ g[0] = first
    OBVIOUS
  <2>2. \A k \in 1..0 : g[k] = turn[<<k, g[k - 1]>>]
    OBVIOUS
  <2> HIDE DEF g
  <2> QED BY <2>1, <2>2 DEF Buildable
<1>3. m # 0 /\ m \in Nat /\ upTo(m - 1)
  <2>1. m # 0
    BY <1>2
  <2> QED BY <1>1, <2>1
<1>4. PICK g \in [0..(m - 1) -> S] :
        g[0] = first /\ \A k \in 1..(m - 1) : g[k] = turn[<<k, g[k - 1]>>]
  BY <1>3 DEF Buildable
<1> DEFINE h == [k \in 0..m |-> IF k = m THEN turn[<<m, g[m - 1]>>] ELSE g[k]]
<1>5. turn[<<m, g[m - 1]>>] \in S
  <2>1. m \in 1..n /\ g[m - 1] \in S
    BY <1>3
  <2>2. <<m, g[m - 1]>> \in (1..n) \X S
    BY <2>1
  <2> QED BY <2>2
<1>6. h \in [0..m -> S]
  BY <1>3, <1>5
<1>7. h[0] = first
  BY <1>3, <1>4
<1>8. ASSUME NEW k \in 1..m PROVE h[k] = turn[<<k, h[k - 1]>>]
  <2>1. h[k - 1] = g[k - 1]
    BY <1>3
  <2>2. CASE k = m
    <3>1. h[k] = turn[<<m, g[m - 1]>>]
      BY <2>2
    <3> HIDE DEF h
    <3> QED BY <2>1, <2>2, <3>1
  <2>3. CASE k # m
    <3>1. h[k] = g[k] /\ k \in 1..(m - 1)
      BY <1>3, <2>3
    <3> HIDE DEF h
    <3> QED BY <1>4, <2>1, <3>1
  <2> QED BY <2>2, <2>3
<1>9. upTo(m)
  <2> HIDE DEF h
  <2> QED BY <1>6, <1>7, <1>8 DEF Buildable
<1> QED BY <1>9

\* Functions that start alike and go on alike ...
GoOnAlike(f, g, n) == f[0] = g[0] /\ \A k \in 1..n : f[k - 1] = g[k - 1] => f[k] = g[k]

\* ... are alike.
LEMMA RecursionUnique ==
  ASSUME NEW n \in Nat, NEW f, NEW g, GoOnAlike(f, g, n)
  PROVE  \A k \in 0..n : f[k] = g[k]
<1> DEFINE bad == {k \in 0..n : f[k] # g[k]}
<1> SUFFICES ASSUME bad # {} PROVE FALSE
  OBVIOUS
<1>1. PICK k \in bad : \A y \in bad : k <= y
  <2>1. bad \in SUBSET Nat
    OBVIOUS
  <2> HIDE DEF bad
  <2> QED BY <2>1, Smallest
<1>2. k \in 1..n /\ k - 1 \notin bad /\ k - 1 \in 0..n
  BY <1>1 DEF GoOnAlike
<1> QED BY <1>2 DEF GoOnAlike

-----------------------------------------------------------------------------
(* Folds                                                                   *)

\* Turns over elements of T that make elements of S.
Turns(S, T) == [S -> [T -> S]]

\* The results after each turn.
FoldSteps(turn, first, seq, g) ==
  /\ g[0] = first
  /\ \A k \in 1..Len(seq) : g[k] = turn[g[k - 1]][seq[k]]
  /\ Fold(turn, first, seq) = g[Len(seq)]

\* The turns have results.
LEMMA FoldRecursion ==
  ASSUME NEW S, NEW T, NEW first \in S, NEW turn \in Turns(S, T), NEW seq \in Seq(T)
  PROVE  \E g \in [0..Len(seq) -> S] : FoldSteps(turn, first, seq, g)
<1>0. PICK n \in Nat : n = Len(seq)
  OBVIOUS
<1> DEFINE pairs == [p \in (1..n) \X S |-> turn[p[2]][seq[p[1]]]]
           step(u) == [k \in 0..n |-> IF k = 0 THEN first ELSE turn[u[k - 1]][seq[k]]]
           f == CHOOSE u : u = step(u)
<1>1. Fold(turn, first, seq) = f[n]
  BY <1>0, Zenon DEF Fold
<1>2. pairs \in [(1..n) \X S -> S]
  <2>1. \A p \in (1..n) \X S : turn[p[2]][seq[p[1]]] \in S
    BY <1>0 DEF Turns
  <2> QED BY <2>1
<1>3. PICK g \in [0..n -> S] : g[0] = first /\ \A k \in 1..n : g[k] = pairs[<<k, g[k - 1]>>]
  <2> HIDE DEF pairs
  <2>1. Buildable(S, first, n, pairs)
    BY <1>2, RecursionExists, Zenon
  <2> QED BY <2>1, Zenon DEF Buildable
<1>4. ASSUME NEW k \in 1..n PROVE g[k] = turn[g[k - 1]][seq[k]]
  <2>1. <<k, g[k - 1]>> \in (1..n) \X S
    OBVIOUS
  <2>2. pairs[<<k, g[k - 1]>>] = turn[g[k - 1]][seq[k]]
    BY <2>1
  <2> QED BY <1>3, <2>2
<1> HIDE DEF pairs
<1>5. g = step(g)
  <2>1. \A k \in 0..n : g[k] = IF k = 0 THEN first ELSE turn[g[k - 1]][seq[k]]
    <3> TAKE k \in 0..n
    <3>1. k = 0 \/ (k # 0 /\ k \in 1..n)
      OBVIOUS
    <3> QED BY <1>3, <1>4, <3>1, Zenon
  <2>2. g = [k \in 0..n |-> g[k]]
    OBVIOUS
  <2> QED BY <2>1, <2>2, Zenon
<1>6. f = step(f)
  <2> HIDE DEF step
  <2> QED BY <1>5
<1> HIDE DEF f
<1>7. \A k \in 0..n : f[k] = IF k = 0 THEN first ELSE turn[f[k - 1]][seq[k]]
  BY <1>6, Zenon
<1> HIDE DEF step
<1>8. ASSUME NEW k \in 1..n, f[k - 1] = g[k - 1] PROVE f[k] = g[k]
  <2>1. k \in 0..n /\ k # 0
    OBVIOUS
  <2> QED BY <1>4, <1>7, <1>8, <2>1, Zenon
<1>9. f[0] = g[0]
  <2>1. 0 \in 0..n
    OBVIOUS
  <2> QED BY <1>3, <1>7, <2>1, Zenon
<1>10. f[n] = g[n]
  <2>1. GoOnAlike(f, g, n)
    BY <1>8, <1>9, Zenon DEF GoOnAlike
  <2>2. \A k \in 0..n : f[k] = g[k]
    BY <2>1, RecursionUnique
  <2> QED BY <2>2
<1>11. FoldSteps(turn, first, seq, g)
  BY <1>0, <1>1, <1>3, <1>4, <1>10, Zenon DEF FoldSteps
<1> QED BY <1>0, <1>11

\* What a fold gives is of the type of its turns' results.
LEMMA FoldType ==
  ASSUME NEW S, NEW T, NEW first \in S, NEW turn \in Turns(S, T), NEW seq \in Seq(T)
  PROVE  Fold(turn, first, seq) \in S
<1>1. PICK g \in [0..Len(seq) -> S] : FoldSteps(turn, first, seq, g)
  BY FoldRecursion
<1>2. Len(seq) \in 0..Len(seq)
  OBVIOUS
<1> QED BY <1>1, <1>2 DEF FoldSteps

\* Without turns it gives what it starts from.
LEMMA FoldEmpty ==
  ASSUME NEW S, NEW T, NEW first \in S, NEW turn \in Turns(S, T)
  PROVE  Fold(turn, first, <<>>) = first
<1>1. <<>> \in Seq(T) /\ Len(<<>>) = 0
  OBVIOUS
<1>2. PICK g : FoldSteps(turn, first, <<>>, g)
  BY <1>1, FoldRecursion, Zenon
<1> QED BY <1>1, <1>2 DEF FoldSteps

\* One element more is one turn more.
LEMMA FoldAppend ==
  ASSUME NEW S, NEW T, NEW first \in S, NEW turn \in Turns(S, T),
         NEW seq \in Seq(T), NEW e \in T
  PROVE  Fold(turn, first, Append(seq, e)) = turn[Fold(turn, first, seq)][e]
<1> DEFINE longer == Append(seq, e)
<1>0. PICK n \in Nat : n = Len(seq)
  OBVIOUS
<1>1. longer \in Seq(T) /\ Len(longer) = n + 1 /\ longer[n + 1] = e
      /\ \A k \in 1..n : longer[k] = seq[k]
  BY <1>0
<1> HIDE DEF longer
<1>2. PICK f \in [0..Len(seq) -> S] : FoldSteps(turn, first, seq, f)
  BY FoldRecursion
<1>3. PICK g \in [0..Len(longer) -> S] : FoldSteps(turn, first, longer, g)
  BY <1>1, FoldRecursion
<1>4. ASSUME NEW k \in 1..n, f[k - 1] = g[k - 1] PROVE f[k] = g[k]
  <2>1. k \in 1..Len(seq) /\ k \in 1..Len(longer)
    BY <1>0, <1>1
  <2>2. f[k] = turn[f[k - 1]][seq[k]] /\ g[k] = turn[g[k - 1]][longer[k]]
    BY <1>2, <1>3, <2>1, Zenon DEF FoldSteps
  <2> QED BY <1>1, <1>4, <2>2, Zenon
<1>5. f[n] = g[n]
  <2>1. f[0] = g[0]
    BY <1>2, <1>3, Zenon DEF FoldSteps
  <2>2. GoOnAlike(f, g, n)
    BY <1>4, <2>1, Zenon DEF GoOnAlike
  <2>3. \A k \in 0..n : f[k] = g[k]
    <3>1. \A a, b : GoOnAlike(a, b, n) => \A k \in 0..n : a[k] = b[k]
      BY <1>0, RecursionUnique
    <3> QED BY <2>2, <3>1, Zenon
  <2> QED BY <2>3
<1>6. g[n + 1] = turn[g[n]][e]
  <2>1. n + 1 \in 1..Len(longer) /\ (n + 1) - 1 = n
    BY <1>1
  <2>2. g[n + 1] = turn[g[(n + 1) - 1]][longer[n + 1]]
    BY <1>3, <2>1, Zenon DEF FoldSteps
  <2> QED BY <1>1, <2>1, <2>2, Zenon
<1>7. Fold(turn, first, seq) = f[n] /\ Fold(turn, first, longer) = g[n + 1]
  BY <1>0, <1>1, <1>2, <1>3, Zenon DEF FoldSteps
<1> QED BY <1>5, <1>6, <1>7, Zenon DEF longer

\* The three of them together.
LEMMA FoldLaws ==
  ASSUME NEW S, NEW T, NEW first \in S, NEW turn \in Turns(S, T)
  PROVE  /\ Fold(turn, first, <<>>) = first
         /\ \A s \in Seq(T) : Fold(turn, first, s) \in S
         /\ \A s \in Seq(T), e \in T : Fold(turn, first, Append(s, e)) = turn[Fold(turn, first, s)][e]
<1>1. Fold(turn, first, <<>>) = first
  BY FoldEmpty
<1>2. \A s \in Seq(T) : Fold(turn, first, s) \in S
  BY FoldType
<1>3. \A s \in Seq(T), e \in T : Fold(turn, first, Append(s, e)) = turn[Fold(turn, first, s)][e]
  BY FoldAppend
<1> QED BY <1>1, <1>2, <1>3

-----------------------------------------------------------------------------
(* Going through sequences                                                 *)

\* What holds of the empty sequence, and goes on to hold with each element
\* that is appended, holds of every sequence.
LEMMA SequenceInduction ==
  ASSUME NEW T, NEW Good, <<>> \in Good,
         \A s \in Seq(T) : s \in Good => \A e \in T : Append(s, e) \in Good
  PROVE  Seq(T) \subseteq Good
<1> SUFFICES ASSUME NEW t \in Seq(T), t \notin Good PROVE FALSE
  OBVIOUS
<1>0. PICK n \in Nat : n = Len(t)
  OBVIOUS
<1> DEFINE bad == {k \in 0..n : SubSeq(t, 1, k) \notin Good}
<1>1. n \in bad
  <2>1. SubSeq(t, 1, n) \in Seq(T) /\ Len(SubSeq(t, 1, n)) = n /\ \A k \in 1..n : SubSeq(t, 1, n)[k] = t[k]
    BY <1>0
  <2>2. SubSeq(t, 1, n) = t
    BY <1>0, <2>1, SeqEqual
  <2>3. n \in 0..n
    BY <1>0
  <2> QED BY <2>2, <2>3, Zenon
<1>2. PICK k \in bad : \A y \in bad : k <= y
  <2>1. bad \in SUBSET Nat /\ bad # {}
    BY <1>1
  <2> HIDE DEF bad
  <2> QED BY <2>1, Smallest
<1>3. k # 0
  <2>1. SubSeq(t, 1, 0) = <<>>
    OBVIOUS
  <2> QED BY <1>2, <2>1
<1>4. k \in 1..n /\ k - 1 \in 0..n /\ k - 1 \notin bad
  BY <1>2, <1>3
<1>5. SubSeq(t, 1, k - 1) \in Good
  BY <1>4
<1>6. SubSeq(t, 1, k) = Append(SubSeq(t, 1, k - 1), t[k]) /\ SubSeq(t, 1, k - 1) \in Seq(T) /\ t[k] \in T
  BY <1>0, <1>4
<1>7. SubSeq(t, 1, k) \in Good
  BY <1>5, <1>6
<1> QED BY <1>2, <1>7

\* A fold goes on through a second sequence from what the first one gave.
LEMMA FoldConcat ==
  ASSUME NEW S, NEW T, NEW first \in S, NEW turn \in Turns(S, T),
         NEW s \in Seq(T), NEW t \in Seq(T)
  PROVE  Fold(turn, first, s \o t) = Fold(turn, Fold(turn, first, s), t)
<1> DEFINE Good == {u \in Seq(T) : Fold(turn, first, s \o u) = Fold(turn, Fold(turn, first, s), u)}
<1> DEFINE from == Fold(turn, first, s)
<1>0. from \in S
  BY FoldType
<1>0a. \A u \in Seq(T), e \in T : Fold(turn, first, Append(u, e)) = turn[Fold(turn, first, u)][e]
  BY FoldAppend
<1>0b. \A u \in Seq(T), e \in T : Fold(turn, from, Append(u, e)) = turn[Fold(turn, from, u)][e]
  <2> HIDE DEF from
  <2> QED BY <1>0, FoldAppend
<1>1. <<>> \in Good
  <2>1. s \o <<>> = s /\ <<>> \in Seq(T)
    OBVIOUS
  <2>2. Fold(turn, Fold(turn, first, s), <<>>) = Fold(turn, first, s)
    BY <1>0, FoldEmpty
  <2> QED BY <2>1, <2>2
<1>2. ASSUME NEW u \in Seq(T), u \in Good, NEW e \in T PROVE Append(u, e) \in Good
  <2>1. s \o Append(u, e) = Append(s \o u, e) /\ s \o u \in Seq(T) /\ Append(u, e) \in Seq(T)
    OBVIOUS
  <2>2. Fold(turn, first, Append(s \o u, e)) = turn[Fold(turn, first, s \o u)][e]
    BY <1>0a, <1>2, <2>1
  <2>3. Fold(turn, Fold(turn, first, s), Append(u, e)) = turn[Fold(turn, Fold(turn, first, s), u)][e]
    BY <1>0b, <1>2
  <2> QED BY <1>2, <2>1, <2>2, <2>3
<1> HIDE DEF Good
<1>3. Seq(T) \subseteq Good
  BY <1>1, <1>2, SequenceInduction
<1> QED BY <1>3 DEF Good

-----------------------------------------------------------------------------
(* Beginnings of sequences                                                 *)

\* The first elements of a sequence.
LEMMA FirstElements ==
  ASSUME NEW T, NEW s \in Seq(T), NEW n \in 0..Len(s)
  PROVE  SubSeq(s, 1, n) \in Seq(T) /\ Len(SubSeq(s, 1, n)) = n /\ \A i \in 1..n : SubSeq(s, 1, n)[i] = s[i]
OBVIOUS

\* A beginning of a sequence has its elements.
LEMMA PrefixType ==
  ASSUME NEW T, NEW s \in Seq(T), NEW x \in Prefixes(s)
  PROVE  x \in Seq(T) /\ Len(x) <= Len(s) /\ \A i \in 1..Len(x) : x[i] = s[i]
<1>1. PICK n \in 0..Len(s) : x = SubSeq(s, 1, n)
  BY DEF Prefixes
<1> QED BY <1>1

\* ... and what has its first elements is a beginning.
LEMMA PrefixIs ==
  ASSUME NEW T, NEW s \in Seq(T), NEW x \in Seq(T), Len(x) <= Len(s),
         \A i \in 1..Len(x) : x[i] = s[i]
  PROVE  x \in Prefixes(s)
<1>0. PICK n \in Nat : n = Len(x)
  OBVIOUS
<1>1. n \in 0..Len(s)
  BY <1>0
<1>2. SubSeq(s, 1, n) \in Seq(T) /\ Len(SubSeq(s, 1, n)) = n /\ \A i \in 1..n : SubSeq(s, 1, n)[i] = s[i]
  BY <1>1
<1>3. x = SubSeq(s, 1, n)
  BY <1>0, <1>2, SeqEqual
<1> QED BY <1>1, <1>3, Zenon DEF Prefixes

\* The shortest and the longest beginning.
LEMMA PrefixEnds ==
  ASSUME NEW T, NEW s \in Seq(T)
  PROVE  <<>> \in Prefixes(s) /\ s \in Prefixes(s)
<1>1. <<>> \in Seq(T) /\ Len(<<>>) = 0
  OBVIOUS
<1>2. Len(<<>>) <= Len(s) /\ Len(s) <= Len(s) /\ \A i \in 1..Len(<<>>) : <<>>[i] = s[i]
  BY <1>1
<1>3. <<>> \in Prefixes(s)
  BY <1>1, <1>2, PrefixIs, Zenon
<1>4. s \in Prefixes(s)
  BY <1>2, PrefixIs, Zenon
<1> QED BY <1>3, <1>4

\* The empty sequence has no other beginning.
LEMMA EmptyPrefixes == Prefixes(<<>>) = {<<>>}
<1>1. Len(<<>>) = 0 /\ SubSeq(<<>>, 1, 0) = <<>>
  OBVIOUS
<1>2. \A n \in 0..0 : n = 0
  OBVIOUS
<1>3. 0 \in 0..0
  OBVIOUS
<1> QED BY <1>1, <1>2, <1>3, Zenon DEF Prefixes

\* A beginning of a beginning.
LEMMA PrefixTransitive ==
  ASSUME NEW T, NEW s \in Seq(T), NEW x \in Prefixes(s), NEW y \in Prefixes(x)
  PROVE  y \in Prefixes(s)
<1>1. x \in Seq(T) /\ Len(x) <= Len(s) /\ \A i \in 1..Len(x) : x[i] = s[i]
  BY PrefixType
<1>2. y \in Seq(T) /\ Len(y) <= Len(x) /\ \A i \in 1..Len(y) : y[i] = x[i]
  BY <1>1, PrefixType
<1>3. Len(y) <= Len(s) /\ \A i \in 1..Len(y) : y[i] = s[i]
  BY <1>1, <1>2
<1> QED BY <1>2, <1>3, PrefixIs

\* The beginnings of s \o t: those of s, and s with those of t.
LEMMA PrefixOfConcat ==
  ASSUME NEW T, NEW s \in Seq(T), NEW t \in Seq(T)
  PROVE  /\ \A x \in Prefixes(s) : x \in Prefixes(s \o t)
         /\ \A x \in Prefixes(s \o t) : x \in Prefixes(s) \/ \E y \in Prefixes(t) : x = s \o y
<1>1. s \o t \in Seq(T) /\ Len(s \o t) = Len(s) + Len(t)
      /\ \A i \in 1..(Len(s) + Len(t)) : (s \o t)[i] = IF i <= Len(s) THEN s[i] ELSE t[i - Len(s)]
  OBVIOUS
<1>2. ASSUME NEW x \in Prefixes(s) PROVE x \in Prefixes(s \o t)
  <2>1. x \in Seq(T) /\ Len(x) <= Len(s) /\ \A i \in 1..Len(x) : x[i] = s[i]
    BY PrefixType
  <2>2. Len(x) <= Len(s \o t) /\ \A i \in 1..Len(x) : x[i] = (s \o t)[i]
    BY <1>1, <2>1
  <2> QED BY <1>1, <2>1, <2>2, PrefixIs
<1>3. ASSUME NEW x \in Prefixes(s \o t)
      PROVE  x \in Prefixes(s) \/ \E y \in Prefixes(t) : x = s \o y
  <2>1. x \in Seq(T) /\ Len(x) <= Len(s \o t) /\ \A i \in 1..Len(x) : x[i] = (s \o t)[i]
    BY <1>1, PrefixType
  <2>2. CASE Len(x) <= Len(s)
    <3>1. \A i \in 1..Len(x) : x[i] = s[i]
      BY <1>1, <2>1, <2>2
    <3> QED BY <2>1, <2>2, <3>1, PrefixIs
  <2>3. CASE Len(x) > Len(s)
    <3> DEFINE y == SubSeq(t, 1, Len(x) - Len(s))
    <3>1. Len(x) - Len(s) \in 0..Len(t)
      BY <1>1, <2>1, <2>3
    <3>2. y \in Prefixes(t)
      BY <3>1 DEF Prefixes
    <3>3. y \in Seq(T) /\ Len(y) = Len(x) - Len(s) /\ \A i \in 1..Len(y) : y[i] = t[i]
      BY <3>1
    <3> HIDE DEF y
    <3>4. s \o y \in Seq(T) /\ Len(s \o y) = Len(x)
      BY <2>1, <3>3
    <3>5. ASSUME NEW i \in 1..Len(x) PROVE x[i] = (s \o y)[i]
      <4>1. (s \o y)[i] = IF i <= Len(s) THEN s[i] ELSE y[i - Len(s)]
        BY <2>1, <3>3
      <4>2. x[i] = IF i <= Len(s) THEN s[i] ELSE t[i - Len(s)]
        BY <1>1, <2>1
      <4>3. i <= Len(s) \/ i - Len(s) \in 1..Len(y)
        BY <2>1, <3>3
      <4> QED BY <3>3, <4>1, <4>2, <4>3
    <3>6. x = s \o y
      BY <2>1, <3>4, <3>5, SeqEqual
    <3> QED BY <3>2, <3>6
  <2>4. Len(x) <= Len(s) \/ Len(x) > Len(s)
    BY <2>1
  <2> QED BY <2>2, <2>3, <2>4, Zenon
<1> QED BY <1>2, <1>3

\* ... a beginning of s, or s with a beginning of t.
LEMMA PrefixOfEither ==
  ASSUME NEW T, NEW s \in Seq(T), NEW t \in Seq(T), NEW x \in Prefixes(s \o t)
  PROVE  x \in Prefixes(s) \/ \E y \in Prefixes(t) : x = s \o y
BY PrefixOfConcat

\* The beginnings of a sequence with one element more.
LEMMA PrefixOfAppend ==
  ASSUME NEW T, NEW s \in Seq(T), NEW e \in T
  PROVE  /\ \A x \in Prefixes(s) : x \in Prefixes(Append(s, e))
         /\ \A x \in Prefixes(Append(s, e)) : x \in Prefixes(s) \/ x = Append(s, e)
<1>1. Append(s, e) = s \o <<e>> /\ <<e>> \in Seq(T)
  OBVIOUS
<1>2. \A y \in Prefixes(<<e>>) : y = <<>> \/ y = <<e>>
  <2> TAKE y \in Prefixes(<<e>>)
  <2>1. y \in Seq(T) /\ Len(y) <= Len(<<e>>) /\ \A i \in 1..Len(y) : y[i] = <<e>>[i]
    BY <1>1, PrefixType
  <2>2. Len(y) = 0 \/ (Len(y) = 1 /\ y[1] = e)
    BY <2>1
  <2> QED BY <2>1, <2>2
<1>3. s \o <<>> = s /\ s \in Prefixes(s)
  BY PrefixEnds
<1> QED BY <1>1, <1>2, <1>3, PrefixOfConcat
=============================================================================
