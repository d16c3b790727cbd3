--------------------------- MODULE ConsoleProofs ---------------------------
(***************************************************************************)
(* Proofs about Console: whatever is printed, on any number of scripts,    *)
(* with any FIFO, arrives in order, and the pins of the console and of the *)
(* lamps keep their functions.                                             *)
(***************************************************************************)
EXTENDS Console, DataLemmas, SequenceTheorems, TLAPS

(* Sequences of characters, and what a directive is parsed into.           *)
Texts == Seq(Char)
Parsed == [ladjust : BOOLEAN, padc : {" ", "0"}, width : Nat, long : BOOLEAN,
           conv : Char, rest : Texts]

(* f joins the first members of q, one more at each index.                 *)
Joins(f, q) ==
  f = [i \in 1 .. Len(q) |-> IF i = 1 THEN q[i] ELSE f[i - 1] \o q[i]]
(* There is such an f for any sequence of texts.                           *)
LEMMA JoinsExist ==
  ASSUME NEW q \in Seq(Texts)
  PROVE  \E f : f \in [1 .. Len(q) -> Texts] /\ Joins(f, q)
<1> DEFINE N == Len(q)
           step == [n \in 1 .. N |-> [v \in Texts |-> IF n = 1 THEN q[1] ELSE v \o q[n]]]
<1>1. N \in Nat /\ \A n \in 1 .. N : q[n] \in Texts
  OBVIOUS
<1>2. <<>> \in Texts
  BY DEF Texts
<1>3. Steps(step, Texts, N)
  <2> SUFFICES ASSUME NEW n \in 1 .. N, NEW v \in Texts PROVE step[n][v] \in Texts
    BY DEF Steps
  <2>1. v \o q[n] \in Texts /\ q[n] \in Texts
    BY <1>1 DEF Texts
  <2>2. n = 1 => q[1] \in Texts
    BY <2>1
  <2> QED BY <2>1, <2>2
<1>4. PICK g : IsRec(g, <<>>, step, Texts, N)
  BY <1>1, <1>2, <1>3, RecExists
<1> DEFINE f == [i \in 1 .. N |-> g[i]]
<1>5. f \in [1 .. N -> Texts]
  BY <1>4, <1>1 DEF IsRec
<1>6. ASSUME NEW i \in 1 .. N PROVE f[i] = IF i = 1 THEN q[i] ELSE f[i - 1] \o q[i]
  <2> HIDE DEF step
  <2>0. i - 1 \in 0 .. N
    BY <1>1
  <2>1. g[i] = step[i][g[i - 1]] /\ g[i - 1] \in Texts
    BY <1>4, <2>0 DEF IsRec
  <2>2. \A v \in Texts : step[i][v] = IF i = 1 THEN q[1] ELSE v \o q[i]
    BY DEF step
  <2>3. i # 1 => i - 1 \in 1 .. N
    BY <1>1
  <2> QED BY <2>1, <2>2, <2>3
<1> HIDE DEF f
<1>7. Joins(f, q)
  BY <1>5, <1>6 DEF Joins
<1> QED BY <1>5, <1>7

(* Two such functions agree as far as the sequences they join do.          *)
LEMMA JoinsAgree ==
  ASSUME NEW q, NEW r, NEW f, NEW g, Joins(f, q), Joins(g, r),
         NEW n \in Nat, n <= Len(q), n <= Len(r), Len(q) \in Nat, Len(r) \in Nat,
         \A i \in 1 .. n : q[i] = r[i]
  PROVE  \A i \in 1 .. n : f[i] = g[i]
<1> DEFINE S == {k \in Nat : k <= n => \A i \in 1 .. k : f[i] = g[i]}
<1>1. 0 \in S
  OBVIOUS
<1>2. ASSUME NEW k \in Nat, k \in S PROVE k + 1 \in S
  <2> SUFFICES ASSUME k + 1 <= n PROVE f[k + 1] = g[k + 1]
    BY <1>2
  <2>1. k + 1 \in 1 .. Len(q) /\ k + 1 \in 1 .. Len(r) /\ q[k + 1] = r[k + 1]
    OBVIOUS
  <2>2. /\ f[k + 1] = IF k + 1 = 1 THEN q[k + 1] ELSE f[(k + 1) - 1] \o q[k + 1]
        /\ g[k + 1] = IF k + 1 = 1 THEN r[k + 1] ELSE g[(k + 1) - 1] \o r[k + 1]
    BY <2>1 DEF Joins
  <2>3. k + 1 # 1 => f[k] = g[k]
    BY <1>2
  <2>4. (k + 1) - 1 = k
    OBVIOUS
  <2> QED BY <2>1, <2>2, <2>3, <2>4
<1> HIDE DEF S
<1>3. Nat \subseteq S
  BY <1>1, <1>2, NatInd
<1> QED BY <1>3 DEF S

(* Joining a sequence of texts and one more.                               *)
LEMMA FlattenTexts ==
  ASSUME NEW q \in Seq(Texts)
  PROVE  /\ q = <<>> => FlattenSeq(q) = <<>>
         /\ q # <<>> => FlattenSeq(q) = (CHOOSE f : Joins(f, q))[Len(q)]
         /\ FlattenSeq(q) \in Texts
<1>1. q = <<>> <=> Len(q) = 0
  OBVIOUS
<1>2. <<>> \in Texts
  BY DEF Texts
<1>3. q # <<>> => FlattenSeq(q) = (CHOOSE f : Joins(f, q))[Len(q)]
  BY <1>1 DEF FlattenSeq, Joins
<1>4. q = <<>> => FlattenSeq(q) = <<>>
  BY <1>1 DEF FlattenSeq
<1>5. ASSUME q # <<>> PROVE FlattenSeq(q) \in Texts
  <2> DEFINE f == CHOOSE f : Joins(f, q)
  <2>1. PICK g : g \in [1 .. Len(q) -> Texts] /\ Joins(g, q)
    BY JoinsExist
  <2>2. Joins(f, q)
    BY <2>1
  <2>3. Len(q) \in 1 .. Len(q) /\ Len(q) \in Nat
    BY <1>5, <1>1
  <2> HIDE DEF f
  <2>4. f[Len(q)] = g[Len(q)]
    BY <2>1, <2>2, <2>3, JoinsAgree
  <2>5. g[Len(q)] \in Texts
    BY <2>1, <2>3
  <2> QED BY <1>3, <1>5, <2>4, <2>5 DEF f
<1> QED BY <1>2, <1>3, <1>4, <1>5

(* One more text is joined at the end.                                     *)
LEMMA FlattenAppend ==
  ASSUME NEW q \in Seq(Texts), NEW t \in Texts
  PROVE  FlattenSeq(Append(q, t)) = FlattenSeq(q) \o t
<1> DEFINE r == Append(q, t)
           n == Len(q)
           g == CHOOSE g : Joins(g, r)
           f == CHOOSE f : Joins(f, q)
<1>1. /\ r \in Seq(Texts) /\ Len(r) = n + 1 /\ n \in Nat /\ r # <<>> /\ r[n + 1] = t
      /\ \A i \in 1 .. n : r[i] = q[i]
  OBVIOUS
<1>2. FlattenSeq(r) = g[n + 1]
  BY <1>1, FlattenTexts
<1>3. Joins(g, r) /\ Joins(f, q)
  <2>1. (\E h : Joins(h, r)) /\ \E h : Joins(h, q)
    BY <1>1, JoinsExist
  <2> QED BY <2>1
<1>4. q # <<>> => FlattenSeq(q) = f[n]
  BY FlattenTexts
<1>5. q = <<>> => FlattenSeq(q) = <<>>
  BY FlattenTexts
<1> HIDE DEF f, g, r
<1>6. g[n + 1] = IF n + 1 = 1 THEN r[n + 1] ELSE g[(n + 1) - 1] \o r[n + 1]
  <2>1. n + 1 \in 1 .. Len(r)
    BY <1>1
  <2> QED BY <2>1, <1>3 DEF Joins
<1>7. CASE n = 0
  <2>1. q = <<>> /\ <<>> \o t = t
    BY <1>7 DEF Texts
  <2>2. g[n + 1] = t
    BY <1>7, <1>6, <1>1
  <2> QED BY ONLY <2>1, <2>2, <1>2, <1>5 DEF r
<1>8. CASE n # 0
  <2>1. n \in 1 .. n /\ n <= Len(r) /\ q # <<>> /\ (n + 1) - 1 = n /\ n + 1 # 1
    BY <1>1, <1>8
  <2>2. \A i \in 1 .. n : g[i] = f[i]
    BY <1>1, <1>3, <2>1, JoinsAgree
  <2>3. g[n] = f[n]
    BY <2>1, <2>2
  <2> QED BY <2>1, <2>3, <1>1, <1>2, <1>4, <1>6 DEF r
<1> QED BY <1>7, <1>8

(* What is sent of a character is a text.                                  *)
LEMMA BytesText == \A c \in Char : Bytes(c) \in Texts
<1> TAKE c \in Char
<1>1. "\r" \in Char /\ "\n" \in Char
  BY ConsoleAssumption
<1> QED BY <1>1 DEF Bytes, Texts

(* The characters of a text, each as it is sent.                           *)
Rendered(s) == [j \in 1 .. Len(s) |-> Bytes(s[j])]

(* What is sent of a text with one more character.                         *)
LEMMA SentAppend ==
  ASSUME NEW s \in Texts, NEW c \in Char
  PROVE  /\ Sent(s) \in Texts
         /\ Sent(Append(s, c)) = Sent(s) \o Bytes(c)
<1> DEFINE r == Append(s, c)
<1>1. Rendered(s) \in Seq(Texts) /\ Bytes(c) \in Texts
  BY BytesText DEF Rendered, Texts
<1>2. Rendered(r) = Append(Rendered(s), Bytes(c))
  BY DEF Rendered, Texts
<1>3. Sent(s) = FlattenSeq(Rendered(s)) /\ Sent(r) = FlattenSeq(Rendered(r))
  BY DEF Sent, Rendered
<1> HIDE DEF r
<1>4. FlattenSeq(Append(Rendered(s), Bytes(c))) = FlattenSeq(Rendered(s)) \o Bytes(c)
  BY <1>1, FlattenAppend
<1>5. FlattenSeq(Rendered(s)) \in Texts
  BY <1>1, FlattenTexts
<1> QED BY <1>2, <1>3, <1>4, <1>5 DEF r

(* Nothing is sent of nothing.                                             *)
LEMMA SentNothing == Sent(<<>>) = <<>>
<1>1. Rendered(<<>>) = <<>> /\ <<>> \in Seq(Texts)
  BY DEF Rendered
<1> QED BY <1>1, FlattenTexts DEF Sent, Rendered

(* The order in which texts are joined does not matter.                    *)
LEMMA TextsAssociate == \A s, t, u \in Texts : (s \o t) \o u = s \o (t \o u)
<1> TAKE s, t, u \in Texts
<1>1. s \in Seq(Char) /\ t \in Seq(Char) /\ u \in Seq(Char)
  BY DEF Texts
<1> QED BY ONLY <1>1, ConcatAssociative

(* What is sent of two texts one after the other.                          *)
LEMMA SentConcat ==
  ASSUME NEW s \in Texts, NEW t \in Texts
  PROVE  Sent(s \o t) = Sent(s) \o Sent(t)
<1> DEFINE S == {n \in Nat : \A u \in Texts : Len(u) = n => Sent(s \o u) = Sent(s) \o Sent(u)}
<1>1. 0 \in S
  <2> SUFFICES ASSUME NEW u \in Texts, Len(u) = 0 PROVE Sent(s \o u) = Sent(s) \o Sent(u)
    OBVIOUS
  <2>1. u = <<>> /\ s \o u = s
    BY DEF Texts
  <2>2. Sent(s) \in Texts
    <3>1. NUL \in Char
      BY FormatAssumption
    <3> QED BY <3>1, SentAppend
  <2>3. Sent(s) \o <<>> = Sent(s)
    BY <2>2 DEF Texts
  <2> QED BY <2>1, <2>3, SentNothing
<1>2. ASSUME NEW n \in Nat, n \in S PROVE n + 1 \in S
  <2> SUFFICES ASSUME NEW u \in Texts, Len(u) = n + 1
               PROVE  Sent(s \o u) = Sent(s) \o Sent(u)
    OBVIOUS
  <2> DEFINE v == SubSeq(u, 1, n)
             c == u[n + 1]
  <2>1. v \in Texts /\ Len(v) = n /\ c \in Char /\ u = Append(v, c)
    BY DEF Texts
  <2> HIDE DEF v, c
  <2>2. s \o v \in Texts /\ s \o u = Append(s \o v, c)
    BY <2>1 DEF Texts
  <2>3. Sent(s \o v) = Sent(s) \o Sent(v)
    BY <1>2, <2>1
  <2>4. /\ Sent(s \o u) = Sent(s \o v) \o Bytes(c)
        /\ Sent(u) = Sent(v) \o Bytes(c)
        /\ Sent(s) \in Texts /\ Sent(v) \in Texts /\ Bytes(c) \in Texts
    BY <2>1, <2>2, SentAppend, BytesText
  <2>5. (Sent(s) \o Sent(v)) \o Bytes(c) = Sent(s) \o (Sent(v) \o Bytes(c))
    BY <2>4, TextsAssociate
  <2> QED BY <2>3, <2>4, <2>5
<1> HIDE DEF S
<1>3. Nat \subseteq S
  BY <1>1, <1>2, NatInd
<1>4. Len(t) \in Nat
  BY DEF Texts
<1> QED BY <1>3, <1>4 DEF S

-----------------------------------------------------------------------------
(* How far a prefix goes, and that it is one.                              *)
LEMMA PrefixStops ==
  ASSUME NEW s, Len(s) \in Nat, NEW j \in 1 .. (Len(s) + 1), NEW S
  PROVE  /\ Prefix(s, j, S) \in 0 .. (Len(s) + 1 - j)
         /\ \A x \in j .. (j + Prefix(s, j, S) - 1) : s[x] \in S
         /\ j + Prefix(s, j, S) <= Len(s) => s[j + Prefix(s, j, S)] \notin S
<1> DEFINE T == {n \in Nat : j + n <= Len(s) => s[j + n] \notin S}
           P(n) == /\ \A x \in j .. (j + n - 1) : s[x] \in S
                   /\ j + n <= Len(s) => s[j + n] \notin S
<1>1. Len(s) + 1 - j \in T
  OBVIOUS
<1>2. PICK n \in T : \A m \in T : n <= m
  <2>1. T \in SUBSET Nat /\ T # {}
    BY <1>1
  <2> QED BY <2>1, NatWF
<1>3. n \in 0 .. (Len(s) + 1 - j)
  BY <1>1, <1>2
<1>4. ASSUME NEW x \in j .. (j + n - 1) PROVE s[x] \in S
  <2>1. x - j \in Nat /\ x - j < n /\ j + (x - j) = x
    BY <1>2
  <2>2. x - j \notin T
    BY <1>2, <2>1
  <2> QED BY <2>1, <2>2
<1>5. P(n)
  BY <1>2, <1>4
<1>6. Prefix(s, j, S) = CHOOSE m \in 0 .. (Len(s) + 1 - j) : P(m)
  BY DEF Prefix
<1>7. Prefix(s, j, S) \in 0 .. (Len(s) + 1 - j) /\ P(Prefix(s, j, S))
  <2> HIDE DEF P
  <2> QED BY <1>3, <1>5, <1>6
<1> QED BY <1>7

(* The bases lp_print writes numbers in.                                   *)
Bases == {2, 8, 10, 16}

(* The glyphs of a base, and which of them stands for a number.            *)
Glyph(upcase) == IF upcase THEN Upper ELSE Lower

(* The glyphs differ, and are neither sign nor blank.                      *)
LEMMA Glyphs ==
  ASSUME NEW upcase \in BOOLEAN
  PROVE  /\ \A x, y \in 0 .. 15 : Glyph(upcase)[x + 1] = Glyph(upcase)[y + 1] => x = y
         /\ \A x \in 1 .. 16 : Glyph(upcase)[x] \notin {" ", "-"}
         /\ Glyph(upcase)[1] = "0"
<1> DEFINE s == Glyph(upcase)
<1>1. /\ Decimal[1] = "0" /\ Decimal[2] = "1" /\ Decimal[3] = "2" /\ Decimal[4] = "3"
      /\ Decimal[5] = "4" /\ Decimal[6] = "5" /\ Decimal[7] = "6" /\ Decimal[8] = "7"
      /\ Decimal[9] = "8" /\ Decimal[10] = "9"
  BY DEF Decimal
<1>2. \A i \in 1 .. 10 : s[i] = Decimal[i]
  BY DEF Glyph, Lower, Upper, Decimal
<1>3. /\ Lower[11] = "a" /\ Lower[12] = "b" /\ Lower[13] = "c" /\ Lower[14] = "d"
      /\ Lower[15] = "e" /\ Lower[16] = "f"
  BY DEF Lower, Decimal
<1>4. /\ Upper[11] = "A" /\ Upper[12] = "B" /\ Upper[13] = "C" /\ Upper[14] = "D"
      /\ Upper[15] = "E" /\ Upper[16] = "F"
  BY DEF Upper, Decimal
<1>5. /\ s[11] \in {"a", "A"} /\ s[12] \in {"b", "B"} /\ s[13] \in {"c", "C"}
      /\ s[14] \in {"d", "D"} /\ s[15] \in {"e", "E"} /\ s[16] \in {"f", "F"}
  BY <1>3, <1>4 DEF Glyph
<1> HIDE DEF s
<1>6. /\ s[1] = "0" /\ s[2] = "1" /\ s[3] = "2" /\ s[4] = "3" /\ s[5] = "4" /\ s[6] = "5"
      /\ s[7] = "6" /\ s[8] = "7" /\ s[9] = "8" /\ s[10] = "9"
  BY ONLY <1>1, <1>2
<1>7. \A i, j \in 1 .. 16 : s[i] = s[j] => i = j
  BY ONLY <1>5, <1>6
<1>8. \A x \in 1 .. 16 : s[x] \notin {" ", "-"}
  <2>1. \A x \in 1 .. 16 : \/ x = 1 \/ x = 2 \/ x = 3 \/ x = 4 \/ x = 5 \/ x = 6 \/ x = 7
                           \/ x = 8 \/ x = 9 \/ x = 10 \/ x = 11 \/ x = 12 \/ x = 13
                           \/ x = 14 \/ x = 15 \/ x = 16
    OBVIOUS
  <2> QED BY ONLY <1>5, <1>6, <2>1
<1>9. \A x, y \in 0 .. 15 : s[x + 1] = s[y + 1] => x = y
  BY ONLY <1>7
<1> QED BY ONLY <1>6, <1>8, <1>9 DEF s

(* The digits of a number, one base and one alphabet.                      *)
Digits(base, upcase) == {Glyph(upcase)[x] : x \in 1 .. base}

(* The number a digit stands for.                                          *)
DigitOf(c, upcase) == CHOOSE x \in 0 .. 15 : Glyph(upcase)[x + 1] = c

LEMMA DigitOfGlyph ==
  ASSUME NEW upcase \in BOOLEAN
  PROVE  /\ \A x \in 0 .. 15 : DigitOf(Glyph(upcase)[x + 1], upcase) = x
         /\ \A c \in Digits(16, upcase) : DigitOf(c, upcase) \in 0 .. 15
<1>1. \A x, y \in 0 .. 15 : Glyph(upcase)[x + 1] = Glyph(upcase)[y + 1] => x = y
  BY Glyphs
<1>2. \A x \in 0 .. 15 : DigitOf(Glyph(upcase)[x + 1], upcase) = x
  BY ONLY <1>1, Zenon DEF DigitOf
<1>3. ASSUME NEW c \in Digits(16, upcase) PROVE \E x \in 0 .. 15 : c = Glyph(upcase)[x + 1]
  <2>1. PICK x \in 1 .. 16 : c = Glyph(upcase)[x]
    BY Zenon DEF Digits
  <2>2. x - 1 \in 0 .. 15 /\ (x - 1) + 1 = x
    OBVIOUS
  <2> QED BY <2>1, <2>2
<1>4. \A c \in Digits(16, upcase) : DigitOf(c, upcase) \in 0 .. 15
  BY ONLY <1>2, <1>3, Zenon
<1> QED BY ONLY <1>2, <1>4

(* What reading a numeral yields, digit by digit.                          *)
LEMMA NumeralIs ==
  ASSUME NEW base \in Nat, NEW upcase \in BOOLEAN, NEW s, Len(s) \in Nat,
         \A i \in 1 .. Len(s) : s[i] \in Digits(16, upcase)
  PROVE  \E V : /\ Numeral(s, base, upcase) = V[Len(s)]
                /\ V[0] = 0
                /\ \A n \in 0 .. Len(s) : V[n] \in Nat
                /\ \A n \in 1 .. Len(s) : V[n] = V[n - 1] * base + DigitOf(s[n], upcase)
<1> DEFINE N == Len(s)
           digit(n) == DigitOf(s[n], upcase)
           step == [n \in 1 .. N |-> [v \in Nat |-> v * base + digit(n)]]
           Value(V) == V = [n \in 0 .. N |-> IF n = 0 THEN 0 ELSE V[n - 1] * base + digit(n)]
<1>1. ASSUME NEW n \in 1 .. N PROVE digit(n) \in 0 .. 15
  BY DigitOfGlyph
<1>2. Numeral(s, base, upcase) = (CHOOSE V : Value(V))[N]
  BY Zenon DEF Numeral, DigitOf, Glyph
<1> HIDE DEF digit
<1>3. \A v \in Nat, x \in 0 .. 15 : v * base + x \in Nat
  OBVIOUS
<1>4. Steps(step, Nat, N)
  <2> SUFFICES ASSUME NEW n \in 1 .. N, NEW v \in Nat PROVE step[n][v] \in Nat
    BY DEF Steps
  <2>1. v * base + digit(n) \in Nat
    BY <1>1, <1>3
  <2> QED BY <2>1
<1>5. \E V : Value(V)
  <2>1. PICK V : IsRec(V, 0, step, Nat, N)
    BY <1>4, RecExists
  <2>2. V \in [0 .. N -> Nat] /\ V[0] = 0
    BY <2>1 DEF IsRec
  <2>3. ASSUME NEW n \in 1 .. N PROVE V[n] = V[n - 1] * base + digit(n)
    <3> HIDE DEF step
    <3>1. V[n] = step[n][V[n - 1]] /\ n - 1 \in 0 .. N
      BY <2>1 DEF IsRec
    <3>2. V[n - 1] \in Nat
      BY <3>1, <2>2
    <3> QED BY <3>1, <3>2 DEF step
  <2> QED BY <2>2, <2>3
<1>6. PICK V : V = (CHOOSE W : Value(W)) /\ Value(V)
  <2> HIDE DEF Value
  <2> QED BY <1>5
<1>7. /\ V[0] = 0
      /\ \A n \in 1 .. N : V[n] = V[n - 1] * base + digit(n)
  <2>1. \A n \in 0 .. N : V[n] = IF n = 0 THEN 0 ELSE V[n - 1] * base + digit(n)
    BY <1>6
  <2>2. 0 \in 0 .. N /\ \A n \in 1 .. N : n \in 0 .. N /\ n # 0
    OBVIOUS
  <2> QED BY ONLY <2>1, <2>2
<1> DEFINE S == {n \in Nat : n <= N => V[n] \in Nat}
<1>8. 0 \in S
  BY <1>7
<1>9. ASSUME NEW n \in Nat, n \in S PROVE n + 1 \in S
  <2> SUFFICES ASSUME n + 1 <= N PROVE V[n + 1] \in Nat
    OBVIOUS
  <2>1. V[n] \in Nat /\ n + 1 \in 1 .. N /\ (n + 1) - 1 = n
    BY <1>9
  <2>2. V[n + 1] = V[n] * base + digit(n + 1) /\ digit(n + 1) \in 0 .. 15
    BY <2>1, <1>1, <1>7
  <2> QED BY ONLY <2>1, <2>2, <1>3
<1> HIDE DEF S
<1>10. Nat \subseteq S
  BY <1>8, <1>9, NatInd
<1>11. \A n \in 0 .. N : V[n] \in Nat
  BY <1>10 DEF S
<1> HIDE DEF Value
<1> QED BY ONLY <1>2, <1>6, <1>7, <1>11, Zenon DEF digit

(* A width is a number.                                                    *)
LEMMA NumeralNat ==
  ASSUME NEW s, Len(s) \in Nat, \A i \in 1 .. Len(s) : s[i] \in DecimalDigit
  PROVE  Numeral(s, 10, FALSE) \in Nat
<1>1. ASSUME NEW c \in DecimalDigit PROVE c \in Digits(16, FALSE)
  <2>1. PICK x \in 1 .. 10 : c = Decimal[x]
    BY DEF DecimalDigit
  <2>2. Lower[x] = Decimal[x] /\ x \in 1 .. 16
    BY DEF Lower, Decimal
  <2> QED BY <2>1, <2>2, Zenon DEF Digits, Glyph
<1>2. \A i \in 1 .. Len(s) : s[i] \in Digits(16, FALSE)
  BY <1>1
<1>3. 10 \in Nat /\ FALSE \in BOOLEAN /\ Len(s) \in 0 .. Len(s)
  OBVIOUS
<1>4. PICK V : Numeral(s, 10, FALSE) = V[Len(s)] /\ \A n \in 0 .. Len(s) : V[n] \in Nat
  BY <1>2, <1>3, NumeralIs, Zenon
<1> QED BY <1>3, <1>4

(* What lp_print knows of a directive.                                     *)
LEMMA DirectiveTyped ==
  ASSUME NEW f \in Texts
  PROVE  Directive(f) \in Parsed
<1> DEFINE flags == Prefix(f, 1, {"-", "0"})
           digits == Prefix(f, flags + 1, DecimalDigit)
           prefix == flags + digits
           long == prefix < Len(f) /\ f[prefix + 1] \in {"l", "L"}
           at == prefix + (IF long THEN 2 ELSE 1)
           number == SubSeq(f, flags + 1, flags + digits)
<1>1. Len(f) \in Nat /\ \A i \in 1 .. Len(f) : f[i] \in Char
  BY DEF Texts
<1>2. flags \in 0 .. Len(f)
  <2>1. 1 \in 1 .. (Len(f) + 1) /\ Len(f) + 1 - 1 = Len(f)
    BY <1>1
  <2> QED BY <1>1, <2>1, PrefixStops
<1> HIDE DEF flags
<1>3. /\ digits \in 0 .. (Len(f) - flags)
      /\ \A x \in (flags + 1) .. (flags + digits) : f[x] \in DecimalDigit
  <2>1. flags + 1 \in 1 .. (Len(f) + 1)
    BY <1>1, <1>2
  <2>2. /\ digits \in 0 .. (Len(f) + 1 - (flags + 1))
        /\ \A x \in (flags + 1) .. ((flags + 1) + digits - 1) : f[x] \in DecimalDigit
    BY <1>1, <2>1, PrefixStops
  <2> HIDE DEF digits
  <2> QED BY <2>2, <1>1, <1>2
<1> HIDE DEF digits
<1>4. number \in Texts /\ Len(number) = digits
      /\ \A i \in 1 .. digits : number[i] = f[flags + i]
  BY <1>1, <1>2, <1>3 DEF Texts
<1>5. Numeral(number, 10, FALSE) \in Nat
  <2> HIDE DEF number
  <2>1. \A i \in 1 .. Len(number) : number[i] \in DecimalDigit
    BY <1>2, <1>3, <1>4
  <2>2. Len(number) \in Nat
    BY <1>3, <1>4
  <2> QED BY <2>1, <2>2, NumeralNat
<1>6. at \in Nat \ {0}
  BY <1>2, <1>3
<1>7. /\ Directive(f).width = Numeral(number, 10, FALSE)
      /\ Directive(f).padc \in {" ", "0"}
      /\ Directive(f).conv = IF at > Len(f) THEN NUL ELSE f[at]
      /\ Directive(f).rest = SubSeq(f, at + 1, Len(f))
  BY DEF Directive, flags, digits
<1> HIDE DEF at
<1>8. SubSeq(f, at + 1, Len(f)) \in Texts
  BY <1>1, <1>6 DEF Texts
<1>9. NUL \in Char
  BY FormatAssumption
<1>10. Directive(f).conv \in Char
  <2>1. at <= Len(f) => f[at] \in Char
    BY <1>1, <1>6
  <2>2. at > Len(f) \/ at <= Len(f)
    BY <1>1, <1>6
  <2> QED BY ONLY <2>1, <2>2, <1>7, <1>9
<1> DEFINE left == \E x \in 1 .. flags : f[x] = "-"
           pad == IF \E x \in 1 .. flags : f[x] = "0" THEN "0" ELSE " "
           conv == IF at > Len(f) THEN NUL ELSE f[at]
           rest == SubSeq(f, at + 1, Len(f))
           width == Numeral(number, 10, FALSE)
<1>11. Directive(f) = [ladjust |-> left, padc |-> pad, width |-> width, long |-> long,
                       conv |-> conv, rest |-> rest]
  BY DEF Directive, flags, digits, at
<1>12. left \in BOOLEAN /\ long \in BOOLEAN
  OBVIOUS
<1>13. width \in Nat /\ pad \in {" ", "0"} /\ conv \in Char /\ rest \in Texts
  BY <1>5, <1>7, <1>8, <1>10
<1> HIDE DEF left, pad, conv, rest, width, long
<1>14. \A l, b \in BOOLEAN, p \in {" ", "0"}, w \in Nat, c \in Char, r \in Texts :
         [ladjust |-> l, padc |-> p, width |-> w, long |-> b, conv |-> c, rest |-> r] \in Parsed
  BY DEF Parsed
<1>15. [ladjust |-> left, padc |-> pad, width |-> width, long |-> long,
        conv |-> conv, rest |-> rest] \in Parsed
  BY ONLY <1>12, <1>13, <1>14, Zenon
<1> QED BY ONLY <1>11, <1>15, Zenon

(* Texts joined are a text.                                                *)
LEMMA TextsJoin == <<>> \in Texts /\ \A s, t \in Texts : s \o t \in Texts
  BY DEF Texts

-----------------------------------------------------------------------------
(* The last digit of n, and functions that give the digits of the numbers  *)
(* up to u.                                                                *)
LastDigit(n, base, upcase) == (IF upcase THEN Upper ELSE Lower)[(n % base) + 1]
DigitsUpTo(D, u, base, upcase) ==
  \A n \in 0 .. u :
    /\ n < base => D[n] = <<LastDigit(n, base, upcase)>>
    /\ n >= base => D[n] = <<LastDigit(n, base, upcase)>> \o D[n \div base]

(* What a number is divided into.                                          *)
LEMMA Divided ==
  ASSUME NEW n \in Nat, NEW base \in Bases
  PROVE  /\ n % base \in 0 .. (base - 1) /\ n % base \in 0 .. 15
         /\ n >= base => n \div base \in 1 .. (n - 1)
         /\ n < base => n % base = n
         /\ (n \div base) * base + (n % base) = n
<1>1. CASE base = 2
  BY <1>1
<1>2. CASE base = 8
  BY <1>2
<1>3. CASE base = 10
  BY <1>3
<1>4. CASE base = 16
  BY <1>4
<1> QED BY <1>1, <1>2, <1>3, <1>4 DEF Bases

(* The digits of a number are characters, found by dividing.               *)
LEMMA ReversedIs ==
  ASSUME NEW u \in Nat, NEW base \in Bases, NEW upcase \in BOOLEAN
  PROVE  \E D : /\ Reversed(u, base, upcase) = D[u]
                /\ DigitsUpTo(D, u, base, upcase)
                /\ \A n \in 0 .. u : D[n] \in Texts
<1> USE DEF Bases
<1> DEFINE c(n) == <<LastDigit(n, base, upcase)>>
           Dividing(D, m) == D = [n \in 0 .. m |-> IF n < base THEN c(n) ELSE c(n) \o D[n \div base]]
           S == {m \in Nat : \E D \in [0 .. m -> Texts] : Dividing(D, m)}
<1>1. \A n \in Nat : n % base \in 0 .. 15 /\ (n >= base => n \div base \in 0 .. (n - 1))
  BY Divided
<1>2. \A n \in Nat : c(n) \in Texts
  <2> TAKE n \in Nat
  <2>1. (n % base) + 1 \in 1 .. 16
    BY <1>1
  <2>2. \A x \in 1 .. 16 : Upper[x] \in Char /\ Lower[x] \in Char
    BY FormatAssumption DEF Printed
  <2> QED BY <2>1, <2>2 DEF Texts, LastDigit
<1> HIDE DEF c
<1>3. 0 \in S
  <2> DEFINE D == [n \in 0 .. 0 |-> c(n)]
  <2>1. D \in [0 .. 0 -> Texts]
    BY <1>2
  <2>2. Dividing(D, 0)
    OBVIOUS
  <2> QED BY <2>1, <2>2
<1>4. ASSUME NEW m \in Nat, m \in S PROVE m + 1 \in S
  <2>1. PICK E \in [0 .. m -> Texts] : Dividing(E, m)
    BY <1>4
  <2> DEFINE k == m + 1
             D == [n \in 0 .. k |->
                    IF n = k THEN (IF k < base THEN c(k) ELSE c(k) \o E[k \div base])
                             ELSE E[n]]
  <2>2. k \in Nat /\ c(k) \in Texts /\ (k >= base => k \div base \in 0 .. m)
    BY <1>1, <1>2
  <2>3. k >= base => c(k) \o E[k \div base] \in Texts
    <3>1. k >= base => E[k \div base] \in Texts
      BY <2>1, <2>2
    <3> HIDE DEF k
    <3> QED BY <3>1, <2>2, TextsJoin
  <2>4. D \in [0 .. k -> Texts]
    <3>1. k < base \/ k >= base
      OBVIOUS
    <3>2. (IF k < base THEN c(k) ELSE c(k) \o E[k \div base]) \in Texts
      BY <3>1, <2>2, <2>3
    <3>3. \A n \in 0 .. k : n # k => E[n] \in Texts
      BY <2>1
    <3> QED BY <3>2, <3>3
  <2>5. ASSUME NEW n \in 0 .. k
        PROVE  D[n] = IF n < base THEN c(n) ELSE c(n) \o D[n \div base]
    <3>1. CASE n = k
      <4>1. k >= base => D[k \div base] = E[k \div base]
        BY <2>2
      <4>2. D[k] = IF k < base THEN c(k) ELSE c(k) \o E[k \div base]
        BY <2>2
      <4> HIDE DEF D
      <4> QED BY <3>1, <4>1, <4>2, <2>2
    <3>2. CASE n # k
      <4>1. n \in 0 .. m /\ D[n] = E[n] /\ (n >= base => n \div base \in 0 .. m)
        BY <3>2, <1>1
      <4>2. n >= base => D[n \div base] = E[n \div base]
        BY <4>1
      <4>3. E[n] = IF n < base THEN c(n) ELSE c(n) \o E[n \div base]
        BY <2>1, <4>1
      <4> HIDE DEF D
      <4> QED BY <4>1, <4>2, <4>3
    <3> QED BY <3>1, <3>2
  <2>6. Dividing(D, k)
    BY <2>4, <2>5
  <2> HIDE DEF D
  <2> QED BY <2>2, <2>4, <2>6
<1> HIDE DEF S
<1>5. u \in S
  <2>1. Nat \subseteq S
    BY <1>3, <1>4, NatInd
  <2> QED BY <2>1
<1>6. PICK E \in [0 .. u -> Texts] : Dividing(E, u)
  BY <1>5 DEF S
<1>7. Reversed(u, base, upcase) = (CHOOSE D : Dividing(D, u))[u]
  BY DEF Reversed, c, LastDigit
<1>8. PICK D : D = (CHOOSE F : Dividing(F, u)) /\ Dividing(D, u)
  <2> HIDE DEF Dividing
  <2> QED BY <1>6
<1>9. \A n \in 0 .. u : D[n] = IF n < base THEN c(n) ELSE c(n) \o D[n \div base]
  BY <1>8
<1> DEFINE T == {m \in Nat : \A n \in 0 .. m : n <= u => D[n] \in Texts}
<1>10. 0 \in T
  <2>1. 0 \in 0 .. u /\ 0 < base
    OBVIOUS
  <2> QED BY <2>1, <1>9, <1>2
<1>11. ASSUME NEW m \in Nat, m \in T PROVE m + 1 \in T
  <2> SUFFICES ASSUME m + 1 <= u PROVE D[m + 1] \in Texts
    BY <1>11
  <2>1. m + 1 >= base => (m + 1) \div base \in 0 .. m
    BY <1>1
  <2>2. m + 1 >= base => D[(m + 1) \div base] \in Texts
    BY <2>1, <1>11
  <2>3. c(m + 1) \in Texts
    BY <1>2
  <2>4. m + 1 >= base => c(m + 1) \o D[(m + 1) \div base] \in Texts
    BY <2>2, <2>3 DEF Texts
  <2>5. m + 1 \in 0 .. u
    OBVIOUS
  <2> QED BY <2>3, <2>4, <2>5, <1>9
<1> HIDE DEF T, Dividing
<1>12. Nat \subseteq T
  BY <1>10, <1>11, NatInd
<1>13. \A n \in 0 .. u : D[n] \in Texts
  <2>1. u \in T
    BY <1>12
  <2> QED BY <2>1 DEF T
<1>14. DigitsUpTo(D, u, base, upcase)
  <2>1. \A n \in 0 .. u : (n < base => D[n] = c(n)) /\ (n >= base => D[n] = c(n) \o D[n \div base])
    <3>1. \A n \in 0 .. u : n >= base => ~(n < base)
      OBVIOUS
    <3> QED BY ONLY <1>9, <3>1
  <2> QED BY ONLY <2>1, Zenon DEF DigitsUpTo, c
<1> QED BY <1>7, <1>8, <1>13, <1>14

(* So they are a text.                                                     *)
LEMMA ReversedText ==
  ASSUME NEW u \in Nat, NEW base \in Bases, NEW upcase \in BOOLEAN
  PROVE  Reversed(u, base, upcase) \in Texts
<1> USE DEF Bases
<1>1. u \in 0 .. u
  OBVIOUS
<1> QED BY <1>1, ReversedIs

(* A text turned round is a text.                                          *)
LEMMA ReverseText == \A s \in Texts : Reverse(s) \in Texts
  BY DEF Reverse, Texts

(* Signs and padding.                                                      *)
LEMMA Padding == "-" \in Char /\ " " \in Char /\ "0" \in Char
<1>1. Printed \subseteq Char /\ 1 \in 1 .. 16
  BY FormatAssumption
<1>2. Lower[1] = "0"
  BY DEF Lower, Decimal
<1>3. Lower[1] \in Printed /\ "-" \in Printed /\ " " \in Printed
  BY <1>1 DEF Printed
<1> QED BY <1>1, <1>2, <1>3

(* The field of a number is a text, if it fits.                            *)
LEMMA MakeNumText ==
  ASSUME NEW d \in Parsed, NEW u \in Nat, NEW base \in Bases,
         NEW negFlag \in BOOLEAN, NEW upcase \in BOOLEAN
  PROVE  make_num(d, u, base, negFlag, upcase).text \in Texts
<1> USE DEF Bases
<1> DEFINE actual == Reversed(u, base, upcase) \o (IF negFlag THEN <<"-">> ELSE <<>>)
           length == AtLeast(d.width, Len(actual))
           padc == IF d.ladjust THEN " " ELSE d.padc
           signLast == negFlag /\ padc = "0"
           padded == [j \in 1 .. length |->
                        IF signLast /\ j = length THEN "-"
                        ELSE IF j < Len(actual) \/ (j = Len(actual) /\ ~signLast) THEN actual[j]
                        ELSE padc]
           field == IF d.ladjust THEN Reverse(actual) \o SubSeq(padded, Len(actual) + 1, length)
                                 ELSE Reverse(padded)
<1>1. "-" \in Char /\ " " \in Char /\ "0" \in Char
  BY Padding
<1>2. actual \in Texts
  <2>1. Reversed(u, base, upcase) \in Texts
    BY ReversedText
  <2>2. <<"-">> \in Texts /\ <<>> \in Texts
    <3> HIDE DEF actual
    <3>1. \A c \in Char : <<c>> \in Texts
      BY DEF Texts
    <3> QED BY <3>1, <1>1, TextsJoin
  <2>3. (IF negFlag THEN <<"-">> ELSE <<>>) \in Texts
    BY <2>2
  <2> QED BY ONLY <2>1, <2>3 DEF Texts
<1> HIDE DEF actual
<1>3. Len(actual) \in Nat /\ length \in Nat /\ padc \in Char
  <2>1. Len(actual) \in Nat
    BY <1>2 DEF Texts
  <2>2. d.width \in Nat /\ d.padc \in {" ", "0"}
    BY DEF Parsed
  <2> QED BY <2>1, <2>2, <1>1 DEF AtLeast
<1> HIDE DEF length, padc
<1>4. padded \in Texts
  <2>1. ASSUME NEW j \in 1 .. length PROVE padded[j] \in Char
    <3>1. j <= Len(actual) => actual[j] \in Char
      BY <1>2, <1>3 DEF Texts
    <3>2. padded[j] \in {"-", padc} \/ (j <= Len(actual) /\ padded[j] = actual[j])
      BY <1>3
    <3> HIDE DEF padded
    <3> QED BY <3>1, <3>2, <1>1, <1>3
  <2>2. padded = [j \in 1 .. length |-> padded[j]]
    OBVIOUS
  <2> HIDE DEF padded
  <2> QED BY <2>1, <2>2, <1>3 DEF Texts
<1> HIDE DEF padded
<1>5. Reverse(actual) \in Texts /\ Reverse(padded) \in Texts
  BY <1>2, <1>4, ReverseText
<1>6. SubSeq(padded, Len(actual) + 1, length) \in Texts
  <2>1. Len(padded) = length
    BY <1>3 DEF padded
  <2> QED BY <2>1, <1>3, <1>4 DEF Texts
<1>7. field \in Texts
  BY <1>5, <1>6 DEF Texts
<1>8. make_num(d, u, base, negFlag, upcase) = IF length > PTF_MAX_BUF THEN Overflow ELSE Text(field)
  BY DEF make_num, length, actual, padded, padc
<1>9. <<>> \in Texts
  BY DEF Texts
<1> HIDE DEF field
<1> QED BY <1>7, <1>8, <1>9 DEF Overflow, Text

(* Padding is a text.                                                      *)
LEMMA BlankText == \A n \in Nat : Blank(n) \in Texts
<1>1. " " \in Char
  BY Padding
<1>2. \A n \in Nat, c \in Char : [j \in 1 .. n |-> c] \in Texts
  BY DEF Texts
<1> QED BY <1>1, <1>2 DEF Blank

(* Powers of two.                                                          *)
LEMMA Powers ==
  /\ Pow2[0] = 1
  /\ \A n \in 0 .. LongBits : Pow2[n] \in Nat \ {0}
  /\ \A n \in 1 .. LongBits : Pow2[n] = 2 * Pow2[n - 1]
<1> DEFINE V == Nat \ {0}
           step == [n \in 1 .. LongBits |-> [v \in V |-> 2 * v]]
           IsPow2(f) == f = [n \in 0 .. LongBits |-> IF n = 0 THEN 1 ELSE 2 * f[n - 1]]
<1>1. LongBits \in Nat
  BY FormatAssumption
<1>2. Steps(step, V, LongBits)
  <2>1. \A v \in V : 2 * v \in V
    OBVIOUS
  <2> QED BY <2>1 DEF Steps
<1>3. PICK f : IsRec(f, 1, step, V, LongBits)
  <2>1. 1 \in V
    OBVIOUS
  <2> HIDE DEF step, V
  <2> QED BY <1>1, <1>2, <2>1, RecExists
<1>4. IsPow2(f)
  <2>1. f = [n \in 0 .. LongBits |-> f[n]] /\ f[0] = 1
    BY <1>3 DEF IsRec
  <2>2. ASSUME NEW n \in 0 .. LongBits, n # 0 PROVE f[n] = 2 * f[n - 1]
    <3>1. n \in 1 .. LongBits /\ n - 1 \in 0 .. LongBits
      BY <1>1, <2>2
    <3>2. f[n] = step[n][f[n - 1]] /\ f[n - 1] \in V
      BY <1>3, <3>1 DEF IsRec
    <3> QED BY <3>1, <3>2
  <2> QED BY <2>1, <2>2
<1>5. Pow2 = CHOOSE g : IsPow2(g)
  BY DEF Pow2
<1>6. IsPow2(Pow2)
  <2> HIDE DEF IsPow2
  <2> QED BY <1>4, <1>5
<1>7. \A n \in 0 .. LongBits : Pow2[n] = IF n = 0 THEN 1 ELSE 2 * Pow2[n - 1]
  BY <1>6
<1> HIDE DEF IsPow2, V, step
<1>8. Pow2[0] = 1
  <2>1. 0 \in 0 .. LongBits
    BY <1>1
  <2> QED BY <1>7, <2>1
<1>9. \A n \in 1 .. LongBits : Pow2[n] = 2 * Pow2[n - 1]
  <2>1. \A n \in 1 .. LongBits : n \in 0 .. LongBits /\ n # 0
    BY <1>1
  <2> QED BY <1>7, <2>1
<1> DEFINE S == {n \in Nat : n <= LongBits => Pow2[n] \in Nat \ {0}}
<1>10. 0 \in S
  BY <1>8
<1>11. ASSUME NEW n \in Nat, n \in S PROVE n + 1 \in S
  <2> SUFFICES ASSUME n + 1 <= LongBits PROVE Pow2[n + 1] \in Nat \ {0}
    OBVIOUS
  <2>1. Pow2[n] \in Nat \ {0} /\ n + 1 \in 1 .. LongBits /\ (n + 1) - 1 = n
    BY <1>1, <1>11
  <2> QED BY <2>1, <1>9
<1> HIDE DEF S
<1>12. Nat \subseteq S
  BY <1>10, <1>11, NatInd
<1>13. \A n \in 0 .. LongBits : Pow2[n] \in Nat \ {0}
  BY <1>1, <1>12 DEF S
<1> QED BY ONLY <1>8, <1>9, <1>13

(* Words are numbers below a power of two, and what they are as signed     *)
(* ones is not above half of that.                                         *)
LEMMA WordsBounded ==
  ASSUME NEW w \in Int, NEW bits \in 1 .. LongBits
  PROVE  /\ Word(w, bits) \in Nat /\ Word(w, bits) < Pow2[bits]
         /\ Signed(w, bits) \in Int
         /\ Signed(w, bits) < 0 => -Signed(w, bits) <= Pow2[bits - 1]
         /\ Signed(w, bits) >= 0 => Signed(w, bits) < Pow2[bits - 1]
         /\ Pow2[bits] = 2 * Pow2[bits - 1]
         /\ Pow2[bits - 1] \in Nat \ {0} /\ Pow2[bits] \in Nat \ {0}
<1>1. /\ Pow2[bits] \in Nat \ {0} /\ Pow2[bits - 1] \in Nat \ {0}
      /\ Pow2[bits] = 2 * Pow2[bits - 1]
  <2>1. bits \in 0 .. LongBits /\ bits - 1 \in 0 .. LongBits
    BY FormatAssumption
  <2> QED BY <2>1, Powers
<1>2. \A p \in Nat \ {0} : w % p \in Nat /\ w % p < p
  OBVIOUS
<1>3. Word(w, bits) \in Nat /\ Word(w, bits) < Pow2[bits]
  BY <1>1, <1>2 DEF Word
<1>4. Signed(w, bits) = IF Word(w, bits) < Pow2[bits - 1] THEN Word(w, bits)
                        ELSE Word(w, bits) - Pow2[bits]
  BY DEF Signed
<1> QED BY ONLY <1>1, <1>3, <1>4

(* The widths there are.                                                   *)
LEMMA BitsBounded ==
  ASSUME NEW d \in Parsed
  PROVE  Bits(d) \in 1 .. LongBits
  BY FormatAssumption DEF Bits

(* What dividing again and again yields: digits, no more of them than the  *)
(* number has bits, and no zero in front.                                  *)
LEMMA DigitsFound ==
  ASSUME NEW u \in Nat, NEW base \in Bases, NEW upcase \in BOOLEAN, NEW D,
         DigitsUpTo(D, u, base, upcase), \A n \in 0 .. u : D[n] \in Texts
  PROVE  \A n \in 0 .. u :
           /\ Len(D[n]) \in Nat \ {0}
           /\ \A i \in 1 .. Len(D[n]) : D[n][i] \in Digits(base, upcase)
           /\ n # 0 => D[n][Len(D[n])] # "0"
           /\ n = 0 => Len(D[n]) = 1
<1> USE DEF Bases
<1> DEFINE c(n) == LastDigit(n, base, upcase)
           P(n) == /\ Len(D[n]) \in Nat \ {0}
                   /\ \A i \in 1 .. Len(D[n]) : D[n][i] \in Digits(base, upcase)
                   /\ n # 0 => D[n][Len(D[n])] # "0"
                   /\ n = 0 => Len(D[n]) = 1
           S == {m \in Nat : \A n \in 0 .. m : n <= u => P(n)}
<1>1. ASSUME NEW n \in Nat
      PROVE  c(n) \in Digits(base, upcase) /\ (n < base /\ n # 0 => c(n) # "0")
  <2>1. c(n) = Glyph(upcase)[(n % base) + 1]
    BY Zenon DEF LastDigit, Glyph
  <2>2. n % base \in 0 .. (base - 1) /\ n % base \in 0 .. 15 /\ (n < base => n % base = n)
    BY Divided
  <2>3. (n % base) + 1 \in 1 .. base
    BY <2>2
  <2>4. n < base /\ n # 0 => Glyph(upcase)[(n % base) + 1] # Glyph(upcase)[0 + 1]
    <3>1. \A x, y \in 0 .. 15 : Glyph(upcase)[x + 1] = Glyph(upcase)[y + 1] => x = y
      BY Glyphs
    <3>2. 0 \in 0 .. 15
      OBVIOUS
    <3> QED BY ONLY <2>2, <3>1, <3>2
  <2>5. Glyph(upcase)[1] = "0"
    BY Glyphs, Zenon
  <2> QED BY <2>1, <2>3, <2>4, <2>5 DEF Digits
<1>2. ASSUME NEW n \in 0 .. u, n < base PROVE P(n)
  <2>1. D[n] = <<c(n)>>
    BY <1>2, Zenon DEF DigitsUpTo
  <2> HIDE DEF c
  <2>2. Len(D[n]) = 1 /\ D[n][1] = c(n)
    BY <2>1
  <2> QED BY <1>1, <1>2, <2>2
<1>3. ASSUME NEW n \in 0 .. u, n >= base, P(n \div base) PROVE P(n)
  <2> DEFINE q == n \div base
  <2>1. q \in 1 .. (n - 1) /\ q \in 0 .. u
    BY <1>3, Divided
  <2>2. D[n] = <<c(n)>> \o D[q]
    BY <1>3, Zenon DEF DigitsUpTo
  <2>3. P(q)
    BY <1>3
  <2> HIDE DEF q, c
  <2>4. D[q] \in Texts /\ q # 0 /\ n # 0
    BY <2>1, <1>3
  <2>5. /\ Len(D[n]) = Len(D[q]) + 1 /\ D[n][1] = c(n)
        /\ \A i \in 1 .. Len(D[q]) : D[n][i + 1] = D[q][i]
    BY <2>2, <2>3, <2>4 DEF Texts
  <2>6. \A i \in 2 .. Len(D[n]) : i - 1 \in 1 .. Len(D[q]) /\ (i - 1) + 1 = i
    BY <2>3, <2>5
  <2>7. \A i \in 1 .. Len(D[n]) : D[n][i] \in Digits(base, upcase)
    <3> TAKE i \in 1 .. Len(D[n])
    <3>1. i = 1 \/ i \in 2 .. Len(D[n])
      BY <2>3, <2>5
    <3>2. i = 1 => D[n][i] \in Digits(base, upcase)
      BY <2>5, <1>1
    <3>3. i \in 2 .. Len(D[n]) => D[n][i] = D[q][i - 1] /\ i - 1 \in 1 .. Len(D[q])
      BY <2>5, <2>6
    <3> QED BY ONLY <3>1, <3>2, <3>3, <2>3
  <2>8. D[n][Len(D[n])] # "0"
    BY <2>3, <2>4, <2>5
  <2> QED BY <2>3, <2>4, <2>5, <2>7, <2>8
<1> HIDE DEF P
<1>4. 0 \in S
  BY <1>2
<1>5. ASSUME NEW m \in Nat, m \in S PROVE m + 1 \in S
  <2> SUFFICES ASSUME m + 1 <= u PROVE P(m + 1)
    BY <1>5
  <2>1. m + 1 \in 0 .. u
    OBVIOUS
  <2>2. CASE m + 1 < base
    BY <2>1, <2>2, <1>2
  <2>3. CASE m + 1 >= base
    <3>1. (m + 1) \div base \in 0 .. m /\ (m + 1) \div base <= u
      BY <2>3, Divided
    <3>2. P((m + 1) \div base)
      BY <3>1, <1>5
    <3> QED BY <2>1, <2>3, <3>2, <1>3
  <2> QED BY <2>2, <2>3
<1> HIDE DEF S
<1>6. u \in S
  <2>1. Nat \subseteq S
    BY <1>4, <1>5, NatInd
  <2> QED BY <2>1
<1>7. \A n \in 0 .. u : P(n)
  BY <1>6 DEF S
<1> QED BY <1>7 DEF P

(* No number has more digits than bits.                                    *)
LEMMA DigitsFew ==
  ASSUME NEW u \in Nat, NEW base \in Bases, NEW upcase \in BOOLEAN, NEW D,
         DigitsUpTo(D, u, base, upcase), \A n \in 0 .. u : D[n] \in Texts,
         NEW k \in 1 .. LongBits, u < Pow2[k]
  PROVE  Len(D[u]) <= k
<1> USE DEF Bases
<1> DEFINE Few(j) == \A n \in 0 .. u : n < Pow2[j] => Len(D[n]) <= j
           S == {j \in Nat : j \in 1 .. LongBits => Few(j)}
<1>1. \A n \in 0 .. u : n < base => Len(D[n]) = 1
  <2>1. \A n \in 0 .. u : n < base => D[n] = <<LastDigit(n, base, upcase)>>
    BY Zenon DEF DigitsUpTo
  <2>2. \A e : Len(<<e>>) = 1
    OBVIOUS
  <2> QED BY ONLY <2>1, <2>2
<1>2. \A n \in 0 .. u : n >= base =>
         /\ n \div base \in 0 .. u /\ 2 * (n \div base) <= n
         /\ Len(D[n]) = Len(D[n \div base]) + 1
  <2> SUFFICES ASSUME NEW n \in 0 .. u, n >= base
               PROVE  /\ n \div base \in 0 .. u /\ 2 * (n \div base) <= n
                      /\ Len(D[n]) = Len(D[n \div base]) + 1
    OBVIOUS
  <2> DEFINE q == n \div base
  <2>1. q \in 0 .. u /\ 2 * q <= n
    <3>1. CASE base = 2
      BY <3>1
    <3>2. CASE base = 8
      BY <3>2
    <3>3. CASE base = 10
      BY <3>3
    <3>4. CASE base = 16
      BY <3>4
    <3> QED BY <3>1, <3>2, <3>3, <3>4
  <2>2. D[n] = <<LastDigit(n, base, upcase)>> \o D[q]
    BY Zenon DEF DigitsUpTo
  <2> HIDE DEF q
  <2>3. D[q] \in Texts
    BY <2>1
  <2>4. Len(D[n]) = Len(D[q]) + 1
    BY <2>2, <2>3 DEF Texts
  <2> QED BY <2>1, <2>4 DEF q
<1>3. Few(1)
  <2>1. Pow2[1] = 2
    <3>1. 1 \in 1 .. LongBits /\ 1 - 1 = 0
      BY FormatAssumption
    <3>2. Pow2[1] = 2 * Pow2[1 - 1] /\ Pow2[0] = 1
      BY <3>1, Powers
    <3> QED BY <3>1, <3>2
  <2> SUFFICES ASSUME NEW n \in 0 .. u, n < Pow2[1] PROVE Len(D[n]) <= 1
    OBVIOUS
  <2>2. n < base
    BY <2>1
  <2>3. Len(D[n]) = 1
    BY <1>1, <2>2
  <2> QED BY ONLY <2>3
<1>4. ASSUME NEW j \in 1 .. LongBits, Few(j), j + 1 \in 1 .. LongBits PROVE Few(j + 1)
  <2> SUFFICES ASSUME NEW n \in 0 .. u, n < Pow2[j + 1] PROVE Len(D[n]) <= j + 1
    OBVIOUS
  <2>1. Pow2[j + 1] = 2 * Pow2[j] /\ Pow2[j] \in Nat
    <3>1. (j + 1) - 1 = j /\ j \in 0 .. LongBits
      OBVIOUS
    <3> QED BY <1>4, <3>1, Powers
  <2>2. CASE n < base
    <3>1. Len(D[n]) = 1 /\ j \in Nat
      BY <1>1, <2>2
    <3> QED BY ONLY <3>1
  <2>3. CASE n >= base
    <3>1. /\ n \div base \in 0 .. u /\ 2 * (n \div base) <= n
          /\ Len(D[n]) = Len(D[n \div base]) + 1
      BY <1>2, <2>3
    <3>2. \A q \in Nat : 2 * q <= n => q < Pow2[j]
      BY <2>1
    <3>3. n \div base \in Nat
      BY <3>1
    <3>4. Len(D[n \div base]) <= j
      BY <3>1, <3>2, <3>3, <1>4
    <3>5. Len(D[n \div base]) \in Nat /\ j \in Nat
      BY <3>1 DEF Texts
    <3> QED BY ONLY <3>1, <3>4, <3>5
  <2> QED BY <2>2, <2>3
<1> HIDE DEF Few
<1>5. \A j \in Nat : j \in S => j + 1 \in S
  <2> SUFFICES ASSUME NEW j \in Nat, j \in S, j + 1 \in 1 .. LongBits PROVE Few(j + 1)
    OBVIOUS
  <2>1. CASE j = 0
    <3>1. j + 1 = 1
      BY <2>1
    <3> QED BY <3>1, <1>3
  <2>2. CASE j # 0
    <3>1. j \in 1 .. LongBits
      BY <2>2, FormatAssumption
    <3> QED BY <3>1, <1>4
  <2> QED BY <2>1, <2>2
<1>6. 0 \in S
  OBVIOUS
<1> HIDE DEF S
<1>7. Nat \subseteq S
  BY <1>5, <1>6, NatInd
<1>8. Few(k)
  BY <1>7 DEF S
<1>9. u \in 0 .. u
  OBVIOUS
<1> QED BY <1>8, <1>9 DEF Few

(* What a conversion makes of an argument of its type.                     *)
LEMMA ConvertText ==
  ASSUME NEW d \in Parsed, d.conv \in Conversions, NEW w \in Argument(d.conv)
  PROVE  Convert(d, w).text \in Texts
<1> USE DEF Bases
<1>1. d.width \in Nat /\ <<>> \in Texts
  BY TextsJoin DEF Parsed
<1>2. \A s \in Texts : Guarded(s).text \in Texts
  BY <1>1 DEF Guarded, Overflow, Text
<1>3. CASE d.conv = "c"
  <2>1. w \in Char
    BY <1>3 DEF Argument
  <2>2. Blank(AtLeast(d.width, 1) - 1) \in Texts /\ <<w>> \in Texts
    <3>1. AtLeast(d.width, 1) - 1 \in Nat
      BY <1>1 DEF AtLeast
    <3> QED BY <2>1, <3>1, BlankText DEF Texts
  <2>3. make_char(d, w).text \in Texts
    <3>1. /\ <<w>> \o Blank(AtLeast(d.width, 1) - 1) \in Texts
          /\ Blank(AtLeast(d.width, 1) - 1) \o <<w>> \in Texts
      BY <2>2, TextsJoin
    <3> QED BY <1>2, <3>1 DEF make_char
  <2> QED BY <1>3, <2>3 DEF Convert
<1>4. CASE d.conv = "s"
  <2>1. w \in Texts /\ Len(w) \in Nat
    BY <1>4 DEF Argument, Texts
  <2>2. Blank(AtLeast(d.width, Len(w)) - Len(w)) \in Texts
    <3>1. AtLeast(d.width, Len(w)) - Len(w) \in Nat
      BY <1>1, <2>1 DEF AtLeast
    <3> QED BY <3>1, BlankText
  <2>3. make_string(d, w).text \in Texts
    <3>1. /\ w \o Blank(AtLeast(d.width, Len(w)) - Len(w)) \in Texts
          /\ Blank(AtLeast(d.width, Len(w)) - Len(w)) \o w \in Texts
      BY <2>1, <2>2, TextsJoin
    <3> QED BY <1>2, <3>1 DEF make_string
  <2> QED BY <1>4, <2>3 DEF Convert
<1>5. CASE d.conv \notin {"c", "s"}
  <2>1. w \in Int
    BY <1>5 DEF Argument
  <2>2. \A n \in Int : Word(n, Bits(d)) \in Nat /\ Word(n, LongBits) \in Nat
    <3>1. Bits(d) \in 1 .. LongBits /\ LongBits \in 1 .. LongBits
      BY BitsBounded, FormatAssumption
    <3> QED BY <3>1, WordsBounded
  <2>3. CASE d.conv \in {"d", "D"}
    <3> DEFINE num == Signed(w, Bits(d))
    <3>1. num \in Int
      BY <2>1, BitsBounded, WordsBounded
    <3> HIDE DEF num
    <3>2. Word(IF num < 0 THEN -num ELSE num, LongBits) \in Nat
      BY <2>2, <3>1
    <3>3. Number(d, w)
          = make_num(d, Word(IF num < 0 THEN -num ELSE num, LongBits), 10, num < 0, FALSE)
      BY DEF Number, num
    <3>4. Number(d, w).text \in Texts
      <4>1. (num < 0) \in BOOLEAN /\ FALSE \in BOOLEAN /\ 10 \in Bases
        OBVIOUS
      <4>2. \A u \in Nat, negFlag \in BOOLEAN : make_num(d, u, 10, negFlag, FALSE).text \in Texts
        BY MakeNumText
      <4>3. \A negFlag \in BOOLEAN :
              make_num(d, Word(IF num < 0 THEN -num ELSE num, LongBits), 10, negFlag, FALSE).text
                \in Texts
        BY ONLY <3>2, <4>2
      <4> QED BY ONLY <3>3, <4>1, <4>3
    <3> QED BY <2>3, <3>4 DEF Convert
  <2>4. CASE d.conv \notin {"d", "D"}
    <3>1. Base(d.conv) \in Bases
      BY DEF Base
    <3>2. Word(w, Bits(d)) \in Nat
      BY <2>1, <2>2
    <3>3. make_num(d, Word(w, Bits(d)), Base(d.conv), FALSE, d.conv = "X").text \in Texts
      BY <3>1, <3>2, MakeNumText
    <3> QED BY <1>5, <2>4, <3>3 DEF Convert
  <2> QED BY <2>3, <2>4
<1> QED BY <1>3, <1>4, <1>5

-----------------------------------------------------------------------------
(***************************************************************************)
(* What a field reads as.                                                  *)
(***************************************************************************)

(* Where the members of S end is the place Prefix finds.                   *)
LEMMA PrefixIs ==
  ASSUME NEW s, Len(s) \in Nat, NEW j \in 1 .. (Len(s) + 1), NEW S,
         NEW n \in 0 .. (Len(s) + 1 - j), \A x \in j .. (j + n - 1) : s[x] \in S,
         j + n <= Len(s) => s[j + n] \notin S
  PROVE  Prefix(s, j, S) = n
<1> DEFINE p == Prefix(s, j, S)
<1>1. /\ p \in 0 .. (Len(s) + 1 - j)
      /\ \A x \in j .. (j + p - 1) : s[x] \in S
      /\ j + p <= Len(s) => s[j + p] \notin S
  BY PrefixStops
<1> HIDE DEF p
<1>2. ~(p < n)
  <2> SUFFICES ASSUME p < n PROVE FALSE
    OBVIOUS
  <2>1. j + p \in j .. (j + n - 1) /\ j + p <= Len(s)
    BY <1>1
  <2> QED BY <1>1, <2>1
<1>3. ~(n < p)
  <2> SUFFICES ASSUME n < p PROVE FALSE
    OBVIOUS
  <2>1. j + n \in j .. (j + p - 1) /\ j + n <= Len(s)
    BY <1>1
  <2> QED BY <1>1, <2>1
<1>4. p = n
  BY <1>1, <1>2, <1>3
<1> QED BY <1>4 DEF p

(* V is what the first digits of s yield; and the digits D has for n stand *)
(* in s after the first b.                                                 *)
Reading(V, s, N, base, upcase) ==
  \A n \in 1 .. N : V[n] = V[n - 1] * base + DigitOf(s[n], upcase)
Standing(D, n, s, b) == \A i \in 1 .. Len(D[n]) : s[b + i] = D[n][Len(D[n]) + 1 - i]

(* Read from where they stand in s, the digits of n yield n.               *)
LEMMA DigitsRead ==
  ASSUME NEW u \in Nat, NEW base \in Bases, NEW upcase \in BOOLEAN, NEW D,
         DigitsUpTo(D, u, base, upcase), \A n \in 0 .. u : D[n] \in Texts,
         NEW s, NEW V, NEW N \in Nat, NEW b \in Nat, V[b] = 0,
         Reading(V, s, N, base, upcase)
  PROVE  \A n \in 0 .. u :
           b + Len(D[n]) <= N /\ Standing(D, n, s, b) => V[b + Len(D[n])] = n
<1> USE DEF Bases
<1> DEFINE c(n) == LastDigit(n, base, upcase)
           R(n) == b + Len(D[n]) <= N /\ Standing(D, n, s, b) => V[b + Len(D[n])] = n
           S == {m \in Nat : \A n \in 0 .. m : n <= u => R(n)}
<1>1. ASSUME NEW n \in Nat PROVE DigitOf(c(n), upcase) = n % base
  <2>1. c(n) = Glyph(upcase)[(n % base) + 1]
    BY Zenon DEF LastDigit, Glyph
  <2>2. n % base \in 0 .. 15
    BY Divided
  <2> QED BY <2>1, <2>2, DigitOfGlyph, Zenon
<1>2. ASSUME NEW n \in 0 .. u, n < base PROVE R(n)
  <2>1. D[n] = <<c(n)>>
    BY <1>2, Zenon DEF DigitsUpTo
  <2> HIDE DEF c
  <2>2. Len(D[n]) = 1 /\ D[n][1] = c(n)
    BY <2>1
  <2> SUFFICES ASSUME b + 1 <= N, s[b + 1] = c(n) PROVE V[b + 1] = n
    BY <2>2 DEF Standing
  <2>3. b + 1 \in 1 .. N /\ (b + 1) - 1 = b
    OBVIOUS
  <2>4. V[b + 1] = V[b] * base + DigitOf(s[b + 1], upcase)
    BY <2>3 DEF Reading
  <2>5. DigitOf(s[b + 1], upcase) = n
    BY <1>1, <1>2, Divided
  <2> QED BY ONLY <2>4, <2>5, V[b] = 0, n \in 0 .. u, base \in Bases, u \in Nat
<1>3. ASSUME NEW n \in 0 .. u, n >= base, R(n \div base) PROVE R(n)
  <2> DEFINE q == n \div base
  <2>1. q \in 1 .. (n - 1) /\ q \in 0 .. u /\ q * base + (n % base) = n
    BY <1>3, Divided
  <2>2. D[n] = <<c(n)>> \o D[q]
    BY <1>3, Zenon DEF DigitsUpTo
  <2>3. R(q)
    BY <1>3
  <2> HIDE DEF q, c
  <2>4. D[q] \in Texts
    BY <2>1
  <2>5. /\ Len(D[q]) \in Nat /\ Len(D[n]) = Len(D[q]) + 1 /\ D[n][1] = c(n)
        /\ \A i \in 1 .. Len(D[q]) : D[n][i + 1] = D[q][i]
    BY <2>2, <2>4 DEF Texts
  <2> DEFINE l == Len(D[q])
  <2> SUFFICES ASSUME b + Len(D[n]) <= N,
                      \A i \in 1 .. Len(D[n]) : s[b + i] = D[n][Len(D[n]) + 1 - i]
               PROVE  V[b + Len(D[n])] = n
    BY DEF Standing
  <2>6. \A i \in 1 .. l : s[b + i] = D[q][l + 1 - i]
    <3> TAKE i \in 1 .. l
    <3>1. /\ i \in 1 .. Len(D[n]) /\ l + 1 - i \in 1 .. l
          /\ Len(D[n]) + 1 - i = (l + 1 - i) + 1
      BY ONLY <2>5, i \in 1 .. l
    <3>2. s[b + i] = D[n][Len(D[n]) + 1 - i]
      BY <3>1
    <3>3. D[n][(l + 1 - i) + 1] = D[q][l + 1 - i]
      BY <3>1, <2>5
    <3> QED BY ONLY <3>1, <3>2, <3>3
  <2>7. V[b + l] = q
    <3>1. Standing(D, q, s, b)
      BY <2>6 DEF Standing
    <3> QED BY <2>3, <2>5, <3>1
  <2>8. s[b + (l + 1)] = c(n)
    <3>1. l + 1 \in 1 .. Len(D[n]) /\ Len(D[n]) + 1 - (l + 1) = 1
      BY <2>5
    <3> QED BY <3>1, <2>5
  <2>9. b + (l + 1) \in 1 .. N /\ (b + (l + 1)) - 1 = b + l
    BY <2>5
  <2>10. V[b + (l + 1)] = V[b + l] * base + DigitOf(s[b + (l + 1)], upcase)
    BY <2>9 DEF Reading
  <2>11. V[b + (l + 1)] = q * base + (n % base)
    BY <2>7, <2>8, <2>10, <1>1
  <2> QED BY <2>1, <2>5, <2>11
<1> HIDE DEF R
<1>4. 0 \in S
  BY <1>2
<1>5. ASSUME NEW m \in Nat, m \in S PROVE m + 1 \in S
  <2> SUFFICES ASSUME m + 1 <= u PROVE R(m + 1)
    BY <1>5
  <2>1. m + 1 \in 0 .. u
    OBVIOUS
  <2>2. CASE m + 1 < base
    BY <2>1, <2>2, <1>2
  <2>3. CASE m + 1 >= base
    <3>1. (m + 1) \div base \in 0 .. m /\ (m + 1) \div base <= u
      BY <2>3, Divided
    <3>2. R((m + 1) \div base)
      BY <3>1, <1>5
    <3> QED BY <2>1, <2>3, <3>2, <1>3
  <2> QED BY <2>2, <2>3
<1> HIDE DEF S
<1>6. u \in S
  <2>1. Nat \subseteq S
    BY <1>4, <1>5, NatInd
  <2> QED BY <2>1
<1>7. \A n \in 0 .. u : R(n)
  BY <1>6 DEF S
<1> QED BY <1>7 DEF R

(* s is b zeros and the digits r, turned round; what it reads as.          *)
Numbered(s, b, r) ==
  /\ Len(s) = b + Len(r)
  /\ \A j \in 1 .. b : s[j] = "0"
  /\ \A j \in 1 .. Len(r) : s[b + j] = r[Len(r) + 1 - j]
ReadsAs(s, u, base, upcase, b) ==
  /\ Numeral(s, base, upcase) = u
  /\ \A j \in 1 .. Len(s) : s[j] \in Digits(base, upcase)
  /\ Len(s) # 0 /\ (s[1] = "0" /\ Len(s) > 1 => b > 0)

(* Zeros in front of the digits of u do not change what is read.           *)
LEMMA ReadBack ==
  ASSUME NEW u \in Nat, NEW base \in Bases, NEW upcase \in BOOLEAN,
         NEW R, R = Reversed(u, base, upcase), NEW b \in Nat, NEW s, Numbered(s, b, R)
  PROVE  ReadsAs(s, u, base, upcase, b)
<1> /\ Len(s) = b + Len(R)
    /\ \A j \in 1 .. b : s[j] = "0"
    /\ \A j \in 1 .. Len(R) : s[b + j] = R[Len(R) + 1 - j]
  BY DEF Numbered
<1>0. base \in {2, 8, 10, 16} /\ base \in Nat
  BY DEF Bases
<1>1. PICK D : /\ R = D[u]
               /\ DigitsUpTo(D, u, base, upcase)
               /\ \A n \in 0 .. u : D[n] \in Texts
  <2>1. \E D : /\ Reversed(u, base, upcase) = D[u]
               /\ DigitsUpTo(D, u, base, upcase)
               /\ \A n \in 0 .. u : D[n] \in Texts
    BY ONLY ReversedIs
  <2> QED BY ONLY <2>1, R = Reversed(u, base, upcase), Zenon
<1>2. u \in 0 .. u
  OBVIOUS
<1>3. /\ Len(R) \in Nat \ {0}
      /\ \A i \in 1 .. Len(R) : R[i] \in Digits(base, upcase)
      /\ u # 0 => R[Len(R)] # "0"
      /\ u = 0 => Len(R) = 1
  <2>1. \A n \in 0 .. u :
           /\ Len(D[n]) \in Nat \ {0}
           /\ \A i \in 1 .. Len(D[n]) : D[n][i] \in Digits(base, upcase)
           /\ n # 0 => D[n][Len(D[n])] # "0"
           /\ n = 0 => Len(D[n]) = 1
    BY ONLY <1>1, DigitsFound
  <2> QED BY <2>1, <1>1, <1>2, Zenon
<1>4. "0" \in Digits(base, upcase) /\ DigitOf("0", upcase) = 0
  <2>1. Glyph(upcase)[1] = "0"
    BY Glyphs, Zenon
  <2>2. 1 \in 1 .. base /\ 0 \in 0 .. 15
    BY <1>0
  <2>3. DigitOf(Glyph(upcase)[0 + 1], upcase) = 0
    BY <2>2, DigitOfGlyph, Zenon
  <2>4. 0 + 1 = 1
    OBVIOUS
  <2>5. DigitOf(Glyph(upcase)[1], upcase) = 0
    BY ONLY <2>3, <2>4
  <2> QED BY <2>1, <2>2, <2>5, Zenon DEF Digits
<1>5. \A j \in 1 .. Len(s) : s[j] \in Digits(base, upcase)
  <2> TAKE j \in 1 .. Len(s)
  <2>1. CASE j <= b
    BY <2>1, <1>3, <1>4
  <2>2. CASE j > b
    <3>1. j - b \in 1 .. Len(R) /\ b + (j - b) = j /\ Len(R) + 1 - (j - b) \in 1 .. Len(R)
      BY <2>2, <1>3
    <3>2. s[b + (j - b)] = R[Len(R) + 1 - (j - b)]
      BY <3>1
    <3> QED BY ONLY <3>1, <3>2, <1>3
  <2> QED BY <2>1, <2>2, <1>3
<1>6. Digits(base, upcase) \subseteq Digits(16, upcase)
  <2>1. 1 .. base \subseteq 1 .. 16
    BY <1>0
  <2> QED BY <2>1, Zenon DEF Digits
<1>7. PICK V : /\ Numeral(s, base, upcase) = V[Len(s)]
               /\ V[0] = 0
               /\ Reading(V, s, Len(s), base, upcase)
  <2>1. \A i \in 1 .. Len(s) : s[i] \in Digits(16, upcase)
    BY <1>5, <1>6
  <2>2. base \in Nat /\ Len(s) \in Nat
    BY <1>0, <1>3
  <2>3. \E W : /\ Numeral(s, base, upcase) = W[Len(s)]
               /\ W[0] = 0
               /\ \A n \in 0 .. Len(s) : W[n] \in Nat
               /\ \A n \in 1 .. Len(s) : W[n] = W[n - 1] * base + DigitOf(s[n], upcase)
    BY ONLY <2>1, <2>2, NumeralIs
  <2> QED BY ONLY <2>3, Zenon DEF Reading
<1>8. V[b] = 0
  <2> DEFINE S == {n \in Nat : n <= b => V[n] = 0}
  <2>1. 0 \in S
    BY <1>7
  <2>2. ASSUME NEW n \in Nat, n \in S PROVE n + 1 \in S
    <3> SUFFICES ASSUME n + 1 <= b PROVE V[n + 1] = 0
      OBVIOUS
    <3>1. n + 1 \in 1 .. Len(s) /\ n + 1 \in 1 .. b /\ (n + 1) - 1 = n /\ V[n] = 0
      BY <2>2, <1>3
    <3>2. V[n + 1] = V[n] * base + DigitOf(s[n + 1], upcase)
      BY <1>7, <3>1 DEF Reading
    <3>3. DigitOf(s[n + 1], upcase) = 0
      BY <1>4, <3>1
    <3> QED BY ONLY <1>0, <3>1, <3>2, <3>3
  <2> HIDE DEF S
  <2>3. Nat \subseteq S
    BY <2>1, <2>2, NatInd
  <2> QED BY <2>3 DEF S
<1>9. V[b + Len(R)] = u
  <2>1. Len(s) \in Nat /\ b + Len(R) <= Len(s)
    BY <1>3
  <2>2. \A n \in 0 .. u :
          b + Len(D[n]) <= Len(s) /\ Standing(D, n, s, b) => V[b + Len(D[n])] = n
    BY ONLY <2>1, <1>1, <1>7, <1>8, DigitsRead
  <2>3. Standing(D, u, s, b)
    BY <1>1 DEF Standing
  <2> QED BY <2>1, <2>2, <2>3, <1>1, <1>2
<1>10. s[1] = "0" /\ Len(s) > 1 => b > 0
  <2> SUFFICES ASSUME s[1] = "0", Len(s) > 1, b = 0 PROVE FALSE
    OBVIOUS
  <2>1. Len(R) > 1 /\ 1 \in 1 .. Len(R) /\ b + 1 = 1 /\ Len(R) + 1 - 1 = Len(R)
    BY <1>3
  <2>2. s[b + 1] = R[Len(R) + 1 - 1]
    BY <2>1
  <2> QED BY <2>1, <2>2, <1>3
<1> QED BY <1>3, <1>5, <1>7, <1>9, <1>10 DEF ReadsAs

(* The character that pads; by this name the SMT solver can speak of it.   *)
Space == " "

(* A field: blanks, a sign, zeros, the digits r (the last one first), and  *)
(* blanks again.                                                           *)
Shaped(f, blanks, sign, zeros, r, after) ==
  /\ f \in Texts /\ Len(f) = blanks + sign + zeros + Len(r) + after
  /\ \A j \in 1 .. blanks : f[j] = Space
  /\ sign = 1 => f[blanks + 1] = "-"
  /\ \A j \in 1 .. zeros : f[blanks + sign + j] = "0"
  /\ \A j \in 1 .. Len(r) : f[blanks + sign + zeros + j] = r[Len(r) + 1 - j]
  /\ \A j \in 1 .. after : f[blanks + sign + zeros + Len(r) + j] = Space

(* The parts of such a field.                                              *)
Parts(f, a, sign, b, r, c, Digit) ==
  /\ Prefix(f, 1, {Space}) = a
  /\ Prefix(f, a + 1, Digit \cup {"-"}) = sign + b + Len(r)
  /\ Len(f) - a - (sign + b + Len(r)) = c
  /\ AllIn(SubSeq(f, Len(f) - c + 1, Len(f)), {Space})
  /\ Numbered(SubSeq(f, a + sign + 1, a + (sign + b + Len(r))), b, r)
LEMMA ShapedParts ==
  ASSUME NEW r, r \in Texts, Len(r) # 0, NEW Digit, Space \notin Digit \cup {"-"},
         "0" \in Digit,
         \A j \in 1 .. Len(r) : r[j] \in Digit,
         NEW f, NEW a \in Nat, NEW sign \in {0, 1}, NEW b \in Nat, NEW c \in Nat,
         Shaped(f, a, sign, b, r, c)
  PROVE  Parts(f, a, sign, b, r, c, Digit)
<1> DEFINE m == b + Len(r)
           digits == SubSeq(f, a + sign + 1, a + (sign + b + Len(r)))
<1>1. Len(r) \in Nat /\ sign \in Nat
  BY DEF Texts
<1>2. /\ f \in Texts /\ Len(f) = a + sign + b + Len(r) + c
      /\ \A j \in 1 .. a : f[j] = Space
      /\ sign = 1 => f[a + 1] = "-"
      /\ \A j \in 1 .. b : f[a + sign + j] = "0"
      /\ \A j \in 1 .. Len(r) : f[a + sign + b + j] = r[Len(r) + 1 - j]
      /\ \A j \in 1 .. c : f[a + sign + b + Len(r) + j] = Space
  BY DEF Shaped
<1>3. /\ m \in Nat /\ m >= 1 /\ Len(f) = a + sign + m + c /\ Len(f) \in Nat
      /\ a + (sign + b + Len(r)) = a + sign + m
  BY <1>1, <1>2
<1>4. Len(digits) = m /\ \A j \in 1 .. m : digits[j] = f[a + sign + j]
  <2>1. digits = SubSeq(f, a + sign + 1, a + sign + m)
    BY <1>3
  <2> HIDE DEF digits, m
  <2> QED BY <2>1, <1>1, <1>2, <1>3 DEF Texts
<1> HIDE DEF digits
<1>5. \A j \in 1 .. b : digits[j] = "0"
  <2> TAKE j \in 1 .. b
  <2>1. j \in 1 .. m
    BY <1>1
  <2>2. digits[j] = f[a + sign + j]
    BY <1>4, <2>1
  <2> QED BY <2>2, <1>2
<1>6. \A j \in 1 .. Len(r) : digits[b + j] = r[Len(r) + 1 - j]
  <2> TAKE j \in 1 .. Len(r)
  <2>1. b + j \in 1 .. m /\ a + sign + (b + j) = a + sign + b + j
    BY <1>1
  <2> QED BY <2>1, <1>2, <1>4
<1>7. \A j \in 1 .. m : f[a + sign + j] \in Digit
  <2> TAKE j \in 1 .. m
  <2>1. CASE j <= b
    BY <2>1, <1>4, <1>5
  <2>2. CASE j > b
    <3>1. j - b \in 1 .. Len(r) /\ b + (j - b) = j /\ Len(r) + 1 - (j - b) \in 1 .. Len(r)
      BY <2>2, <1>1
    <3>2. digits[j] = r[Len(r) + 1 - (j - b)]
      BY <3>1, <1>6
    <3> QED BY <3>1, <3>2, <1>4
  <2> QED BY <2>1, <2>2, <1>1
<1>8. \A j \in (a + 1) .. (a + sign + m) : f[j] \in Digit \cup {"-"}
  <2> TAKE j \in (a + 1) .. (a + sign + m)
  <2>1. CASE sign = 1 /\ j = a + 1
    BY <2>1, <1>2
  <2>2. CASE ~(sign = 1 /\ j = a + 1)
    <3>1. j - a - sign \in 1 .. m /\ a + sign + (j - a - sign) = j
      BY <2>2, <1>3
    <3> QED BY <3>1, <1>7
  <2> QED BY <2>1, <2>2
<1> HIDE DEF m
<1>9. Prefix(f, 1, {Space}) = a
  <2>1. a + 1 \in (a + 1) .. (a + sign + m) /\ 1 + a = a + 1
    BY <1>1, <1>3
  <2>2. f[1 + a] \notin {Space}
    BY <2>1, <1>8
  <2>3. a \in 0 .. (Len(f) + 1 - 1) /\ 1 \in 1 .. (Len(f) + 1)
    BY <1>1, <1>3
  <2>4. \A x \in 1 .. (1 + a - 1) : f[x] \in {Space}
    BY <1>2
  <2> QED BY ONLY <2>2, <2>3, <2>4, <1>3, PrefixIs
<1>10. Prefix(f, a + 1, Digit \cup {"-"}) = sign + m
  <2>1. /\ sign + m \in 0 .. (Len(f) + 1 - (a + 1)) /\ a + 1 \in 1 .. (Len(f) + 1)
        /\ (a + 1) + (sign + m) - 1 = a + sign + m
    BY <1>1, <1>3
  <2>2. \A x \in (a + 1) .. ((a + 1) + (sign + m) - 1) : f[x] \in Digit \cup {"-"}
    BY <2>1, <1>8
  <2>3. (a + 1) + (sign + m) <= Len(f) => f[(a + 1) + (sign + m)] \notin Digit \cup {"-"}
    <3> SUFFICES ASSUME (a + 1) + (sign + m) <= Len(f)
                 PROVE  f[(a + 1) + (sign + m)] = Space
      OBVIOUS
    <3>1. 1 \in 1 .. c /\ a + sign + b + Len(r) + 1 = (a + 1) + (sign + m)
      BY <1>1, <1>3 DEF m
    <3> QED BY <3>1, <1>2
  <2> QED BY ONLY <2>1, <2>2, <2>3, <1>3, PrefixIs
<1>11. AllIn(SubSeq(f, Len(f) - c + 1, Len(f)), {Space})
  <2> DEFINE t == SubSeq(f, Len(f) - c + 1, Len(f))
  <2>1. Len(t) = c /\ \A j \in 1 .. c : t[j] = f[Len(f) - c + j]
    BY <1>1, <1>2, <1>3 DEF Texts
  <2> HIDE DEF t
  <2>2. \A j \in 1 .. c : Len(f) - c + j = a + sign + b + Len(r) + j
    BY <1>1, <1>2
  <2>3. ASSUME NEW j \in 1 .. c PROVE t[j] = Space
    <3>1. t[j] = f[a + sign + b + Len(r) + j]
      BY <2>1, <2>2
    <3> QED BY <3>1, <1>2
  <2> QED BY <2>1, <2>3 DEF AllIn, t
<1>12. sign + m = sign + b + Len(r) /\ Len(f) - a - (sign + m) = c
  BY <1>1, <1>3 DEF m
<1> QED BY <1>4, <1>5, <1>6, <1>9, <1>10, <1>11, <1>12 DEF m, digits, Parts, Numbered

(* Neither blank nor sign is a digit.                                      *)
LEMMA DigitsApart ==
  ASSUME NEW base \in Bases, NEW upcase \in BOOLEAN
  PROVE  Space \notin Digits(base, upcase) \cup {"-"} /\ "0" \in Digits(base, upcase)
<1>1. 1 .. base \subseteq 1 .. 16 /\ 1 \in 1 .. base
  BY DEF Bases
<1>2. \A x \in 1 .. 16 : Glyph(upcase)[x] \notin {" ", "-"}
  BY Glyphs, Zenon
<1>3. \A x \in 1 .. base : Glyph(upcase)[x] # Space
  BY <1>1, <1>2, Zenon DEF Space
<1>4. Glyph(upcase)[1] = "0"
  BY Glyphs, Zenon
<1>5. Space # "-"
  BY Zenon DEF Space
<1> QED BY <1>1, <1>3, <1>4, <1>5, Zenon DEF Digits

(* The digits of a number are digits, and there is one.                    *)
LEMMA ReversedDigits ==
  ASSUME NEW u \in Nat, NEW base \in Bases, NEW upcase \in BOOLEAN
  PROVE  /\ Reversed(u, base, upcase) \in Texts /\ Len(Reversed(u, base, upcase)) \in Nat \ {0}
         /\ \A i \in 1 .. Len(Reversed(u, base, upcase)) :
              Reversed(u, base, upcase)[i] \in Digits(base, upcase)
<1>1. PICK D : /\ Reversed(u, base, upcase) = D[u]
               /\ DigitsUpTo(D, u, base, upcase)
               /\ \A n \in 0 .. u : D[n] \in Texts
  BY ONLY ReversedIs
<1>2. \A n \in 0 .. u :
        /\ Len(D[n]) \in Nat \ {0}
        /\ \A i \in 1 .. Len(D[n]) : D[n][i] \in Digits(base, upcase)
        /\ n # 0 => D[n][Len(D[n])] # "0"
        /\ n = 0 => Len(D[n]) = 1
  BY ONLY <1>1, DigitsFound
<1>3. u \in 0 .. u
  OBVIOUS
<1> QED BY <1>1, <1>2, <1>3, Zenon

(* Such a field reads as the number, if its padding is as it was asked.    *)
LEMMA ShapedReads ==
  ASSUME NEW d \in Parsed, NEW u \in Nat, NEW base \in Bases, NEW upcase \in BOOLEAN,
         NEW n \in Int, NEW f, NEW a \in Nat, NEW sign \in {0, 1}, NEW b \in Nat, NEW c \in Nat,
         u = IF n < 0 THEN -n ELSE n, sign = IF n < 0 THEN 1 ELSE 0,
         Shaped(f, a, sign, b, Reversed(u, base, upcase), c),
         Len(f) >= d.width, Len(f) > d.width => a = 0 /\ b = 0 /\ c = 0,
         a > 0 => ~d.ladjust /\ d.padc = Space, b > 0 => ~d.ladjust /\ d.padc = "0",
         c > 0 => d.ladjust
  PROVE  IsNumberField(f, d, n, base, upcase)
<1> DEFINE r == Reversed(u, base, upcase)
           Digit == {(IF upcase THEN Upper ELSE Lower)[x] : x \in 1 .. base}
           left == Prefix(f, 1, {Space})
           length == Prefix(f, left + 1, Digit \cup {"-"})
           right == Len(f) - left - length
           shown == SubSeq(f, left + (IF n < 0 THEN 2 ELSE 1), left + length)
           zeros == shown[1] = "0" /\ Len(shown) > 1
<1>1. r \in Texts /\ Len(r) \in Nat \ {0} /\ \A j \in 1 .. Len(r) : r[j] \in Digits(base, upcase)
  BY ONLY ReversedDigits
<1>2. Space \notin Digits(base, upcase) \cup {"-"} /\ "0" \in Digits(base, upcase)
  BY ONLY DigitsApart
<1>3. Digit = Digits(base, upcase)
  BY ONLY Zenon DEF Digits, Glyph
<1> DEFINE digits == SubSeq(f, a + sign + 1, a + (sign + b + Len(r)))
<1>4. Parts(f, a, sign, b, r, c, Digits(base, upcase))
  <2>1. Shaped(f, a, sign, b, r, c)
    OBVIOUS
  <2> HIDE DEF r, Digit
  <2> DEFINE Dg == Digits(base, upcase)
  <2>2. Space \notin Dg \cup {"-"} /\ "0" \in Dg /\ \A j \in 1 .. Len(r) : r[j] \in Dg
    BY ONLY <1>1, <1>2
  <2> HIDE DEF Dg
  <2>3. r \in Texts /\ Len(r) # 0
    BY ONLY <1>1
  <2>4. Parts(f, a, sign, b, r, c, Dg)
    BY ONLY <2>1, <2>2, <2>3, ShapedParts, a \in Nat, sign \in {0, 1}, b \in Nat, c \in Nat
  <2> QED BY ONLY <2>4 DEF Dg
<1>5. sign = 1 \/ sign = 0
  OBVIOUS
<1>6. left = a /\ length = sign + b + Len(r)
  BY ONLY <1>3, <1>4, Zenon DEF Parts
<1>7. right = c
  BY ONLY <1>4, <1>6, Zenon DEF Parts
<1>8. a + (IF n < 0 THEN 2 ELSE 1) = a + sign + 1
  BY ONLY sign = (IF n < 0 THEN 1 ELSE 0), a \in Nat, n \in Int
<1>9. shown = digits
  BY ONLY <1>6, <1>8
<1> HIDE DEF r, digits
<1>10. ReadsAs(digits, u, base, upcase, b)
  <2>1. r = Reversed(u, base, upcase)
    BY Zenon DEF r
  <2>2. Numbered(digits, b, r)
    BY ONLY <1>4, Zenon DEF Parts, digits
  <2> QED BY ONLY <2>1, <2>2, ReadBack
<1>11. sign = 1 => f[a + 1] = "-"
  BY ONLY Shaped(f, a, sign, b, Reversed(u, base, upcase), c), Zenon DEF Shaped
<1>12. digits # <<>> /\ AllIn(digits, Digits(base, upcase))
  <2>1. Len(<<>>) = 0
    OBVIOUS
  <2> QED BY ONLY <1>10, <2>1 DEF AllIn, ReadsAs
<1>13. IsNumberField(f, d, n, base, upcase) <=>
         /\ n < 0 => f[left + 1] = "-"
         /\ AllIn(SubSeq(f, Len(f) - right + 1, Len(f)), {Space})
         /\ shown # <<>> /\ AllIn(shown, Digit)
         /\ Numeral(shown, base, upcase) = IF n < 0 THEN -n ELSE n
         /\ Len(f) >= d.width
         /\ Len(f) > d.width => left = 0 /\ right = 0 /\ ~zeros
         /\ left > 0 => ~d.ladjust /\ d.padc = Space
         /\ zeros => ~d.ladjust /\ d.padc = "0"
         /\ right > 0 => d.ladjust
  BY ONLY Zenon DEF IsNumberField, Space
<1> HIDE DEF left, length, right, shown, Digit
<1>14. n < 0 => sign = 1
  BY ONLY sign = (IF n < 0 THEN 1 ELSE 0)
<1>15. zeros => b > 0
  BY ONLY <1>9, <1>10, Zenon DEF ReadsAs
<1>16. Len(f) > d.width => ~zeros
  <2>1. b = 0 => ~(b > 0)
    OBVIOUS
  <2> QED BY ONLY <1>15, <2>1, Len(f) > d.width => a = 0 /\ b = 0 /\ c = 0, Zenon
<1> HIDE DEF zeros
<1>17. n < 0 => f[left + 1] = "-"
  BY ONLY <1>6, <1>11, <1>14, Zenon
<1>18. AllIn(SubSeq(f, Len(f) - right + 1, Len(f)), {Space})
  BY ONLY <1>4, <1>7, Zenon DEF Parts
<1>19. shown # <<>> /\ AllIn(shown, Digit)
  BY ONLY <1>3, <1>9, <1>12, Zenon
<1>20. Numeral(shown, base, upcase) = IF n < 0 THEN -n ELSE n
  BY ONLY <1>9, <1>10, u = (IF n < 0 THEN -n ELSE n), Zenon DEF ReadsAs
<1> QED
  BY ONLY <1>6, <1>7, <1>13, <1>15, <1>16, <1>17, <1>18, <1>19, <1>20, Len(f) >= d.width,
          Len(f) > d.width => a = 0 /\ b = 0 /\ c = 0,
          a > 0 => ~d.ladjust /\ d.padc = Space, b > 0 => ~d.ladjust /\ d.padc = "0",
          c > 0 => d.ladjust, Zenon

(* The text of make_num before it is padded, and what it is padded to.     *)
Actual(r, negFlag) == r \o (IF negFlag THEN <<"-">> ELSE <<>>)
Padded(r, negFlag, padc, length) ==
  LET actual == Actual(r, negFlag)
      signLast == negFlag /\ padc = "0"
  IN  [j \in 1 .. length |->
         IF signLast /\ j = length THEN "-"
         ELSE IF j < Len(actual) \/ (j = Len(actual) /\ ~signLast) THEN actual[j]
         ELSE padc]

(* What it holds.                                                          *)
LEMMA ActualIs ==
  ASSUME NEW r, r \in Texts, NEW negFlag \in BOOLEAN
  PROVE  /\ Actual(r, negFlag) \in Texts
         /\ Len(Actual(r, negFlag)) = Len(r) + (IF negFlag THEN 1 ELSE 0)
         /\ \A j \in 1 .. Len(r) : Actual(r, negFlag)[j] = r[j]
         /\ negFlag => Actual(r, negFlag)[Len(r) + 1] = "-"
<1>1. "-" \in Char
  BY Padding
<1>2. CASE negFlag
  <2>1. Actual(r, negFlag) = r \o <<"-">>
    BY <1>2 DEF Actual
  <2>2. \A c \in Char : /\ r \o <<c>> \in Texts /\ Len(r \o <<c>>) = Len(r) + 1
                        /\ \A j \in 1 .. Len(r) : (r \o <<c>>)[j] = r[j]
                        /\ (r \o <<c>>)[Len(r) + 1] = c
    BY DEF Texts
  <2> QED BY <1>1, <1>2, <2>1, <2>2
<1>3. CASE ~negFlag
  <2>1. Actual(r, negFlag) = r \o <<>>
    BY <1>3 DEF Actual
  <2> QED BY <1>3, <2>1 DEF Texts
<1> QED BY <1>2, <1>3

(* Digits, then the sign: before the zeros' end, or right after the digits. *)
LEMMA PaddedIs ==
  ASSUME NEW r, r \in Texts, NEW negFlag \in BOOLEAN, NEW padc, NEW sign,
         sign = IF negFlag THEN 1 ELSE 0,
         NEW length \in Nat, length >= Len(r) + sign, padc \in Char,
         NEW q, q = Padded(r, negFlag, padc, length)
  PROVE  /\ q \in Texts /\ Len(q) = length
         /\ \A j \in 1 .. Len(r) : q[j] = r[j]
         /\ padc = "0" =>
              /\ sign = 1 => q[length] = "-"
              /\ \A j \in (Len(r) + 1) .. (length - sign) : q[j] = "0"
         /\ padc # "0" =>
              /\ sign = 1 => q[Len(r) + 1] = "-"
              /\ \A j \in (Len(r) + sign + 1) .. length : q[j] = padc
<1> DEFINE actual == Actual(r, negFlag)
           signLast == negFlag /\ padc = "0"
<1>1. /\ actual \in Texts /\ Len(actual) = Len(r) + sign
      /\ \A j \in 1 .. Len(r) : actual[j] = r[j]
      /\ sign = 1 => actual[Len(r) + 1] = "-"
  BY ActualIs
<1>2. Len(r) \in Nat /\ sign \in {0, 1} /\ (negFlag <=> sign = 1)
  BY DEF Texts
<1>3. q = [j \in 1 .. length |->
             IF signLast /\ j = length THEN "-"
             ELSE IF j < Len(actual) \/ (j = Len(actual) /\ ~signLast) THEN actual[j]
             ELSE padc]
  BY Zenon DEF Padded
<1> HIDE DEF actual
<1>4. \A j \in 1 .. length :
        q[j] = IF signLast /\ j = length THEN "-"
               ELSE IF j < Len(actual) \/ (j = Len(actual) /\ ~signLast) THEN actual[j]
               ELSE padc
  BY <1>3, Zenon
<1>5. \A j \in 1 .. length : q[j] \in Char
  <2>1. \A j \in 1 .. length : j <= Len(actual) => actual[j] \in Char
    BY <1>1, <1>2 DEF Texts
  <2>2. "-" \in Char
    BY Padding
  <2> QED BY <1>1, <1>2, <1>4, <2>1, <2>2
<1>6. q \in Texts /\ Len(q) = length
  <2>1. q = [j \in 1 .. length |-> q[j]]
    BY <1>3
  <2> QED BY <1>5, <2>1 DEF Texts
<1>7. \A j \in 1 .. Len(r) : q[j] = r[j]
  BY <1>1, <1>2, <1>4
<1>8. ASSUME padc = "0"
      PROVE  /\ sign = 1 => q[length] = "-"
             /\ \A j \in (Len(r) + 1) .. (length - sign) : q[j] = "0"
  BY <1>1, <1>2, <1>4, <1>8
<1>9. ASSUME padc # "0"
      PROVE  /\ sign = 1 => q[Len(r) + 1] = "-"
             /\ \A j \in (Len(r) + sign + 1) .. length : q[j] = padc
  BY <1>1, <1>2, <1>4, <1>9
<1> QED BY <1>6, <1>7, <1>8, <1>9

(* A text turned round.                                                    *)
LEMMA Turned ==
  ASSUME NEW s, s \in Texts
  PROVE  /\ Reverse(s) \in Texts /\ Len(Reverse(s)) = Len(s)
         /\ \A j \in 1 .. Len(s) : Reverse(s)[j] = s[Len(s) + 1 - j]
  BY DEF Reverse, Texts

(* A part of a text, and two texts in a row.                               *)
LEMMA CutOut ==
  ASSUME NEW s, s \in Texts, NEW n \in 0 .. Len(s), NEW m \in 1 .. (n + 1)
  PROVE  /\ SubSeq(s, m, n) \in Texts /\ Len(SubSeq(s, m, n)) = n - m + 1
         /\ \A j \in 1 .. (n - m + 1) : SubSeq(s, m, n)[j] = s[m + j - 1]
  BY DEF Texts
LEMMA PutTogether ==
  ASSUME NEW s, s \in Texts, NEW t, t \in Texts
  PROVE  /\ s \o t \in Texts /\ Len(s \o t) = Len(s) + Len(t)
         /\ \A j \in 1 .. Len(s) : (s \o t)[j] = s[j]
         /\ \A j \in 1 .. Len(t) : (s \o t)[Len(s) + j] = t[j]
  BY DEF Texts

(* The text make_num returns of the digits r.                              *)
FieldOf(d, r, negFlag, length) ==
  LET padded == Padded(r, negFlag, IF d.ladjust THEN Space ELSE d.padc, length)
  IN  IF d.ladjust THEN Reverse(Actual(r, negFlag))
                          \o SubSeq(padded, Len(Actual(r, negFlag)) + 1, length)
                   ELSE Reverse(padded)

(* It has the shape of a field, with the padding that was asked for.       *)
WellShaped(d, f, sign, r, length) ==
  \E a, b, c \in Nat :
    /\ Shaped(f, a, sign, b, r, c)
    /\ length = a + sign + b + Len(r) + c
    /\ a > 0 => ~d.ladjust /\ d.padc = Space
    /\ b > 0 => ~d.ladjust /\ d.padc = "0"
    /\ c > 0 => d.ladjust
LEMMA FieldShape ==
  ASSUME NEW d \in Parsed, NEW r, r \in Texts, NEW negFlag \in BOOLEAN, NEW sign,
         sign = IF negFlag THEN 1 ELSE 0, NEW length \in Nat, length >= Len(r) + sign
  PROVE  WellShaped(d, FieldOf(d, r, negFlag, length), sign, r, length)
<1> DEFINE padc == IF d.ladjust THEN Space ELSE d.padc
           q == Padded(r, negFlag, padc, length)
           k == length - sign - Len(r)
<1>1. Len(r) \in Nat /\ sign \in {0, 1} /\ k \in Nat /\ (negFlag <=> sign = 1)
  BY DEF Texts
<1>2. padc \in {Space, "0"} /\ d.padc \in {Space, "0"} /\ Space # "0" /\ padc \in Char
  <2>1. d.padc \in {" ", "0"}
    BY DEF Parsed
  <2>2. Space \in Char /\ "0" \in Char
    BY Padding, Zenon DEF Space
  <2>3. Space # "0"
    BY Zenon DEF Space
  <2>4. d.padc \in {Space, "0"}
    BY <2>1, Zenon DEF Space
  <2> QED BY ONLY <2>2, <2>3, <2>4, Zenon
<1>3. d.ladjust => padc = Space
  BY Zenon
<1>4. ~d.ladjust => padc = d.padc
  BY Zenon
<1> HIDE DEF padc
<1>5. /\ q \in Texts /\ Len(q) = length
      /\ \A j \in 1 .. Len(r) : q[j] = r[j]
      /\ padc = "0" =>
           /\ sign = 1 => q[length] = "-"
           /\ \A j \in (Len(r) + 1) .. (length - sign) : q[j] = "0"
      /\ padc # "0" =>
           /\ sign = 1 => q[Len(r) + 1] = "-"
           /\ \A j \in (Len(r) + sign + 1) .. length : q[j] = padc
  BY <1>2, PaddedIs
<1>6. FieldOf(d, r, negFlag, length)
      = IF d.ladjust THEN Reverse(Actual(r, negFlag))
                            \o SubSeq(q, Len(Actual(r, negFlag)) + 1, length)
                     ELSE Reverse(q)
  BY Zenon DEF FieldOf, padc
<1> HIDE DEF q
<1>7. CASE d.ladjust
  <2> DEFINE A == Actual(r, negFlag)
             g == Reverse(A)
             t == SubSeq(q, Len(A) + 1, length)
             f == g \o t
  <2>1. /\ A \in Texts /\ Len(A) = Len(r) + sign
        /\ \A j \in 1 .. Len(r) : A[j] = r[j]
        /\ sign = 1 => A[Len(r) + 1] = "-"
    BY ActualIs
  <2> HIDE DEF A
  <2>2. /\ g \in Texts /\ Len(g) = Len(r) + sign
        /\ \A j \in 1 .. (Len(r) + sign) : g[j] = A[Len(r) + sign + 1 - j]
    BY <2>1, Turned
  <2> HIDE DEF g
  <2>3. t \in Texts /\ Len(t) = k /\ \A j \in 1 .. k : t[j] = q[Len(r) + sign + j]
    <3>1. /\ Len(A) + 1 \in 1 .. (length + 1) /\ length \in 0 .. Len(q)
          /\ length - (Len(A) + 1) + 1 = k
      BY <1>1, <1>5, <2>1
    <3> HIDE DEF k
    <3>2. t \in Texts /\ Len(t) = k /\ \A j \in 1 .. k : t[j] = q[Len(A) + 1 + j - 1]
      BY ONLY <3>1, <1>5, CutOut
    <3>3. \A j \in 1 .. k : Len(A) + 1 + j - 1 = Len(r) + sign + j
      BY <1>1, <2>1
    <3> QED BY ONLY <3>2, <3>3
  <2> HIDE DEF t, k
  <2>4. /\ f \in Texts /\ Len(f) = Len(r) + sign + k
        /\ \A j \in 1 .. (Len(r) + sign) : f[j] = g[j]
        /\ \A j \in 1 .. k : f[Len(r) + sign + j] = t[j]
    <3>1. /\ g \o t \in Texts /\ Len(g \o t) = Len(g) + Len(t)
          /\ \A j \in 1 .. Len(g) : (g \o t)[j] = g[j]
          /\ \A j \in 1 .. Len(t) : (g \o t)[Len(g) + j] = t[j]
      <4>1. g \in Texts /\ t \in Texts
        BY <2>2, <2>3
      <4> QED BY ONLY <4>1, PutTogether
    <3>2. f = g \o t /\ Len(g) = Len(r) + sign /\ Len(t) = k
      BY <2>2, <2>3
    <3> HIDE DEF f
    <3> QED BY ONLY <3>1, <3>2
  <2> HIDE DEF f
  <2>5. sign = 1 => f[0 + 1] = "-"
    BY <1>1, <2>1, <2>2, <2>4
  <2>6. \A j \in 1 .. Len(r) : f[0 + sign + 0 + j] = r[Len(r) + 1 - j]
    <3> TAKE j \in 1 .. Len(r)
    <3>1. /\ 0 + sign + 0 + j \in 1 .. (Len(r) + sign) /\ Len(r) + 1 - j \in 1 .. Len(r)
          /\ Len(r) + sign + 1 - (0 + sign + 0 + j) = Len(r) + 1 - j
      BY <1>1
    <3> QED BY <3>1, <2>1, <2>2, <2>4
  <2>7. \A j \in 1 .. k : f[0 + sign + 0 + Len(r) + j] = Space
    <3> TAKE j \in 1 .. k
    <3>1. /\ 0 + sign + 0 + Len(r) + j = Len(r) + sign + j
          /\ Len(r) + sign + j \in (Len(r) + sign + 1) .. length
      BY <1>1 DEF k
    <3>2. q[Len(r) + sign + j] = Space
      BY <3>1, <1>2, <1>3, <1>5, <1>7
    <3> QED BY <3>1, <3>2, <2>3, <2>4
  <2>8. Shaped(f, 0, sign, 0, r, k)
    BY <1>1, <2>4, <2>5, <2>6, <2>7 DEF Shaped
  <2>9. length = 0 + sign + 0 + Len(r) + k /\ k \in Nat /\ ~(0 > 0)
    BY <1>1 DEF k
  <2>10. FieldOf(d, r, negFlag, length) = f
    BY ONLY <1>6, <1>7, Zenon DEF f, g, t, A
  <2>11. WellShaped(d, f, sign, r, length)
    BY ONLY <2>8, <2>9, <1>7, 0 \in Nat, Zenon DEF WellShaped
  <2> QED BY ONLY <2>10, <2>11
<1>8. CASE ~d.ladjust
  <2> DEFINE f == Reverse(q)
  <2>1. /\ f \in Texts /\ Len(f) = length
        /\ \A j \in 1 .. length : f[j] = q[length + 1 - j]
    BY <1>5, Turned
  <2>2. FieldOf(d, r, negFlag, length) = f
    BY ONLY <1>6, <1>8, Zenon
  <2> HIDE DEF f, k
  <2>3. k = length - sign - Len(r)
    BY DEF k
  <2>4. CASE padc = "0"
    <3>1. sign = 1 => f[0 + 1] = "-"
      BY <1>1, <1>5, <2>1, <2>3, <2>4
    <3>2. \A j \in 1 .. k : f[0 + sign + j] = "0"
      <4> TAKE j \in 1 .. k
      <4>1. /\ 0 + sign + j \in 1 .. length
            /\ length + 1 - (0 + sign + j) \in (Len(r) + 1) .. (length - sign)
        BY <1>1, <2>3
      <4> QED BY <4>1, <1>5, <2>1, <2>4
    <3>3. \A j \in 1 .. Len(r) : f[0 + sign + k + j] = r[Len(r) + 1 - j]
      <4> TAKE j \in 1 .. Len(r)
      <4>1. /\ 0 + sign + k + j \in 1 .. length /\ Len(r) + 1 - j \in 1 .. Len(r)
            /\ length + 1 - (0 + sign + k + j) = Len(r) + 1 - j
        BY <1>1, <2>3
      <4> QED BY <4>1, <1>5, <2>1
    <3>4. Shaped(f, 0, sign, k, r, 0)
      BY <1>1, <2>1, <2>3, <3>1, <3>2, <3>3 DEF Shaped
    <3>5. length = 0 + sign + k + Len(r) + 0 /\ k \in Nat /\ ~(0 > 0)
      BY <1>1, <2>3
    <3>6. d.padc = "0"
      BY ONLY <1>4, <1>8, <2>4
    <3>7. WellShaped(d, f, sign, r, length)
      BY ONLY <3>4, <3>5, <3>6, <1>8, 0 \in Nat, Zenon DEF WellShaped
    <3> QED BY ONLY <2>2, <3>7
  <2>5. CASE padc # "0"
    <3>1. sign = 1 => f[k + 1] = "-"
      <4>1. k + 1 \in 1 .. length \/ sign = 0
        BY <1>1, <2>3
      <4>2. sign = 1 => length + 1 - (k + 1) = Len(r) + 1
        BY <1>1, <2>3
      <4> QED BY <4>1, <4>2, <1>1, <1>5, <2>1, <2>5
    <3>2. \A j \in 1 .. k : f[j] = Space
      <4> TAKE j \in 1 .. k
      <4>1. j \in 1 .. length /\ length + 1 - j \in (Len(r) + sign + 1) .. length
        BY <1>1, <2>3
      <4>2. padc = Space
        BY <1>2, <2>5
      <4> QED BY <4>1, <4>2, <1>5, <2>1, <2>5
    <3>3. \A j \in 1 .. Len(r) : f[k + sign + 0 + j] = r[Len(r) + 1 - j]
      <4> TAKE j \in 1 .. Len(r)
      <4>1. /\ k + sign + 0 + j \in 1 .. length /\ Len(r) + 1 - j \in 1 .. Len(r)
            /\ length + 1 - (k + sign + 0 + j) = Len(r) + 1 - j
        BY <1>1, <2>3
      <4> QED BY <4>1, <1>5, <2>1
    <3>4. Shaped(f, k, sign, 0, r, 0)
      BY <1>1, <2>1, <2>3, <3>1, <3>2, <3>3 DEF Shaped
    <3>5. length = k + sign + 0 + Len(r) + 0 /\ k \in Nat /\ ~(0 > 0)
      BY <1>1, <2>3
    <3>6. d.padc = Space
      BY ONLY <1>2, <1>4, <1>8, <2>5
    <3>7. WellShaped(d, f, sign, r, length)
      BY ONLY <3>4, <3>5, <3>6, <1>8, 0 \in Nat, Zenon DEF WellShaped
    <3> QED BY ONLY <2>2, <3>7
  <2> QED BY <2>4, <2>5
<1> QED BY <1>7, <1>8

(* Powers of two grow.                                                     *)
LEMMA PowersGrow ==
  ASSUME NEW i \in 0 .. LongBits, NEW j \in i .. LongBits
  PROVE  Pow2[i] <= Pow2[j]
<1> DEFINE S == {n \in Nat : i + n <= LongBits => Pow2[i] <= Pow2[i + n]}
<1>0. LongBits \in Nat
  BY FormatAssumption
<1>1. \A m \in 0 .. LongBits : Pow2[m] \in Nat
  BY Powers
<1>2. 0 \in S
  BY <1>1
<1>3. ASSUME NEW n \in Nat, n \in S PROVE n + 1 \in S
  <2> SUFFICES ASSUME i + (n + 1) <= LongBits PROVE Pow2[i] <= Pow2[i + (n + 1)]
    OBVIOUS
  <2>1. i + (n + 1) \in 1 .. LongBits /\ (i + (n + 1)) - 1 = i + n /\ i + n \in 0 .. LongBits
    BY <1>0
  <2>2. Pow2[i] <= Pow2[i + n]
    BY <1>3, <2>1
  <2>3. Pow2[i + (n + 1)] = 2 * Pow2[i + n]
    BY <2>1, Powers
  <2>4. Pow2[i] \in Nat /\ Pow2[i + n] \in Nat
    BY <1>1, <2>1
  <2> QED BY ONLY <2>2, <2>3, <2>4
<1> HIDE DEF S
<1>4. Nat \subseteq S
  BY <1>2, <1>3, NatInd
<1>5. j - i \in Nat /\ i + (j - i) = j /\ j <= LongBits
  BY <1>0
<1>6. i + (j - i) <= LongBits => Pow2[i] <= Pow2[i + (j - i)]
  BY <1>4, <1>5 DEF S
<1> QED BY ONLY <1>5, <1>6

(* What becomes of the number n with the directive d.                      *)
Reads(field, d, n, base, upcase) ==
  IF field.fits THEN IsNumberField(field.text, d, n, base, upcase) /\ Len(field.text) <= PTF_MAX_BUF
  ELSE d.width > PTF_MAX_BUF

(* make_num writes the number down, unless it is to be wider than buf.     *)
LEMMA MakeNumReads ==
  ASSUME NEW d \in Parsed, NEW u \in Nat, NEW base \in Bases, NEW upcase \in BOOLEAN,
         NEW n \in Int, u = IF n < 0 THEN -n ELSE n,
         NEW k \in 1 .. LongBits, u < Pow2[k]
  PROVE  Reads(make_num(d, u, base, n < 0, upcase), d, n, base, upcase)
<1> DEFINE r == Reversed(u, base, upcase)
           negFlag == n < 0
           sign == IF negFlag THEN 1 ELSE 0
           length == AtLeast(d.width, Len(Actual(r, negFlag)))
           f == FieldOf(d, r, negFlag, length)
<1>1. r \in Texts
  BY ONLY ReversedDigits
<1>2. Len(r) <= k /\ Len(r) \in Nat
  <2>1. PICK D : /\ Reversed(u, base, upcase) = D[u]
                 /\ DigitsUpTo(D, u, base, upcase)
                 /\ \A m \in 0 .. u : D[m] \in Texts
    BY ONLY ReversedIs
  <2>2. Len(D[u]) <= k
    BY ONLY <2>1, DigitsFew, u < Pow2[k]
  <2>3. Len(r) \in Nat
    BY ONLY <1>1 DEF Texts
  <2> QED BY ONLY <2>1, <2>2, <2>3
<1>3. negFlag \in BOOLEAN
  OBVIOUS
<1> HIDE DEF r
<1>4. Len(Actual(r, negFlag)) = Len(r) + sign
  <2> HIDE DEF negFlag
  <2> QED BY ONLY <1>1, <1>3, ActualIs
<1>5. sign \in {0, 1} /\ (n < 0 <=> sign = 1)
  OBVIOUS
<1>6. d.width \in Nat
  BY DEF Parsed
<1>7. make_num(d, u, base, negFlag, upcase) = IF length > PTF_MAX_BUF THEN Overflow ELSE Text(f)
  BY ONLY Zenon DEF make_num, f, FieldOf, length, Padded, Actual, r, Space
<1> HIDE DEF negFlag, f
<1>8. length \in Nat /\ length >= Len(r) + sign /\ length >= d.width
      /\ (length > d.width => length = Len(r) + sign)
  BY ONLY <1>2, <1>4, <1>5, <1>6 DEF AtLeast
<1> HIDE DEF length
<1>9. WellShaped(d, f, sign, r, length)
  <2>1. WellShaped(d, FieldOf(d, r, negFlag, length), sign, r, length)
    BY ONLY <1>1, <1>3, <1>8, FieldShape
  <2> QED BY ONLY <2>1 DEF f
<1>10. CASE length > PTF_MAX_BUF
  <2>1. d.width > PTF_MAX_BUF
    BY <1>2, <1>5, <1>6, <1>8, <1>10, FormatAssumption
  <2>2. make_num(d, u, base, negFlag, upcase) = Overflow
    BY ONLY <1>7, <1>10, Zenon
  <2> QED BY <2>1, <2>2 DEF Reads, Overflow, negFlag
<1>11. CASE ~(length > PTF_MAX_BUF)
  <2>1. make_num(d, u, base, negFlag, upcase) = Text(f)
    BY ONLY <1>7, <1>11, Zenon
  <2>2. PICK a, b, c \in Nat :
          /\ Shaped(f, a, sign, b, r, c)
          /\ length = a + sign + b + Len(r) + c
          /\ a > 0 => ~d.ladjust /\ d.padc = Space
          /\ b > 0 => ~d.ladjust /\ d.padc = "0"
          /\ c > 0 => d.ladjust
    BY ONLY <1>9, Zenon DEF WellShaped
  <2>3. Len(f) = length
    BY ONLY <2>2 DEF Shaped
  <2>4. Len(f) > d.width => a = 0 /\ b = 0 /\ c = 0
    BY ONLY <1>2, <1>5, <1>8, <2>2, <2>3
  <2>5. IsNumberField(f, d, n, base, upcase)
    <3>1. Shaped(f, a, sign, b, Reversed(u, base, upcase), c)
      BY ONLY <2>2, Zenon DEF r
    <3>2. Len(f) >= d.width
      BY ONLY <1>8, <2>3
    <3>3. u = (IF n < 0 THEN -n ELSE n) /\ sign = (IF n < 0 THEN 1 ELSE 0)
      BY ONLY u = (IF n < 0 THEN -n ELSE n), Zenon DEF sign, negFlag
    <3> HIDE DEF sign
    <3> QED BY ONLY <1>5, <2>2, <2>4, <3>1, <3>2, <3>3, ShapedReads
  <2>6. Len(f) <= PTF_MAX_BUF
    BY <1>8, <1>11, <2>3, FormatAssumption
  <2>7. Text(f).fits /\ Text(f).text = f
    BY ONLY DEF Text
  <2>8. Reads(Text(f), d, n, base, upcase)
    BY ONLY <2>5, <2>6, <2>7, Zenon DEF Reads
  <2> QED BY ONLY <2>1, <2>8, Zenon DEF negFlag
<1> QED BY ONLY <1>10, <1>11, Zenon

(* What becomes of the argument w with the directive d.                    *)
Converted(field, d, w) ==
  IF field.fits THEN IsField(field.text, d, w) /\ Len(field.text) <= PTF_MAX_BUF
  ELSE d.width > PTF_MAX_BUF \/ (d.conv = "s" /\ Len(w) > PTF_MAX_BUF)

(* A word that is to be printed with its sign, and without.                *)
LEMMA NumbersRead ==
  ASSUME NEW d \in Parsed, d.conv \in Conversions, d.conv \notin {"c", "s"},
         NEW w \in Int
  PROVE  Converted(Convert(d, w), d, w)
<1>1. /\ Bits(d) \in 1 .. LongBits /\ LongBits \in Nat
      /\ LongBits \in 1 .. LongBits /\ LongBits \in Bits(d) .. LongBits
      /\ Bits(d) \in 0 .. LongBits /\ Bits(d) - 1 \in 0 .. LongBits
  BY BitsBounded, FormatAssumption
<1>2. CASE d.conv \in {"d", "D"}
  <2> DEFINE num == Signed(w, Bits(d))
             u == IF num < 0 THEN -num ELSE num
             field == make_num(d, Word(u, LongBits), 10, num < 0, FALSE)
  <2>1. u \in Nat /\ u < Pow2[Bits(d)] /\ num \in Int
    <3>1. /\ num \in Int
          /\ num < 0 => -num <= Pow2[Bits(d) - 1]
          /\ num >= 0 => num < Pow2[Bits(d) - 1]
          /\ Pow2[Bits(d)] = 2 * Pow2[Bits(d) - 1]
          /\ Pow2[Bits(d) - 1] \in Nat \ {0}
      BY <1>1, WordsBounded
    <3> HIDE DEF num
    <3> QED BY ONLY <3>1
  <2> HIDE DEF num
  <2>2. Word(u, LongBits) = u
    <3>1. Pow2[Bits(d)] <= Pow2[LongBits] /\ Pow2[Bits(d)] \in Nat
          /\ Pow2[LongBits] \in Nat \ {0}
      <4>1. Pow2[Bits(d)] <= Pow2[LongBits]
        BY ONLY <1>1, PowersGrow
      <4>2. LongBits \in 0 .. LongBits
        BY <1>1
      <4> QED BY ONLY <1>1, <4>1, <4>2, Powers
    <3> HIDE DEF u
    <3>2. \A p \in Nat \ {0} : u < p => u % p = u
      BY ONLY <2>1
    <3>3. u < Pow2[LongBits]
      BY ONLY <2>1, <3>1
    <3> QED BY ONLY <3>1, <3>2, <3>3 DEF Word
  <2>3. 10 \in Bases /\ FALSE \in BOOLEAN
    BY DEF Bases
  <2> DEFINE base == 10
  <2>4. Reads(make_num(d, u, base, num < 0, FALSE), d, num, base, FALSE)
    <3>1. u = IF num < 0 THEN -num ELSE num
      OBVIOUS
    <3> HIDE DEF u, base
    <3>2. base \in Bases
      BY <2>3 DEF base
    <3> QED BY ONLY <1>1, <2>1, <2>3, <3>1, <3>2, MakeNumReads, d \in Parsed
  <2>5. Convert(d, w) = make_num(d, Word(u, LongBits), 10, num < 0, FALSE)
    <3>1. Convert(d, w) = Number(d, w)
      BY ONLY <1>2, Zenon DEF Convert
    <3> QED BY ONLY <3>1, Zenon DEF Number, num, u
  <2>6. \A f : IsField(f, d, w) <=> IsNumberField(f, d, num, 10, FALSE)
    BY ONLY <1>2, Zenon DEF IsField, num
  <2> HIDE DEF u, base
  <2>7. Reads(Convert(d, w), d, num, 10, FALSE)
    BY ONLY <2>2, <2>4, <2>5 DEF base
  <2> QED BY ONLY <2>6, <2>7, Zenon DEF Reads, Converted
<1>3. CASE d.conv \notin {"d", "D"}
  <2> DEFINE u == Word(w, Bits(d))
             base == Base(d.conv)
             upcase == d.conv = "X"
  <2>1. u \in Nat /\ u < Pow2[Bits(d)]
    BY <1>1, WordsBounded
  <2>2. base \in Bases
    <3>1. \A c : Base(c) \in {2, 8, 10, 16}
      BY ONLY Zenon DEF Base
    <3> QED BY ONLY <3>1, Zenon DEF Bases
  <2>3. upcase \in BOOLEAN
    OBVIOUS
  <2>4. Convert(d, w) = make_num(d, u, base, FALSE, upcase)
    BY ONLY <1>3, d.conv \notin {"c", "s"}, Zenon DEF Convert
  <2>5. \A f : IsField(f, d, w) <=> IsNumberField(f, d, u, base, upcase)
    BY ONLY <1>3, d.conv \notin {"c", "s"}, Zenon DEF IsField
  <2> HIDE DEF u, base, upcase
  <2>6. /\ (u < 0) = FALSE
        /\ u = IF u < 0 THEN -u ELSE u
        /\ u \in Int
    BY ONLY <2>1
  <2>7. Reads(make_num(d, u, base, u < 0, upcase), d, u, base, upcase)
    BY ONLY <1>1, <2>1, <2>2, <2>3, <2>6, MakeNumReads, d \in Parsed
  <2>8. Reads(Convert(d, w), d, u, base, upcase)
    BY ONLY <2>4, <2>6, <2>7, Zenon
  <2> QED BY ONLY <2>5, <2>8, Zenon DEF Reads, Converted
<1> QED BY ONLY <1>2, <1>3, Zenon

(* A text, and blanks beside it.                                           *)
Beside(d, s) ==
  LET fill == Blank(AtLeast(d.width, Len(s)) - Len(s))
  IN  IF d.ladjust THEN s \o fill ELSE fill \o s
LEMMA TextsRead ==
  ASSUME NEW d \in Parsed, NEW s, s \in Texts, NEW f, f = Beside(d, s)
  PROVE  /\ Len(f) = AtLeast(d.width, Len(s))
         /\ f = IF d.ladjust THEN s \o Blank(Len(f) - Len(s)) ELSE Blank(Len(f) - Len(s)) \o s
         /\ Len(f) > PTF_MAX_BUF => d.width > PTF_MAX_BUF \/ Len(s) > PTF_MAX_BUF
<1> DEFINE n == AtLeast(d.width, Len(s)) - Len(s)
           fill == Blank(n)
<1>1. Len(s) \in Nat /\ d.width \in Nat
  <2>1. Len(s) \in Nat
    BY ONLY s \in Texts DEF Texts
  <2>2. d.width \in Nat
    BY ONLY d \in Parsed DEF Parsed
  <2> QED BY ONLY <2>1, <2>2
<1>2. /\ n \in Nat /\ AtLeast(d.width, Len(s)) = n + Len(s)
      /\ AtLeast(d.width, Len(s)) \in {d.width, Len(s)}
  BY ONLY <1>1 DEF AtLeast
<1> HIDE DEF n
<1>3. fill \in Texts /\ Len(fill) = n
  <2>1. fill \in Texts
    BY <1>2, BlankText
  <2>2. fill = [j \in 1 .. n |-> Space]
    BY Zenon DEF Blank, Space
  <2> HIDE DEF fill
  <2> QED BY ONLY <1>2, <2>1, <2>2 DEF Texts
<1>4. f = IF d.ladjust THEN s \o fill ELSE fill \o s
  BY ONLY f = Beside(d, s), Zenon DEF Beside, n, fill
<1> HIDE DEF fill
<1>5. Len(f) = n + Len(s)
  <2>1. Len(s \o fill) = Len(s) + Len(fill) /\ Len(fill \o s) = Len(fill) + Len(s)
    BY ONLY <1>3, s \in Texts, PutTogether
  <2>2. f = s \o fill \/ f = fill \o s
    BY ONLY <1>4
  <2> QED BY ONLY <1>1, <1>2, <1>3, <2>1, <2>2
<1>6. Len(f) - Len(s) = n
  BY ONLY <1>1, <1>2, <1>5
<1>7. f = IF d.ladjust THEN s \o Blank(Len(f) - Len(s)) ELSE Blank(Len(f) - Len(s)) \o s
  BY ONLY <1>4, <1>6, Zenon DEF fill
<1>8. Len(f) = AtLeast(d.width, Len(s))
  BY ONLY <1>2, <1>5
<1>9. Len(f) > PTF_MAX_BUF => d.width > PTF_MAX_BUF \/ Len(s) > PTF_MAX_BUF
  BY ONLY <1>2, <1>8
<1> QED BY ONLY <1>7, <1>8, <1>9

(* What a conversion prints is the field it should be.                     *)
LEMMA ConvertReads ==
  ASSUME NEW d \in Parsed, d.conv \in Conversions, NEW w, w \in Argument(d.conv)
  PROVE  Converted(Convert(d, w), d, w)
<1>1. CASE d.conv \in {"c", "s"}
  <2> DEFINE s == IF d.conv = "c" THEN <<w>> ELSE w
             f == Beside(d, s)
  <2>1. s \in Texts /\ (d.conv = "c" => Len(s) = 1) /\ (d.conv = "s" => s = w)
    <3>1. CASE d.conv = "c"
      <4>1. w \in Char
        BY ONLY <3>1, w \in Argument(d.conv), Zenon DEF Argument
      <4>2. <<w>> \in Texts /\ Len(<<w>>) = 1
        BY ONLY <4>1 DEF Texts
      <4> QED BY ONLY <3>1, <4>2
    <3>2. CASE d.conv # "c"
      <4>1. w \in Texts
        BY ONLY <1>1, <3>2, w \in Argument(d.conv), Zenon DEF Argument, Texts
      <4> QED BY ONLY <3>2, <4>1
    <3> QED BY ONLY <3>1, <3>2
  <2>2. Convert(d, w) = Guarded(f)
    <3>1. CASE d.conv = "c"
      <4>1. Convert(d, w) = make_char(d, w)
        BY ONLY <3>1, Zenon DEF Convert
      <4>2. s = <<w>> /\ Len(s) = 1
        BY ONLY <2>1, <3>1
      <4> HIDE DEF s
      <4> QED BY ONLY <4>1, <4>2, Zenon DEF make_char, Beside
    <3>2. CASE d.conv # "c"
      <4>1. d.conv = "s"
        BY ONLY <1>1, <3>2
      <4>2. Convert(d, w) = make_string(d, w)
        BY ONLY <3>2, <4>1, Zenon DEF Convert
      <4> QED BY ONLY <2>1, <4>1, <4>2, Zenon DEF make_string, Beside
    <3> QED BY ONLY <3>1, <3>2
  <2> HIDE DEF f
  <2>3. /\ Len(f) = AtLeast(d.width, Len(s))
        /\ f = IF d.ladjust THEN s \o Blank(Len(f) - Len(s)) ELSE Blank(Len(f) - Len(s)) \o s
        /\ Len(f) > PTF_MAX_BUF => d.width > PTF_MAX_BUF \/ Len(s) > PTF_MAX_BUF
    <3>1. f = Beside(d, s)
      BY ONLY DEF f
    <3> HIDE DEF s
    <3> QED BY ONLY <2>1, <3>1, TextsRead, d \in Parsed
  <2>4. IsField(f, d, w)
    BY ONLY <1>1, <2>3, Zenon DEF IsField
  <2>5. CASE Len(f) > PTF_MAX_BUF
    <3>1. Convert(d, w) = Overflow /\ ~Overflow.fits
      <4>1. Convert(d, w) = Overflow
        BY ONLY <2>2, <2>5, Zenon DEF Guarded
      <4> QED BY ONLY <4>1 DEF Overflow
    <3>2. d.width > PTF_MAX_BUF \/ (d.conv = "s" /\ Len(w) > PTF_MAX_BUF)
      <4>1. d.conv = "c" => ~(Len(s) > PTF_MAX_BUF)
        BY <2>1, FormatAssumption
      <4> HIDE DEF s
      <4> QED BY ONLY <1>1, <2>1, <2>3, <2>5, <4>1
    <3> QED BY ONLY <3>1, <3>2, Zenon DEF Converted
  <2>6. CASE ~(Len(f) > PTF_MAX_BUF)
    <3>1. Convert(d, w) = Text(f) /\ Text(f).fits /\ Text(f).text = f
      <4>1. Convert(d, w) = Text(f)
        BY ONLY <2>2, <2>6, Zenon DEF Guarded
      <4> QED BY ONLY <4>1 DEF Text
    <3>2. Len(f) <= PTF_MAX_BUF
      <4>1. Len(f) \in Int /\ PTF_MAX_BUF \in Int
        <5>1. d.width \in Nat
          BY ONLY d \in Parsed DEF Parsed
        <5>2. Len(s) \in Nat
          BY ONLY <2>1 DEF Texts
        <5>3. PTF_MAX_BUF \in Nat
          BY FormatAssumption
        <5> QED BY ONLY <2>3, <5>1, <5>2, <5>3 DEF AtLeast
      <4> QED BY ONLY <2>6, <4>1
    <3> QED BY ONLY <2>4, <3>1, <3>2, Zenon DEF Converted
  <2> QED BY ONLY <2>5, <2>6, Zenon
<1>2. CASE d.conv \notin {"c", "s"}
  <2>1. w \in Int
    BY ONLY <1>2, w \in Argument(d.conv), Zenon DEF Argument
  <2> QED BY <1>2, <2>1, NumbersRead
<1> QED BY ONLY <1>1, <1>2, Zenon

-----------------------------------------------------------------------------
(***************************************************************************)
(* The order of the output.                                                *)
(***************************************************************************)

(* Besides what the callers print there is what panic prints.              *)
Enough(P, Op) ==
  /\ SensibleCalls(P, Op)
  /\ {<< <<>>, <<>> >>, << <<"\n">>, <<>> >>, << <<"p", "\n">>, <<>> >>} \subseteq P
  /\ Printf(<<>>, <<>>) \in Op

(* The invariant: the running _printf is at a pair of P, and InOrder.      *)
OrderInv(P, Op) ==
  /\ todo \in Seq(Op) /\ <<fmt, args>> \in P
  /\ text \in Texts /\ out \in Texts /\ sending \in Texts /\ fifo \in Texts /\ wire \in Texts
  /\ InOrder

(* A set of what may be left of a format can be completed by that.         *)
LEMMA EnoughExists ==
  ASSUME NEW P, NEW Op, SensibleCalls(P, Op)
  PROVE  \E Q, Oq : Enough(Q, Oq)
<1> DEFINE e == << <<>>, <<>> >>
           l == << <<"\n">>, <<>> >>
           p == << <<"p", "\n">>, <<>> >>
           Q == P \cup {e, l, p}
           Oq == Op \cup {Printf(<<>>, <<>>)}
<1>1. Typed(Q)
  <2>1. "\n" \in Char /\ "p" \in Char
    BY ConsoleAssumption
  <2>2. e[1] \in Seq(Char) /\ e[1] = <<>>
    OBVIOUS
  <2>3. l[1] \in Seq(Char) /\ Left(Q, l[1], l[2])
    <3>1. l[1] = <<"\n">> /\ l[2] = <<>> /\ Head(l[1]) = "\n" /\ Tail(l[1]) = <<>>
      OBVIOUS
    <3>2. e \in Q
      OBVIOUS
    <3>3. <<Tail(l[1]), l[2]>> = e
      BY <3>1
    <3> HIDE DEF e, l, Q
    <3> QED BY <2>1, <3>1, <3>2, <3>3 DEF Left
  <2>4. p[1] \in Seq(Char) /\ Left(Q, p[1], p[2])
    <3>1. p[1] = <<"p", "\n">> /\ p[2] = <<>> /\ Head(p[1]) = "p" /\ Tail(p[1]) = <<"\n">>
      OBVIOUS
    <3>2. l \in Q
      OBVIOUS
    <3>3. <<Tail(p[1]), p[2]>> = l
      BY <3>1
    <3> HIDE DEF e, l, p, Q
    <3> QED BY <2>1, <3>1, <3>2, <3>3 DEF Left
  <2>5. ASSUME NEW q \in P PROVE q[1] \in Seq(Char) /\ (q[1] # <<>> => Left(Q, q[1], q[2]))
    <3>1. q[1] \in Seq(Char) /\ (q[1] # <<>> => Left(P, q[1], q[2]))
      BY DEF SensibleCalls, Typed
    <3>2. P \subseteq Q
      OBVIOUS
    <3> HIDE DEF Q
    <3> QED BY <3>1, <3>2 DEF Left
  <2> HIDE DEF e, l, p
  <2>6. \A q \in Q : q \in P \/ q = e \/ q = l \/ q = p
    OBVIOUS
  <2> HIDE DEF Q
  <2> QED BY <2>2, <2>3, <2>4, <2>5, <2>6 DEF Typed
<1>2. SensibleCalls(Q, Oq)
  <2>1. Boot \in Seq(Oq) /\ Scripts \subseteq Seq(Oq)
    <3>1. Seq(Op) \subseteq Seq(Oq)
      OBVIOUS
    <3> QED BY <3>1 DEF SensibleCalls
  <2>2. ASSUME NEW o \in Oq
        PROVE  /\ o.op = "gpio_output_init" => o.pin \in Pin
               /\ o.op = "_printf" => <<o.fmt, o.args>> \in Q
               /\ o.op = "_putchar" => o.char \in Char
    <3>1. CASE o \in Op
      BY <3>1 DEF SensibleCalls
    <3>2. CASE o = Printf(<<>>, <<>>)
      BY <3>2 DEF Printf
    <3> QED BY <3>1, <3>2
  <2> HIDE DEF Q, Oq
  <2> QED BY <1>1, <2>1, <2>2 DEF SensibleCalls
<1>3. Enough(Q, Oq)
  <2>1. {e, l, p} \subseteq Q /\ Printf(<<>>, <<>>) \in Oq
    OBVIOUS
  <2> QED BY <1>2, <2>1 DEF Enough
<1> QED BY <1>3

(* The rest of the operations after the first.                             *)
LEMMA TodoRest ==
  ASSUME NEW Op, NEW s \in Seq(Op), s # <<>>
  PROVE  Head(s) \in Op /\ Tail(s) \in Seq(Op)
  OBVIOUS

(* Handing a text to print_str.                                            *)
LEMMA PrintStr ==
  ASSUME NEW P, NEW Op, OrderInv(P, Op), Idle, NEW s \in Texts, print_str(s),
         UNCHANGED <<sending, fifo, wire>>
  PROVE  text' \in Texts /\ out' \in Texts /\ InOrder'
<1> DEFINE t == IF s = <<NUL>> THEN <<>> ELSE s
<1>1. t \in Texts /\ text' = text \o t /\ out' = t
  BY TextsJoin DEF print_str
<1> HIDE DEF t
<1>2. out = <<>> /\ sending = <<>> /\ text \in Texts /\ fifo \in Texts /\ wire \in Texts
  BY DEF Idle, OrderInv
<1>3. Sent(text) = wire \o fifo \o <<>> \o <<>>
  BY <1>2, SentNothing DEF OrderInv, InOrder
<1>4. wire \o fifo \in Texts /\ (wire \o fifo) \o <<>> = wire \o fifo
  BY <1>2 DEF Texts
<1>5. Sent(text \o t) = Sent(text) \o Sent(t)
  BY <1>1, <1>2, SentConcat
<1>6. Sent(text') = wire \o fifo \o <<>> \o Sent(t)
  BY <1>1, <1>3, <1>4, <1>5
<1> QED BY <1>1, <1>2, <1>6, TextsJoin DEF InOrder

(* The first state.                                                        *)
LEMMA OrderInit ==
  ASSUME NEW P, NEW Op, Enough(P, Op), Init
  PROVE  OrderInv(P, Op)
<1>1. todo \in Seq(Op) /\ <<fmt, args>> \in P
  BY DEF Init, Enough, SensibleCalls
<1>2. text = <<>> /\ out = <<>> /\ sending = <<>> /\ fifo = <<>> /\ wire = <<>>
  BY DEF Init
<1>3. <<>> \in Texts /\ <<>> \o <<>> \o <<>> \o <<>> = <<>>
  BY TextsJoin
<1>4. InOrder
  BY <1>2, <1>3, SentNothing DEF InOrder
<1> QED BY <1>1, <1>2, <1>3, <1>4 DEF OrderInv

(* Operations that print nothing.                                          *)
LEMMA OrderReturn ==
  ASSUME NEW P, NEW Op, OrderInv(P, Op), todo # <<>>, Return,
         UNCHANGED <<printer, uart>>
  PROVE  OrderInv(P, Op)'
<1>1. todo' \in Seq(Op)
  BY TodoRest DEF OrderInv, Return
<1> QED BY <1>1 DEF OrderInv, InOrder, printer, uart

(* A panic prints its own message.                                         *)
LEMMA OrderPanic ==
  ASSUME NEW P, NEW Op, Enough(P, Op), OrderInv(P, Op), _panic,
         UNCHANGED <<sending, fifo, wire>>
  PROVE  OrderInv(P, Op)'
<1>1. todo' \in Seq(Op) /\ <<fmt', args'>> \in P
  BY DEF _panic, Enough
<1>2. UNCHANGED <<text, out, sending, fifo, wire>>
  BY DEF _panic
<1> QED BY <1>1, <1>2 DEF OrderInv, InOrder

(* _printf takes its format, character by character.                       *)
LEMMA OrderBegin ==
  ASSUME NEW P, NEW Op, Enough(P, Op), OrderInv(P, Op), Begin
  PROVE  OrderInv(P, Op)'
<1>1. Head(todo) \in Op /\ todo # <<>> /\ Head(todo).op = "_printf" /\ todo \in Seq(Op)
  BY TodoRest DEF OrderInv, Begin, Running
<1>2. <<fmt', args'>> \in P
  BY <1>1 DEF Begin, Enough, SensibleCalls
<1>3. todo' \in Seq(Op)
  <2>1. todo' = [todo EXCEPT ![1] = Printf(<<>>, <<>>)] /\ Printf(<<>>, <<>>) \in Op
    BY DEF Begin, Enough
  <2> QED BY <1>1, <2>1
<1> QED BY <1>2, <1>3 DEF OrderInv, InOrder, Begin, uart

(* A plain character is printed as it is.                                  *)
LEMMA OrderPlainChar ==
  ASSUME NEW P, NEW Op, Enough(P, Op), OrderInv(P, Op), PlainChar
  PROVE  OrderInv(P, Op)'
<1>1. fmt \in Texts /\ fmt # <<>> /\ Head(fmt) # "%" /\ Left(P, fmt, args)
  <2>1. <<fmt, args>> \in P /\ <<fmt, args>>[1] = fmt /\ <<fmt, args>>[2] = args
    BY DEF OrderInv
  <2> QED BY <2>1 DEF PlainChar, Enough, SensibleCalls, Typed, Texts
<1>2. <<Tail(fmt), args>> \in P
  BY <1>1 DEF Left
<1>3. <<Head(fmt)>> \in Texts
  BY <1>1 DEF Texts
<1>4. text' \in Texts /\ out' \in Texts /\ InOrder'
  BY <1>3, PrintStr DEF PlainChar, uart
<1>5. todo' = todo /\ fmt' = Tail(fmt) /\ args' = args /\ UNCHANGED <<sending, uart>>
  BY DEF PlainChar, kernel
<1> QED BY <1>2, <1>4, <1>5 DEF OrderInv, uart

(* A directive prints its field, or panic its message.                     *)
LEMMA OrderDirected ==
  ASSUME NEW P, NEW Op, Enough(P, Op), OrderInv(P, Op), Directed
  PROVE  OrderInv(P, Op)'
<1> DEFINE d == Directive(Tail(fmt))
           field == Convert(d, Head(args))
<1>1. fmt \in Texts /\ fmt # <<>> /\ Head(fmt) = "%" /\ Left(P, fmt, args)
  <2>1. <<fmt, args>> \in P /\ <<fmt, args>>[1] = fmt /\ <<fmt, args>>[2] = args
    BY DEF OrderInv
  <2> QED BY <2>1 DEF Directed, Enough, SensibleCalls, Typed, Texts
<1>2. d \in Parsed
  <2>1. Tail(fmt) \in Texts
    BY <1>1 DEF Texts
  <2> QED BY <2>1, DirectiveTyped
<1>3. IF d.conv \in Conversions
      THEN args # <<>> /\ Head(args) \in Argument(d.conv) /\ <<d.rest, Tail(args)>> \in P
      ELSE <<d.rest, args>> \in P
  BY <1>1 DEF Left
<1>4. /\ Idle /\ UNCHANGED <<sending, fifo, wire>>
      /\ IF d.conv \in Conversions
         THEN IF ~field.fits THEN _panic
              ELSE /\ print_str(field.text)
                   /\ fmt' = d.rest /\ args' = Tail(args)
                   /\ UNCHANGED kernel
         ELSE /\ print_str(IF d.conv = NUL THEN <<>> ELSE <<d.conv>>)
              /\ fmt' = d.rest
              /\ UNCHANGED <<kernel, args>>
  BY DEF Directed, uart
<1> HIDE DEF d
<1>5. CASE d.conv \in Conversions /\ ~field.fits
  BY <1>4, <1>5, OrderPanic
<1>6. CASE d.conv \in Conversions /\ field.fits
  <2>1. print_str(field.text) /\ fmt' = d.rest /\ args' = Tail(args) /\ UNCHANGED kernel
    BY <1>4, <1>6
  <2>2. field.text \in Texts
    BY <1>2, <1>3, <1>6, ConvertText
  <2> HIDE DEF field
  <2>3. text' \in Texts /\ out' \in Texts /\ InOrder'
    BY <1>4, <2>1, <2>2, PrintStr
  <2>4. <<fmt', args'>> \in P
    BY <1>3, <1>6, <2>1
  <2> QED BY <1>4, <2>1, <2>3, <2>4 DEF OrderInv, kernel
<1>7. CASE d.conv \notin Conversions
  <2>1. /\ print_str(IF d.conv = NUL THEN <<>> ELSE <<d.conv>>)
        /\ fmt' = d.rest /\ UNCHANGED <<kernel, args>>
    BY <1>4, <1>7
  <2>2. (IF d.conv = NUL THEN <<>> ELSE <<d.conv>>) \in Texts
    <3>1. d.conv \in Char
      BY <1>2 DEF Parsed
    <3>2. <<d.conv>> \in Texts /\ <<>> \in Texts
      BY <3>1 DEF Texts
    <3> QED BY <3>2
  <2>3. text' \in Texts /\ out' \in Texts /\ InOrder'
    BY <1>4, <2>1, <2>2, PrintStr
  <2>4. <<fmt', args'>> \in P
    BY <1>3, <1>7, <2>1
  <2> QED BY <1>4, <2>1, <2>3, <2>4 DEF OrderInv, kernel
<1> QED BY <1>5, <1>6, <1>7

(* _printf returns when its format is used up.                             *)
LEMMA OrderPrintfReturns ==
  ASSUME NEW P, NEW Op, Enough(P, Op), OrderInv(P, Op), PrintfReturns
  PROVE  OrderInv(P, Op)'
<1>1. todo' \in Seq(Op)
  BY TodoRest DEF OrderInv, PrintfReturns, Running, Return
<1>2. <<fmt', args'>> \in P
  BY DEF PrintfReturns, Enough
<1> QED BY <1>1, <1>2 DEF OrderInv, InOrder, PrintfReturns, uart

(* _putchar of the next character.                                         *)
LEMMA OrderPutNext ==
  ASSUME NEW P, NEW Op, OrderInv(P, Op), putchar_of_print_str
  PROVE  OrderInv(P, Op)'
<1> DEFINE c == Head(out)
           s == Tail(out)
<1>1. /\ sending = <<>> /\ sending' = Bytes(c) /\ out' = s
      /\ UNCHANGED <<todo, fmt, args, text, fifo, wire>>
  BY DEF putchar_of_print_str, kernel, uart
<1>2. out \in Texts /\ out # <<>> /\ fifo \in Texts /\ wire \in Texts
  BY DEF OrderInv, putchar_of_print_str
<1>3. c \in Char /\ s \in Texts /\ <<c>> \in Texts /\ <<c>> \o s = out
  BY <1>2 DEF Texts
<1> HIDE DEF c, s
<1>4. Sent(<<c>>) = Bytes(c) /\ Bytes(c) \in Texts /\ Sent(s) \in Texts
  <2>1. <<>> \in Texts /\ Append(<<>>, c) = <<c>>
    BY TextsJoin
  <2>2. Bytes(c) \in Texts /\ <<>> \o Bytes(c) = Bytes(c)
    BY <1>3, BytesText DEF Texts
  <2>3. Sent(<<c>>) = <<>> \o Bytes(c)
    BY <1>3, <2>1, SentAppend, SentNothing
  <2>4. Sent(s) \in Texts
    BY <1>3, SentAppend
  <2> QED BY <2>2, <2>3, <2>4
<1>5. Sent(out) = Bytes(c) \o Sent(s)
  <2>1. Sent(<<c>> \o s) = Sent(<<c>>) \o Sent(s)
    BY <1>3, SentConcat
  <2> QED BY <1>3, <1>4, <2>1
<1>6. wire \o fifo \in Texts /\ (wire \o fifo) \o <<>> = wire \o fifo
  BY <1>2 DEF Texts
<1>7. Sent(text) = (wire \o fifo) \o (Bytes(c) \o Sent(s))
  BY <1>1, <1>5, <1>6 DEF OrderInv, InOrder
<1>8. (wire \o fifo) \o (Bytes(c) \o Sent(s)) = ((wire \o fifo) \o Bytes(c)) \o Sent(s)
  BY <1>4, <1>6, TextsAssociate
<1>9. InOrder'
  BY <1>1, <1>7, <1>8 DEF InOrder
<1> QED BY <1>1, <1>3, <1>4, <1>9 DEF OrderInv

(* The system call _putchar.                                               *)
LEMMA OrderPutchar ==
  ASSUME NEW P, NEW Op, Enough(P, Op), OrderInv(P, Op), _putchar
  PROVE  OrderInv(P, Op)'
<1> DEFINE c == Head(todo).char
<1>1. todo \in Seq(Op) /\ todo # <<>> /\ Head(todo).op = "_putchar"
  BY DEF OrderInv, _putchar, Running
<1>2. Head(todo) \in Op /\ todo' \in Seq(Op)
  BY <1>1, TodoRest DEF _putchar, Return
<1>3. c \in Char
  BY <1>1, <1>2 DEF Enough, SensibleCalls
<1>4. /\ out = <<>> /\ sending = <<>> /\ sending' = Bytes(c) /\ text' = Append(text, c)
      /\ UNCHANGED <<fmt, args, out, fifo, wire>>
  BY DEF _putchar, Idle, uart
<1> HIDE DEF c
<1>5. text \in Texts /\ fifo \in Texts /\ wire \in Texts /\ Bytes(c) \in Texts
  BY <1>3, BytesText DEF OrderInv
<1>6. text' \in Texts
  BY <1>3, <1>4, <1>5 DEF Texts
<1>7. Sent(text') = Sent(text) \o Bytes(c)
  BY <1>3, <1>4, <1>5, SentAppend
<1>8. /\ (wire \o fifo) \o <<>> = wire \o fifo
      /\ ((wire \o fifo) \o Bytes(c)) \o <<>> = (wire \o fifo) \o Bytes(c)
  BY <1>5 DEF Texts
<1>9. Sent(text) = ((wire \o fifo) \o <<>>) \o <<>>
  BY <1>4, SentNothing DEF OrderInv, InOrder
<1>10. InOrder'
  BY <1>4, <1>7, <1>8, <1>9, SentNothing DEF InOrder
<1> QED BY <1>2, <1>4, <1>5, <1>6, <1>10 DEF OrderInv

(* A character moves on: into the transmitter, and out of it.              *)
LEMMA OrderSend ==
  ASSUME NEW P, NEW Op, OrderInv(P, Op), uart_send \/ Transmit
  PROVE  OrderInv(P, Op)'
<1>1. out \in Texts /\ sending \in Texts /\ fifo \in Texts /\ wire \in Texts
  BY DEF OrderInv
<1>2. \A s, t \in Texts : t # <<>> =>
        /\ Append(s, Head(t)) \in Texts /\ Tail(t) \in Texts
        /\ Append(s, Head(t)) \o Tail(t) = s \o t
  BY DEF Texts
<1>3. UNCHANGED <<todo, fmt, args, text, out>>
  BY DEF uart_send, Transmit, kernel, printer
<1>4. CASE uart_send
  <2>1. /\ sending # <<>> /\ sending' = Tail(sending) /\ fifo' = Append(fifo, Head(sending))
        /\ wire' = wire
    BY <1>4 DEF uart_send
  <2>2. sending' \in Texts /\ fifo' \in Texts /\ fifo' \o sending' = fifo \o sending
    BY <1>1, <1>2, <2>1
  <2>3. wire \o fifo \o sending = wire \o fifo' \o sending'
    <3>1. (wire \o fifo) \o sending = wire \o (fifo \o sending)
      BY <1>1, TextsAssociate
    <3>2. (wire \o fifo') \o sending' = wire \o (fifo' \o sending')
      BY <1>1, <2>2, TextsAssociate
    <3> QED BY ONLY <3>1, <3>2, <2>2
  <2>4. InOrder'
    BY <1>3, <2>1, <2>3 DEF OrderInv, InOrder
  <2> QED BY <1>1, <1>3, <2>1, <2>2, <2>4 DEF OrderInv
<1>5. CASE Transmit
  <2>1. /\ fifo # <<>> /\ fifo' = Tail(fifo) /\ wire' = Append(wire, Head(fifo))
        /\ sending' = sending
    BY <1>5 DEF Transmit, printer
  <2>2. fifo' \in Texts /\ wire' \in Texts /\ wire' \o fifo' = wire \o fifo
    BY <1>1, <1>2, <2>1
  <2>3. InOrder'
    BY <1>3, <2>1, <2>2 DEF OrderInv, InOrder
  <2> QED BY <1>1, <1>3, <2>1, <2>2, <2>3 DEF OrderInv
<1> QED BY <1>4, <1>5

(* Every step keeps the order.                                             *)
LEMMA OrderNext ==
  ASSUME NEW P, NEW Op, Enough(P, Op), OrderInv(P, Op), [Next]_vars
  PROVE  OrderInv(P, Op)'
<1>1. CASE uart_init
  BY <1>1, OrderReturn DEF uart_init, Running
<1>2. CASE gpio_output_init
  <2>1. CASE _panic
    BY <1>2, <2>1, OrderPanic DEF gpio_output_init, uart
  <2>2. CASE Return /\ UNCHANGED <<panicked, fmt, args, out, text>>
    BY <1>2, <2>2, OrderReturn DEF gpio_output_init, Running, printer
  <2> QED BY <1>2, <2>1, <2>2 DEF gpio_output_init
<1>3. CASE _sched_yield \/ gpio_set \/ gpio_clr
  <2>1. CASE _sched_yield
    BY <2>1, OrderReturn DEF _sched_yield, Running
  <2>2. CASE gpio_set \/ gpio_clr
    BY <2>2 DEF gpio_set, gpio_clr, kernel, printer, uart, OrderInv, InOrder
  <2> QED BY <1>3, <2>1, <2>2
<1>4. CASE Begin
  BY <1>4, OrderBegin
<1>5. CASE PlainChar
  BY <1>5, OrderPlainChar
<1>6. CASE Directed
  BY <1>6, OrderDirected
<1>7. CASE PrintfReturns
  BY <1>7, OrderPrintfReturns
<1>8. CASE putchar_of_print_str
  BY <1>8, OrderPutNext
<1>9. CASE _putchar
  BY <1>9, OrderPutchar
<1>10. CASE uart_send \/ Transmit
  BY <1>10, OrderSend
<1>11. CASE Choose
  <2>1. todo' \in Seq(Op)
    BY <1>11 DEF Choose, Enough, SensibleCalls
  <2>2. UNCHANGED <<fmt, args, text, out, sending, fifo, wire>>
    BY <1>11 DEF Choose, printer, uart
  <2> QED BY <2>1, <2>2 DEF OrderInv, InOrder
<1>12. CASE UNCHANGED vars
  BY <1>12 DEF OrderInv, InOrder, vars
<1> QED
  BY <1>1, <1>2, <1>3, <1>4, <1>5, <1>6, <1>7, <1>8, <1>9, <1>10, <1>11, <1>12
     DEF Next, Kernel

(* Whatever is printed, and however slow the transmitter: what the UART    *)
(* has sent, with what waits in the transmitter and in print_str, is what  *)
(* was handed to print_str and _putchar.                                   *)
THEOREM OutputInOrder ==
  ASSUME NEW P, NEW Op, SensibleCalls(P, Op)
  PROVE  Spec => []InOrder
<1>1. PICK Q, Oq : Enough(Q, Oq)
  BY EnoughExists
<1>2. Init => OrderInv(Q, Oq)
  BY <1>1, OrderInit
<1>3. OrderInv(Q, Oq) /\ [Next]_vars => OrderInv(Q, Oq)'
  BY <1>1, OrderNext
<1>4. OrderInv(Q, Oq) => InOrder
  BY DEF OrderInv
<1> QED BY <1>2, <1>3, <1>4, PTL DEF Spec

(* While output is in order, what a directive prints is what it should be. *)
LEMMA DirectiveReads ==
  ASSUME NEW P, NEW Op, Enough(P, Op), OrderInv(P, Op)
  PROVE  FieldsReadBack
<1> DEFINE d == Directive(Tail(fmt))
<1> SUFFICES ASSUME fmt # <<>>, Head(fmt) = "%", d.conv \in Conversions
             PROVE  Converted(Convert(d, Head(args)), d, Head(args))
  BY Zenon DEF FieldsReadBack, Converted
<1>1. fmt \in Texts /\ Left(P, fmt, args)
  <2>1. <<fmt, args>> \in P /\ <<fmt, args>>[1] = fmt /\ <<fmt, args>>[2] = args
    BY DEF OrderInv
  <2> QED BY <2>1 DEF Enough, SensibleCalls, Typed, Texts
<1>2. d \in Parsed
  <2>1. Tail(fmt) \in Texts
    BY <1>1 DEF Texts
  <2> QED BY <2>1, DirectiveTyped
<1>3. Head(args) \in Argument(d.conv)
  BY <1>1 DEF Left
<1> HIDE DEF d
<1> QED BY ONLY <1>2, <1>3, d.conv \in Conversions, ConvertReads

(* Whatever a directive of lp_print is asked to print, with any width and  *)
(* any flags: a number reads back as the argument, a string stands in its  *)
(* field; and panic_buffer_overflow stops the kernel only when the width,  *)
(* or a string, exceeds the buffer.                                        *)
THEOREM FieldsCorrect ==
  ASSUME NEW P, NEW Op, SensibleCalls(P, Op)
  PROVE  Spec => []FieldsReadBack
<1>1. PICK Q, Oq : Enough(Q, Oq)
  BY EnoughExists
<1>2. Init => OrderInv(Q, Oq)
  BY <1>1, OrderInit
<1>3. OrderInv(Q, Oq) /\ [Next]_vars => OrderInv(Q, Oq)'
  BY <1>1, OrderNext
<1>4. OrderInv(Q, Oq) => FieldsReadBack
  BY <1>1, DirectiveReads
<1> QED BY <1>2, <1>3, <1>4, PTL DEF Spec

-----------------------------------------------------------------------------
(***************************************************************************)
(* The pins.                                                               *)
(***************************************************************************)

(* Whether a sequence of operations holds o, what gpio_output_init is      *)
(* called for in it, and that it gives no pin a function.                  *)
Holds(s, o) == \E j \in 1 .. Len(s) : s[j] = o
PinsOnly(s, S) ==
  \A j \in 1 .. Len(s) : s[j].op = "gpio_output_init" => s[j].pin \in S
NoPins(s) == \A j \in 1 .. Len(s) : s[j].op \notin {"uart_init", "gpio_output_init"}

(* What the lamps show, and what _sched_yield has left to write.           *)
LampInv ==
  \/ writes = <<>> /\ (level = {Lamp(index)} \/ (level = {} /\ index = 0))
  \/ writes = Lamps(index) /\ level \in {{}, {17}, {27}}
  \/ writes = <<Set(27)>> /\ index % 2 = 1 /\ level \in {{}, {27}}
  \/ writes = <<Clr(27)>> /\ index % 2 # 1 /\ level \in {{17}, {17, 27}}

(* A pin has its function or main is yet to give it, unless main has       *)
(* panicked; what follows main leaves the functions alone.                 *)
PinsInv ==
  /\ fsel \in [Pin -> Nat]
  /\ \A n \in Pin \ {14, 15, 17, 27} : fsel[n] = reset[n]
  /\ LampInv
  /\ scripted \in BOOLEAN /\ panicked \in BOOLEAN
  /\ \E Op : todo \in Seq(Op)
  /\ PinsOnly(todo, {17, 27})
  /\ scripted => NoPins(todo)
  /\ \/ (fsel[14] = 2 /\ fsel[15] = 2)
     \/ ~scripted /\ (panicked \/ Holds(todo, UartInit))
  /\ \A n \in {17, 27} : \/ fsel[n] = 1
                         \/ ~scripted /\ (panicked \/ Holds(todo, OutputInit(n)))

(* The functions that uart_init and gpio_output_init write.                *)
LEMMA SelectPins ==
  ASSUME NEW f \in [Pin -> Nat], NEW n \in Pin, NEW bit \in {1, 2}
  PROVE  LET g == SetBit(Clear(f, n), n, bit)
         IN  /\ g \in [Pin -> Nat] /\ g[n] = bit
             /\ \A m \in Pin \ {n} : g[m] = f[m]
<1> DEFINE c == Clear(f, n)
           g == SetBit(c, n, bit)
<1>1. c \in [Pin -> Nat] /\ c[n] = 0 /\ \A m \in Pin \ {n} : c[m] = f[m]
  BY DEF Clear
<1> HIDE DEF c
<1>2. (0 \div bit) % 2 = 0 /\ 0 + bit = bit
  <2>1. CASE bit = 1
    BY <2>1
  <2>2. CASE bit = 2
    BY <2>2
  <2> QED BY <2>1, <2>2
<1>3. g = [c EXCEPT ![n] = bit]
  BY <1>1, <1>2 DEF SetBit
<1> HIDE DEF g
<1>4. g \in [Pin -> Nat] /\ g[n] = bit /\ \A m \in Pin \ {n} : g[m] = f[m]
  BY <1>1, <1>3
<1> QED BY <1>4 DEF g, c

(* The operations after the first.                                         *)
LEMMA PinsRest ==
  ASSUME NEW Op, NEW s \in Seq(Op), s # <<>>
  PROVE  /\ Tail(s) \in Seq(Op)
         /\ \A S : PinsOnly(s, S) => PinsOnly(Tail(s), S)
         /\ NoPins(s) => NoPins(Tail(s))
         /\ \A o : Holds(s, o) /\ o # Head(s) => Holds(Tail(s), o)
<1>1. /\ Tail(s) \in Seq(Op) /\ Len(s) \in Nat /\ Len(Tail(s)) = Len(s) - 1 /\ Head(s) = s[1]
      /\ \A j \in 1 .. Len(Tail(s)) : Tail(s)[j] = s[j + 1] /\ j + 1 \in 1 .. Len(s)
  OBVIOUS
<1>2. \A S : PinsOnly(s, S) => PinsOnly(Tail(s), S)
  BY <1>1 DEF PinsOnly
<1>3. NoPins(s) => NoPins(Tail(s))
  BY <1>1 DEF NoPins
<1>4. ASSUME NEW o, Holds(s, o), o # Head(s) PROVE Holds(Tail(s), o)
  <2>1. PICK j \in 1 .. Len(s) : s[j] = o
    BY <1>4 DEF Holds
  <2>2. j # 1
    BY <1>1, <1>4, <2>1
  <2>3. j - 1 \in 1 .. Len(Tail(s)) /\ (j - 1) + 1 = j
    BY <1>1, <2>2
  <2>4. Tail(s)[j - 1] = o
    BY <1>1, <2>1, <2>3
  <2> QED BY <2>3, <2>4 DEF Holds
<1> QED BY <1>1, <1>2, <1>3, <1>4

(* An operation that leaves the functions alone.                           *)
LEMMA PinsReturn ==
  ASSUME PinsInv, todo # <<>>, Return,
         Head(todo).op \notin {"uart_init", "gpio_output_init"},
         UNCHANGED <<fsel, reset, panicked>>, LampInv'
  PROVE  PinsInv'
<1>1. PICK Op : todo \in Seq(Op)
  BY DEF PinsInv
<1>2. /\ todo' \in Seq(Op) /\ PinsOnly(todo', {17, 27})
      /\ scripted' = scripted /\ (scripted => NoPins(todo'))
      /\ \A o : Holds(todo, o) /\ o # Head(todo) => Holds(todo', o)
  BY <1>1, PinsRest DEF PinsInv, Return
<1>3. Head(todo) # UartInit /\ \A n \in {17, 27} : Head(todo) # OutputInit(n)
  BY DEF UartInit, OutputInit
<1>4. (fsel[14] = 2 /\ fsel[15] = 2) \/ (~scripted /\ (panicked \/ Holds(todo', UartInit)))
  BY <1>2, <1>3 DEF PinsInv
<1>5. \A n \in {17, 27} :
        fsel[n] = 1 \/ (~scripted /\ (panicked \/ Holds(todo', OutputInit(n))))
  BY <1>2, <1>3 DEF PinsInv
<1> QED BY <1>2, <1>4, <1>5 DEF PinsInv

(* While nobody switches, the lamps stay as they are.                      *)
LEMMA LampSame ==
  ASSUME LampInv, UNCHANGED lamps
  PROVE  LampInv'
  BY DEF LampInv, lamps

(* A switch: one write after the other.                                    *)
LEMMA LampStarts ==
  ASSUME LampInv, _sched_yield
  PROVE  LampInv'
<1>1. level \in {{}, {17}, {27}}
  <2>1. writes = <<>>
    BY DEF _sched_yield, Idle
  <2>2. Lamps(index) # <<>> /\ <<Set(27)>> # <<>> /\ <<Clr(27)>> # <<>>
    BY DEF Lamps
  <2> QED BY <2>1, <2>2 DEF LampInv, Lamp
<1> QED BY <1>1 DEF _sched_yield, LampInv

LEMMA LampWritten ==
  ASSUME LampInv, gpio_set \/ gpio_clr
  PROVE  LampInv'
<1> DEFINE odd == index % 2 = 1
<1>1. /\ writes # <<>> /\ writes' = Tail(writes) /\ index' = index
      /\ \/ Head(writes).reg = "GPSET0" /\ level' = level \cup {Head(writes).pin}
         \/ Head(writes).reg = "GPCLR0" /\ level' = level \ {Head(writes).pin}
  BY DEF gpio_set, gpio_clr
<1>2. \A n : /\ Set(n).reg = "GPSET0" /\ Set(n).pin = n
            /\ Clr(n).reg = "GPCLR0" /\ Clr(n).pin = n
  BY DEF Set, Clr
<1>3. CASE odd /\ writes = Lamps(index) /\ level \in {{}, {17}, {27}}
  <2>1. writes = <<Clr(17), Set(27)>>
    BY <1>3 DEF Lamps
  <2>2. Head(writes) = Clr(17) /\ Tail(writes) = <<Set(27)>>
    BY <2>1
  <2>3. level' = level \ {17}
    BY <1>1, <1>2, <2>2
  <2>4. level' \in {{}, {27}}
    BY <1>3, <2>3
  <2> QED BY <1>1, <1>3, <2>2, <2>4 DEF LampInv
<1>4. CASE ~odd /\ writes = Lamps(index) /\ level \in {{}, {17}, {27}}
  <2>1. writes = <<Set(17), Clr(27)>>
    BY <1>4 DEF Lamps
  <2>2. Head(writes) = Set(17) /\ Tail(writes) = <<Clr(27)>>
    BY <2>1
  <2>3. level' = level \cup {17}
    BY <1>1, <1>2, <2>2
  <2>4. level' \in {{17}, {17, 27}}
    BY <1>4, <2>3
  <2> QED BY <1>1, <1>4, <2>2, <2>4 DEF LampInv
<1>5. CASE odd /\ writes = <<Set(27)>> /\ level \in {{}, {27}}
  <2>1. Head(writes) = Set(27) /\ Tail(writes) = <<>>
    BY <1>5
  <2>2. level' = level \cup {27}
    BY <1>1, <1>2, <2>1
  <2>3. level' = {Lamp(index')}
    BY <1>1, <1>5, <2>2 DEF Lamp
  <2> QED BY <1>1, <2>1, <2>3 DEF LampInv
<1>6. CASE ~odd /\ writes = <<Clr(27)>> /\ level \in {{17}, {17, 27}}
  <2>1. Head(writes) = Clr(27) /\ Tail(writes) = <<>>
    BY <1>6
  <2>2. level' = level \ {27}
    BY <1>1, <1>2, <2>1
  <2>3. level' = {Lamp(index')}
    BY <1>1, <1>6, <2>2 DEF Lamp
  <2> QED BY <1>1, <2>1, <2>3 DEF LampInv
<1> QED BY <1>1, <1>3, <1>4, <1>5, <1>6 DEF LampInv

(* uart_init gives the console its pins, which main does once.             *)
LEMMA PinsUartInit ==
  ASSUME PinsInv, uart_init
  PROVE  PinsInv'
<1> DEFINE f == SetBit(Clear(fsel, 14), 14, 2)
           g == SetBit(Clear(f, 15), 15, 2)
<1>1. /\ todo # <<>> /\ Head(todo).op = "uart_init" /\ Return
      /\ fsel' = g /\ UNCHANGED <<reset, panicked>> /\ LampInv'
  BY LampSame DEF uart_init, Running, PinsInv
<1>2. PICK Op : todo \in Seq(Op)
  BY DEF PinsInv
<1>3. /\ todo' \in Seq(Op) /\ PinsOnly(todo', {17, 27}) /\ scripted' = scripted
      /\ \A o : Holds(todo, o) /\ o # Head(todo) => Holds(todo', o)
  BY <1>1, <1>2, PinsRest DEF PinsInv, Return
<1>4. ~scripted
  <2>1. 1 \in 1 .. Len(todo) /\ Head(todo) = todo[1]
    BY <1>1, <1>2
  <2> QED BY <1>1, <2>1 DEF PinsInv, NoPins
<1>5. {14, 15, 17, 27} \subseteq Pin
  BY ConsoleAssumption
<1>6. f \in [Pin -> Nat] /\ f[14] = 2 /\ \A m \in Pin \ {14} : f[m] = fsel[m]
  BY <1>5, SelectPins DEF PinsInv
<1> HIDE DEF f
<1>7. g \in [Pin -> Nat] /\ g[15] = 2 /\ \A m \in Pin \ {15} : g[m] = f[m]
  BY <1>5, <1>6, SelectPins
<1> HIDE DEF g
<1>8. /\ g[14] = 2 /\ g[15] = 2
      /\ \A m \in Pin \ {14, 15} : g[m] = fsel[m]
  BY <1>5, <1>6, <1>7
<1>9. \A n \in {17, 27} : Head(todo) # OutputInit(n)
  BY <1>1 DEF OutputInit
<1>10. \A n \in {17, 27} : fsel'[n] = 1 \/ (panicked \/ Holds(todo', OutputInit(n)))
  BY <1>1, <1>3, <1>5, <1>8, <1>9 DEF PinsInv
<1>11. \A n \in Pin \ {14, 15, 17, 27} : fsel'[n] = reset[n]
  BY <1>1, <1>8 DEF PinsInv
<1> QED BY <1>1, <1>3, <1>4, <1>7, <1>8, <1>10, <1>11 DEF PinsInv

(* gpio_output_init gives a lamp its pin and leaves the others alone.      *)
LEMMA PinsOutputInit ==
  ASSUME PinsInv, gpio_output_init
  PROVE  PinsInv'
<1> DEFINE p == Head(todo).pin
           g == SetBit(Clear(fsel, p), p, 1)
<1>0. todo # <<>> /\ Head(todo).op = "gpio_output_init" /\ UNCHANGED reset /\ LampInv'
  BY LampSame DEF gpio_output_init, Running, PinsInv
<1>2. PICK Op : todo \in Seq(Op)
  BY DEF PinsInv
<1>4. ~scripted /\ p \in {17, 27}
  <2>1. 1 \in 1 .. Len(todo) /\ Head(todo) = todo[1]
    BY <1>0, <1>2
  <2> QED BY <1>0, <2>1 DEF PinsInv, NoPins, PinsOnly
<1>1. Return /\ fsel' = g /\ UNCHANGED panicked
  BY <1>4 DEF gpio_output_init, Gpio, Output
<1>3. /\ todo' \in Seq(Op) /\ PinsOnly(todo', {17, 27}) /\ scripted' = scripted
      /\ \A o : Holds(todo, o) /\ o # Head(todo) => Holds(todo', o)
  BY <1>0, <1>1, <1>2, PinsRest DEF PinsInv, Return
<1>5. {14, 15, 17, 27} \subseteq Pin
  BY ConsoleAssumption
<1> HIDE DEF p
<1>6. g \in [Pin -> Nat] /\ g[p] = 1 /\ \A m \in Pin \ {p} : g[m] = fsel[m]
  <2>1. p \in Pin /\ 1 \in {1, 2} /\ fsel \in [Pin -> Nat]
    BY <1>4, <1>5 DEF PinsInv
  <2> QED BY <2>1, SelectPins
<1> HIDE DEF g
<1>7. Head(todo) # UartInit /\ \A n \in {17, 27} : n # p => Head(todo) # OutputInit(n)
  BY <1>0, <1>1 DEF UartInit, OutputInit, p
<1>8. (fsel'[14] = 2 /\ fsel'[15] = 2) \/ panicked \/ Holds(todo', UartInit)
  BY <1>0, <1>1, <1>3, <1>4, <1>5, <1>6, <1>7 DEF PinsInv
<1>9. \A n \in {17, 27} : fsel'[n] = 1 \/ panicked \/ Holds(todo', OutputInit(n))
  <2> TAKE n \in {17, 27}
  <2>1. CASE n = p
    BY <1>0, <1>1, <1>6, <2>1
  <2>2. CASE n # p
    <3>1. fsel'[n] = fsel[n]
      BY <1>0, <1>1, <1>5, <1>6, <2>2
    <3> QED BY <1>3, <1>7, <2>2, <3>1 DEF PinsInv
  <2> QED BY <2>1, <2>2
<1>10. \A n \in Pin \ {14, 15, 17, 27} : fsel'[n] = reset[n]
  BY <1>0, <1>1, <1>4, <1>6 DEF PinsInv
<1> QED BY <1>0, <1>1, <1>3, <1>4, <1>6, <1>8, <1>9, <1>10 DEF PinsInv

(* The first operation becomes one that does not write them either.        *)
LEMMA PinsBegin ==
  ASSUME PinsInv, Begin
  PROVE  PinsInv'
<1> DEFINE e == Printf(<<>>, <<>>)
<1>1. PICK Op : todo \in Seq(Op)
  BY DEF PinsInv
<1>2. /\ todo # <<>> /\ Head(todo).op = "_printf" /\ todo' = [todo EXCEPT ![1] = e]
      /\ UNCHANGED <<scripted, panicked, fsel, reset>> /\ LampInv'
  BY LampSame DEF Begin, Running, pins, PinsInv
<1>3. e.op = "_printf"
  BY DEF Printf
<1> HIDE DEF e
<1>4. /\ todo' \in Seq(Op \cup {e}) /\ Len(todo') = Len(todo) /\ Len(todo) \in Nat \ {0}
      /\ todo'[1] = e /\ Head(todo) = todo[1]
      /\ \A j \in 2 .. Len(todo) : todo'[j] = todo[j]
  BY <1>1, <1>2
<1>5. PinsOnly(todo', {17, 27}) /\ (NoPins(todo) => NoPins(todo'))
  <2>1. \A j \in 1 .. Len(todo') : todo'[j] = e \/ (j \in 1 .. Len(todo) /\ todo'[j] = todo[j])
    <3> TAKE j \in 1 .. Len(todo')
    <3>1. CASE j = 1
      BY <1>4, <3>1
    <3>2. CASE j # 1
      <4>1. j \in 2 .. Len(todo) /\ j \in 1 .. Len(todo)
        BY <1>4, <3>2
      <4> QED BY <1>4, <4>1
    <3> QED BY <3>1, <3>2
  <2>2. PinsOnly(todo, {17, 27})
    BY DEF PinsInv
  <2>3. PinsOnly(todo', {17, 27})
    BY <1>3, <2>1, <2>2 DEF PinsOnly
  <2>4. NoPins(todo) => NoPins(todo')
    BY <1>3, <2>1 DEF NoPins
  <2> QED BY <2>3, <2>4
<1>6. ASSUME NEW o, o.op # "_printf", Holds(todo, o) PROVE Holds(todo', o)
  <2>1. PICK j \in 1 .. Len(todo) : todo[j] = o
    BY <1>6 DEF Holds
  <2>2. j \in 2 .. Len(todo)
    BY <1>2, <1>4, <1>6, <2>1
  <2> QED BY <1>4, <2>1, <2>2 DEF Holds
<1>7. UartInit.op # "_printf" /\ \A n \in {17, 27} : OutputInit(n).op # "_printf"
  BY DEF UartInit, OutputInit
<1>8. /\ Holds(todo, UartInit) => Holds(todo', UartInit)
      /\ \A n \in {17, 27} : Holds(todo, OutputInit(n)) => Holds(todo', OutputInit(n))
  BY <1>6, <1>7
<1> QED BY <1>2, <1>4, <1>5, <1>8 DEF PinsInv

(* A panic ends what was to come.                                          *)
LEMMA PinsPanic ==
  ASSUME PinsInv, _panic, UNCHANGED pins
  PROVE  PinsInv'
<1> DEFINE e == Printf(<<>>, <<>>)
<1>1. todo' = <<e>> /\ panicked' = TRUE /\ UNCHANGED <<scripted, fsel, reset>> /\ LampInv'
  BY LampSame DEF _panic, pins, PinsInv
<1>2. e.op = "_printf"
  BY DEF Printf
<1> HIDE DEF e
<1>3. todo' \in Seq({e}) /\ Len(todo') = 1 /\ todo'[1] = e
  BY <1>1
<1>4. PinsOnly(todo', {17, 27}) /\ NoPins(todo')
  BY <1>2, <1>3 DEF PinsOnly, NoPins
<1> QED BY <1>1, <1>3, <1>4 DEF PinsInv

(* Every step keeps the invariant.                                         *)
LEMMA PinsNext ==
  ASSUME NEW Op, PinsByMain(Op), PinsInv, [Next]_vars
  PROVE  PinsInv'
<1>1. CASE uart_init
  BY <1>1, PinsUartInit
<1>2. CASE gpio_output_init
  BY <1>2, PinsOutputInit
<1>3. CASE _sched_yield \/ gpio_set \/ gpio_clr
  <2>1. LampInv'
    BY <1>3, LampStarts, LampWritten DEF PinsInv
  <2>2. CASE _sched_yield
    BY <2>1, <2>2, PinsReturn DEF _sched_yield, Running
  <2>3. CASE gpio_set \/ gpio_clr
    BY <2>1, <2>3 DEF gpio_set, gpio_clr, kernel, PinsInv
  <2> QED BY <1>3, <2>2, <2>3
<1>4. CASE Begin
  BY <1>4, PinsBegin
<1>5. CASE PlainChar \/ putchar_of_print_str \/ uart_send \/ Transmit
  <2>1. LampInv'
    BY <1>5, LampSame
       DEF PlainChar, putchar_of_print_str, uart_send, Transmit, pins, PinsInv
  <2> QED
    BY <1>5, <2>1 DEF PlainChar, putchar_of_print_str, uart_send, Transmit, kernel, pins,
                      PinsInv
<1>6. CASE Directed
  <2>1. UNCHANGED pins /\ (_panic \/ UNCHANGED kernel)
    BY <1>6 DEF Directed
  <2>2. CASE _panic
    BY <2>1, <2>2, PinsPanic
  <2>3. CASE UNCHANGED kernel
    BY <2>1, <2>3, LampSame DEF kernel, pins, PinsInv
  <2> QED BY <2>1, <2>2, <2>3
<1>7. CASE PrintfReturns
  <2>1. LampInv'
    BY <1>7, LampSame DEF PrintfReturns, PinsInv, pins
  <2> QED BY <1>7, <2>1, PinsReturn DEF PrintfReturns, Running, pins
<1>8. CASE _putchar
  <2>1. LampInv'
    BY <1>8, LampSame DEF _putchar, PinsInv, pins
  <2> QED BY <1>8, <2>1, PinsReturn DEF _putchar, Running, pins
<1>9. CASE Choose
  <2>1. /\ ~scripted /\ ~panicked /\ todo = <<>> /\ scripted' = TRUE /\ todo' \in Scripts
        /\ UNCHANGED <<panicked, fsel, reset>> /\ LampInv'
    BY <1>9, LampSame DEF Choose, pins, PinsInv
  <2>2. todo' \in Seq(Op) /\ NoPins(todo')
    BY <2>1 DEF PinsByMain, NoPins
  <2>3. PinsOnly(todo', {17, 27})
    BY <2>2 DEF PinsOnly, NoPins
  <2>4. \A o : ~Holds(todo, o)
    BY <2>1 DEF Holds
  <2>5. fsel[14] = 2 /\ fsel[15] = 2 /\ \A n \in {17, 27} : fsel[n] = 1
    BY <2>1, <2>4 DEF PinsInv
  <2> QED BY <2>1, <2>2, <2>3, <2>5 DEF PinsInv
<1>10. CASE UNCHANGED vars
  BY <1>10, LampSame DEF vars, lamps, PinsInv
<1> QED
  BY <1>1, <1>2, <1>3, <1>4, <1>5, <1>6, <1>7, <1>8, <1>9, <1>10 DEF Next, Kernel

(* When programs run, the console has its pins, the lamps have theirs, no  *)
(* other pin has another function than at power-on, whatever main prints   *)
(* in between; and the lamp of the running slot is the one that is on, but *)
(* for the two writes that switch them.                                    *)
THEOREM PinsCorrect ==
  ASSUME NEW Op, PinsByMain(Op)
  PROVE  Spec => []PinsKept
<1>1. Init => PinsInv
  <2> SUFFICES ASSUME Init PROVE PinsInv
    OBVIOUS
  <2>1. todo = Boot /\ scripted = FALSE /\ panicked = FALSE /\ LampInv /\ reset = fsel
    BY DEF Init, LampInv
  <2>2. fsel \in [Pin -> Nat]
    <3>1. Firmware \subseteq Nat
      BY ConsoleAssumption
    <3> QED BY <3>1 DEF Init
  <2>3. /\ todo \in Seq(Op) /\ PinsOnly(todo, {17, 27}) /\ Holds(todo, UartInit)
        /\ \A n \in {17, 27} : Holds(todo, OutputInit(n))
    BY <2>1 DEF PinsByMain, PinsOnly, Holds
  <2> QED BY <2>1, <2>2, <2>3 DEF PinsInv
<1>2. PinsInv /\ [Next]_vars => PinsInv'
  BY PinsNext
<1>3. PinsInv => PinsKept
  <2> SUFFICES ASSUME PinsInv PROVE PinsKept
    OBVIOUS
  <2>1. LampInv
    BY DEF PinsInv
  <2>2. /\ Lamps(index) # <<>> /\ <<Set(27)>> # <<>> /\ <<Clr(27)>> # <<>>
        /\ \A n : {n} # {17, 27}
        /\ {} # {17, 27}
    BY DEF Lamps
  <2>3. writes = <<>> => level = {Lamp(index)} \/ (level = {} /\ index = 0)
    BY <2>1, <2>2 DEF LampInv
  <2>4. level = {17, 27} => writes = <<Clr(27)>>
    BY <2>1, <2>2 DEF LampInv
  <2> QED BY <2>3, <2>4 DEF PinsInv, PinsKept
<1> QED BY <1>1, <1>2, <1>3, PTL DEF Spec
=============================================================================
