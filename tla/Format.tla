------------------------------- MODULE Format -------------------------------
(***************************************************************************)
(* The conversions of lp_print (src/os/lib/print.c).  A string is a        *)
(* sequence of characters, a character a string of length one; NUL is the  *)
(* character that ends a string in C, and no sequence holds it except the  *)
(* text of a %c.                                                           *)
(***************************************************************************)
EXTENDS Integers, SequencesExt

CONSTANTS
  PTF_MAX_BUF,
  IntBits, LongBits,  \* width of an int and of a long: 32 and 64
  Char,               \* the characters, NUL among them
  NUL

Decimal == <<"0", "1", "2", "3", "4", "5", "6", "7", "8", "9">>
Lower == Decimal \o <<"a", "b", "c", "d", "e", "f">>
Upper == Decimal \o <<"A", "B", "C", "D", "E", "F">>
DecimalDigit == {Decimal[d] : d \in 1 .. 10}
Printed == {Lower[d] : d \in 1 .. 16} \cup {Upper[d] : d \in 1 .. 16} \cup {" ", "-"}

ASSUME FormatAssumption ==
  /\ IntBits \in Nat \ {0} /\ LongBits \in Nat /\ LongBits > IntBits
  /\ PTF_MAX_BUF \in Nat /\ PTF_MAX_BUF > LongBits  \* buf has room for any number
  /\ Printed \cup {NUL} \subseteq Char

(* The value of a numeral.                                                 *)
Numeral(s, base, upcase) ==
  LET digits == IF upcase THEN Upper ELSE Lower
      V[n \in 0 .. Len(s)] ==
        IF n = 0 THEN 0
        ELSE V[n - 1] * base + (CHOOSE x \in 0 .. 15 : digits[x + 1] = s[n])
  IN  V[Len(s)]

Blank(n) == [j \in 1 .. n |-> " "]
AtLeast(length, n) == IF length < n THEN n ELSE length

(* What make_num, make_char and make_string return when                    *)
(* panic_buffer_overflow stops the kernel: no text at all.                 *)
Overflow == [fits |-> FALSE, text |-> <<>>]
Text(s) == [fits |-> TRUE, text |-> s]
Guarded(s) == IF Len(s) > PTF_MAX_BUF THEN Overflow ELSE Text(s)

(* A directive: its flags, width and conversion.                           *)
make_char(d, c) ==
  LET fill == Blank(AtLeast(d.width, 1) - 1)
  IN  Guarded(IF d.ladjust THEN <<c>> \o fill ELSE fill \o <<c>>)

make_string(d, s) ==
  LET fill == Blank(AtLeast(d.width, Len(s)) - Len(s))
  IN  Guarded(IF d.ladjust THEN s \o fill ELSE fill \o s)

(* The digits of u, the last one first.                                    *)
Reversed(u, base, upcase) ==
  LET D[n \in 0 .. u] ==
        LET c == <<(IF upcase THEN Upper ELSE Lower)[(n % base) + 1]>>
        IN  IF n < base THEN c ELSE c \o D[n \div base]
  IN  D[u]

(* Mutant of make_num: the sign stays at the digits, inside the zeros.     *)
SignInside(d, u, base, negFlag, upcase) ==
  LET actual == Reversed(u, base, upcase) \o (IF negFlag THEN <<"-">> ELSE <<>>)
      length == AtLeast(d.width, Len(actual))
      padc == IF d.ladjust THEN " " ELSE d.padc
      padded == [j \in 1 .. length |-> IF j <= Len(actual) THEN actual[j] ELSE padc]
  IN  IF length > PTF_MAX_BUF THEN Overflow
      ELSE Text(IF d.ladjust
                THEN Reverse(actual) \o SubSeq(padded, Len(actual) + 1, length)
                ELSE Reverse(padded))

(* The text grows from its end: digits, sign, padding, and is turned round *)
(* then.  Between zeros for padding and the digits there is no sign.       *)
make_num(d, u, base, negFlag, upcase) ==
  LET actual == Reversed(u, base, upcase) \o (IF negFlag THEN <<"-">> ELSE <<>>)
      length == AtLeast(d.width, Len(actual))
      padc == IF d.ladjust THEN " " ELSE d.padc
      signLast == negFlag /\ padc = "0"
      padded == [j \in 1 .. length |->
                   IF signLast /\ j = length THEN "-"
                   ELSE IF j < Len(actual) \/ (j = Len(actual) /\ ~signLast) THEN actual[j]
                   ELSE padc]
  IN  IF length > PTF_MAX_BUF THEN Overflow
      ELSE Text(IF d.ladjust
                THEN Reverse(actual) \o SubSeq(padded, Len(actual) + 1, length)
                ELSE Reverse(padded))

(* va_arg: a word w read as a type, and num, a long, passed on as u.       *)
Pow2[n \in 0 .. LongBits] == IF n = 0 THEN 1 ELSE 2 * Pow2[n - 1]
Word(w, bits) == w % Pow2[bits]
Signed(w, bits) == LET u == Word(w, bits) IN IF u < Pow2[bits - 1] THEN u ELSE u - Pow2[bits]
Bits(d) == IF d.long THEN LongBits ELSE IntBits

(* The d conversion.  -num wraps when num is the least long there is.      *)
Number(d, w) ==
  LET num == Signed(w, Bits(d))
  IN  make_num(d, Word(IF num < 0 THEN -num ELSE num, LongBits), 10, num < 0, FALSE)

Base(c) == CASE c = "b" -> 2 [] c \in {"o", "O"} -> 8
             [] c \in {"u", "U"} -> 10 [] OTHER -> 16

Convert(d, w) ==
  CASE d.conv \in {"d", "D"} -> Number(d, w)
    [] d.conv = "c" -> make_char(d, w)
    [] d.conv = "s" -> make_string(d, w)
    [] OTHER -> make_num(d, Word(w, Bits(d)), Base(d.conv), FALSE, d.conv = "X")

Conversions == {"b", "d", "D", "o", "O", "u", "U", "x", "X", "c", "s"}

(* How many characters at the front of s, from position j on, are in S.    *)
Prefix(s, j, S) ==
  CHOOSE n \in 0 .. (Len(s) + 1 - j) :
    /\ \A x \in j .. (j + n - 1) : s[x] \in S
    /\ j + n <= Len(s) => s[j + n] \notin S

(* The directive after a percent sign: flags, width, l, conversion.  rest  *)
(* is what follows; conv is NUL at the end of the format.                  *)
Directive(fmt) ==
  LET flags == Prefix(fmt, 1, {"-", "0"})
      digits == Prefix(fmt, flags + 1, DecimalDigit)
      prefix == flags + digits
      long == prefix < Len(fmt) /\ fmt[prefix + 1] \in {"l", "L"}
      at == prefix + (IF long THEN 2 ELSE 1)
  IN  [ladjust |-> \E x \in 1 .. flags : fmt[x] = "-",
       padc |-> IF \E x \in 1 .. flags : fmt[x] = "0" THEN "0" ELSE " ",
       width |-> Numeral(SubSeq(fmt, flags + 1, flags + digits), 10, FALSE),
       long |-> long,
       conv |-> IF at > Len(fmt) THEN NUL ELSE fmt[at],
       rest |-> SubSeq(fmt, at + 1, Len(fmt))]
-----------------------------------------------------------------------------
(* What a field should be, said of the text and not of how it is made.     *)
AllIn(s, S) == \A j \in 1 .. Len(s) : s[j] \in S

(* f reads as the number n in the given base: a sign if n is negative, and *)
(* a numeral.  It is as wide as it was asked to be, and if that is more    *)
(* than it needs it has blanks or zeros on the left, or blanks on the      *)
(* right.                                                                  *)
IsNumberField(f, d, n, base, upcase) ==
  LET Digit == {(IF upcase THEN Upper ELSE Lower)[x] : x \in 1 .. base}
      left == Prefix(f, 1, {" "})
      length == Prefix(f, left + 1, Digit \cup {"-"})
      right == Len(f) - left - length
      digits == SubSeq(f, left + (IF n < 0 THEN 2 ELSE 1), left + length)
      zeros == digits[1] = "0" /\ Len(digits) > 1
  IN  /\ n < 0 => f[left + 1] = "-"
      /\ AllIn(SubSeq(f, Len(f) - right + 1, Len(f)), {" "})
      /\ digits # <<>> /\ AllIn(digits, Digit)
      /\ Numeral(digits, base, upcase) = IF n < 0 THEN -n ELSE n
      /\ Len(f) >= d.width
      /\ Len(f) > d.width => left = 0 /\ right = 0 /\ ~zeros
      /\ left > 0 => ~d.ladjust /\ d.padc = " "
      /\ zeros => ~d.ladjust /\ d.padc = "0"
      /\ right > 0 => d.ladjust

IsField(f, d, w) ==
  CASE d.conv \in {"d", "D"} -> IsNumberField(f, d, Signed(w, Bits(d)), 10, FALSE)
    [] d.conv \in {"c", "s"} ->
         LET s == IF d.conv = "c" THEN <<w>> ELSE w
             n == Len(f) - Len(s)
         IN  /\ Len(f) = AtLeast(d.width, Len(s))
             /\ f = IF d.ladjust THEN s \o Blank(n) ELSE Blank(n) \o s
    [] OTHER -> IsNumberField(f, d, Word(w, Bits(d)), Base(d.conv), d.conv = "X")
=============================================================================
