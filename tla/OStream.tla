--------------------------------- MODULE OStream ---------------------------------
(***************************************************************************)
(* Insertion into a stream of characters (ostream.cpp).  Each operator     *)
(* gives the text that the code puts, in order, by putch and putstr.       *)
(***************************************************************************)
EXTENDS IStream

\* do_fill(len), while the width is set.
Fill(m, len) == [i \in 1 .. IF m.width > len THEN m.width - len ELSE 0 |-> m.fill]

\* A text with its fill: fill_not_left before it, do_fill after it.
Field(m, text) ==
  IF m.adjust = "left" THEN text \o Fill(m, Len(text)) ELSE Fill(m, Len(text)) \o text

\* fmtNum: the quotients by the base, until there is none left, give the digits from the
\* last to the first.
fmtNum(n, base, uppercase) ==
  LET q[i \in Nat] == IF i = 0 THEN n ELSE q[i - 1] \div base
      len == CHOOSE k \in 1 .. n + 1 : q[k] = 0 /\ \A i \in 1 .. k - 1 : q[i] # 0
      Char(d) == IF d < 10 THEN 48 + d ELSE IF uppercase THEN 55 + d ELSE 87 + d
  IN  [i \in 1 .. len |-> Char(q[len - i] % base)]

\* putNum(uint32_t, neg): the sign goes before the fill when the adjustment is internal.
putNum(m, n, neg) ==
  LET digits == fmtNum(n, m.base, m.uppercase)
      prefix == CASE m.base = 10 -> IF neg THEN <<MINUS>>
                                    ELSE IF m.showpos THEN <<PLUS>> ELSE <<>>
                  [] m.base = 16 /\ m.showbase -> <<48, IF m.uppercase THEN 88 ELSE 120>>
                  [] m.base = 8 /\ m.showbase -> <<48>>
                  [] OTHER -> <<>>
  IN  IF m.adjust = "internal"
      THEN prefix \o Fill(m, Len(prefix) + Len(digits)) \o digits
      ELSE Field(m, prefix \o digits)

\* A value of the type T: a negative one is a word of its own in bases 8 and 16.
putValue(m, v) ==
  LET neg == v < 0 /\ m.base = 10
  IN  putNum(m, (IF neg THEN -v ELSE v) % Word, neg)

putBool(m, b) ==
  Field(m, IF ~m.boolalpha THEN <<48 + b>> ELSE IF b = 1 THEN TrueText ELSE FalseText)

\* The first nd digits of the fraction x / 1000.
Fraction(x, nd) ==
  LET rest[i \in Nat] == IF i = 0 THEN x ELSE (10 * rest[i - 1]) % 1000
  IN  [i \in 1 .. nd |-> 48 + (10 * rest[i - 1]) \div 1000]

BigText == <<66, 73, 71, 32, 70, 76, 84>>
Big == 4000              \* stands for 4.0E9

\* putDouble of x / 1000, to m.precision digits, which are at most 3.
putDouble(m, x) ==
  LET n     == IF x < 0 THEN -x ELSE x
      sign  == IF x < 0 THEN <<MINUS>> ELSE IF m.showpos THEN <<PLUS>> ELSE <<>>
      r     == n + 500 \div 10^m.precision
      whole == fmtNum(r \div 1000, 10, FALSE)
                 \o IF m.precision > 0 \/ m.showpoint THEN <<DOT>> ELSE <<>>
      digits == whole \o Fraction(r % 1000, m.precision)
  IN  IF n > Big * 1000 THEN Field(m, BigText)
      ELSE IF m.adjust = "internal"
      THEN sign \o Fill(m, Len(sign) + Len(digits)) \o digits
      ELSE Field(m, sign \o digits)
===============================================================================
