--------------------------------- MODULE IStream ---------------------------------
(***************************************************************************)
(* Extraction from a stream of characters (istream.cpp).  Each operator    *)
(* takes the file f, the stream s and the settings m, and gives what the   *)
(* caller gets and the stream afterwards.  Numbers have Width bits where   *)
(* the code has 32.                                                        *)
(*                                                                         *)
(* A loop calls getch until a character ends it: the calls are numbered,   *)
(* and the loop is given by the first that ends it.  None takes more than  *)
(* one for each byte of the file, and the one that finds no more.          *)
(***************************************************************************)
EXTENDS SdStream

CONSTANTS
  Width,                 \* bits of uint32_t
  EXP_LIMIT,             \* of the digits of a double, and of its exponent
  MaxExponent            \* FLT_MAX is about 10^(MaxExponent + 1), FLT_MIN its inverse

ASSUME StreamAssumption ==
  Width \in 2 .. 30 /\ EXP_LIMIT \in Nat \ {0} /\ MaxExponent \in Nat \ {0}

Word == 2^Width

MINUS == 45
PLUS  == 43
DOT   == 46
Digit == 48 .. 57
Lower == 97 .. 122
Upper == 65 .. 90

\* The first call of getch, from the call i on, that ends a loop.
Until(f, i, Ends(_)) ==
  CHOOSE n \in i .. Len(f.bytes) + 1 : Ends(n) /\ \A k \in i .. n - 1 : ~Ends(k)

\* istream::get: one character.
getOne(f, s) ==
  LET g == getch(f, s)
  IN  [c |-> g.c, gcount |-> IF g.c < 0 THEN 0 ELSE 1,
       s |-> IF g.c < 0 THEN Set(g.s, "fail") ELSE g.s]

\* istream::peek
peek(f, s) ==
  LET g == getch(f, s)
  IN  [c |-> g.c, s |-> IF g.c >= 0 THEN setpos(g.s, s.pos)
                        ELSE IF "bad" \in g.s.st THEN g.s ELSE Set(g.s, "eof")]

FailIfEmpty(r) == [r EXCEPT !.s = IF r.str = <<>> THEN Set(@, "fail") ELSE @]

\* The characters that the calls i to j - 1 have given.
Given(r, i, j) == [n \in 1 .. j - i |-> r[i + n - 1].c]

\* istream::get of up to n - 1 characters, which leaves the delimiter.
getText(f, s, n, delim) ==
  LET r == Reads(f, s)
      k == Until(f, 1, LAMBDA i : i >= n \/ r[i].c < 0 \/ r[i].c = delim)
  IN  FailIfEmpty([str |-> Given(r, 1, k),
                   s |-> IF k < n /\ r[k].c < 0 THEN r[k].s ELSE r[k - 1].s])

\* istream::getline of up to n - 1 characters, which takes the delimiter.
getline(f, s, n, delim) ==
  LET r == Reads(f, s)
      k == Until(f, 1, LAMBDA i : r[i].c < 0 \/ r[i].c = delim \/ i >= n)
      ended  == r[k].c = delim
      gcount == IF ended THEN k ELSE k - 1
      full   == r[k].c >= 0 /\ ~ended
      after  == IF full THEN r[k - 1].s ELSE r[k].s
  IN  [str |-> Given(r, 1, k), gcount |-> gcount,
       s |-> IF full \/ gcount = 0 THEN Set(after, "fail") ELSE after]

\* istream::ignore
ignore(f, s, n, delim) ==
  LET r == Reads(f, s)
  IN  IF n = 0 THEN s
      ELSE r[Until(f, 1, LAMBDA i : i = n \/ r[i].c < 0 \/ r[i].c = delim)].s

\* istream::skipWhite, which is ws.
skipWhite(f, s) ==
  LET r == Reads(f, s)
      k == Until(f, 1, LAMBDA i : r[i].c \notin Spaces)
  IN  setpos(r[k].s, r[k - 1].s.pos)

-------------------------------------------------------------------------------
(* operator>>                                                              *)

\* The call of getch that readSkip ends with.
readSkip(f, s, m) ==
  LET r == Reads(f, s)
  IN  Until(f, 1, LAMBDA i : r[i].c \notin Spaces \/ ~m.skipws)

getChar(f, s, m) ==
  LET g == Reads(f, s)[readSkip(f, s, m)]
  IN  [c |-> g.c, s |-> IF g.c < 0 THEN Set(g.s, "fail") ELSE g.s]

\* The longest word that setw(w) leaves room for.
Longest(w) == IF w = 0 THEN 65534 ELSE w - 1

\* A word: the character that follows the last one that fits has been read as well,
\* and is not put back.
getStr(f, s, m) ==
  LET most == Longest(m.width)
      r == Reads(f, s)
      i == readSkip(f, s, m)
      k == Until(f, i, LAMBDA n : n - i >= most \/ r[n].c < 0 \/ r[n].c \in Spaces)
      ended == k - i < most /\ r[k].c \in Spaces
  IN  FailIfEmpty(IF most = 0 THEN [str |-> <<>>, s |-> s]
                  ELSE [str |-> Given(r, i, k),
                        s |-> IF ended THEN setpos(r[k].s, r[k - 1].s.pos) ELSE r[k].s])

\* The value of a digit, 99 of another character.
DigitOf(c) ==
  CASE c \in Digit -> c - 48
    [] c \in Upper -> c - 65 + 10
    [] c \in Lower -> c - 97 + 10
    [] OTHER -> 99

\* The call after that of a sign, if there is one.
PastSign(r, i) == IF r[i].c \in {MINUS, PLUS} THEN i + 1 ELSE i

\* The value of the first n digits from the call i on.
WordOf(r, i, base) ==
  LET v[n \in Nat] == IF n = 0 THEN 0 ELSE (v[n - 1] * base + DigitOf(r[i + n - 1].c)) % Word
  IN  v

\* The digits from the call i on: the call that ends them, what those before it make, and
\* whether that call is one more digit, which is too much for the cutoff.
ReadDigits(f, r, i, base, cutoff) ==
  LET val == WordOf(r, i, base)
      Over(n) ==
        LET v == val[n - i]
        IN  v > cutoff \div base \/ (v = cutoff \div base /\ DigitOf(r[n].c) > cutoff % base)
      to == Until(f, i, LAMBDA n : DigitOf(r[n].c) >= base \/ Over(n))
  IN  [to |-> to, val |-> val[to - i], over |-> DigitOf(r[to].c) < base]

\* A number whose sign has been read before the call i.
UnsignedWord(f, s, r, i, base, neg, cutoff) ==
  LET zero   == base = 16 /\ r[i].c = 48
      prefix == zero /\ r[i + 1].c \in {88, 120}
      from   == IF prefix THEN i + 2 ELSE IF zero THEN i + 1 ELSE i
      d      == ReadDigits(f, r, from, base, cutoff)
      ok     == ~d.over /\ (d.to > from \/ zero)
      end    == IF d.to > from THEN r[d.to - 1].s.pos ELSE IF zero THEN r[i].s.pos ELSE s.pos
      at     == setpos(r[d.to].s, end)
  IN  [ok |-> ok, over |-> d.over, num |-> IF neg THEN (Word - d.val) % Word ELSE d.val,
       s  |-> IF ok THEN at ELSE Set(at, "fail")]

\* istream::getNumber for values from -negMax to posMax.
getWord(f, s, m, posMax, negMax) ==
  LET r     == Reads(f, s)
      first == readSkip(f, s, m)
      neg   == r[first].c = MINUS
  IN  UnsignedWord(f, s, r, PastSign(r, first), m.base, neg, IF neg THEN negMax ELSE posMax)

\* A type of numbers is [signed, bits].  The bits of a word, read as a value of T.
Cast(T, w) ==
  LET v == w % 2^T.bits
  IN  IF T.signed /\ v >= 2^(T.bits - 1) THEN v - 2^T.bits ELSE v

Highest(T) == IF T.signed THEN 2^(T.bits - 1) - 1 ELSE 2^T.bits - 1

AsType(T, r) == [ok |-> r.ok, over |-> r.over, val |-> Cast(T, r.num), s |-> r.s]

\* Mutant: the least value of a signed type is refused.
getNumberShort(f, s, m, T) == AsType(T, getWord(f, s, m, Highest(T), Highest(T)))

\* The template getNumber<T>.
getNumber(f, s, m, T) ==
  AsType(T, getWord(f, s, m, Highest(T), Highest(T) + IF T.signed THEN 1 ELSE 0))

TrueText  == <<116, 114, 117, 101>>
FalseText == <<102, 97, 108, 115, 101>>

Bool == [signed |-> FALSE, bits |-> 1]

\* A word for TRUE or FALSE, from the call i on; the n-th one from it ends the loop.
BoolWord(r, i) ==
  LET Begins(text, n) == n <= Len(text) /\ Given(r, i, i + n) = SubSeq(text, 1, n)
      Is(n)   == Begins(TrueText, n) /\ n = 4
      Isnt(n) == Begins(FalseText, n) /\ n = 5
      Ends(n) == Is(n) \/ Isnt(n) \/ ~(Begins(TrueText, n) \/ Begins(FalseText, n))
      to == CHOOSE n \in 1 .. 5 : Ends(n) /\ \A k \in 1 .. n - 1 : ~Ends(k)
      ok == Is(to) \/ Isnt(to)
      after == r[i + to - 1].s
  IN  [ok |-> ok, val |-> IF Is(to) THEN 1 ELSE 0, s |-> IF ok THEN after ELSE Set(after, "fail")]

getBool(f, s, m) ==
  IF m.boolalpha THEN BoolWord(Reads(f, s), readSkip(f, s, m)) ELSE getNumber(f, s, m, Bool)

-------------------------------------------------------------------------------
(* Doubles.  The value is frac * 10^exp; its size is that of the first     *)
(* digit, so that a float is between 10^-MaxExponent and 10^MaxExponent.   *)

\* What a digit does to the exponent: one that has no room in frac is left out.
Shift(room, gotDot) == IF room THEN IF gotDot THEN -1 ELSE 0 ELSE IF gotDot THEN 0 ELSE 1

\* The digits with their dot, read by the calls from i on: what n of them make.
Mantissa(r, i) ==
  LET x[n \in Nat] ==
        IF n = 0 THEN [frac |-> 0, fracExp |-> 0, gotDigit |-> FALSE, gotDot |-> FALSE]
        ELSE LET c == r[i + n - 1].c
                 y == x[n - 1]
                 room == y.frac < (Word - 1) \div 10
             IN  IF c \in Digit
                 THEN [y EXCEPT !.gotDigit = TRUE, !.fracExp = @ + Shift(room, y.gotDot),
                                !.frac = IF room THEN @ * 10 + (c - 48) ELSE @]
                 ELSE [y EXCEPT !.gotDot = TRUE]
  IN  x

\* The value of the first n digits of the exponent, from the call i on.
Exponent(r, i) ==
  LET exp[n \in Nat] == IF n = 0 THEN 0 ELSE exp[n - 1] * 10 + (r[i + n - 1].c - 48)
  IN  exp

\* How many digits follow the first one.
Size(frac) ==
  LET q[n \in Nat] == IF n = 0 THEN frac ELSE q[n - 1] \div 10
  IN  CHOOSE n \in 0 .. frac : q[n] < 10 /\ (n > 0 => q[n - 1] >= 10)

\* The bits of exp, an int16_t: the loop multiplies by the power 10^p for each.
PowersIn(exp) == {p \in {2^i : i \in 0 .. 14} : (exp \div p) % 2 = 1}

\* v times or over 10^|exp|, by the powers that add up to it: its size, or why there is
\* none.  pow10 is infinite above MaxExponent, and a zero times infinity is no number.
Scale(zero, size, exp) ==
  LET n == IF exp < 0 THEN -exp ELSE exp
      To(p) == LET done == n % (2 * p) IN IF exp < 0 THEN size - done ELSE size + done
  IN  [ok |-> zero \/ \A p \in PowersIn(n) : /\ p <= MaxExponent
                                            /\ To(p) \in -MaxExponent .. MaxExponent,
       nan |-> zero /\ exp > 0 /\ \E p \in PowersIn(n) : p > MaxExponent]

\* The mantissa from the call i on, the call that ends it, and whether that is still one of
\* its digits.
ReadMantissa(f, r, i) ==
  LET x == Mantissa(r, i)
      Far(n)   == x[n - i].fracExp \notin -EXP_LIMIT .. EXP_LIMIT
      Other(n) == r[n].c \notin Digit /\ (r[n].c # DOT \/ x[n - i].gotDot)
      to == Until(f, i, LAMBDA n : Other(n) \/ Far(n + 1))
  IN  [is |-> x[to - i], to |-> to, far |-> ~Other(to)]

\* The same of the exponent, from its first digit on.
ReadExponent(f, r, i) ==
  LET exp == Exponent(r, i)
      to  == Until(f, i, LAMBDA n : r[n].c \notin Digit \/ exp[n - i] > EXP_LIMIT)
  IN  [is |-> exp[to - i], to |-> to, far |-> r[to].c \in Digit]

\* A double whose sign has been read before the call i.
UnsignedDouble(f, s, r, i, neg) ==
  LET mant  == ReadMantissa(f, r, i)
      e     == ~mant.far /\ mant.is.gotDigit /\ r[mant.to].c \in {69, 101}
      minus == e /\ r[mant.to + 1].c = MINUS
      from  == PastSign(r, mant.to + 1)
      power == IF e THEN ReadExponent(f, r, from) ELSE [is |-> 0, to |-> mant.to, far |-> FALSE]
      exp   == mant.is.fracExp + IF minus THEN -power.is ELSE power.is
      end   == IF e /\ power.to > from THEN r[power.to - 1].s.pos
               ELSE IF mant.to > i THEN r[mant.to - 1].s.pos ELSE s.pos
      v     == Scale(mant.is.frac = 0, Size(mant.is.frac), exp)
      ok    == mant.is.gotDigit /\ ~mant.far /\ ~power.far /\ v.ok
      at    == setpos(r[power.to].s, end)
  IN  [ok |-> ok, neg |-> neg, frac |-> mant.is.frac, exp |-> exp, nan |-> v.nan,
       s |-> IF ok THEN at ELSE Set(at, "fail")]

getDouble(f, s, m) ==
  LET r     == Reads(f, s)
      first == readSkip(f, s, m)
  IN  UnsignedDouble(f, s, r, PastSign(r, first), r[first].c = MINUS)
===============================================================================
