----------------------------- MODULE StreamsProofs -----------------------------
(***************************************************************************)
(* What a program reads with a stream is the text of the file, and what it *)
(* puts is there: for every text, every mode, width, delimiter and buffer, *)
(* and any number of statements in any order.                              *)
(*                                                                         *)
(* The argument follows the calls of getch.  The invariant StreamsInv says *)
(* that the stream is at a place where a text can begin (AtStart: between  *)
(* the CR and the LF of an end of line only where the LF cannot be read),  *)
(* and that the text between origin and that place has been taken.  One    *)
(* call of getch then takes the next character of the text (CharStep), n   *)
(* calls take n of them (CharsTaken), and each loop of an extraction is    *)
(* known by the call that ends it (UntilIs), after which the code leaves   *)
(* the stream where one of the calls has come to (MovedIs).                *)
(*                                                                         *)
(* An insertion at the end of the file adds the text that is put to the    *)
(* one that is there (EncodedIs), even after a CR.  Fields that have been  *)
(* written follow each other without a gap and hold the digits of their    *)
(* values (FieldsKept); they come back because fgets stops at the first    *)
(* delimiter.  The flags of an open file are those of its mode (FlagsFit), *)
(* which is why nothing is lost.                                           *)
(***************************************************************************)
EXTENDS Streams, FiniteSetTheorems, SequenceTheorems, WellFoundedInduction, TLAPS

-------------------------------------------------------------------------------
(* Numbers and recursion.                                                  *)

\* Every set of natural numbers that is not empty has a least element.
LEMMA LeastElement ==
  ASSUME NEW T, T \subseteq Nat, T # {}
  PROVE  \E x \in T : \A y \in T : x <= y
<1>1. PICK z \in T : TRUE
      OBVIOUS
<1> DEFINE N == 0 .. z
           U == {0 .. x : x \in T \cap N}
<1>2. IsWellFoundedOn(StrictSubsetOrdering(N), SUBSET N)
  <2>1. IsFiniteSet(N)
        BY FS_Interval
  <2> QED
      BY <2>1, FS_StrictSubsetOrderingWellFounded, FS_FiniteSubsetsOfFinite
<1>3. U \subseteq SUBSET N /\ U # {}
      OBVIOUS
<1>4. PICK X \in U : \A Y \in U : ~(<<Y, X>> \in StrictSubsetOrdering(N))
  <2> HIDE DEF N, U
  <2> QED
      BY <1>2, <1>3, WFMin
<1>5. PICK x \in T \cap N : X = 0 .. x
      BY <1>4
<1>6. ASSUME NEW y \in T, y < x PROVE FALSE
  <2>1. y \in T \cap N /\ 0 .. y \in U
        BY <1>5, <1>6
  <2>2. /\ 0 .. y \subseteq 0 .. x /\ 0 .. y # 0 .. x
        /\ 0 .. y \in SUBSET N /\ 0 .. x \in SUBSET N
    <3>1. x \in 0 .. x /\ x \notin 0 .. y
          BY <1>5, <1>6
    <3> QED
        BY <1>5, <1>6, <3>1
  <2>3. <<0 .. y, 0 .. x>> \in StrictSubsetOrdering(N)
        BY <2>2 DEF StrictSubsetOrdering
  <2> QED
      BY <1>4, <1>5, <2>1, <2>3
<1> QED
    BY <1>5, <1>6

\* The first number from i to j in a set.
LEMMA First ==
  ASSUME NEW T, NEW i \in Nat, NEW j \in Nat, T \cap (i .. j) # {}
  PROVE  \E n \in i .. j : n \in T /\ \A k \in i .. n - 1 : k \notin T
<1>1. PICK x \in T \cap (i .. j) : \A y \in T \cap (i .. j) : x <= y
  <2>1. T \cap (i .. j) \subseteq Nat
        OBVIOUS
  <2> QED
      BY <2>1, LeastElement
<1> QED
    BY <1>1

\* Induction on a set of numbers.
LEMMA NatInduct ==
  ASSUME NEW T, 0 \in T, \A n \in Nat : n \in T => n + 1 \in T
  PROVE  Nat \subseteq T
<1>1. SUFFICES ASSUME Nat \ T # {} PROVE FALSE
      OBVIOUS
<1>2. PICK x \in Nat \ T : \A y \in Nat \ T : x <= y
      BY <1>1, LeastElement
<1>3. x # 0
      BY <1>2
<1>4. x - 1 \in Nat /\ x - 1 \in T
      BY <1>2, <1>3
<1> QED
    BY <1>2, <1>4

\* A function on the numbers that is given by its first value and by its steps, which do
\* not leave the set S.
IsRun(g, S, a, F) ==
  g \in [Nat -> S] /\ \A n \in Nat : g[n] = IF n = 0 THEN a ELSE F[n][g[n - 1]]

\* There is such a function.
LEMMA Recursion ==
  ASSUME NEW S, NEW a \in S, NEW F \in [Nat -> [S -> S]]
  PROVE  \E g : IsRun(g, S, a, F)
<1> DEFINE Part(n, h) == /\ h \in [0 .. n -> S] /\ h[0] = a
                         /\ \A i \in 1 .. n : h[i] = F[i][h[i - 1]]
           T == {n \in Nat : \E h : Part(n, h)}
<1>1. Nat \subseteq T
  <2>1. 0 \in T
    <3>1. Part(0, [i \in 0 .. 0 |-> a])
          OBVIOUS
    <3> QED
        BY <3>1
  <2>2. ASSUME NEW n \in Nat, n \in T PROVE n + 1 \in T
    <3>1. PICK h : Part(n, h)
          BY <2>2
    <3> DEFINE k == [i \in 0 .. n + 1 |-> IF i = n + 1 THEN F[n + 1][h[n]] ELSE h[i]]
    <3>2. h[n] \in S /\ F[n + 1][h[n]] \in S
          BY <3>1
    <3>3. k \in [0 .. n + 1 -> S] /\ k[0] = a
          BY <3>1, <3>2
    <3>4. ASSUME NEW i \in 1 .. n + 1 PROVE k[i] = F[i][k[i - 1]]
      <4>1. CASE i = n + 1
            BY <4>1
      <4>2. CASE i # n + 1
            BY <4>2, <3>1
      <4> QED
          BY <4>1, <4>2
    <3>5. Part(n + 1, k)
          BY <3>3, <3>4
    <3>6. \E l : Part(n + 1, l)
          BY <3>5
    <3> HIDE DEF Part
    <3> QED
        BY <3>6
  <2> HIDE DEF T
  <2> QED
      BY <2>1, <2>2, NatInduct
<1>2. ASSUME NEW n \in Nat, NEW h, NEW l, Part(n, h), Part(n + 1, l)
      PROVE  h[n] = l[n]
  <2> DEFINE U == {i \in Nat : i <= n => h[i] = l[i]}
  <2>1. 0 \in U
        BY <1>2
  <2>2. ASSUME NEW i \in Nat, i \in U PROVE i + 1 \in U
    <3>1. CASE i + 1 <= n
      <4>1. h[i] = l[i] /\ i + 1 \in 1 .. n /\ i + 1 \in 1 .. n + 1 /\ (i + 1) - 1 = i
            BY <2>2, <3>1
      <4> QED
          BY <4>1, <1>2
    <3> QED
        BY <3>1
  <2>3. Nat \subseteq U
    <3> HIDE DEF U
    <3> QED
        BY <2>1, <2>2, NatInduct
  <2> QED
      BY <2>3
<1> DEFINE H(n) == CHOOSE h : Part(n, h)
           g == [n \in Nat |-> H(n)[n]]
<1>3. \A n \in Nat : Part(n, H(n))
      BY <1>1
<1> HIDE DEF H
<1>4. g \in [Nat -> S]
      BY <1>3
<1>5. ASSUME NEW n \in Nat PROVE g[n] = IF n = 0 THEN a ELSE F[n][g[n - 1]]
  <2>1. CASE n = 0
        BY <1>3, <2>1
  <2>2. CASE n # 0
    <3>1. n - 1 \in Nat /\ (n - 1) + 1 = n
          BY <2>2
    <3>2. Part(n, H(n)) /\ Part(n - 1, H(n - 1))
          BY <1>3, <3>1
    <3>3. H(n - 1)[n - 1] = H(n)[n - 1]
      <4>1. Part((n - 1) + 1, H(n))
            BY <3>1, <3>2
      <4> HIDE DEF Part
      <4> QED
          BY ONLY <1>2, <3>1, <3>2, <4>1
    <3> QED
        BY <2>2, <3>1, <3>2, <3>3
  <2> QED
      BY <2>1, <2>2
<1> QED
    BY <1>4, <1>5 DEF IsRun

-------------------------------------------------------------------------------
(* Files, streams and the calls of getch.                                  *)

\* The codes of characters are numbers below 256.
LEMMA CodesAre ==
  /\ \A c \in Codes : c \in Nat /\ c <= 255
  /\ \A c \in Nat : c <= 255 => c \in Codes
BY DEF Codes

FlagBits == {"READ", "WRITE", "APPEND", "TRUNC", "CREAT", "AT_END"}

\* A file, and a stream of it, whose place is in the file.
Files ==
  [bytes : Seq(Codes), mode : SUBSET ModeBits, open : BOOLEAN, exists : BOOLEAN,
   flags : SUBSET FlagBits, broken : {{}, {1}}, dead : BOOLEAN]

StreamsOf(x) ==
  [pos : 0 .. Len(x.bytes), st : SUBSET {"eof", "fail", "bad"}, we : BOOLEAN]

Calls(x) == [c : Codes \cup {-1}, s : StreamsOf(x)]

\* A character of a file is a code.
LEMMA ByteIsCode ==
  ASSUME NEW x \in Files
  PROVE  /\ Len(x.bytes) \in Nat
         /\ \A i \in 1 .. Len(x.bytes) : x.bytes[i] \in Codes
         /\ DOMAIN x.bytes = 1 .. Len(x.bytes)
BY DEF Files

\* One call of getch: a character that is there is taken and the stream moves past it;
\* otherwise the stream stays where it is, and says so.
LEMMA GetchIs ==
  ASSUME NEW x \in Files, NEW y \in StreamsOf(x)
  PROVE  LET g == getch(x, y)
         IN  /\ g \in Calls(x)
             /\ g.s.we = y.we
             /\ g.c < 0 => /\ g.c = -1 /\ ReadByte(x, y.pos) < 0 /\ g.s.pos = y.pos
                           /\ \/ "eof" \in g.s.st /\ y.pos = Len(x.bytes)
                              \/ "bad" \in g.s.st /\ ReadByte(x, y.pos) = Broken
             /\ g.c >= 0 => /\ g.s = [y EXCEPT !.pos = g.s.pos]
                            /\ y.pos < Len(x.bytes) /\ ReadByte(x, y.pos) >= 0
                            /\ \/ /\ g.s.pos = y.pos + 1 /\ g.c = x.bytes[y.pos + 1]
                                  /\ ~(/\ g.c = CR /\ ~Binary(x)
                                       /\ ReadByte(x, y.pos + 1) = LF)
                               \/ /\ g.s.pos = y.pos + 2 /\ g.c = LF
                                  /\ x.bytes[y.pos + 1] = CR /\ ~Binary(x)
                                  /\ y.pos + 1 < Len(x.bytes) /\ x.bytes[y.pos + 2] = LF
                                  /\ ReadByte(x, y.pos + 1) = LF
<1> DEFINE p == y.pos
           b == ReadByte(x, p)
           g == getch(x, y)
           pair == b = CR /\ ~Binary(x) /\ ReadByte(x, p + 1) = LF
<1>1. /\ p \in 0 .. Len(x.bytes) /\ y.st \subseteq {"eof", "fail", "bad"} /\ y.we \in BOOLEAN
      /\ y = [pos |-> p, st |-> y.st, we |-> y.we]
      BY DEF StreamsOf
<1>2. /\ LF \in Codes /\ LF >= 0 /\ LF = 10 /\ CR = 13 /\ End = -1 /\ Broken = -2
      BY CodesAre DEF LF, CR, End, Broken
<1>3. \A q \in Nat : /\ ReadByte(x, q) \in Codes \cup {End, Broken}
                     /\ ReadByte(x, q) >= 0 => q < Len(x.bytes) /\ ReadByte(x, q) = x.bytes[q + 1]
      BY <1>2, ByteIsCode, CodesAre DEF ReadByte
<1>4. b < 0 <=> b \in {End, Broken}
      BY <1>1, <1>2, <1>3, CodesAre
<1>5. CASE b < 0
  <2>1. g = [c |-> -1, s |-> Set(y, IF b = End THEN "eof" ELSE "bad")]
        BY <1>5 DEF getch
  <2>2. b = End => p = Len(x.bytes)
        BY <1>1, <1>2, <1>3, ByteIsCode, CodesAre DEF ReadByte
  <2>3. Set(y, IF b = End THEN "eof" ELSE "bad")
          = [pos |-> p, st |-> y.st \cup {IF b = End THEN "eof" ELSE "bad"}, we |-> y.we]
        BY <1>1 DEF Set
  <2> QED
      BY <1>1, <1>2, <1>4, <1>5, <2>1, <2>2, <2>3 DEF Calls, StreamsOf
<1>6. CASE b >= 0
  <2>1. g = [c |-> IF pair THEN LF ELSE b, s |-> [y EXCEPT !.pos = p + IF pair THEN 2 ELSE 1]]
        BY <1>1, <1>2, <1>3, <1>4, <1>6, CodesAre DEF getch
  <2>2. p < Len(x.bytes) /\ b = x.bytes[p + 1] /\ b \in Codes
        BY <1>1, <1>3, <1>6, ByteIsCode
  <2>3. pair => p + 1 < Len(x.bytes) /\ x.bytes[p + 2] = LF
    <3>1. p + 1 \in Nat /\ (p + 1) + 1 = p + 2
          BY <1>1
    <3> QED
        BY <1>2, <1>3, <3>1
  <2>4. [y EXCEPT !.pos = p + IF pair THEN 2 ELSE 1] \in StreamsOf(x)
        BY <1>1, <2>2, <2>3 DEF StreamsOf
  <2>5. /\ g \in Calls(x) /\ g.c >= 0 /\ g.s.we = y.we
        /\ g.s = [y EXCEPT !.pos = g.s.pos]
        BY <1>1, <1>2, <1>6, <2>1, <2>2, <2>4 DEF Calls
  <2>6. CASE pair
        BY <1>1, <1>2, <1>6, <2>1, <2>2, <2>3, <2>5, <2>6
  <2>7. CASE ~pair
    <3>1. g.c = b /\ g.s.pos = p + 1
          BY <1>1, <2>1, <2>7
    <3>2. ~(g.c = CR /\ ~Binary(x) /\ ReadByte(x, p + 1) = LF)
          BY <3>1, <2>7
    <3>3. ~(g.c < 0)
          BY <1>2, <2>2, <3>1, CodesAre
    <3> QED
        BY <1>6, <2>2, <2>5, <3>1, <3>2, <3>3
  <2> QED
      BY <2>6, <2>7
<1> QED
    BY <1>1, <1>3, <1>4, <1>5, <1>6, CodesAre

\* The calls of getch, one after the other.
LEMMA ReadsAre ==
  ASSUME NEW x \in Files, NEW y \in StreamsOf(x)
  PROVE  /\ Reads(x, y) \in [Nat -> Calls(x)]
         /\ Reads(x, y)[0].s = y
         /\ \A n \in Nat : Reads(x, y)[n + 1] = getch(x, Reads(x, y)[n].s)
<1> DEFINE zero == [c |-> 0, s |-> y]
           C == Calls(x)
           Step == [n \in Nat |-> [z \in C |-> getch(x, z.s)]]
           G(g) == [n \in Nat |-> IF n = 0 THEN zero ELSE getch(x, g[n - 1].s)]
           r == Reads(x, y)
<1>1. zero \in C
      BY CodesAre DEF Calls
<1>2. \A z \in C : getch(x, z.s) \in C
  <2>1. \A z \in C : z.s \in StreamsOf(x)
        BY DEF Calls
  <2> QED
      BY <2>1, GetchIs
<1>3. PICK g : IsRun(g, C, zero, Step)
  <2> HIDE DEF C, zero
  <2>1. Step \in [Nat -> [C -> C]]
        BY <1>2
  <2> HIDE DEF Step
  <2> QED
      BY <1>1, <2>1, Recursion
<1>4. g = G(g)
  <2> HIDE DEF C, zero
  <2>1. ASSUME NEW n \in Nat PROVE g[n] = IF n = 0 THEN zero ELSE getch(x, g[n - 1].s)
    <3>1. CASE n = 0
          BY <1>3, <3>1 DEF IsRun
    <3>2. CASE n # 0
      <4>1. n - 1 \in Nat /\ g[n - 1] \in C
            BY <3>2, <1>3 DEF IsRun
      <4> QED
          BY <1>3, <3>2, <4>1 DEF IsRun
    <3> QED
        BY <3>1, <3>2
  <2> QED
      BY <2>1, <1>3 DEF IsRun
<1>5. r = CHOOSE h : h = G(h)
      BY DEF Reads
<1>6. r = G(r)
      BY <1>4, <1>5
<1> HIDE DEF r
<1>7. r[0] = zero /\ \A n \in Nat : r[n + 1] = getch(x, r[n].s)
  <2>1. \A n \in Nat : r[n] = IF n = 0 THEN zero ELSE getch(x, r[n - 1].s)
        BY <1>6
  <2> QED
      BY <2>1
<1>8. \A n \in Nat : r[n] \in C
  <2> DEFINE T == {n \in Nat : r[n] \in C}
  <2> HIDE DEF C
  <2>1. 0 \in T /\ \A n \in Nat : n \in T => n + 1 \in T
        BY <1>1, <1>2, <1>7
  <2>2. Nat \subseteq T
    <3> HIDE DEF T
    <3> QED
        BY <2>1, NatInduct
  <2> QED
      BY <2>2
<1> QED
    BY <1>6, <1>7, <1>8 DEF r

-------------------------------------------------------------------------------
(* The text of the bytes of a file.                                        *)

\* The last character of a text is replaced.
LEMMA ReplaceLast ==
  ASSUME NEW S, NEW e \in S
  PROVE  /\ \A v \in Seq(S) : /\ [v EXCEPT ![Len(v)] = e] \in Seq(S)
                              /\ Len([v EXCEPT ![Len(v)] = e]) = Len(v)
         /\ \A w \in Seq(S), d \in S :
              [Append(w, d) EXCEPT ![Len(Append(w, d))] = e] = Append(w, e)
<1>1. ASSUME NEW v \in Seq(S)
      PROVE  /\ [v EXCEPT ![Len(v)] = e] \in Seq(S)
             /\ Len([v EXCEPT ![Len(v)] = e]) = Len(v)
  <2>1. CASE v = <<>>
    <3>1. DOMAIN v = {} /\ [v EXCEPT ![Len(v)] = e] = v
          BY <2>1
    <3> QED
        BY <3>1
  <2>2. CASE v # <<>>
        BY <2>2, ExceptSeq, EmptySeq
  <2> QED
      BY <2>1, <2>2
<1>2. ASSUME NEW w \in Seq(S), NEW d \in S
      PROVE  [Append(w, d) EXCEPT ![Len(Append(w, d))] = e] = Append(w, e)
  <2> DEFINE a == Append(w, d)
             b == Append(w, e)
             z == [a EXCEPT ![Len(a)] = e]
  <2>1. /\ a \in Seq(S) /\ b \in Seq(S) /\ Len(a) = Len(w) + 1 /\ Len(b) = Len(w) + 1
        /\ \A i \in 1 .. Len(w) : a[i] = w[i] /\ b[i] = w[i]
        /\ b[Len(w) + 1] = e /\ Len(w) \in Nat
        BY AppendProperties, LenProperties
  <2>2. z \in Seq(S) /\ Len(z) = Len(b) /\ \A i \in 1 .. Len(a) : z[i] = b[i]
    <3> HIDE DEF a, b
    <3>1. Len(a) \in 1 .. Len(a)
          BY <2>1
    <3>2. /\ z \in Seq(S) /\ Len(z) = Len(a)
          /\ \A i \in 1 .. Len(a) : z[i] = IF i = Len(a) THEN e ELSE a[i]
          BY <2>1, <3>1, ExceptSeq
    <3> QED
        BY <2>1, <3>2
  <2> HIDE DEF a, b, z
  <2>3. z = b
        BY <2>1, <2>2, SeqEqual
  <2> QED
      BY <2>3 DEF a, b, z
<1> QED
    BY <1>1, <1>2

\* A byte is an LF that the CR before it, at the place q - 1 > p, goes with.
Joins(x, p, q) == ~Binary(x) /\ q > p /\ x.bytes[q + 1] = LF /\ x.bytes[q] = CR

\* The text from p to q, byte by byte.
LEMMA DecodedIs ==
  ASSUME NEW x \in Files, NEW p \in Nat
  PROVE  /\ \A q \in 0 .. p : Decoded(x, p, q) = <<>>
         /\ \A q \in p .. Len(x.bytes) - 1 :
              Decoded(x, p, q + 1) =
                IF Joins(x, p, q)
                THEN [Decoded(x, p, q) EXCEPT ![Len(Decoded(x, p, q))] = LF]
                ELSE Append(Decoded(x, p, q), x.bytes[q + 1])
         /\ \A q \in 0 .. Len(x.bytes) :
              Decoded(x, p, q) \in Seq(Codes) /\ (q > p => Decoded(x, p, q) # <<>>)
<1> DEFINE B == x.bytes
           C == Codes \cup {B[p + i] : i \in Nat}
           Next1(n, v) == IF ~Binary(x) /\ n > 1 /\ B[p + n] = LF /\ B[p + n - 1] = CR
                          THEN [v EXCEPT ![Len(v)] = LF] ELSE Append(v, B[p + n])
           Step == [n \in Nat |-> [v \in Seq(C) |-> Next1(n, v)]]
           G(g) == [n \in Nat |-> IF n = 0 THEN <<>> ELSE Next1(n, g[n - 1])]
           t == CHOOSE h : h = G(h)
<1>1. \A n \in Nat, v \in Seq(C) : Next1(n, v) \in Seq(C)
  <2>1. \A n \in Nat : B[p + n] \in C
        OBVIOUS
  <2>2. LF \in C
        BY CodesAre DEF LF
  <2> HIDE DEF C, B
  <2>3. \A v \in Seq(C) : [v EXCEPT ![Len(v)] = LF] \in Seq(C)
        BY <2>2, ReplaceLast
  <2> QED
      BY <2>1, <2>3
<1>2. PICK g : IsRun(g, Seq(C), <<>>, Step)
  <2> HIDE DEF C, Next1
  <2>1. Step \in [Nat -> [Seq(C) -> Seq(C)]]
        BY <1>1
  <2>2. <<>> \in Seq(C)
        BY EmptySeq
  <2> HIDE DEF Step
  <2> QED
      BY <2>1, <2>2, Recursion
<1>3. g = G(g)
  <2> HIDE DEF C, Next1
  <2>1. ASSUME NEW n \in Nat PROVE g[n] = IF n = 0 THEN <<>> ELSE Next1(n, g[n - 1])
    <3>1. CASE n = 0
          BY <1>2, <3>1 DEF IsRun
    <3>2. CASE n # 0
      <4>1. n - 1 \in Nat /\ g[n - 1] \in Seq(C)
            BY <3>2, <1>2 DEF IsRun
      <4> QED
          BY <1>2, <3>2, <4>1 DEF IsRun
    <3> QED
        BY <3>1, <3>2
  <2> QED
      BY <2>1, <1>2 DEF IsRun
<1>4. \A q \in Int : Decoded(x, p, q) = IF p >= q THEN <<>> ELSE t[q - p]
      BY DEF Decoded
<1>5. t = G(t)
      BY Zenon, <1>3
<1> HIDE DEF t
<1>6. t[0] = <<>> /\ \A n \in Nat : t[n + 1] = Next1(n + 1, t[n])
  <2> HIDE DEF Next1
  <2>1. \A n \in Nat : t[n] = IF n = 0 THEN <<>> ELSE Next1(n, t[n - 1])
        BY <1>5
  <2>2. \A n \in Nat : n + 1 \in Nat /\ n + 1 # 0 /\ (n + 1) - 1 = n
        OBVIOUS
  <2> QED
      BY <2>1, <2>2
<1>7. \A q \in p .. Len(B) : Decoded(x, p, q) = t[q - p]
      BY <1>4, <1>6, ByteIsCode
<1>8. ASSUME NEW q \in p .. Len(B) - 1
      PROVE  Decoded(x, p, q + 1) =
               IF Joins(x, p, q)
               THEN [Decoded(x, p, q) EXCEPT ![Len(Decoded(x, p, q))] = LF]
               ELSE Append(Decoded(x, p, q), B[q + 1])
  <2> DEFINE n == q - p
  <2>1. n \in Nat /\ p + (n + 1) = q + 1 /\ p + (n + 1) - 1 = q /\ (q + 1) - p = n + 1
        /\ q \in p .. Len(B) /\ q + 1 \in p .. Len(B) /\ (n + 1 > 1 <=> q > p)
    <3>1. Len(B) \in Nat
          BY ByteIsCode
    <3> HIDE DEF B
    <3> QED
        BY <3>1
  <2>2. Decoded(x, p, q) = t[n] /\ Decoded(x, p, q + 1) = t[n + 1]
        BY <1>7, <2>1
  <2>3. t[n + 1] = Next1(n + 1, t[n])
        BY <1>6, <2>1
  <2> HIDE DEF n
  <2> QED
      BY <2>1, <2>2, <2>3 DEF Joins
<1>9. \A n \in Nat : p + n <= Len(B) => t[n] \in Seq(Codes) /\ (n > 0 => t[n] # <<>>)
  <2> DEFINE T == {n \in Nat : p + n <= Len(B) => t[n] \in Seq(Codes) /\ (n > 0 => t[n] # <<>>)}
  <2>1. 0 \in T
    <3>1. t[0] \in Seq(Codes)
          BY <1>6, EmptySeq
    <3> QED
        BY <3>1
  <2>2. ASSUME NEW n \in Nat, n \in T PROVE n + 1 \in T
    <3>1. SUFFICES ASSUME p + (n + 1) <= Len(B)
                   PROVE  t[n + 1] \in Seq(Codes) /\ t[n + 1] # <<>>
          OBVIOUS
    <3>2. /\ t[n] \in Seq(Codes) /\ (n > 0 => t[n] # <<>>)
          /\ B[p + (n + 1)] \in Codes /\ LF \in Codes
          BY <2>2, <3>1, ByteIsCode, CodesAre DEF LF
    <3>3. t[n + 1] = Next1(n + 1, t[n])
          BY <1>6
    <3>4. CASE ~Binary(x) /\ n + 1 > 1 /\ B[p + (n + 1)] = LF /\ B[p + (n + 1) - 1] = CR
      <4>1. t[n] # <<>> /\ Len(t[n]) # 0
            BY <3>2, <3>4, EmptySeq
      <4>2. t[n + 1] = [t[n] EXCEPT ![Len(t[n])] = LF]
            BY <3>3, <3>4
      <4>3. t[n + 1] \in Seq(Codes) /\ Len(t[n + 1]) = Len(t[n])
            BY <3>2, <4>2, ReplaceLast
      <4> QED
          BY <4>1, <4>3, EmptySeq
    <3>5. CASE ~(~Binary(x) /\ n + 1 > 1 /\ B[p + (n + 1)] = LF /\ B[p + (n + 1) - 1] = CR)
      <4>1. t[n + 1] = Append(t[n], B[p + (n + 1)])
            BY <3>3, <3>5
      <4> QED
          BY <3>2, <4>1, AppendProperties
    <3> QED
        BY <3>4, <3>5
  <2>3. Nat \subseteq T
    <3> HIDE DEF T
    <3> QED
        BY <2>1, <2>2, NatInduct
  <2> QED
      BY <2>3
<1>10. ASSUME NEW q \in 0 .. Len(B)
       PROVE  Decoded(x, p, q) \in Seq(Codes) /\ (q > p => Decoded(x, p, q) # <<>>)
  <2>1. CASE q <= p
    <3>1. Decoded(x, p, q) = <<>> /\ ~(q > p)
          BY <1>4, <2>1, ByteIsCode
    <3>2. <<>> \in Seq(Codes)
          BY EmptySeq
    <3> QED
        BY <3>1, <3>2
  <2>2. CASE q > p
    <3>1. q - p \in Nat /\ q - p > 0 /\ p + (q - p) <= Len(B) /\ q \in p .. Len(B)
          BY <2>2, ByteIsCode
    <3> QED
        BY <1>7, <1>9, <3>1
  <2> QED
      BY <2>1, <2>2
<1>11. \A q \in 0 .. p : Decoded(x, p, q) = <<>>
       BY <1>4
<1> QED
    BY <1>8, <1>10, <1>11

\* Two files of one kind that begin with the same bytes begin with the same text.
LEMMA DecodedSame ==
  ASSUME NEW x \in Files, NEW z \in Files, Binary(x) = Binary(z),
         NEW p \in Nat, NEW q \in 0 .. Len(x.bytes), q <= Len(z.bytes),
         \A i \in p + 1 .. q : x.bytes[i] = z.bytes[i]
  PROVE  Decoded(x, p, q) = Decoded(z, p, q)
<1> DEFINE T == {n \in Nat : p + n <= q => Decoded(x, p, p + n) = Decoded(z, p, p + n)}
<1>1. Len(x.bytes) \in Nat /\ Len(z.bytes) \in Nat
      BY ByteIsCode
<1>2. 0 \in T
      BY DecodedIs
<1>3. ASSUME NEW n \in Nat, n \in T PROVE n + 1 \in T
  <2>1. SUFFICES ASSUME p + (n + 1) <= q
                 PROVE  Decoded(x, p, p + (n + 1)) = Decoded(z, p, p + (n + 1))
        OBVIOUS
  <2> DEFINE k == p + n
  <2>2. /\ k \in p .. Len(x.bytes) - 1 /\ k \in p .. Len(z.bytes) - 1 /\ p + (n + 1) = k + 1
        /\ Decoded(x, p, k) = Decoded(z, p, k) /\ x.bytes[k + 1] = z.bytes[k + 1]
        /\ k > p => x.bytes[k] = z.bytes[k]
        BY <1>1, <1>3, <2>1
  <2> HIDE DEF k
  <2>3. Joins(x, p, k) <=> Joins(z, p, k)
        BY <2>2 DEF Joins
  <2>4. Decoded(x, p, k + 1) = Decoded(z, p, k + 1)
    <3>1. CASE Joins(x, p, k)
      <4>1. /\ Decoded(x, p, k + 1) = [Decoded(x, p, k) EXCEPT ![Len(Decoded(x, p, k))] = LF]
            /\ Decoded(z, p, k + 1) = [Decoded(z, p, k) EXCEPT ![Len(Decoded(z, p, k))] = LF]
            BY <2>2, <2>3, <3>1, DecodedIs
      <4> QED
          BY <4>1, <2>2
    <3>2. CASE ~Joins(x, p, k)
      <4>1. /\ Decoded(x, p, k + 1) = Append(Decoded(x, p, k), x.bytes[k + 1])
            /\ Decoded(z, p, k + 1) = Append(Decoded(z, p, k), z.bytes[k + 1])
            BY <2>2, <2>3, <3>2, DecodedIs
      <4> QED
          BY <4>1, <2>2
    <3> QED
        BY <3>1, <3>2
  <2> QED
      BY <2>2, <2>4
<1>4. Nat \subseteq T
  <2> HIDE DEF T
  <2> QED
      BY <1>2, <1>3, NatInduct
<1>5. CASE q <= p
      BY <1>1, <1>5, DecodedIs
<1>6. CASE q > p
  <2>1. q - p \in Nat /\ p + (q - p) = q
        BY <1>6
  <2> QED
      BY <1>4, <2>1
<1> QED
    BY <1>5, <1>6

\* The stream is at p and the text since o has been taken: p is not between the CR and
\* the LF of an end of line, unless the LF cannot be read.
AtStart(x, o, p) ==
  Joins(x, o, p) /\ p < Len(x.bytes) => p \in x.broken \/ "READ" \notin x.flags

\* A call of getch takes the next character of the text.
LEMMA CharStep ==
  ASSUME NEW x \in Files, NEW y \in StreamsOf(x), NEW o \in 0 .. y.pos,
         AtStart(x, o, y.pos), getch(x, y).c >= 0
  PROVE  /\ Decoded(x, o, getch(x, y).s.pos) = Append(Decoded(x, o, y.pos), getch(x, y).c)
         /\ AtStart(x, o, getch(x, y).s.pos)
<1> DEFINE p == y.pos
           g == getch(x, y)
           B == x.bytes
<1>1. p \in 0 .. Len(B) /\ Len(B) \in Nat /\ o \in Nat /\ o <= p
      BY ByteIsCode DEF StreamsOf
<1>2. LF = 10 /\ CR = 13 /\ LF \in Codes /\ CR \in Codes /\ End = -1 /\ Broken = -2
      BY CodesAre DEF LF, CR, End, Broken
<1>3. p < Len(B) /\ ReadByte(x, p) >= 0
      BY GetchIs
<1>4. ~Joins(x, o, p)
  <2>1. ~(p \in x.broken \/ "READ" \notin x.flags)
        BY <1>2, <1>3 DEF ReadByte
  <2> QED
      BY <1>3, <2>1 DEF AtStart
<1>5. /\ p \in o .. Len(B) - 1 /\ p + 1 \in 1 .. Len(B)
      /\ B[p + 1] \in Codes /\ Decoded(x, o, p) \in Seq(Codes)
  <2>1. p \in o .. Len(B) - 1 /\ p + 1 \in 1 .. Len(B)
        BY <1>1, <1>3
  <2>2. B[p + 1] \in Codes
        BY <2>1, ByteIsCode
  <2>3. Decoded(x, o, p) \in Seq(Codes)
        BY <1>1, DecodedIs
  <2> QED
      BY <2>1, <2>2, <2>3
<1>6. Decoded(x, o, p + 1) = Append(Decoded(x, o, p), B[p + 1])
      BY <1>4, <1>5, <1>1, DecodedIs
<1>7. CASE /\ g.s.pos = p + 1 /\ g.c = B[p + 1]
           /\ ~(g.c = CR /\ ~Binary(x) /\ ReadByte(x, p + 1) = LF)
  <2>1. ASSUME Joins(x, o, p + 1), p + 1 < Len(B), p + 1 \notin x.broken, "READ" \in x.flags
        PROVE FALSE
    <3>1. B[p + 1] = CR /\ B[(p + 1) + 1] = LF /\ ~Binary(x)
          BY <2>1 DEF Joins
    <3>2. ReadByte(x, p + 1) = B[(p + 1) + 1]
          BY <1>1, <2>1 DEF ReadByte
    <3> QED
        BY <1>7, <3>1, <3>2
  <2>2. AtStart(x, o, p + 1)
        BY <2>1 DEF AtStart
  <2> QED
      BY <1>6, <1>7, <2>2
<1>8. CASE /\ g.s.pos = p + 2 /\ g.c = LF /\ B[p + 1] = CR /\ ~Binary(x)
           /\ p + 1 < Len(B) /\ B[p + 2] = LF
  <2>1. p + 1 \in o .. Len(B) - 1 /\ (p + 1) + 1 = p + 2 /\ p + 1 > o
        BY <1>1, <1>8
  <2>2. Joins(x, o, p + 1)
        BY <1>8, <2>1 DEF Joins
  <2>3. Decoded(x, o, p + 2)
          = [Decoded(x, o, p + 1) EXCEPT ![Len(Decoded(x, o, p + 1))] = LF]
        BY <1>1, <2>1, <2>2, DecodedIs
  <2>4. Decoded(x, o, p + 2) = Append(Decoded(x, o, p), LF)
        BY <1>2, <1>5, <1>6, <2>3, ReplaceLast
  <2>5. AtStart(x, o, p + 2)
        BY <1>2, <1>8 DEF AtStart, Joins
  <2> QED
      BY <1>8, <2>4, <2>5
<1> QED
    BY <1>7, <1>8, GetchIs

\* A function on 1 .. n is a sequence.
LEMMA FunIsSeq ==
  ASSUME NEW S, NEW n \in Nat, NEW v \in [1 .. n -> S]
  PROVE  v \in Seq(S) /\ Len(v) = n
OBVIOUS

\* The characters that the calls from i on have given.
LEMMA GivenIs ==
  ASSUME NEW x \in Files, NEW y \in StreamsOf(x), NEW i \in Nat, NEW j \in Nat, i <= j,
         \A h \in i .. j - 1 : Reads(x, y)[h].c >= 0
  PROVE  LET r == Reads(x, y)
         IN  /\ Given(r, i, j) \in Seq(Codes) /\ Len(Given(r, i, j)) = j - i
             /\ \A n \in 1 .. j - i : Given(r, i, j)[n] = r[i + n - 1].c
<1> DEFINE r == Reads(x, y)
<1>1. ASSUME NEW n \in 1 .. j - i PROVE r[i + n - 1].c \in Codes
  <2>1. i + n - 1 \in i .. j - 1
        OBVIOUS
  <2>2. r[i + n - 1] \in Calls(x) /\ r[i + n - 1].c >= 0
        BY <2>1, ReadsAre
  <2> QED
      BY <2>2 DEF Calls
<1> HIDE DEF r
<1>2. j - i \in Nat /\ Given(r, i, j) = [n \in 1 .. j - i |-> r[i + n - 1].c]
      BY DEF Given
<1>3. Given(r, i, j) \in [1 .. j - i -> Codes]
      BY <1>1, <1>2
<1>4. Given(r, i, j) \in Seq(Codes)
      BY <1>2, <1>3, FunIsSeq
<1> QED
    BY <1>1, <1>2, <1>3, <1>4, LenProperties DEF r

\* One more call gives one more character.
LEMMA GivenAppend ==
  ASSUME NEW x \in Files, NEW y \in StreamsOf(x), NEW i \in Nat, NEW j \in Nat, i <= j,
         \A h \in i .. j : Reads(x, y)[h].c >= 0
  PROVE  Given(Reads(x, y), i, j + 1) = Append(Given(Reads(x, y), i, j), Reads(x, y)[j].c)
<1> DEFINE r == Reads(x, y)
           a == Given(r, i, j)
           b == Given(r, i, j + 1)
<1>1. /\ a \in Seq(Codes) /\ Len(a) = j - i /\ \A n \in 1 .. j - i : a[n] = r[i + n - 1].c
      BY GivenIs
<1>2. /\ b \in Seq(Codes) /\ Len(b) = j + 1 - i
      /\ \A n \in 1 .. j + 1 - i : b[n] = r[i + n - 1].c
      BY GivenIs
<1>3. r[j].c \in Codes
  <2>1. r[j] \in Calls(x) /\ r[j].c >= 0
        BY ReadsAre
  <2> QED
      BY <2>1 DEF Calls
<1>4. Append(a, r[j].c) \in Seq(Codes) /\ Len(Append(a, r[j].c)) = j + 1 - i
      BY <1>1, <1>3, AppendProperties
<1>5. ASSUME NEW n \in 1 .. j + 1 - i PROVE b[n] = Append(a, r[j].c)[n]
  <2>1. CASE n <= j - i
    <3>1. n \in 1 .. j - i /\ n \in 1 .. Len(a)
          BY <1>1, <2>1
    <3>2. Append(a, r[j].c)[n] = a[n]
          BY <1>1, <1>3, <3>1, AppendProperties
    <3> QED
        BY <1>1, <1>2, <3>1, <3>2
  <2>2. CASE n > j - i
    <3>1. n = Len(a) + 1 /\ i + n - 1 = j
          BY <1>1, <2>2
    <3>2. Append(a, r[j].c)[n] = r[j].c
          BY <1>1, <1>3, <3>1, AppendProperties
    <3> QED
        BY <1>2, <3>1, <3>2
  <2>3. n <= j - i \/ n > j - i
        OBVIOUS
  <2> QED
      BY <2>1, <2>2, <2>3
<1> HIDE DEF a, b, r
<1> QED
    BY <1>2, <1>4, <1>5, SeqEqual DEF a, b, r

\* What the calls from i to j give is what they give up to k, and from k on.
LEMMA GivenConcat ==
  ASSUME NEW x \in Files, NEW y \in StreamsOf(x),
         NEW i \in Nat, NEW k \in Nat, NEW j \in Nat, i <= k, k <= j,
         \A h \in i .. j - 1 : Reads(x, y)[h].c >= 0
  PROVE  Given(Reads(x, y), i, j) = Given(Reads(x, y), i, k) \o Given(Reads(x, y), k, j)
<1> DEFINE r == Reads(x, y)
           a == Given(r, i, k)
           b == Given(r, k, j)
           c == Given(r, i, j)
<1>1. /\ a \in Seq(Codes) /\ Len(a) = k - i /\ \A n \in 1 .. k - i : a[n] = r[i + n - 1].c
  <2>1. \A h \in i .. k - 1 : r[h].c >= 0
        OBVIOUS
  <2> QED
      BY <2>1, GivenIs
<1>2. /\ b \in Seq(Codes) /\ Len(b) = j - k /\ \A n \in 1 .. j - k : b[n] = r[k + n - 1].c
  <2>1. \A h \in k .. j - 1 : r[h].c >= 0
        OBVIOUS
  <2> QED
      BY <2>1, GivenIs
<1>3. /\ c \in Seq(Codes) /\ Len(c) = j - i /\ \A n \in 1 .. j - i : c[n] = r[i + n - 1].c
      BY GivenIs
<1> HIDE DEF a, b, c, r
<1>4. /\ a \o b \in Seq(Codes) /\ Len(a \o b) = j - i
      /\ \A n \in 1 .. j - i : (a \o b)[n] = IF n <= k - i THEN a[n] ELSE b[n - (k - i)]
      BY SMTT(30), <1>1, <1>2, ConcatProperties
<1>5. ASSUME NEW n \in 1 .. j - i PROVE c[n] = (a \o b)[n]
  <2>1. CASE n <= k - i
        BY <1>1, <1>3, <1>4, <2>1
  <2>2. CASE n > k - i
    <3>1. n - (k - i) \in 1 .. j - k /\ k + (n - (k - i)) - 1 = i + n - 1
          BY <2>2
    <3> QED
        BY <1>2, <1>3, <1>4, <2>2, <3>1
  <2>3. n <= k - i \/ n > k - i
        OBVIOUS
  <2> QED
      BY <2>1, <2>2, <2>3
<1>6. c = a \o b
      BY <1>3, <1>4, <1>5, SeqEqual
<1> QED
    BY <1>6 DEF a, b, c, r

\* The first n calls have taken the text up to where they have come, character by
\* character, and nothing but the place of the stream has changed.
Taken(x, o, y, r, n) ==
  /\ Decoded(x, o, r[n].s.pos) = Decoded(x, o, y.pos) \o Given(r, 1, n + 1)
  /\ AtStart(x, o, r[n].s.pos)
  /\ r[n].s = [y EXCEPT !.pos = r[n].s.pos]
  /\ r[n].s.pos \in y.pos + n .. Len(x.bytes)
  /\ \A i \in y.pos .. r[n].s.pos - 1 : ReadByte(x, i) >= 0

\* They have, if each has given a character.
LEMMA CharsTaken ==
  ASSUME NEW x \in Files, NEW y \in StreamsOf(x), NEW o \in 0 .. y.pos,
         AtStart(x, o, y.pos), NEW n \in Nat,
         \A i \in 1 .. n : Reads(x, y)[i].c >= 0
  PROVE  Taken(x, o, y, Reads(x, y), n)
<1> DEFINE r == Reads(x, y)
           Ok(k) == \A i \in 1 .. k : r[i].c >= 0
           D(k) == Decoded(x, o, r[k].s.pos) = Decoded(x, o, y.pos) \o Given(r, 1, k + 1)
           Took(k) == /\ D(k)
                      /\ AtStart(x, o, r[k].s.pos)
                      /\ r[k].s = [y EXCEPT !.pos = r[k].s.pos]
                      /\ r[k].s.pos \in y.pos + k .. Len(x.bytes)
                      /\ \A i \in y.pos .. r[k].s.pos - 1 : ReadByte(x, i) >= 0
           T == {k \in Nat : Ok(k) => Took(k)}
<1>1. /\ y = [pos |-> y.pos, st |-> y.st, we |-> y.we]
      /\ y.pos \in 0 .. Len(x.bytes) /\ Len(x.bytes) \in Nat
      BY ByteIsCode DEF StreamsOf
<1>2. 0 \in T
  <2>1. r[0].s = y
        BY ReadsAre
  <2>2. Given(r, 1, 1) = <<>>
    <3>1. Given(r, 1, 1) = [k \in 1 .. 0 |-> r[1 + k - 1].c]
          BY DEF Given
    <3> HIDE DEF r
    <3> QED
        BY <3>1
  <2>3. Decoded(x, o, y.pos) \in Seq(Codes)
        BY <1>1, DecodedIs
  <2>4. D(0)
        BY <2>1, <2>2, <2>3, ConcatEmptySeq
  <2> HIDE DEF r, D
  <2>5. Took(0)
        BY <1>1, <2>1, <2>4
  <2> QED
      BY <2>5
<1>3. ASSUME NEW k \in Nat, k \in T PROVE k + 1 \in T
  <2>1. SUFFICES ASSUME Ok(k + 1) PROVE Took(k + 1)
        OBVIOUS
  <2>2. Took(k) /\ r[k + 1].c >= 0
        BY <1>3, <2>1
  <2>3. r[k].s \in StreamsOf(x) /\ r[k + 1] = getch(x, r[k].s)
    <3>1. r[k] \in Calls(x)
          BY ReadsAre
    <3> QED
        BY <3>1, ReadsAre DEF Calls
  <2> HIDE DEF r
  <2>4. o \in 0 .. r[k].s.pos
        BY <1>1, <2>2
  <2>5. /\ Decoded(x, o, r[k + 1].s.pos) = Append(Decoded(x, o, r[k].s.pos), r[k + 1].c)
        /\ AtStart(x, o, r[k + 1].s.pos)
        BY <2>2, <2>3, <2>4, CharStep
  <2>6. /\ r[k + 1].s = [r[k].s EXCEPT !.pos = r[k + 1].s.pos]
        /\ r[k + 1].s.pos \in {r[k].s.pos + 1, r[k].s.pos + 2}
        /\ ReadByte(x, r[k].s.pos) >= 0
        /\ r[k + 1].s.pos = r[k].s.pos + 2 => ReadByte(x, r[k].s.pos + 1) = LF
        /\ r[k + 1].s.pos <= Len(x.bytes)
        BY SMTT(30), <2>2, <2>3, GetchIs
  <2>7. D(k + 1)
    <3>1. Given(r, 1, (k + 1) + 1) = Append(Given(r, 1, k + 1), r[k + 1].c)
      <4>1. \A i \in 1 .. k + 1 : r[i].c >= 0
            BY <2>1
      <4> QED
          BY <4>1, GivenAppend DEF r
    <3>2. /\ Given(r, 1, k + 1) \in Seq(Codes) /\ r[k + 1].c \in Codes
          /\ Decoded(x, o, y.pos) \in Seq(Codes)
      <4>1. \A i \in 1 .. (k + 1) - 1 : r[i].c >= 0
            BY <2>1
      <4>2. 1 \in Nat /\ k + 1 \in Nat /\ 1 <= k + 1
            OBVIOUS
      <4>3. Given(r, 1, k + 1) \in Seq(Codes)
            BY <4>1, <4>2, GivenIs DEF r
      <4>4. r[k + 1] \in Calls(x) /\ r[k + 1].c >= 0
            BY <2>2, ReadsAre DEF r
      <4> QED
          BY <1>1, <4>3, <4>4, DecodedIs DEF Calls
    <3>3. \A u, v \in Seq(Codes), d \in Codes : Append(u \o v, d) = u \o Append(v, d)
          OBVIOUS
    <3> QED
        BY ZenonT(60), <2>2, <2>5, <3>1, <3>2, <3>3
  <2> HIDE DEF D
  <2>8. r[k + 1].s = [y EXCEPT !.pos = r[k + 1].s.pos]
        BY <1>1, <2>2, <2>6
  <2>9. \A i \in y.pos .. r[k + 1].s.pos - 1 : ReadByte(x, i) >= 0
    <3>1. \A i \in y.pos .. r[k + 1].s.pos - 1 :
            i \in y.pos .. r[k].s.pos - 1 \/ i = r[k].s.pos
              \/ (i = r[k].s.pos + 1 /\ r[k + 1].s.pos = r[k].s.pos + 2)
          BY SMTT(30), <1>1, <2>2, <2>6
    <3>2. LF >= 0
          BY DEF LF
    <3> QED
        BY <2>2, <2>6, <3>1, <3>2
  <2>10. r[k + 1].s.pos \in y.pos + (k + 1) .. Len(x.bytes)
         BY SMTT(30), <1>1, <2>2, <2>6
  <2> QED
      BY <2>5, <2>7, <2>8, <2>9, <2>10
<1>4. Nat \subseteq T
  <2> HIDE DEF T
  <2> QED
      BY <1>2, <1>3, NatInduct
<1> QED
    BY <1>4 DEF Taken

\* n is the first number of E from i to j.
FirstIn(E, i, j, n) == n \in i .. j /\ n \in E /\ \A k \in i .. n - 1 : k \notin E

\* The calls before the n-th have given a character.
AllGive(x, y, n) == \A h \in 1 .. n - 1 : Reads(x, y)[h].c >= 0

\* The calls that give none are in E.
EndsWithAll(x, y, E) == \A h \in Nat : h >= 1 /\ Reads(x, y)[h].c < 0 => h \in E

\* Calls of which the first i - 1 give a character come to one in E: what Until looks for.
LEMMA UntilIs ==
  ASSUME NEW x \in Files, NEW y \in StreamsOf(x), NEW i \in Nat \ {0}, AllGive(x, y, i),
         NEW E, EndsWithAll(x, y, E)
  PROVE  /\ \E n : FirstIn(E, i, Len(x.bytes) + 1, n)
         /\ \A n : FirstIn(E, i, Len(x.bytes) + 1, n) => n \in Nat \ {0} /\ AllGive(x, y, n)
<1> DEFINE r == Reads(x, y)
           L == Len(x.bytes)
<1>1. L \in Nat /\ y.pos \in 0 .. L
      BY ByteIsCode DEF StreamsOf
<1>2. \A n \in Nat : r[n].c \in Int
  <2>1. \A n \in Nat : r[n] \in Calls(x)
        BY ReadsAre
  <2> QED
      BY <2>1, CodesAre DEF Calls
<1>3. PICK n \in 1 .. L + 1 : r[n].c < 0
  <2>1. SUFFICES ASSUME \A n \in 1 .. L + 1 : r[n].c >= 0 PROVE FALSE
        BY <1>1, <1>2
  <2>2. y.pos \in 0 .. y.pos /\ AtStart(x, y.pos, y.pos)
        BY <1>1 DEF AtStart, Joins
  <2>3. r[L + 1].s.pos \in y.pos + (L + 1) .. L
    <3>1. L + 1 \in Nat
          BY <1>1
    <3>2. Taken(x, y.pos, y, r, L + 1)
          BY <2>1, <2>2, <3>1, CharsTaken
    <3> QED
        BY <3>2 DEF Taken
  <2> QED
      BY <1>1, <2>3
<1>4. n >= i
  <2>1. SUFFICES ASSUME n < i PROVE FALSE
        OBVIOUS
  <2>2. n \in 1 .. i - 1
        BY <2>1
  <2> QED
      BY <1>2, <1>3, <2>2 DEF AllGive
<1>5. \E k : FirstIn(E, i, L + 1, k)
  <2>1. n \in E \cap (i .. L + 1)
        BY <1>1, <1>3, <1>4 DEF EndsWithAll
  <2>2. i \in Nat /\ L + 1 \in Nat /\ E \cap (i .. L + 1) # {}
        BY <1>1, <2>1
  <2> HIDE DEF L
  <2> QED
      BY <2>2, First DEF FirstIn
<1>6. ASSUME NEW k, FirstIn(E, i, L + 1, k)
      PROVE  k \in Nat \ {0} /\ AllGive(x, y, k)
  <2>1. k \in i .. L + 1 /\ k \in Nat \ {0}
        BY <1>1, <1>6 DEF FirstIn
  <2>2. ASSUME NEW h \in 1 .. k - 1 PROVE r[h].c >= 0
    <3>1. CASE h < i
      <4>1. h \in 1 .. i - 1
            BY <3>1
      <4> QED
          BY <4>1 DEF AllGive
    <3>2. CASE h >= i
      <4>1. h \in i .. k - 1 /\ h \in Nat /\ h >= 1
            BY <3>2
      <4>2. ~(r[h].c < 0)
            BY <1>6, <4>1 DEF FirstIn, EndsWithAll
      <4> QED
          BY <1>2, <4>1, <4>2
    <3>3. h < i \/ h >= i
          BY <2>1
    <3> QED
        BY <3>1, <3>2, <3>3
  <2> QED
      BY <2>1, <2>2 DEF AllGive
<1> QED
    BY <1>5, <1>6

\* What the calls before the n-th have given.
LEMMA GivenFirst ==
  ASSUME NEW x \in Files, NEW y \in StreamsOf(x), NEW n \in Nat \ {0}, AllGive(x, y, n)
  PROVE  /\ Given(Reads(x, y), 1, n) \in Seq(Codes) /\ Len(Given(Reads(x, y), 1, n)) = n - 1
         /\ \A k \in 1 .. n - 1 : Given(Reads(x, y), 1, n)[k] = Reads(x, y)[k].c
         /\ Reads(x, y)[n].c >= 0 =>
              /\ AllGive(x, y, n + 1)
              /\ Given(Reads(x, y), 1, n + 1) = Append(Given(Reads(x, y), 1, n), Reads(x, y)[n].c)
<1> DEFINE r == Reads(x, y)
           t == Given(r, 1, n)
<1>1. 1 \in Nat /\ n \in Nat /\ 1 <= n /\ \A h \in 1 .. n - 1 : r[h].c >= 0
      BY DEF AllGive
<1>2. t \in Seq(Codes) /\ Len(t) = n - 1 /\ \A k \in 1 .. n - 1 : t[k] = r[1 + k - 1].c
      BY <1>1, GivenIs
<1>3. \A k \in 1 .. n - 1 : t[k] = r[k].c
  <2>1. \A k \in 1 .. n - 1 : 1 + k - 1 = k
        OBVIOUS
  <2> HIDE DEF t, r
  <2> QED
      BY <1>2, <2>1
<1>4. ASSUME r[n].c >= 0
      PROVE  AllGive(x, y, n + 1) /\ Given(r, 1, n + 1) = Append(t, r[n].c)
  <2>1. \A h \in 1 .. n : r[h].c >= 0
    <3>1. \A h \in 1 .. n : h \in 1 .. n - 1 \/ h = n
          OBVIOUS
    <3> QED
        BY <1>1, <1>4, <3>1
  <2>2. Given(r, 1, n + 1) = Append(t, r[n].c)
        BY <1>1, <2>1, GivenAppend
  <2>3. (n + 1) - 1 = n
        OBVIOUS
  <2> QED
      BY <2>1, <2>2, <2>3 DEF AllGive
<1> QED
    BY <1>2, <1>3, <1>4

\* The stream y has gone on to z, and the text between the two places is t.
Moved(x, o, y, z, t) ==
  /\ z \in StreamsOf(x) /\ y.pos <= z.pos /\ o \in 0 .. z.pos /\ t \in Seq(Codes)
  /\ Decoded(x, o, z.pos) = Decoded(x, o, y.pos) \o t
  /\ AtStart(x, o, z.pos)

\* A stream that is left where the n-th call has come to has taken what was given.
LEMMA MovedIs ==
  ASSUME NEW x \in Files, NEW y \in StreamsOf(x), NEW o \in 0 .. y.pos,
         AtStart(x, o, y.pos), NEW n \in Nat \ {0}, AllGive(x, y, n),
         NEW z \in StreamsOf(x), z.pos = Reads(x, y)[n - 1].s.pos
  PROVE  Moved(x, o, y, z, Given(Reads(x, y), 1, n))
<1> DEFINE r == Reads(x, y)
<1>1. n - 1 \in Nat /\ (n - 1) + 1 = n /\ \A i \in 1 .. n - 1 : r[i].c >= 0
      BY DEF AllGive
<1>2. Taken(x, o, y, r, n - 1)
      BY <1>1, CharsTaken
<1>3. /\ Decoded(x, o, z.pos) = Decoded(x, o, y.pos) \o Given(r, 1, n)
      /\ AtStart(x, o, z.pos)
      /\ z.pos \in y.pos + (n - 1) .. Len(x.bytes)
      BY <1>1, <1>2 DEF Taken
<1>4. Given(r, 1, n) \in Seq(Codes)
      BY GivenFirst
<1>5. y.pos \in Nat
      BY DEF StreamsOf
<1>6. y.pos <= z.pos /\ o \in 0 .. z.pos
      BY <1>1, <1>3, <1>5
<1> HIDE DEF r
<1> QED
    BY <1>3, <1>4, <1>6 DEF Moved, r

\* A stream that is left where it was.
LEMMA MovedNot ==
  ASSUME NEW x \in Files, NEW y \in StreamsOf(x), NEW o \in 0 .. y.pos,
         AtStart(x, o, y.pos), NEW z \in StreamsOf(x), z.pos = y.pos
  PROVE  Moved(x, o, y, z, <<>>)
<1>1. o \in Nat /\ y.pos \in 0 .. Len(x.bytes)
      BY DEF StreamsOf
<1>2. Decoded(x, o, y.pos) \in Seq(Codes)
      BY <1>1, DecodedIs
<1>3. y.pos <= z.pos
      BY <1>1
<1> QED
    BY <1>2, <1>3, ConcatEmptySeq, EmptySeq DEF Moved

-------------------------------------------------------------------------------
(* What is ahead of the stream, and its spaces.                            *)

\* The calls give what is ahead, up to the first that gives nothing.
LEMMA AheadIs ==
  ASSUME f \in Files, NEW y \in StreamsOf(f)
  PROVE  \E n \in 1 .. Len(f.bytes) + 1 :
           /\ Reads(f, y)[n].c < 0 /\ \A h \in 1 .. n - 1 : Reads(f, y)[h].c >= 0
           /\ Ahead(y.pos) = Given(Reads(f, y), 1, n)
<1> DEFINE r == Reads(f, y)
           L == Len(f.bytes)
           p == y.pos
           E == {n \in Nat : r[n].c < 0}
<1>1. L \in Nat /\ p \in 0 .. L
      BY ByteIsCode DEF StreamsOf
<1>2. PICK n \in 1 .. L + 1 : n \in E /\ \A h \in 1 .. n - 1 : r[h].c >= 0
  <2>1. 1 \in Nat \ {0} /\ AllGive(f, y, 1) /\ EndsWithAll(f, y, E)
        BY DEF AllGive, EndsWithAll
  <2> HIDE DEF E
  <2>2. PICK n : FirstIn(E, 1, Len(f.bytes) + 1, n)
        BY <2>1, UntilIs
  <2>3. AllGive(f, y, n)
        BY <2>1, <2>2, UntilIs
  <2> QED
      BY <2>2, <2>3 DEF FirstIn, AllGive
<1> DEFINE q == r[n - 1].s.pos
<1>3. n - 1 \in Nat /\ r[n - 1].s \in StreamsOf(f) /\ r[n] = getch(f, r[n - 1].s)
  <2>1. n - 1 \in Nat /\ n = (n - 1) + 1
        BY <1>2
  <2>2. r[n - 1] \in Calls(f) /\ r[(n - 1) + 1] = getch(f, r[n - 1].s)
        BY <2>1, ReadsAre
  <2> QED
      BY <2>1, <2>2 DEF Calls
<1>4. Taken(f, p, y, r, n - 1)
  <2>1. p \in 0 .. p /\ AtStart(f, p, p)
        BY <1>1 DEF AtStart, Joins
  <2> QED
      BY <1>2, <1>3, <2>1, CharsTaken
<1>5. ReadByte(f, q) < 0
      BY <1>2, <1>3, GetchIs
<1>6. /\ Decoded(f, p, q) = Decoded(f, p, p) \o Given(r, 1, (n - 1) + 1)
      /\ q \in p + (n - 1) .. L /\ \A i \in p .. q - 1 : ReadByte(f, i) >= 0
      BY <1>4 DEF Taken
<1>7. Given(r, 1, n) \in Seq(Codes)
      BY <1>2, GivenIs
<1>8. Decoded(f, p, p) = <<>>
      BY <1>1, DecodedIs
<1> HIDE DEF r, q, p, L, E
<1>9. Ahead(p) = Decoded(f, p, q)
  <2> DEFINE IsEnd(k) == ReadByte(f, k) < 0 /\ \A i \in p .. k - 1 : ReadByte(f, i) >= 0
  <2>1. q \in p .. L /\ IsEnd(q) /\ p \in Nat
        BY <1>1, <1>3, <1>5, <1>6
  <2>2. ASSUME NEW k \in p .. L, IsEnd(k) PROVE k = q
    <3>1. \A i \in p .. L : ReadByte(f, i) \in Int
      <4>1. \A i \in Nat : ReadByte(f, i) \in Codes \cup {-1, -2}
            BY ByteIsCode DEF ReadByte, End, Broken
      <4> QED
          BY <1>1, <4>1, CodesAre
    <3>2. ~(k < q)
      <4>1. SUFFICES ASSUME k < q PROVE FALSE
            OBVIOUS
      <4>2. k \in p .. q - 1
            BY <1>1, <2>1, <4>1
      <4> QED
          BY <1>1, <2>1, <2>2, <3>1, <4>2
    <3>3. ~(q < k)
      <4>1. SUFFICES ASSUME q < k PROVE FALSE
            OBVIOUS
      <4>2. q \in p .. k - 1
            BY <1>1, <2>1, <4>1
      <4> QED
          BY <1>1, <2>1, <2>2, <3>1, <4>2
    <3> QED
        BY <1>1, <2>1, <3>2, <3>3
  <2>3. (CHOOSE k \in p .. L : IsEnd(k)) = q
    <3> HIDE DEF IsEnd
    <3> QED
        BY <2>1, <2>2
  <2> QED
      BY <2>3 DEF Ahead, L
<1>10. Ahead(p) = Given(r, 1, n)
  <2>1. (n - 1) + 1 = n
        BY <1>2
  <2> QED
      BY <1>6, <1>7, <1>8, <1>9, <2>1, ConcatEmptySeq
<1> QED
    BY <1>2, <1>10 DEF r, p, L, E

\* The beginning of a text before the first character that is not in a set.
LEMMA LeadingIs ==
  ASSUME NEW t \in Seq(Codes), NEW chars, NEW n \in 0 .. Len(t),
         n < Len(t) => t[n + 1] \notin chars,
         \A i \in 1 .. n : t[i] \in chars
  PROVE  Leading(t, chars) = SubSeq(t, 1, n)
<1> DEFINE Is(k) == (k < Len(t) => t[k + 1] \notin chars) /\ \A i \in 1 .. k : t[i] \in chars
<1>1. Is(n)
      OBVIOUS
<1>2. ASSUME NEW k \in 0 .. Len(t), Is(k) PROVE k = n
  <2>1. Len(t) \in Nat
        OBVIOUS
  <2>2. ~(k < n)
    <3>1. SUFFICES ASSUME k < n PROVE FALSE
          OBVIOUS
    <3>2. k + 1 \in 1 .. n /\ k < Len(t)
          BY <2>1, <3>1
    <3> QED
        BY <1>1, <1>2, <3>2
  <2>3. ~(n < k)
    <3>1. SUFFICES ASSUME n < k PROVE FALSE
          OBVIOUS
    <3>2. n + 1 \in 1 .. k /\ n < Len(t)
          BY <2>1, <3>1
    <3> QED
        BY <1>1, <1>2, <3>2
  <2> QED
      BY <2>1, <2>2, <2>3
<1>3. (CHOOSE k \in 0 .. Len(t) : Is(k)) = n
  <2> HIDE DEF Is
  <2> QED
      BY <1>1, <1>2
<1> QED
    BY <1>3 DEF Leading

\* The spaces ahead are given by the calls before the first that gives no space.
LEMMA SpacesAre ==
  ASSUME f \in Files, NEW y \in StreamsOf(f), NEW i \in Nat \ {0},
         Reads(f, y)[i].c \notin Spaces, \A h \in 1 .. i - 1 : Reads(f, y)[h].c \in Spaces
  PROVE  Leading(Ahead(y.pos), Spaces) = Given(Reads(f, y), 1, i)
<1> DEFINE r == Reads(f, y)
<1>1. PICK n \in 1 .. Len(f.bytes) + 1 :
        /\ r[n].c < 0 /\ \A h \in 1 .. n - 1 : r[h].c >= 0
        /\ Ahead(y.pos) = Given(r, 1, n)
      BY AheadIs
<1>2. \A c \in Spaces : c >= 0
      BY DEF Spaces
<1>3. i <= n
  <2>1. SUFFICES ASSUME n < i PROVE FALSE
        BY <1>1
  <2>2. n \in 1 .. i - 1
        BY <1>1, <2>1
  <2>3. r[n] \in Calls(f)
        BY <1>1, ReadsAre
  <2>4. ~(r[n].c >= 0)
        BY <1>1, <2>3, CodesAre DEF Calls
  <2> QED
      BY <1>2, <2>2, <2>4
<1> DEFINE t == Given(r, 1, n)
<1>4. t \in Seq(Codes) /\ Len(t) = n - 1 /\ \A k \in 1 .. n - 1 : t[k] = r[1 + k - 1].c
  <2>1. 1 \in Nat /\ n \in Nat /\ 1 <= n
        BY <1>1
  <2> QED
      BY <1>1, <2>1, GivenIs
<1>5. /\ i - 1 \in 0 .. Len(t)
      /\ i - 1 < Len(t) => t[(i - 1) + 1] \notin Spaces
      /\ \A k \in 1 .. i - 1 : t[k] \in Spaces
  <2> HIDE DEF t, r
  <2>1. \A k \in 1 .. n - 1 : 1 + k - 1 = k
        OBVIOUS
  <2>2. n \in Nat
        BY <1>1
  <2>3. \A k \in 1 .. n - 1 : t[k] = r[k].c
        BY <1>4, <2>1
  <2> QED
      BY <1>3, <1>4, <2>2, <2>3 DEF r
<1>6. Leading(t, Spaces) = SubSeq(t, 1, i - 1)
  <2> HIDE DEF t, r
  <2> QED
      BY <1>4, <1>5, LeadingIs
<1>7. SubSeq(t, 1, i - 1) = Given(r, 1, i)
  <2> DEFINE a == SubSeq(t, 1, i - 1)
             b == Given(r, 1, i)
  <2>1. /\ b \in Seq(Codes) /\ Len(b) = i - 1 /\ \A k \in 1 .. i - 1 : b[k] = r[1 + k - 1].c
    <3>1. \A h \in 1 .. i - 1 : r[h].c >= 0
          BY <1>2
    <3> QED
        BY <3>1, GivenIs
  <2> HIDE DEF t, r, b
  <2>2. /\ a \in Seq(Codes) /\ Len(a) = i - 1 /\ \A k \in 1 .. i - 1 : a[k] = t[k]
    <3>1. i - 1 <= Len(t) /\ i - 1 \in Int /\ Len(t) \in Nat
          BY <1>5
    <3> QED
        BY <1>4, <3>1
  <2>3. \A k \in 1 .. i - 1 : a[k] = b[k]
        BY <1>1, <1>3, <1>4, <2>1, <2>2
  <2> HIDE DEF a
  <2>4. a = b
        BY <2>1, <2>2, <2>3, SeqEqual
  <2> QED
      BY <2>4 DEF a, b
<1> QED
    BY <1>1, <1>6, <1>7

-------------------------------------------------------------------------------
(* Extractions: what each gives is the text between where the stream was   *)
(* and where it is left.                                                   *)

\* A state bit is set.
LEMMA SetIs ==
  ASSUME NEW x \in Files, NEW y \in StreamsOf(x), NEW bit \in {"eof", "fail", "bad"}
  PROVE  /\ Set(y, bit) \in StreamsOf(x) /\ Set(y, bit).pos = y.pos
         /\ Set(y, bit).st = y.st \cup {bit}
BY DEF Set, StreamsOf

\* The place is set.
LEMMA PlaceIs ==
  ASSUME NEW x \in Files, NEW y \in StreamsOf(x), NEW place \in 0 .. Len(x.bytes)
  PROVE  setpos(y, place) \in StreamsOf(x) /\ setpos(y, place).pos = place
BY DEF setpos, StreamsOf

\* The calls have the types of calls.
LEMMA CallIs ==
  ASSUME NEW x \in Files, NEW y \in StreamsOf(x), NEW n \in Nat
  PROVE  LET r == Reads(x, y)
         IN  /\ r[n] \in Calls(x) /\ r[n].c \in Int /\ r[n].c \in Codes \cup {-1}
             /\ r[n].c >= 0 => r[n].c \in Codes
             /\ r[n].s \in StreamsOf(x) /\ r[n].s.pos \in 0 .. Len(x.bytes)
             /\ n > 0 => /\ r[n] = getch(x, r[n - 1].s)
                         /\ r[n].c < 0 => r[n].s.pos = r[n - 1].s.pos
<1> DEFINE r == Reads(x, y)
<1>1. r[n] \in Calls(x)
      BY ReadsAre
<1>2. /\ r[n].c \in Int /\ r[n].c \in Codes \cup {-1} /\ (r[n].c >= 0 => r[n].c \in Codes)
      /\ r[n].s \in StreamsOf(x)
      BY <1>1, CodesAre DEF Calls
<1>3. r[n].s.pos \in 0 .. Len(x.bytes)
      BY <1>2 DEF StreamsOf
<1>4. ASSUME n > 0
      PROVE  r[n] = getch(x, r[n - 1].s) /\ (r[n].c < 0 => r[n].s.pos = r[n - 1].s.pos)
  <2>1. n - 1 \in Nat /\ (n - 1) + 1 = n
        BY <1>4
  <2>2. r[n] = getch(x, r[n - 1].s) /\ r[n - 1] \in Calls(x)
        BY <2>1, ReadsAre
  <2>3. r[n - 1].s \in StreamsOf(x) /\ r[n] = getch(x, r[n - 1].s)
        BY <2>1, <2>2 DEF Calls
  <2>4. \A u \in StreamsOf(x) : getch(x, u).c < 0 => getch(x, u).s.pos = u.pos
        BY GetchIs
  <2> HIDE DEF r
  <2> QED
      BY <2>3, <2>4
<1> QED
    BY <1>1, <1>2, <1>3, <1>4

\* istream::get of a text
LEMMA GetTextIs ==
  ASSUME NEW x \in Files, NEW y \in StreamsOf(x), NEW o \in 0 .. y.pos,
         AtStart(x, o, y.pos), NEW n \in Nat, NEW delim \in Codes
  PROVE  Moved(x, o, y, getText(x, y, n, delim).s, getText(x, y, n, delim).str)
<1> DEFINE r == Reads(x, y)
           E == {i \in Nat : i >= n \/ r[i].c < 0 \/ r[i].c = delim}
           k == Until(x, 1, LAMBDA i : i >= n \/ r[i].c < 0 \/ r[i].c = delim)
<1>1. 1 \in Nat \ {0} /\ AllGive(x, y, 1) /\ EndsWithAll(x, y, E)
      BY DEF AllGive, EndsWithAll
<1>2. \E n1 : FirstIn(E, 1, Len(x.bytes) + 1, n1)
  <2> HIDE DEF E
  <2> QED
      BY <1>1, UntilIs
<1>3. FirstIn(E, 1, Len(x.bytes) + 1, k)
  <2> DEFINE Is(i) == /\ i >= n \/ r[i].c < 0 \/ r[i].c = delim
                      /\ \A h \in 1 .. i - 1 : ~(h >= n \/ r[h].c < 0 \/ r[h].c = delim)
  <2>1. \A i \in 1 .. Len(x.bytes) + 1 : FirstIn(E, 1, Len(x.bytes) + 1, i) <=> Is(i)
        BY ByteIsCode DEF FirstIn
  <2>2. \E i \in 1 .. Len(x.bytes) + 1 : Is(i)
        BY <1>2, <2>1 DEF FirstIn
  <2>3. k = CHOOSE i \in 1 .. Len(x.bytes) + 1 : Is(i)
        BY DEF Until
  <2> HIDE DEF Is, k, E
  <2> QED
      BY <2>1, <2>2, <2>3
<1>4. k \in Nat \ {0} /\ AllGive(x, y, k)
  <2> HIDE DEF E, k
  <2> QED
      BY <1>1, <1>3, UntilIs
<1>5. getText(x, y, n, delim) =
        FailIfEmpty([str |-> Given(r, 1, k),
                     s |-> IF k < n /\ r[k].c < 0 THEN r[k].s ELSE r[k - 1].s])
      BY DEF getText
<1> HIDE DEF k
<1>6. k \in Nat /\ k - 1 \in Nat /\ (k - 1) + 1 = k /\ k > 0
      BY <1>4
<1> DEFINE z == IF k < n /\ r[k].c < 0 THEN r[k].s ELSE r[k - 1].s
           g == getText(x, y, n, delim)
<1>7. z \in StreamsOf(x) /\ z.pos = r[k - 1].s.pos
      BY <1>6, CallIs
<1>8. g.str = Given(r, 1, k) /\ g.s = IF Given(r, 1, k) = <<>> THEN Set(z, "fail") ELSE z
      BY <1>5 DEF FailIfEmpty
<1>9. g.s \in StreamsOf(x) /\ g.s.pos = r[k - 1].s.pos
       BY <1>7, <1>8, SetIs
<1>10. Moved(x, o, y, g.s, Given(r, 1, k))
       BY <1>4, <1>9, MovedIs
<1> QED
    BY <1>8, <1>10

\* istream::getline takes the delimiter, too; a line that has none, and has not filled its
\* buffer, ends where the file ends or cannot be read.
LEMMA GetLineIs ==
  ASSUME NEW x \in Files, NEW y \in StreamsOf(x), NEW o \in 0 .. y.pos,
         AtStart(x, o, y.pos), NEW n \in Nat, NEW delim \in Codes
  PROVE  LET g == getline(x, y, n, delim)
             ended == g.gcount > Len(g.str)
         IN  /\ Moved(x, o, y, g.s, IF ended THEN Append(g.str, delim) ELSE g.str)
             /\ ~ended /\ Len(g.str) + 1 < n =>
                  \/ "eof" \in g.s.st /\ g.s.pos = Len(x.bytes)
                  \/ "bad" \in g.s.st /\ ReadByte(x, g.s.pos) = Broken
<1> DEFINE r == Reads(x, y)
           E == {i \in Nat : r[i].c < 0 \/ r[i].c = delim \/ i >= n}
           k == Until(x, 1, LAMBDA i : r[i].c < 0 \/ r[i].c = delim \/ i >= n)
           ended == r[k].c = delim
           gcount == IF ended THEN k ELSE k - 1
           full == r[k].c >= 0 /\ ~ended
           after == IF full THEN r[k - 1].s ELSE r[k].s
           z == IF full \/ gcount = 0 THEN Set(after, "fail") ELSE after
           t == Given(r, 1, k)
<1>1. 1 \in Nat \ {0} /\ AllGive(x, y, 1) /\ EndsWithAll(x, y, E)
      BY DEF AllGive, EndsWithAll
<1>2. \E n1 : FirstIn(E, 1, Len(x.bytes) + 1, n1)
  <2> HIDE DEF E
  <2> QED
      BY <1>1, UntilIs
<1>3. FirstIn(E, 1, Len(x.bytes) + 1, k)
  <2> DEFINE Is(q) == /\ (r[q].c < 0 \/ r[q].c = delim \/ q >= n)
                      /\ \A h \in 1 .. q - 1 : ~((r[h].c < 0 \/ r[h].c = delim \/ h >= n))
  <2>1. \A q \in 1 .. Len(x.bytes) + 1 : FirstIn(E, 1, Len(x.bytes) + 1, q) <=> Is(q)
    <3>1. \A q \in 1 .. Len(x.bytes) + 1 : q \in Nat /\ \A h \in 1 .. q - 1 : h \in Nat
          BY <1>1, ByteIsCode
    <3> QED
        BY <3>1 DEF FirstIn
  <2>2. \E q \in 1 .. Len(x.bytes) + 1 : Is(q)
        BY <1>2, <2>1 DEF FirstIn
  <2>3. k = CHOOSE q \in 1 .. Len(x.bytes) + 1 : Is(q)
        BY DEF Until
  <2> HIDE DEF Is, k, E
  <2> QED
      BY <2>1, <2>2, <2>3
<1>4. k \in Nat \ {0} /\ AllGive(x, y, k)
  <2> HIDE DEF E, k
  <2> QED
      BY <1>1, <1>3, UntilIs
<1>5. getline(x, y, n, delim) = [str |-> t, gcount |-> gcount, s |-> z]
      BY DEF getline
<1> HIDE DEF k
<1>6. /\ k \in Nat /\ k - 1 \in Nat /\ (k - 1) + 1 = k /\ k > 0 /\ k <= Len(x.bytes) + 1
      /\ r[k].c < 0 \/ r[k].c = delim \/ k >= n
      BY <1>3, <1>4 DEF FirstIn
<1>7. t \in Seq(Codes) /\ Len(t) = k - 1
      BY <1>4, GivenFirst
<1>9. /\ r[k - 1].s \in StreamsOf(x) /\ r[k].s \in StreamsOf(x) /\ r[k].c \in Int
      /\ r[k] = getch(x, r[k - 1].s)
      BY <1>6, CallIs
<1>10. delim \in Nat /\ delim >= 0
       BY CodesAre
<1> HIDE DEF t, r
<1>11. z \in StreamsOf(x) /\ z.pos = after.pos /\ after.st \subseteq z.st
       BY <1>9, SetIs
<1>12. CASE ended
  <2>1. z.pos = r[k].s.pos /\ gcount = k
        BY <1>10, <1>11, <1>12
  <2>2. AllGive(x, y, k + 1) /\ Given(r, 1, k + 1) = Append(t, delim)
        BY <1>4, <1>10, <1>12, GivenFirst DEF r, t
  <2>3. k + 1 \in Nat \ {0} /\ (k + 1) - 1 = k
        BY <1>6
  <2>4. Moved(x, o, y, z, Given(r, 1, k + 1))
        BY <1>11, <2>1, <2>2, <2>3, MovedIs DEF r
  <2>5. k > Len(t)
        BY <1>6, <1>7
  <2>6. /\ getline(x, y, n, delim).str = t /\ getline(x, y, n, delim).gcount = k
        /\ getline(x, y, n, delim).s = z
        BY <1>5, <2>1
  <2> HIDE DEF z
  <2> QED
      BY <2>2, <2>4, <2>5, <2>6
<1>13. CASE r[k].c < 0
  <2>1. ~ended /\ ~full /\ gcount = k - 1 /\ after = r[k].s
        BY <1>9, <1>10, <1>13
  <2>2. /\ r[k].s.pos = r[k - 1].s.pos
        /\ \/ "eof" \in r[k].s.st /\ r[k - 1].s.pos = Len(x.bytes)
           \/ "bad" \in r[k].s.st /\ ReadByte(x, r[k - 1].s.pos) = Broken
        BY ZenonT(60), <1>9, <1>13, GetchIs
  <2>3. Moved(x, o, y, z, t)
        BY <1>4, <1>11, <2>1, <2>2, MovedIs DEF r, t
  <2>4. ~(gcount > Len(t))
        BY <1>6, <1>7, <2>1
  <2>5. \/ "eof" \in z.st /\ z.pos = Len(x.bytes)
        \/ "bad" \in z.st /\ ReadByte(x, z.pos) = Broken
        BY <1>11, <2>1, <2>2
  <2> QED
      BY <1>5, <2>3, <2>4, <2>5
<1>14. CASE ~ended /\ ~(r[k].c < 0)
  <2>1. full /\ gcount = k - 1 /\ after = r[k - 1].s /\ k >= n
        BY <1>6, <1>9, <1>14
  <2>2. Moved(x, o, y, z, t)
        BY <1>4, <1>11, <2>1, MovedIs DEF r, t
  <2>3. ~(gcount > Len(t)) /\ ~(Len(t) + 1 < n)
        BY <1>6, <1>7, <2>1
  <2> QED
      BY <1>5, <2>2, <2>3
<1> QED
    BY <1>12, <1>13, <1>14

\* istream::ignore
LEMMA IgnoreIs ==
  ASSUME NEW x \in Files, NEW y \in StreamsOf(x), NEW n \in Nat, NEW delim \in Codes
  PROVE  ignore(x, y, n, delim) \in StreamsOf(x)
<1> DEFINE r == Reads(x, y)
           E == {i \in Nat : i = n \/ r[i].c < 0 \/ r[i].c = delim}
           k == Until(x, 1, LAMBDA i : i = n \/ r[i].c < 0 \/ r[i].c = delim)
<1>1. 1 \in Nat \ {0} /\ AllGive(x, y, 1) /\ EndsWithAll(x, y, E)
      BY DEF AllGive, EndsWithAll
<1>2. \E n1 : FirstIn(E, 1, Len(x.bytes) + 1, n1)
  <2> HIDE DEF E
  <2> QED
      BY <1>1, UntilIs
<1>3. FirstIn(E, 1, Len(x.bytes) + 1, k)
  <2> DEFINE Is(q) == /\ (q = n \/ r[q].c < 0 \/ r[q].c = delim)
                      /\ \A h \in 1 .. q - 1 : ~((h = n \/ r[h].c < 0 \/ r[h].c = delim))
  <2>1. \A q \in 1 .. Len(x.bytes) + 1 : FirstIn(E, 1, Len(x.bytes) + 1, q) <=> Is(q)
    <3>1. \A q \in 1 .. Len(x.bytes) + 1 : q \in Nat /\ \A h \in 1 .. q - 1 : h \in Nat
          BY <1>1, ByteIsCode
    <3> QED
        BY <3>1 DEF FirstIn
  <2>2. \E q \in 1 .. Len(x.bytes) + 1 : Is(q)
        BY <1>2, <2>1 DEF FirstIn
  <2>3. k = CHOOSE q \in 1 .. Len(x.bytes) + 1 : Is(q)
        BY DEF Until
  <2> HIDE DEF Is, k, E
  <2> QED
      BY <2>1, <2>2, <2>3
<1>4. k \in Nat \ {0} /\ AllGive(x, y, k)
  <2> HIDE DEF E, k
  <2> QED
      BY <1>1, <1>3, UntilIs
<1>5. ignore(x, y, n, delim) = IF n = 0 THEN y ELSE r[k].s
      BY DEF ignore
<1> HIDE DEF k
<1> QED
    BY <1>4, <1>5, CallIs

\* istream::skipWhite, up to the first character that is no space.
LEMMA SkipWhiteIs ==
  ASSUME NEW x \in Files, NEW y \in StreamsOf(x), NEW o \in 0 .. y.pos,
         AtStart(x, o, y.pos)
  PROVE  \E k \in Nat \ {0} :
           /\ Reads(x, y)[k].c \notin Spaces
           /\ \A h \in 1 .. k - 1 : Reads(x, y)[h].c \in Spaces
           /\ Moved(x, o, y, skipWhite(x, y), Given(Reads(x, y), 1, k))
<1> DEFINE r == Reads(x, y)
           E == {i \in Nat : r[i].c \notin Spaces}
           k == Until(x, 1, LAMBDA i : r[i].c \notin Spaces)
<1>1. 1 \in Nat \ {0} /\ AllGive(x, y, 1) /\ EndsWithAll(x, y, E)
      BY DEF AllGive, EndsWithAll, Spaces
<1>2. \E n1 : FirstIn(E, 1, Len(x.bytes) + 1, n1)
  <2> HIDE DEF E
  <2> QED
      BY <1>1, UntilIs
<1>3. FirstIn(E, 1, Len(x.bytes) + 1, k)
  <2> DEFINE Is(q) == /\ (r[q].c \notin Spaces)
                      /\ \A h \in 1 .. q - 1 : ~((r[h].c \notin Spaces))
  <2>1. \A q \in 1 .. Len(x.bytes) + 1 : FirstIn(E, 1, Len(x.bytes) + 1, q) <=> Is(q)
    <3>1. \A q \in 1 .. Len(x.bytes) + 1 : q \in Nat /\ \A h \in 1 .. q - 1 : h \in Nat
          BY <1>1, ByteIsCode
    <3> QED
        BY <3>1 DEF FirstIn
  <2>2. \E q \in 1 .. Len(x.bytes) + 1 : Is(q)
        BY <1>2, <2>1 DEF FirstIn
  <2>3. k = CHOOSE q \in 1 .. Len(x.bytes) + 1 : Is(q)
        BY DEF Until
  <2> HIDE DEF Is, k, E
  <2> QED
      BY <2>1, <2>2, <2>3
<1>4. k \in Nat \ {0} /\ AllGive(x, y, k)
  <2> HIDE DEF E, k
  <2> QED
      BY <1>1, <1>3, UntilIs
<1>5. skipWhite(x, y) = setpos(r[k].s, r[k - 1].s.pos)
      BY DEF skipWhite
<1> HIDE DEF k
<1>6. /\ k \in Nat /\ k - 1 \in Nat /\ (k - 1) + 1 = k /\ k > 0
      /\ r[k].c \notin Spaces /\ \A h \in 1 .. k - 1 : r[h].c \in Spaces
      BY <1>3, <1>4 DEF FirstIn
<1>7. r[k].s \in StreamsOf(x) /\ r[k - 1].s.pos \in 0 .. Len(x.bytes)
      BY <1>6, CallIs
<1>8. skipWhite(x, y) \in StreamsOf(x) /\ skipWhite(x, y).pos = r[k - 1].s.pos
      BY <1>5, <1>7, PlaceIs
<1>9. Moved(x, o, y, skipWhite(x, y), Given(r, 1, k))
      BY <1>4, <1>8, MovedIs
<1> QED
    BY <1>4, <1>6, <1>9

\* istream::readSkip
LEMMA ReadSkipIs ==
  ASSUME NEW x \in Files, NEW y \in StreamsOf(x), NEW w, w.skipws \in BOOLEAN
  PROVE  LET i == readSkip(x, y, w)
         IN  /\ i \in Nat \ {0} /\ AllGive(x, y, i)
             /\ w.skipws => /\ Reads(x, y)[i].c \notin Spaces
                            /\ \A h \in 1 .. i - 1 : Reads(x, y)[h].c \in Spaces
             /\ ~w.skipws => i = 1
<1> DEFINE r == Reads(x, y)
           E == {i \in Nat : r[i].c \notin Spaces \/ ~w.skipws}
           k == Until(x, 1, LAMBDA i : r[i].c \notin Spaces \/ ~w.skipws)
<1>1. 1 \in Nat \ {0} /\ AllGive(x, y, 1) /\ EndsWithAll(x, y, E)
      BY DEF AllGive, EndsWithAll, Spaces
<1>2. \E n1 : FirstIn(E, 1, Len(x.bytes) + 1, n1)
  <2> HIDE DEF E
  <2> QED
      BY <1>1, UntilIs
<1>3. FirstIn(E, 1, Len(x.bytes) + 1, k)
  <2> DEFINE Is(q) == /\ (r[q].c \notin Spaces \/ ~w.skipws)
                      /\ \A h \in 1 .. q - 1 : ~((r[h].c \notin Spaces \/ ~w.skipws))
  <2>1. \A q \in 1 .. Len(x.bytes) + 1 : FirstIn(E, 1, Len(x.bytes) + 1, q) <=> Is(q)
    <3>1. \A q \in 1 .. Len(x.bytes) + 1 : q \in Nat /\ \A h \in 1 .. q - 1 : h \in Nat
          BY <1>1, ByteIsCode
    <3> QED
        BY <3>1 DEF FirstIn
  <2>2. \E q \in 1 .. Len(x.bytes) + 1 : Is(q)
        BY <1>2, <2>1 DEF FirstIn
  <2>3. k = CHOOSE q \in 1 .. Len(x.bytes) + 1 : Is(q)
        BY DEF Until
  <2> HIDE DEF Is, k, E
  <2> QED
      BY <2>1, <2>2, <2>3
<1>4. k \in Nat \ {0} /\ AllGive(x, y, k)
  <2> HIDE DEF E, k
  <2> QED
      BY <1>1, <1>3, UntilIs
<1>5. readSkip(x, y, w) = k
      BY DEF readSkip
<1> HIDE DEF k
<1>6. ~w.skipws => k = 1
  <2>1. SUFFICES ASSUME ~w.skipws, k > 1 PROVE FALSE
        BY <1>4
  <2>2. 1 \in 1 .. k - 1 /\ 1 \in E
        BY <1>4, <2>1
  <2> HIDE DEF E
  <2> QED
      BY <1>3, <2>2 DEF FirstIn
<1>7. w.skipws => r[k].c \notin Spaces /\ \A h \in 1 .. k - 1 : r[h].c \in Spaces
      BY <1>3, <1>4 DEF FirstIn
<1> QED
    BY <1>4, <1>5, <1>6, <1>7

\* istream::getChar
LEMMA GetCharIs ==
  ASSUME NEW x \in Files, NEW y \in StreamsOf(x), NEW o \in 0 .. y.pos,
         AtStart(x, o, y.pos), NEW w, w.skipws \in BOOLEAN
  PROVE  LET g == getChar(x, y, w)
         IN  Moved(x, o, y, g.s, Given(Reads(x, y), 1, readSkip(x, y, w))
                                   \o IF g.c < 0 THEN <<>> ELSE <<g.c>>)
<1> DEFINE r == Reads(x, y)
           i == readSkip(x, y, w)
           t == Given(r, 1, i)
<1>1. i \in Nat \ {0} /\ AllGive(x, y, i)
      BY ReadSkipIs
<1>2. getChar(x, y, w) = [c |-> r[i].c, s |-> IF r[i].c < 0 THEN Set(r[i].s, "fail") ELSE r[i].s]
      BY DEF getChar
<1> HIDE DEF i
<1>3. /\ r[i].s \in StreamsOf(x) /\ r[i].c \in Int /\ (r[i].c >= 0 => r[i].c \in Codes)
      /\ r[i].c < 0 => r[i].s.pos = r[i - 1].s.pos
      BY <1>1, CallIs
<1>4. t \in Seq(Codes)
      BY <1>1, GivenFirst
<1>5. CASE r[i].c < 0
  <2> DEFINE z == Set(r[i].s, "fail")
  <2>1. z \in StreamsOf(x) /\ z.pos = r[i - 1].s.pos
        BY <1>3, <1>5, SetIs
  <2> HIDE DEF z
  <2>2. Moved(x, o, y, z, t)
        BY <1>1, <2>1, MovedIs
  <2>3. t \o <<>> = t
        BY <1>4, ConcatEmptySeq
  <2>4. /\ getChar(x, y, w).s = z
        /\ (IF getChar(x, y, w).c < 0 THEN <<>> ELSE <<getChar(x, y, w).c>>) = <<>>
        BY <1>2, <1>5 DEF z
  <2> HIDE DEF t
  <2>5. Moved(x, o, y, getChar(x, y, w).s,
              t \o IF getChar(x, y, w).c < 0 THEN <<>> ELSE <<getChar(x, y, w).c>>)
        BY <2>2, <2>3, <2>4
  <2> QED
      BY <2>5 DEF i, t
<1>6. CASE r[i].c >= 0
  <2>1. AllGive(x, y, i + 1) /\ Given(r, 1, i + 1) = Append(t, r[i].c)
        BY <1>1, <1>6, GivenFirst
  <2>2. i + 1 \in Nat \ {0} /\ (i + 1) - 1 = i
        BY <1>1
  <2>3. Moved(x, o, y, r[i].s, Given(r, 1, i + 1))
        BY <1>3, <2>1, <2>2, MovedIs
  <2>4. Append(t, r[i].c) = t \o <<r[i].c>>
        BY <1>3, <1>4, <1>6, AppendIsConcat
  <2>5. ~(r[i].c < 0)
        BY <1>3, <1>6
  <2>6. /\ getChar(x, y, w).s = r[i].s
        /\ (IF getChar(x, y, w).c < 0 THEN <<>> ELSE <<getChar(x, y, w).c>>) = <<r[i].c>>
        BY <1>2, <2>5
  <2> HIDE DEF t
  <2>7. Moved(x, o, y, getChar(x, y, w).s,
              t \o IF getChar(x, y, w).c < 0 THEN <<>> ELSE <<getChar(x, y, w).c>>)
        BY <2>1, <2>3, <2>4, <2>6
  <2> QED
      BY <2>7 DEF i, t
<1> QED
    BY <1>3, <1>5, <1>6

\* istream::getStr, for a word that has not filled its width.
LEMMA GetStrIs ==
  ASSUME NEW x \in Files, NEW y \in StreamsOf(x), NEW o \in 0 .. y.pos,
         AtStart(x, o, y.pos), NEW w, w.skipws \in BOOLEAN, w.width \in Nat
  PROVE  LET g == getStr(x, y, w)
         IN  /\ g.s \in StreamsOf(x) /\ g.str \in Seq(Codes)
             /\ Longest(w.width) = 0 => g.str = <<>> /\ g.s.pos = y.pos
             /\ Longest(w.width) # 0 /\ Len(g.str) # Longest(w.width) =>
                  Moved(x, o, y, g.s, Given(Reads(x, y), 1, readSkip(x, y, w)) \o g.str)
<1> DEFINE most == Longest(w.width)
           r == Reads(x, y)
           i == readSkip(x, y, w)
           Ends(n) == n - i >= most \/ r[n].c < 0 \/ r[n].c \in Spaces
           E == {n \in Nat : n - i >= most \/ r[n].c < 0 \/ r[n].c \in Spaces}
           k == Until(x, i, LAMBDA n : n - i >= most \/ r[n].c < 0 \/ r[n].c \in Spaces)
           ended == k - i < most /\ r[k].c \in Spaces
           t == Given(r, i, k)
           z == IF ended THEN setpos(r[k].s, r[k - 1].s.pos) ELSE r[k].s
<1>1. most \in Nat
      BY DEF Longest
<1>2. getStr(x, y, w) = FailIfEmpty(IF most = 0 THEN [str |-> <<>>, s |-> y]
                                    ELSE [str |-> t, s |-> z])
      BY DEF getStr
<1>3. i \in Nat \ {0} /\ AllGive(x, y, i)
      BY ReadSkipIs
<1> HIDE DEF i, most
<1>4. i \in Nat \ {0} /\ AllGive(x, y, i) /\ EndsWithAll(x, y, E)
      BY <1>3 DEF AllGive, EndsWithAll
<1>5. \E n1 : FirstIn(E, i, Len(x.bytes) + 1, n1)
  <2> HIDE DEF E
  <2> QED
      BY <1>4, UntilIs
<1>6. FirstIn(E, i, Len(x.bytes) + 1, k)
  <2> DEFINE Is(q) == /\ (q - i >= most \/ r[q].c < 0 \/ r[q].c \in Spaces)
                      /\ \A h \in i .. q - 1 : ~((h - i >= most \/ r[h].c < 0 \/ r[h].c \in Spaces))
  <2>1. \A q \in i .. Len(x.bytes) + 1 : FirstIn(E, i, Len(x.bytes) + 1, q) <=> Is(q)
    <3>1. \A q \in i .. Len(x.bytes) + 1 : q \in Nat /\ \A h \in i .. q - 1 : h \in Nat
          BY <1>4, ByteIsCode
    <3> QED
        BY <3>1 DEF FirstIn
  <2>2. \E q \in i .. Len(x.bytes) + 1 : Is(q)
        BY <1>5, <2>1 DEF FirstIn
  <2>3. k = CHOOSE q \in i .. Len(x.bytes) + 1 : Is(q)
        BY DEF Until
  <2> HIDE DEF Is, k, E
  <2> QED
      BY <2>1, <2>2, <2>3
<1>7. k \in Nat \ {0} /\ AllGive(x, y, k)
  <2> HIDE DEF E, k
  <2> QED
      BY <1>4, <1>6, UntilIs
<1>8. /\ k \in Nat /\ i <= k /\ (k - i >= most \/ r[k].c < 0 \/ r[k].c \in Spaces)
      /\ k - 1 \in Nat
      BY <1>3, <1>6, <1>7 DEF FirstIn
<1>9. k - i <= most
  <2>1. SUFFICES ASSUME k - i > most PROVE FALSE
        BY <1>1, <1>3, <1>8
  <2>2. k - 1 \in i .. k - 1 /\ k - 1 \in E
        BY <1>1, <1>3, <1>8, <2>1
  <2> HIDE DEF E, k
  <2> QED
      BY <1>6, <2>2 DEF FirstIn
<1> HIDE DEF k
<1>10. t \in Seq(Codes) /\ Len(t) = k - i
  <2>1. \A h \in i .. k - 1 : r[h].c >= 0
    <3>1. \A h \in i .. k - 1 : h \in 1 .. k - 1
          BY <1>3, <1>8
    <3> QED
        BY <1>7, <3>1 DEF AllGive
  <2>2. i \in Nat
        BY <1>3
  <2> QED
      BY <1>8, <2>1, <2>2, GivenIs
<1>11. /\ r[k].s \in StreamsOf(x) /\ r[k - 1].s.pos \in 0 .. Len(x.bytes)
       /\ r[k].c < 0 => r[k].s.pos = r[k - 1].s.pos
  <2>1. r[k].s \in StreamsOf(x) /\ (r[k].c < 0 => r[k].s.pos = r[k - 1].s.pos)
        BY <1>7, CallIs
  <2>2. r[k - 1].s.pos \in 0 .. Len(x.bytes)
        BY <1>8, CallIs
  <2> QED
      BY <2>1, <2>2
<1> HIDE DEF r
<1>12. z \in StreamsOf(x) /\ (k - i # most => z.pos = r[k - 1].s.pos)
  <2>1. setpos(r[k].s, r[k - 1].s.pos) \in StreamsOf(x)
        /\ setpos(r[k].s, r[k - 1].s.pos).pos = r[k - 1].s.pos
        BY <1>11, PlaceIs
  <2>2. k - i # most => k - i < most /\ ~(k - i >= most)
        BY <1>1, <1>3, <1>8, <1>9
  <2> QED
      BY <1>8, <1>11, <2>1, <2>2
<1> DEFINE g == getStr(x, y, w)
<1>13. CASE most = 0
  <2>1. g = FailIfEmpty([str |-> <<>>, s |-> y])
        BY <1>2, <1>13
  <2>2. g.str = <<>> /\ g.s = Set(y, "fail")
        BY <2>1 DEF FailIfEmpty
  <2>3. <<>> \in Seq(Codes) /\ g.s \in StreamsOf(x) /\ g.s.pos = y.pos
        BY <2>2, SetIs, EmptySeq
  <2> QED
      BY <1>13, <2>2, <2>3 DEF most
<1>14. CASE most # 0
  <2>1. g = FailIfEmpty([str |-> t, s |-> z])
        BY <1>2, <1>14
  <2> HIDE DEF t, z
  <2>2. g.str = t /\ g.s = IF t = <<>> THEN Set(z, "fail") ELSE z
        BY <2>1 DEF FailIfEmpty
  <2>3. g.s \in StreamsOf(x) /\ g.s.pos = z.pos
        BY <1>12, <2>2, SetIs
  <2>4. ASSUME Len(g.str) # most
        PROVE  Moved(x, o, y, g.s, Given(r, 1, i) \o g.str)
    <3>1. g.s.pos = r[k - 1].s.pos
          BY <1>10, <1>12, <2>2, <2>3, <2>4
    <3>2. Moved(x, o, y, g.s, Given(r, 1, k))
          BY <1>7, <2>3, <3>1, MovedIs DEF r
    <3>3. Given(r, 1, k) = Given(r, 1, i) \o t
      <4>1. \A h \in 1 .. k - 1 : r[h].c >= 0
            BY <1>7 DEF AllGive, r
      <4>2. 1 \in Nat /\ i \in Nat /\ 1 <= i /\ k \in Nat /\ i <= k
            BY <1>3, <1>8
      <4> HIDE DEF i
      <4>3. \A h \in 1 .. k - 1 : Reads(x, y)[h].c >= 0
            BY <4>1 DEF r
      <4>4. Given(Reads(x, y), 1, k) = Given(Reads(x, y), 1, i) \o Given(Reads(x, y), i, k)
            BY ZenonT(60), <4>2, <4>3, GivenConcat
      <4> QED
          BY <4>4 DEF r, t
    <3> QED
        BY <2>2, <3>2, <3>3
  <2> QED
      BY <1>10, <1>14, <2>2, <2>3, <2>4 DEF most, i, r
<1> QED
    BY <1>13, <1>14

\* istream::get of a character
LEMMA GetOneIs ==
  ASSUME NEW x \in Files, NEW y \in StreamsOf(x), NEW o \in 0 .. y.pos,
         AtStart(x, o, y.pos)
  PROVE  LET g == getOne(x, y)
         IN  Moved(x, o, y, g.s, IF g.c < 0 THEN <<>> ELSE <<g.c>>)
<1> DEFINE g == getch(x, y)
           z == IF g.c < 0 THEN Set(g.s, "fail") ELSE g.s
<1>1. getOne(x, y).c = g.c /\ getOne(x, y).s = z
      BY DEF getOne
<1>2. /\ g \in Calls(x) /\ g.s \in StreamsOf(x) /\ g.c \in Codes \cup {-1}
      /\ g.c < 0 => g.s.pos = y.pos
      /\ g.c >= 0 => y.pos < g.s.pos
  <2>1. /\ g \in Calls(x) /\ (g.c < 0 => g.s.pos = y.pos)
        /\ g.c >= 0 => g.s.pos = y.pos + 1 \/ g.s.pos = y.pos + 2
        BY GetchIs
  <2>2. y.pos \in 0 .. Len(x.bytes) /\ g.s \in StreamsOf(x) /\ g.c \in Codes \cup {-1}
        BY <2>1 DEF StreamsOf, Calls
  <2>3. y.pos \in Int
        BY <2>2
  <2> HIDE DEF g
  <2> QED
      BY <2>1, <2>2, <2>3
<1>3. g.c \in Int /\ (g.c >= 0 => g.c \in Codes)
      BY <1>2, CodesAre
<1>4. CASE g.c < 0
  <2>1. z \in StreamsOf(x) /\ z.pos = y.pos
        BY <1>2, <1>4, SetIs
  <2> HIDE DEF z
  <2>2. Moved(x, o, y, z, <<>>)
        BY <2>1, MovedNot
  <2> QED
      BY <1>1, <1>4, <2>2
<1>5. CASE g.c >= 0
  <2>1. /\ Decoded(x, o, g.s.pos) = Append(Decoded(x, o, y.pos), g.c)
        /\ AtStart(x, o, g.s.pos)
        BY <1>5, CharStep
  <2>2. y.pos \in 0 .. Len(x.bytes) /\ g.s.pos \in 0 .. Len(x.bytes) /\ o \in Nat
        BY <1>2 DEF StreamsOf
  <2>3. Decoded(x, o, y.pos) \in Seq(Codes)
        BY <2>2, DecodedIs
  <2>4. Append(Decoded(x, o, y.pos), g.c) = Decoded(x, o, y.pos) \o <<g.c>>
        BY <1>3, <1>5, <2>3, AppendIsConcat
  <2>5. o \in 0 .. g.s.pos /\ y.pos <= g.s.pos
        BY <1>2, <1>5, <2>2
  <2>6. <<g.c>> \in Seq(Codes) /\ ~(g.c < 0)
        BY <1>3, <1>5
  <2>7. z = g.s
        BY <2>6
  <2> HIDE DEF g
  <2>8. Moved(x, o, y, g.s, <<g.c>>)
        BY <1>2, <2>1, <2>4, <2>5, <2>6 DEF Moved
  <2> QED
      BY <1>1, <2>6, <2>7, <2>8
<1> QED
    BY <1>3, <1>4, <1>5

\* istream::peek
LEMMA PeekIs ==
  ASSUME NEW x \in Files, NEW y \in StreamsOf(x), NEW o \in 0 .. y.pos,
         AtStart(x, o, y.pos)
  PROVE  Moved(x, o, y, peek(x, y).s, <<>>)
<1> DEFINE g == getch(x, y)
           z == IF g.c >= 0 THEN setpos(g.s, y.pos)
                ELSE IF "bad" \in g.s.st THEN g.s ELSE Set(g.s, "eof")
<1>1. peek(x, y).s = z
      BY DEF peek
<1>2. g \in Calls(x) /\ (g.c < 0 => g.s.pos = y.pos)
      BY GetchIs
<1>3. g.s \in StreamsOf(x) /\ g.c \in Codes \cup {-1}
      BY <1>2 DEF Calls
<1>4. g.c \in Int /\ y.pos \in 0 .. Len(x.bytes)
      BY <1>3, CodesAre DEF StreamsOf
<1>5. /\ setpos(g.s, y.pos) \in StreamsOf(x) /\ setpos(g.s, y.pos).pos = y.pos
      /\ Set(g.s, "eof") \in StreamsOf(x) /\ Set(g.s, "eof").pos = g.s.pos
      BY <1>3, <1>4, PlaceIs, SetIs
<1>6. z \in StreamsOf(x) /\ z.pos = y.pos
      BY <1>2, <1>3, <1>4, <1>5
<1> HIDE DEF z
<1> QED
    BY <1>1, <1>6, MovedNot

\* The spaces that readSkip passes over are those that Skipped names.
LEMMA SkippedIs ==
  ASSUME f \in Files, s \in StreamsOf(f), m.skipws \in BOOLEAN,
         NEW w, w.skipws = m.skipws
  PROVE  Skipped = Given(Reads(f, s), 1, readSkip(f, s, w))
<1> DEFINE i == readSkip(f, s, w)
<1>1. /\ i \in Nat \ {0}
      /\ w.skipws => /\ Reads(f, s)[i].c \notin Spaces
                     /\ \A h \in 1 .. i - 1 : Reads(f, s)[h].c \in Spaces
      /\ ~w.skipws => i = 1
      BY ReadSkipIs
<1> HIDE DEF i
<1>2. CASE m.skipws
  <2>1. Leading(Ahead(s.pos), Spaces) = Given(Reads(f, s), 1, i)
        BY <1>1, <1>2, SpacesAre
  <2> QED
      BY <1>2, <2>1 DEF Skipped, i
<1>3. CASE ~m.skipws
  <2>1. i = 1
        BY <1>1, <1>3
  <2>2. Given(Reads(f, s), 1, 1) = <<>>
        BY DEF Given
  <2> QED
      BY <1>3, <2>1, <2>2 DEF Skipped, i
<1> QED
    BY <1>2, <1>3

\* A stream that is set back to a place of the file, and has failed or not.
LEMMA BackIs ==
  ASSUME NEW x \in Files, NEW y \in StreamsOf(x), NEW place \in 0 .. Len(x.bytes),
         NEW ok, NEW z, z = IF ok THEN setpos(y, place) ELSE Set(setpos(y, place), "fail")
  PROVE  z \in StreamsOf(x)
<1>1. setpos(y, place) \in StreamsOf(x)
      BY PlaceIs
<1>2. Set(setpos(y, place), "fail") \in StreamsOf(x)
      BY <1>1, SetIs
<1> QED
    BY <1>1, <1>2

\* The call after that of a sign has only characters before it.
LEMMA PastSignIs ==
  ASSUME NEW x \in Files, NEW y \in StreamsOf(x), NEW i \in Nat \ {0}, AllGive(x, y, i)
  PROVE  LET n == PastSign(Reads(x, y), i)
         IN  n \in Nat \ {0} /\ AllGive(x, y, n)
<1> DEFINE r == Reads(x, y)
<1>1. PastSign(r, i) = IF r[i].c \in {MINUS, PLUS} THEN i + 1 ELSE i
      BY DEF PastSign
<1>2. r[i].c \in {MINUS, PLUS} => r[i].c >= 0
      BY DEF MINUS, PLUS
<1> HIDE DEF r
<1>3. i + 1 \in Nat \ {0} /\ (r[i].c >= 0 => AllGive(x, y, i + 1))
      BY GivenFirst DEF r
<1> QED
    BY <1>1, <1>2, <1>3 DEF r

\* The digits of a number are ended by a call.
LEMMA ReadDigitsIs ==
  ASSUME NEW x \in Files, NEW y \in StreamsOf(x), NEW i \in Nat \ {0}, AllGive(x, y, i),
         NEW base \in {8, 10, 16}, NEW cutoff
  PROVE  ReadDigits(x, Reads(x, y), i, base, cutoff).to \in Nat \ {0}
<1> DEFINE r   == Reads(x, y)
           val == WordOf(r, i, base)
           Over(n) == LET v == val[n - i]
                      IN  v > cutoff \div base
                            \/ (v = cutoff \div base /\ DigitOf(r[n].c) > cutoff % base)
           E   == {n \in Nat : DigitOf(r[n].c) >= base \/ Over(n)}
           to  == Until(x, i, LAMBDA n : DigitOf(r[n].c) >= base \/ Over(n))
<1>1. ReadDigits(x, r, i, base, cutoff).to = to
      BY Zenon DEF ReadDigits
<1> HIDE DEF Over
<1>2. \A h \in Nat : h >= 1 /\ r[h].c < 0 => DigitOf(r[h].c) >= base
  <2>1. \A h \in Nat : r[h].c < 0 => r[h].c = -1
    <3>1. \A h \in Nat : r[h].c \in Codes \cup {-1}
          BY CallIs
    <3> QED
        BY <3>1, CodesAre
  <2>2. DigitOf(-1) = 99
        BY DEF DigitOf, Digit, Upper, Lower
  <2> QED
      BY <2>1, <2>2
<1>3. EndsWithAll(x, y, E)
      BY <1>2 DEF EndsWithAll
<1>4. \E n : FirstIn(E, i, Len(x.bytes) + 1, n)
  <2> HIDE DEF E
  <2> QED
      BY <1>3, UntilIs
<1>5. FirstIn(E, i, Len(x.bytes) + 1, to)
  <2> DEFINE Is(q) == /\ (DigitOf(r[q].c) >= base \/ Over(q))
                      /\ \A h \in i .. q - 1 : ~((DigitOf(r[h].c) >= base \/ Over(h)))
  <2>1. \A q \in i .. Len(x.bytes) + 1 : FirstIn(E, i, Len(x.bytes) + 1, q) <=> Is(q)
    <3>1. \A q \in i .. Len(x.bytes) + 1 : q \in Nat /\ \A h \in i .. q - 1 : h \in Nat
          BY ByteIsCode
    <3> QED
        BY <3>1 DEF FirstIn
  <2>2. \E q \in i .. Len(x.bytes) + 1 : Is(q)
        BY <1>4, <2>1 DEF FirstIn
  <2>3. to = CHOOSE q \in i .. Len(x.bytes) + 1 : Is(q)
        BY DEF Until
  <2> HIDE DEF Is, to, E
  <2> QED
      BY <2>1, <2>2, <2>3
<1>6. to \in Nat \ {0}
  <2> HIDE DEF E, to
  <2> QED
      BY <1>3, <1>5, UntilIs
<1> HIDE DEF to
<1> QED
    BY <1>1, <1>6

\* istream::getNumber leaves a stream.
LEMMA WordIs ==
  ASSUME NEW x \in Files, NEW y \in StreamsOf(x), NEW w, w.skipws \in BOOLEAN,
         w.base \in {8, 10, 16}, NEW posMax, NEW negMax
  PROVE  getWord(x, y, w, posMax, negMax).s \in StreamsOf(x)
<1> DEFINE r      == Reads(x, y)
           first  == readSkip(x, y, w)
           neg    == r[first].c = MINUS
           cutoff == IF neg THEN negMax ELSE posMax
           signed == PastSign(r, first)
           zero   == w.base = 16 /\ r[signed].c = 48
           prefix == zero /\ r[signed + 1].c \in {88, 120}
           from   == IF prefix THEN signed + 2 ELSE IF zero THEN signed + 1 ELSE signed
           d      == ReadDigits(x, r, from, w.base, cutoff)
           ok     == ~d.over /\ (d.to > from \/ zero)
           end    == IF d.to > from THEN r[d.to - 1].s.pos
                     ELSE IF zero THEN r[signed].s.pos ELSE y.pos
           z      == IF ok THEN setpos(r[d.to].s, end) ELSE Set(setpos(r[d.to].s, end), "fail")
<1>1. getWord(x, y, w, posMax, negMax).s = z
  <2> DEFINE u == UnsignedWord(x, y, r, signed, w.base, neg, cutoff)
  <2>1. getWord(x, y, w, posMax, negMax) = u
        BY DEF getWord
  <2> HIDE DEF signed, neg, cutoff, r
  <2>2. u.s = z
        BY Zenon DEF UnsignedWord
  <2> HIDE DEF u, z
  <2> QED
      BY <2>1, <2>2
<1> HIDE DEF cutoff, neg
<1>2. first \in Nat \ {0} /\ AllGive(x, y, first)
      BY ReadSkipIs
<1> HIDE DEF first
<1>3. signed \in Nat \ {0} /\ AllGive(x, y, signed)
      BY <1>2, PastSignIs
<1> HIDE DEF signed
<1>4. zero => AllGive(x, y, signed + 1)
  <2>1. zero => r[signed].c >= 0
        OBVIOUS
  <2> QED
      BY <1>3, <2>1, GivenFirst
<1>5. prefix => AllGive(x, y, signed + 2)
  <2>1. prefix => r[signed + 1].c >= 0 /\ zero
        OBVIOUS
  <2>2. signed + 1 \in Nat \ {0} /\ (signed + 1) + 1 = signed + 2
        BY <1>3
  <2> HIDE DEF prefix, zero
  <2> QED
      BY <1>4, <2>1, <2>2, GivenFirst
<1> HIDE DEF prefix, zero
<1>6. from \in Nat \ {0} /\ AllGive(x, y, from)
      BY <1>3, <1>4, <1>5
<1> HIDE DEF from
<1>7. d.to \in Nat \ {0}
      BY <1>6, ReadDigitsIs
<1> HIDE DEF d
<1>8. end \in 0 .. Len(x.bytes)
  <2>1. d.to - 1 \in Nat /\ signed \in Nat /\ y.pos \in 0 .. Len(x.bytes)
        BY <1>3, <1>7 DEF StreamsOf
  <2>2. r[d.to - 1].s.pos \in 0 .. Len(x.bytes) /\ r[signed].s.pos \in 0 .. Len(x.bytes)
        BY <2>1, CallIs
  <2> QED
      BY <2>1, <2>2
<1>9. r[d.to].s \in StreamsOf(x)
      BY <1>7, CallIs
<1> HIDE DEF end, ok, r
<1>10. z \in StreamsOf(x)
       BY <1>8, <1>9, BackIs
<1> QED
    BY <1>1, <1>10

\* The template getNumber leaves a stream.
LEMMA GetNumberIs ==
  ASSUME NEW x \in Files, NEW y \in StreamsOf(x), NEW w, w.skipws \in BOOLEAN,
         w.base \in {8, 10, 16}, NEW T
  PROVE  getNumber(x, y, w, T).s \in StreamsOf(x)
<1> DEFINE negMax == Highest(T) + IF T.signed THEN 1 ELSE 0
           g == getWord(x, y, w, Highest(T), negMax)
<1>1. getNumber(x, y, w, T).s = g.s
      BY DEF getNumber, AsType
<1>2. g.s \in StreamsOf(x)
  <2> HIDE DEF negMax
  <2> QED
      BY WordIs
<1> QED
    BY <1>1, <1>2

\* istream::getBool leaves a stream.
LEMMA GetBoolIs ==
  ASSUME NEW x \in Files, NEW y \in StreamsOf(x), NEW w, w.skipws \in BOOLEAN,
         w.base \in {8, 10, 16}
  PROVE  getBool(x, y, w).s \in StreamsOf(x)
<1> DEFINE r == Reads(x, y)
           i == readSkip(x, y, w)
           Begins(text, n) == n <= Len(text) /\ Given(r, i, i + n) = SubSeq(text, 1, n)
           Is(n)   == Begins(TrueText, n) /\ n = 4
           Isnt(n) == Begins(FalseText, n) /\ n = 5
           Ends(n) == Is(n) \/ Isnt(n) \/ ~(Begins(TrueText, n) \/ Begins(FalseText, n))
           to == CHOOSE n \in 1 .. 5 : Ends(n) /\ \A k \in 1 .. n - 1 : ~Ends(k)
           E == {n \in Nat : Ends(n)}
           ok == Is(to) \/ Isnt(to)
           after == r[i + to - 1].s
           z == IF ok THEN after ELSE Set(after, "fail")
<1>1. getBool(x, y, w).s = IF w.boolalpha THEN z ELSE getNumber(x, y, w, Bool).s
  <2>1. getBool(x, y, w) = IF w.boolalpha THEN BoolWord(r, i) ELSE getNumber(x, y, w, Bool)
        BY DEF getBool
  <2>2. BoolWord(r, i).s = z
    <3> HIDE DEF r, i
    <3> QED
        BY DEF BoolWord
  <2> HIDE DEF r, i, z
  <2> QED
      BY <2>1, <2>2
<1>2. i \in Nat \ {0}
      BY ReadSkipIs
<1> HIDE DEF i, r
<1>3. to \in 1 .. 5
  <2>1. Ends(5)
    <3>1. ~Begins(TrueText, 5)
          BY DEF TrueText
    <3> HIDE DEF Begins
    <3> QED
        BY <3>1
  <2> HIDE DEF Ends
  <2>2. E \cap (1 .. 5) # {}
        BY <2>1
  <2>3. \E n \in 1 .. 5 : n \in E /\ \A k \in 1 .. n - 1 : k \notin E
    <3> HIDE DEF E
    <3>1. 1 \in Nat /\ 5 \in Nat
          OBVIOUS
    <3> QED
        BY <2>2, <3>1, First
  <2>4. \E n \in 1 .. 5 : Ends(n) /\ \A k \in 1 .. n - 1 : ~Ends(k)
    <3>1. PICK n \in 1 .. 5 : n \in E /\ \A k \in 1 .. n - 1 : k \notin E
          BY <2>3
    <3>2. \A k \in 1 .. n - 1 : k \in Nat
          OBVIOUS
    <3> QED
        BY <3>1, <3>2
  <2> QED
      BY <2>4
<1> HIDE DEF to, ok
<1>4. i + to - 1 \in Nat
      BY <1>2, <1>3
<1>5. after \in StreamsOf(x)
      BY <1>4, CallIs DEF r
<1> HIDE DEF after
<1>6. z \in StreamsOf(x)
      BY <1>5, SetIs
<1>7. getNumber(x, y, w, Bool).s \in StreamsOf(x)
      BY GetNumberIs
<1> QED
    BY <1>1, <1>6, <1>7

\* The mantissa of a double is ended by a call, with characters before it.
LEMMA ReadMantissaIs ==
  ASSUME NEW x \in Files, NEW y \in StreamsOf(x), NEW i \in Nat \ {0}, AllGive(x, y, i)
  PROVE  LET n == ReadMantissa(x, Reads(x, y), i).to
         IN  n \in Nat \ {0} /\ AllGive(x, y, n)
<1> DEFINE r == Reads(x, y)
           mantissa == Mantissa(r, i)
           Far(n)   == mantissa[n - i].fracExp \notin -EXP_LIMIT .. EXP_LIMIT
           Other(n) == r[n].c \notin Digit /\ (r[n].c # DOT \/ mantissa[n - i].gotDot)
           Over(n)  == Far(n + 1)
           E  == {n \in Nat : Other(n) \/ Over(n)}
           to == Until(x, i, LAMBDA n : Other(n) \/ Over(n))
<1>1. ReadMantissa(x, r, i).to = to
      BY Zenon DEF ReadMantissa
<1> HIDE DEF Over, Far, mantissa
<1>2. \A h \in Nat : r[h].c < 0 => r[h].c \notin Digit /\ r[h].c # DOT
      BY DEF Digit, DOT
<1>3. \A h \in Nat : h >= 1 /\ r[h].c < 0 => Other(h)
      BY <1>2
<1> HIDE DEF Other
<1>4. EndsWithAll(x, y, E)
      BY <1>3 DEF EndsWithAll
<1>5. \E n : FirstIn(E, i, Len(x.bytes) + 1, n)
  <2> HIDE DEF E
  <2> QED
      BY <1>4, UntilIs
<1>6. FirstIn(E, i, Len(x.bytes) + 1, to)
  <2> DEFINE Is(q) == /\ (Other(q) \/ Over(q))
                      /\ \A h \in i .. q - 1 : ~((Other(h) \/ Over(h)))
  <2>1. \A q \in i .. Len(x.bytes) + 1 : FirstIn(E, i, Len(x.bytes) + 1, q) <=> Is(q)
    <3>1. \A q \in i .. Len(x.bytes) + 1 : q \in Nat /\ \A h \in i .. q - 1 : h \in Nat
          BY ByteIsCode
    <3> QED
        BY <3>1 DEF FirstIn
  <2>2. \E q \in i .. Len(x.bytes) + 1 : Is(q)
        BY <1>5, <2>1 DEF FirstIn
  <2>3. to = CHOOSE q \in i .. Len(x.bytes) + 1 : Is(q)
        BY DEF Until
  <2> HIDE DEF Is, to, E
  <2> QED
      BY <2>1, <2>2, <2>3
<1>7. to \in Nat \ {0} /\ AllGive(x, y, to)
  <2> HIDE DEF E, to
  <2> QED
      BY <1>4, <1>6, UntilIs
<1> HIDE DEF to
<1> QED
    BY <1>1, <1>7

\* The digits of its exponent are ended by a call.
LEMMA ReadExponentIs ==
  ASSUME NEW x \in Files, NEW y \in StreamsOf(x), NEW i \in Nat \ {0}, AllGive(x, y, i)
  PROVE  ReadExponent(x, Reads(x, y), i).to \in Nat \ {0}
<1> DEFINE r    == Reads(x, y)
           exps == Exponent(r, i)
           Great(n) == exps[n - i] > EXP_LIMIT
           Ends(n)  == r[n].c \notin Digit \/ Great(n)
           E  == {n \in Nat : Ends(n)}
           to == Until(x, i, LAMBDA n : r[n].c \notin Digit \/ Great(n))
<1>1. ReadExponent(x, r, i).to = to
      BY Zenon DEF ReadExponent
<1> HIDE DEF Great
<1>2. EndsWithAll(x, y, E)
  <2>1. \A h \in Nat : r[h].c < 0 => r[h].c \notin Digit
        BY DEF Digit
  <2> QED
      BY <2>1 DEF EndsWithAll
<1>3. \E n : FirstIn(E, i, Len(x.bytes) + 1, n)
  <2> HIDE DEF E
  <2> QED
      BY <1>2, UntilIs
<1>4. to \in i .. Len(x.bytes) + 1
  <2> DEFINE Is(q) == Ends(q) /\ \A h \in i .. q - 1 : ~Ends(h)
  <2>1. \A q \in i .. Len(x.bytes) + 1 : FirstIn(E, i, Len(x.bytes) + 1, q) <=> Is(q)
    <3>1. \A q \in i .. Len(x.bytes) + 1 : q \in Nat /\ \A h \in i .. q - 1 : h \in Nat
          BY ByteIsCode
    <3> QED
        BY <3>1 DEF FirstIn
  <2>2. \E q \in i .. Len(x.bytes) + 1 : Is(q)
        BY <1>3, <2>1 DEF FirstIn
  <2>3. to = CHOOSE q \in i .. Len(x.bytes) + 1 : Is(q)
        BY DEF Until
  <2> HIDE DEF Is, to, E
  <2> QED
      BY <2>2, <2>3
<1> HIDE DEF to
<1>5. to \in Nat \ {0}
      BY <1>4, ByteIsCode
<1> QED
    BY <1>1, <1>5

\* istream::getDouble leaves a stream.
LEMMA GetDoubleIs ==
  ASSUME NEW x \in Files, NEW y \in StreamsOf(x), NEW w, w.skipws \in BOOLEAN
  PROVE  getDouble(x, y, w).s \in StreamsOf(x)
<1> DEFINE r     == Reads(x, y)
           first == readSkip(x, y, w)
           i     == PastSign(r, first)
           neg   == r[first].c = MINUS
           mant  == ReadMantissa(x, r, i)
           e     == ~mant.far /\ mant.is.gotDigit /\ r[mant.to].c \in {69, 101}
           minus == e /\ r[mant.to + 1].c = MINUS
           from  == PastSign(r, mant.to + 1)
           power == IF e THEN ReadExponent(x, r, from)
                    ELSE [is |-> 0, to |-> mant.to, far |-> FALSE]
           exp   == mant.is.fracExp + IF minus THEN -power.is ELSE power.is
           end   == IF e /\ power.to > from THEN r[power.to - 1].s.pos
                    ELSE IF mant.to > i THEN r[mant.to - 1].s.pos ELSE y.pos
           v     == Scale(mant.is.frac = 0, Size(mant.is.frac), exp)
           ok    == mant.is.gotDigit /\ ~mant.far /\ ~power.far /\ v.ok
           z     == IF ok THEN setpos(r[power.to].s, end)
                    ELSE Set(setpos(r[power.to].s, end), "fail")
<1>1. getDouble(x, y, w).s = z
  <2> DEFINE u == UnsignedDouble(x, y, r, i, neg)
  <2>1. getDouble(x, y, w) = u
        BY DEF getDouble
  <2> HIDE DEF i, neg, r
  <2>2. u.s = z
        BY Zenon DEF UnsignedDouble
  <2> HIDE DEF u, z
  <2> QED
      BY <2>1, <2>2
<1> HIDE DEF ok, neg
<1>2. first \in Nat \ {0} /\ AllGive(x, y, first)
      BY ReadSkipIs
<1> HIDE DEF first
<1>3. i \in Nat \ {0} /\ AllGive(x, y, i)
      BY <1>2, PastSignIs
<1> HIDE DEF i
<1>4. mant.to \in Nat \ {0} /\ AllGive(x, y, mant.to)
      BY <1>3, ReadMantissaIs
<1> HIDE DEF mant
<1>5. e => from \in Nat \ {0} /\ AllGive(x, y, from)
  <2>1. e => r[mant.to].c >= 0
        OBVIOUS
  <2> HIDE DEF e
  <2>2. e => AllGive(x, y, mant.to + 1)
        BY <1>4, <2>1, GivenFirst
  <2>3. mant.to + 1 \in Nat \ {0}
        BY <1>4
  <2> QED
      BY <2>2, <2>3, PastSignIs
<1> HIDE DEF e, from
<1>6. power.to \in Nat \ {0}
  <2>1. CASE e
    <3>1. ReadExponent(x, r, from).to \in Nat \ {0}
          BY <1>5, <2>1, ReadExponentIs
    <3> QED
        BY <2>1, <3>1
  <2>2. CASE ~e
        BY <1>4, <2>2
  <2> QED
      BY <2>1, <2>2
<1> HIDE DEF power
<1>7. end \in 0 .. Len(x.bytes)
  <2>1. mant.to - 1 \in Nat /\ power.to - 1 \in Nat /\ y.pos \in 0 .. Len(x.bytes)
        BY <1>4, <1>6 DEF StreamsOf
  <2>2. /\ r[mant.to - 1].s.pos \in 0 .. Len(x.bytes)
        /\ r[power.to - 1].s.pos \in 0 .. Len(x.bytes)
        BY <2>1, CallIs
  <2> QED
      BY <2>1, <2>2
<1>8. r[power.to].s \in StreamsOf(x)
      BY <1>6, CallIs
<1> HIDE DEF end, r
<1>9. z \in StreamsOf(x)
      BY <1>7, <1>8, BackIs
<1> QED
    BY <1>1, <1>9

-------------------------------------------------------------------------------
(* Insertions: the bytes that are written, and the text that they are.     *)

\* A text with one more character at its end.
LEMMA ConcatAppend ==
  ASSUME NEW S, NEW a \in Seq(S), NEW b \in Seq(S), NEW c \in S
  PROVE  a \o Append(b, c) = Append(a \o b, c)
<1>1. Append(b, c) = b \o <<c>> /\ a \o b \in Seq(S) /\ <<c>> \in Seq(S)
      BY AppendIsConcat, ConcatProperties
<1>2. Append(a \o b, c) = (a \o b) \o <<c>>
      BY <1>1, AppendIsConcat
<1>3. (a \o b) \o <<c>> = a \o (b \o <<c>>)
      BY <1>1, ConcatAssociative
<1> QED
    BY <1>1, <1>2, <1>3

\* A part of a text, character by character.
LEMMA PartIs ==
  ASSUME NEW S, NEW t \in Seq(S), NEW i \in 1 .. Len(t) + 1
  PROVE  /\ SubSeq(t, i, i - 1) = <<>>
         /\ \A j \in i - 1 .. Len(t) :
              SubSeq(t, i, j) \in Seq(S) /\ Len(SubSeq(t, i, j)) = j - i + 1
         /\ \A j \in i .. Len(t) : SubSeq(t, i, j) = Append(SubSeq(t, i, j - 1), t[j])
<1>0. Len(t) \in Nat /\ \A k \in 1 .. Len(t) : t[k] \in S
      BY LenProperties, ElementOfSeq
<1>1. SubSeq(t, i, i - 1) = <<>>
      BY <1>0, SubSeqEmpty
<1>2. ASSUME NEW j \in i - 1 .. Len(t)
      PROVE  SubSeq(t, i, j) \in Seq(S) /\ Len(SubSeq(t, i, j)) = j - i + 1
  <2>1. i \in Int /\ j \in Int /\ \A k \in i .. j : t[k] \in S
        BY <1>0
  <2>2. SubSeq(t, i, j) \in Seq(S) /\ Len(SubSeq(t, i, j)) = IF i <= j THEN j - i + 1 ELSE 0
        BY <2>1, SubSeqProperties
  <2> QED
      BY <1>0, <2>2
<1>3. ASSUME NEW j \in i .. Len(t)
      PROVE  SubSeq(t, i, j) = Append(SubSeq(t, i, j - 1), t[j])
  <2>1. i \in 1 .. Len(t) /\ j - 1 \in i - 1 .. Len(t) /\ j \in 1 .. Len(t)
        BY <1>0
  <2>2. SubSeq(t, i, j) = SubSeq(t, i, j - 1) \o <<t[j]>>
        BY <2>1, SubSeqRecursiveSecond
  <2>3. SubSeq(t, i, j - 1) \in Seq(S) /\ t[j] \in S
        BY <1>0, <1>2, <2>1
  <2> QED
      BY <2>2, <2>3, AppendIsConcat
<1> QED
    BY <1>1, <1>2, <1>3

\* The file x with the bytes b.
Holding(x, b) == [x EXCEPT !.bytes = b]

\* It is a file if the bytes are codes.
LEMMA HoldingIs ==
  ASSUME NEW x \in Files, NEW b \in Seq(Codes)
  PROVE  /\ Holding(x, b) \in Files /\ Holding(x, b).bytes = b
         /\ Holding(x, x.bytes) = x
         /\ Binary(Holding(x, b)) = Binary(x)
         /\ \A c \in Seq(Codes) : Holding(Holding(x, b), c) = Holding(x, c)
BY DEF Holding, Files, Binary

\* A byte at the end of a file is a character of its text, or the LF that the CR before it
\* goes with.
LEMMA AppendByte ==
  ASSUME NEW x \in Files, NEW c \in Codes
  PROVE  Whole(Holding(x, Append(x.bytes, c))) =
           IF ~Binary(x) /\ c = LF /\ Len(x.bytes) > 0 /\ x.bytes[Len(x.bytes)] = CR
           THEN [Whole(x) EXCEPT ![Len(Whole(x))] = LF] ELSE Append(Whole(x), c)
<1> DEFINE B == x.bytes
           L == Len(B)
           b == Append(B, c)
           z == Holding(x, b)
<1>1. B \in Seq(Codes) /\ L \in Nat
      BY ByteIsCode DEF Files
<1>2. /\ b \in Seq(Codes) /\ Len(b) = L + 1 /\ b[L + 1] = c
      /\ \A i \in 1 .. L : b[i] = B[i]
  <2> HIDE DEF B
  <2> QED
      BY <1>1, AppendProperties
<1> HIDE DEF b
<1>3. z \in Files /\ z.bytes = b /\ Binary(z) = Binary(x)
      BY <1>2, HoldingIs
<1> HIDE DEF z
<1>4. Decoded(x, 0, L) = Decoded(z, 0, L)
  <2>1. 0 \in Nat /\ L \in 0 .. Len(x.bytes) /\ L <= Len(z.bytes)
        BY <1>1, <1>2, <1>3
  <2>2. \A i \in 0 + 1 .. L : x.bytes[i] = z.bytes[i]
        BY <1>1, <1>2, <1>3
  <2> HIDE DEF L, B
  <2> QED
      BY <1>3, <2>1, <2>2, DecodedSame
<1>5. Decoded(z, 0, L + 1) =
        IF Joins(z, 0, L) THEN [Decoded(z, 0, L) EXCEPT ![Len(Decoded(z, 0, L))] = LF]
        ELSE Append(Decoded(z, 0, L), z.bytes[L + 1])
  <2>1. 0 \in Nat /\ L \in 0 .. Len(z.bytes) - 1
        BY <1>1, <1>2, <1>3
  <2> HIDE DEF L
  <2> QED
      BY <1>3, <2>1, DecodedIs
<1>6. Joins(z, 0, L) <=> ~Binary(x) /\ c = LF /\ L > 0 /\ B[L] = CR
  <2>1. L > 0 => z.bytes[L] = B[L]
        BY <1>1, <1>2, <1>3
  <2>2. z.bytes[L + 1] = c
        BY <1>2, <1>3
  <2> HIDE DEF L, B
  <2> QED
      BY <1>3, <2>1, <2>2 DEF Joins
<1>7. Whole(z) = Decoded(z, 0, L + 1) /\ Whole(x) = Decoded(x, 0, L)
      BY <1>2, <1>3 DEF Whole
<1>8. z.bytes[L + 1] = c
      BY <1>2, <1>3
<1>9. Whole(z) = IF ~Binary(x) /\ c = LF /\ L > 0 /\ B[L] = CR
                 THEN [Whole(x) EXCEPT ![Len(Whole(x))] = LF] ELSE Append(Whole(x), c)
  <2> HIDE DEF L, B
  <2> QED
      BY <1>4, <1>5, <1>6, <1>7, <1>8
<1> QED
    BY <1>9 DEF z, b

\* The text of a file is a text.
LEMMA WholeIs ==
  ASSUME NEW x \in Files
  PROVE  Whole(x) \in Seq(Codes)
<1>1. 0 \in Nat /\ Len(x.bytes) \in 0 .. Len(x.bytes)
      BY ByteIsCode
<1> QED
    BY <1>1, DecodedIs DEF Whole

\* What putch and putstr write after the end of a file is read as what was put: each LF
\* with the CR that is written before it.
LEMMA EncodedIs ==
  ASSUME NEW x \in Files, NEW t \in Seq(Codes)
  PROVE  /\ Encoded(x, t) \in Seq(Codes)
         /\ Whole(Holding(x, x.bytes \o Encoded(x, t))) = Whole(x) \o t
<1> DEFINE B == x.bytes
           C == Codes \cup {t[i] : i \in Nat}
           More(n) == IF t[n] = LF /\ ~Binary(x) THEN <<CR, LF>> ELSE <<t[n]>>
           Next1(n, v) == v \o More(n)
           Step == [n \in Nat |-> [v \in Seq(C) |-> Next1(n, v)]]
           G(g) == [n \in Nat |-> IF n = 0 THEN <<>> ELSE Next1(n, g[n - 1])]
           e == CHOOSE h : h = G(h)
<1>1. Encoded(x, t) = e[Len(t)]
      BY DEF Encoded
<1>2. \A n \in Nat, v \in Seq(C) : Next1(n, v) \in Seq(C)
  <2>1. \A n \in Nat : t[n] \in C
        OBVIOUS
  <2>2. LF \in C /\ CR \in C
        BY CodesAre DEF LF, CR
  <2> HIDE DEF C
  <2>3. \A n \in Nat : More(n) \in Seq(C)
        BY <2>1, <2>2
  <2> HIDE DEF More
  <2> QED
      BY <2>3, ConcatProperties
<1>3. <<>> \in Seq(C)
      BY EmptySeq
<1>4. PICK g : IsRun(g, Seq(C), <<>>, Step)
  <2> HIDE DEF Next1, C
  <2>1. Step \in [Nat -> [Seq(C) -> Seq(C)]] /\ <<>> \in Seq(C)
        BY <1>2, <1>3
  <2> HIDE DEF Step
  <2> QED
      BY <2>1, Recursion
<1>5. g = G(g)
  <2> HIDE DEF Next1, C
  <2>1. ASSUME NEW n \in Nat PROVE g[n] = IF n = 0 THEN <<>> ELSE Next1(n, g[n - 1])
    <3>1. CASE n = 0
          BY <1>4, <3>1 DEF IsRun
    <3>2. CASE n # 0
      <4>1. n - 1 \in Nat /\ g[n - 1] \in Seq(C)
            BY <3>2, <1>4 DEF IsRun
      <4> QED
          BY <1>4, <3>2, <4>1 DEF IsRun
    <3> QED
        BY <3>1, <3>2
  <2> QED
      BY <2>1, <1>4 DEF IsRun
<1>6. e = G(e)
      BY Zenon, <1>5
<1> HIDE DEF e
<1>7. e[0] = <<>> /\ \A n \in Nat : e[n + 1] = Next1(n + 1, e[n])
  <2> HIDE DEF Next1, C
  <2>1. \A n \in Nat : e[n] = IF n = 0 THEN <<>> ELSE Next1(n, e[n - 1])
        BY <1>6
  <2>2. \A n \in Nat : n + 1 \in Nat /\ n + 1 # 0 /\ (n + 1) - 1 = n
        OBVIOUS
  <2> QED
      BY <2>1, <2>2
<1>8. /\ Whole(x) \in Seq(Codes) /\ B \in Seq(Codes) /\ Len(t) \in Nat
      /\ \A i \in 1 .. Len(t) : t[i] \in Codes
      /\ CR \in Codes /\ LF \in Codes
      BY WholeIs, LenProperties, ElementOfSeq, CodesAre DEF Files, LF, CR
<1> DEFINE W(n) == Whole(Holding(x, B \o e[n]))
           Fits(n) == n <= Len(t) => e[n] \in Seq(Codes) /\ W(n) = Whole(x) \o SubSeq(t, 1, n)
           T == {n \in Nat : Fits(n)}
<1> HIDE DEF C
<1>9. 0 \in T
  <2>1. B \o <<>> = B /\ <<>> \in Seq(Codes) /\ Holding(x, B) = x
        BY <1>8, ConcatEmptySeq, EmptySeq, HoldingIs
  <2>2. SubSeq(t, 1, 0) = <<>> /\ Whole(x) \o <<>> = Whole(x)
        BY WholeIs, ConcatEmptySeq, SubSeqEmpty
  <2>3. W(0) = Whole(x)
        BY <1>7, <2>1
  <2> QED
      BY <1>7, <2>1, <2>2, <2>3
<1>10. ASSUME NEW n \in Nat, n \in T PROVE n + 1 \in T
  <2>1. SUFFICES ASSUME n + 1 <= Len(t)
                 PROVE  /\ e[n + 1] \in Seq(Codes)
                        /\ W(n + 1) = Whole(x) \o SubSeq(t, 1, n + 1)
        OBVIOUS
  <2> DEFINE ch == t[n + 1]
             held == B \o e[n]
             y == Holding(x, held)
             part == SubSeq(t, 1, n)
  <2>2. e[n] \in Seq(Codes) /\ Whole(y) = Whole(x) \o part /\ ch \in Codes
        BY <1>8, <1>10, <2>1
  <2>3. part \in Seq(Codes) /\ SubSeq(t, 1, n + 1) = Append(part, ch)
    <3>1. 1 \in 1 .. Len(t) + 1 /\ n \in 1 - 1 .. Len(t) /\ n + 1 \in 1 .. Len(t) /\ (n + 1) - 1 = n
          BY <1>8, <2>1
    <3> QED
        BY <3>1, PartIs
  <2>4. e[n + 1] = e[n] \o More(n + 1)
        BY <1>7
  <2>5. held \in Seq(Codes) /\ y \in Files /\ y.bytes = held /\ Binary(y) = Binary(x)
    <3>1. held \in Seq(Codes)
      <4> HIDE DEF B
      <4> QED
          BY <1>8, <2>2, ConcatProperties
    <3> HIDE DEF held
    <3> QED
        BY <3>1, HoldingIs
  <2>6. \A d \in Seq(Codes) : Holding(y, d) = Holding(x, d)
    <3> HIDE DEF held
    <3> QED
        BY <2>5, HoldingIs
  <2>7. Append(Whole(y), ch) = Whole(x) \o SubSeq(t, 1, n + 1)
    <3> HIDE DEF y, part, ch
    <3>1. Whole(x) \in Seq(Codes) /\ part \in Seq(Codes) /\ ch \in Codes
          BY <1>8, <2>2, <2>3
    <3>2. Whole(x) \o Append(part, ch) = Append(Whole(x) \o part, ch)
          BY <3>1, ConcatAppend
    <3> QED
        BY <2>2, <2>3, <3>2
  <2>8. CASE ch = LF /\ ~Binary(x)
    <3> DEFINE more == Append(held, CR)
               z == Holding(x, more)
    <3>1. e[n + 1] = Append(Append(e[n], CR), LF)
      <4>1. e[n + 1] = e[n] \o <<CR, LF>>
            BY <2>4, <2>8
      <4>2. <<CR, LF>> = Append(<<CR>>, LF) /\ <<CR>> \in Seq(Codes)
            BY <1>8
      <4>3. e[n] \o <<CR>> = Append(e[n], CR)
            BY <1>8, <2>2, AppendIsConcat
      <4>4. CR \in Codes /\ LF \in Codes /\ e[n] \in Seq(Codes)
            BY <1>8, <2>2
      <4>5. e[n] \o Append(<<CR>>, LF) = Append(e[n] \o <<CR>>, LF)
            BY <4>2, <4>4, ConcatAppend
      <4> QED
          BY <4>1, <4>2, <4>3, <4>5
    <3>2. Append(e[n], CR) \in Seq(Codes) /\ e[n + 1] \in Seq(Codes)
          BY <1>8, <2>2, <3>1, AppendProperties
    <3>3. B \o e[n + 1] = Append(more, LF)
      <4> HIDE DEF B
      <4>1. CR \in Codes /\ LF \in Codes /\ e[n] \in Seq(Codes) /\ B \in Seq(Codes)
            BY <1>8, <2>2
      <4>2. B \o Append(e[n], CR) = more
            BY <4>1, ConcatAppend
      <4> HIDE DEF more
      <4> DEFINE mid == Append(e[n], CR)
      <4>3. B \o Append(mid, LF) = Append(B \o mid, LF)
        <5>1. mid \in Seq(Codes)
              BY <3>2
        <5> HIDE DEF mid
        <5> QED
            BY <4>1, <5>1, ConcatAppend
      <4> QED
          BY <3>1, <4>2, <4>3
    <3>4. /\ more \in Seq(Codes) /\ z \in Files /\ z.bytes = more /\ Binary(z) = Binary(x)
          /\ Len(more) > 0 /\ more[Len(more)] = CR
      <4> HIDE DEF held
      <4>1. /\ more \in Seq(Codes) /\ Len(more) = Len(held) + 1
            /\ more[Len(held) + 1] = CR /\ Len(held) \in Nat
            BY <1>8, <2>5, AppendProperties, LenProperties
      <4> HIDE DEF more
      <4> QED
          BY <4>1, HoldingIs
    <3>5. Whole(z) = Append(Whole(y), CR)
      <4>1. z = Holding(y, Append(y.bytes, CR))
        <5> HIDE DEF y, held
        <5> QED
            BY <2>5, <2>6, <3>4
      <4>2. CR # LF
            BY DEF CR, LF
      <4> HIDE DEF y, z
      <4> QED
          BY <1>8, <2>5, <4>1, <4>2, AppendByte
    <3>6. Whole(Holding(z, Append(z.bytes, LF))) = [Whole(z) EXCEPT ![Len(Whole(z))] = LF]
      <4> HIDE DEF z, more
      <4> QED
          BY <1>8, <2>8, <3>4, AppendByte
    <3>7. Holding(x, B \o e[n + 1]) = Holding(z, Append(z.bytes, LF))
      <4>1. Append(more, LF) \in Seq(Codes)
        <5> HIDE DEF more
        <5> QED
            BY <1>8, <3>4, AppendProperties
      <4> HIDE DEF more, B
      <4>2. Holding(Holding(x, more), Append(more, LF)) = Holding(x, Append(more, LF))
            BY <3>4, <4>1, HoldingIs
      <4> QED
          BY <3>3, <3>4, <4>2
    <3>8. [Append(Whole(y), CR) EXCEPT ![Len(Append(Whole(y), CR))] = LF] = Append(Whole(y), LF)
      <4> HIDE DEF y
      <4> QED
          BY <1>8, <2>5, WholeIs, ReplaceLast
    <3>9. W(n + 1) = Append(Whole(y), LF)
      <4> HIDE DEF y, z, B
      <4> QED
          BY <3>5, <3>6, <3>7, <3>8
    <3> HIDE DEF W, y
    <3> QED
        BY <2>7, <2>8, <3>2, <3>9
  <2>9. CASE ~(ch = LF /\ ~Binary(x))
    <3>1. e[n + 1] = Append(e[n], ch)
      <4>1. e[n + 1] = e[n] \o <<ch>>
            BY <2>4, <2>9
      <4> HIDE DEF ch
      <4> QED
          BY <2>2, <4>1, AppendIsConcat
    <3>2. /\ e[n + 1] \in Seq(Codes) /\ B \o e[n + 1] = Append(held, ch)
          /\ Append(held, ch) \in Seq(Codes)
      <4> HIDE DEF ch, B
      <4>0. e[n] \in Seq(Codes) /\ B \in Seq(Codes) /\ ch \in Codes
            BY <1>8, <2>2
      <4>1. e[n + 1] \in Seq(Codes) /\ B \o e[n + 1] = Append(held, ch)
        <5>1. Append(e[n], ch) \in Seq(Codes)
              BY <4>0, AppendProperties
        <5>2. B \o Append(e[n], ch) = Append(B \o e[n], ch)
              BY <4>0, ConcatAppend
        <5> QED
            BY <3>1, <5>1, <5>2
      <4> HIDE DEF held
      <4> QED
          BY <2>2, <2>5, <4>1, AppendProperties
    <3>3. Whole(Holding(y, Append(y.bytes, ch))) = Append(Whole(y), ch)
      <4> HIDE DEF y, ch
      <4> QED
          BY <2>2, <2>5, <2>9, AppendByte
    <3>4. W(n + 1) = Append(Whole(y), ch)
      <4> HIDE DEF y, ch, held, B
      <4> QED
          BY <2>5, <2>6, <3>2, <3>3
    <3> HIDE DEF W, y, ch
    <3> QED
        BY <2>7, <3>2, <3>4
  <2> QED
      BY <2>8, <2>9
<1>11. Nat \subseteq T
  <2> HIDE DEF T
  <2> QED
      BY <1>9, <1>10, NatInduct
<1>12. Fits(Len(t))
  <2> HIDE DEF Fits
  <2> QED
      BY <1>8, <1>11
<1>13. SubSeq(t, 1, Len(t)) = t
       BY SubSeqFull
<1> QED
    BY <1>1, <1>8, <1>12, <1>13

\* The bytes of data are written at a place of a file: what is before it stays.
LEMMA WrittenIs ==
  ASSUME NEW x \in Files, NEW place \in 0 .. Len(x.bytes), NEW data \in Seq(Codes)
  PROVE  LET w == Written(x, place, data).bytes
         IN  /\ Written(x, place, data) = Holding(x, w) /\ w \in Seq(Codes)
             /\ Len(w) = IF place + Len(data) > Len(x.bytes) THEN place + Len(data)
                         ELSE Len(x.bytes)
             /\ \A i \in 1 .. place : w[i] = x.bytes[i]
             /\ \A i \in place + 1 .. place + Len(data) : w[i] = data[i - place]
             /\ place = Len(x.bytes) => w = x.bytes \o data
<1> DEFINE B == x.bytes
           n == IF place + Len(data) > Len(B) THEN place + Len(data) ELSE Len(B)
           w == [i \in 1 .. n |-> IF i \in place + 1 .. place + Len(data) THEN data[i - place]
                                  ELSE B[i]]
<1>1. Written(x, place, data) = Holding(x, w) /\ Written(x, place, data).bytes = w
      BY DEF Written, Holding, Files
<1>2. /\ B \in Seq(Codes) /\ Len(B) \in Nat /\ Len(data) \in Nat /\ place \in Nat
      /\ \A i \in 1 .. Len(B) : B[i] \in Codes
      /\ \A i \in 1 .. Len(data) : data[i] \in Codes
      BY LenProperties, ElementOfSeq DEF Files
<1> HIDE DEF B
<1>3. n \in Nat /\ n >= place + Len(data) /\ n >= Len(B) /\ place <= Len(B)
      BY <1>2 DEF B
<1>4. w \in Seq(Codes) /\ Len(w) = n
  <2>1. ASSUME NEW i \in 1 .. n
        PROVE  (IF i \in place + 1 .. place + Len(data) THEN data[i - place] ELSE B[i]) \in Codes
    <3>1. CASE i \in place + 1 .. place + Len(data)
          BY <1>2, <1>3, <3>1
    <3>2. CASE i \notin place + 1 .. place + Len(data)
      <4>1. i \in 1 .. Len(B)
            BY <1>2, <1>3, <3>2
      <4> QED
          BY <1>2, <3>2, <4>1
    <3> QED
        BY <3>1, <3>2
  <2>2. w \in [1 .. n -> Codes]
    <3> HIDE DEF n
    <3> QED
        BY <2>1
  <2> HIDE DEF w, n
  <2> QED
      BY <1>3, <2>2, FunIsSeq
<1>5. \A i \in 1 .. place : w[i] = B[i]
      BY <1>2, <1>3
<1>6. \A i \in place + 1 .. place + Len(data) : w[i] = data[i - place]
      BY <1>2, <1>3
<1>7. ASSUME place = Len(B) PROVE w = B \o data
  <2> DEFINE c == B \o data
  <2>1. /\ c \in Seq(Codes) /\ Len(c) = Len(B) + Len(data)
        /\ \A i \in 1 .. Len(B) + Len(data) :
             c[i] = IF i <= Len(B) THEN B[i] ELSE data[i - Len(B)]
        BY <1>2, ConcatProperties
  <2>2. n = Len(B) + Len(data)
        BY <1>2, <1>7
  <2>3. \A i \in 1 .. n : w[i] = c[i]
    <3> HIDE DEF c
    <3> QED
        BY <1>2, <1>7, <2>1, <2>2
  <2> HIDE DEF c, w, n
  <2>4. w = c
        BY <1>4, <2>1, <2>2, <2>3, SeqEqual
  <2> QED
      BY <2>4 DEF c
<1> HIDE DEF w
<1> QED
    BY <1>1, <1>4, <1>5, <1>6, <1>7 DEF B

\* SdBaseFile::write: a file that cannot be written is left alone; the others are written
\* where the stream is, or at the end if they have been opened to append.
LEMMA WriteIs ==
  ASSUME NEW x \in Files, NEW y \in StreamsOf(x), NEW data \in Seq(Codes)
  PROVE  LET r == write(x, y, data)
             place == IF "APPEND" \in x.flags THEN Len(x.bytes) ELSE y.pos
         IN  /\ r.f \in Files /\ r.s \in StreamsOf(r.f) /\ r.f = Holding(x, r.f.bytes)
             /\ "WRITE" \notin x.flags \/ x.dead => r.f = x /\ r.s.pos = y.pos
             /\ "WRITE" \in x.flags /\ ~x.dead =>
                  /\ place \in 0 .. Len(x.bytes)
                  /\ r.f = Written(x, place, data) /\ r.s.pos = place + Len(data)
             /\ "APPEND" \in x.flags => SubSeq(r.f.bytes, 1, Len(x.bytes)) = x.bytes
<1> DEFINE r == write(x, y, data)
           place == IF "APPEND" \in x.flags THEN Len(x.bytes) ELSE y.pos
           z == Written(x, place, data)
<1>1. /\ x.bytes \in Seq(Codes) /\ Len(x.bytes) \in Nat /\ place \in 0 .. Len(x.bytes)
      /\ Len(data) \in Nat
      BY LenProperties DEF Files, StreamsOf
<1>2. r = IF "WRITE" \notin x.flags \/ x.dead THEN [f |-> x, s |-> [y EXCEPT !.we = TRUE]]
          ELSE [f |-> z, s |-> [y EXCEPT !.pos = place + Len(data)]]
      BY DEF write
<1> HIDE DEF r
<1>3. CASE "WRITE" \notin x.flags \/ x.dead
  <2>1. r.f = x /\ r.s = [y EXCEPT !.we = TRUE]
        BY <1>2, <1>3
  <2>2. r.s \in StreamsOf(x) /\ r.s.pos = y.pos
        BY <2>1 DEF StreamsOf
  <2>3. SubSeq(x.bytes, 1, Len(x.bytes)) = x.bytes
        BY <1>1, SubSeqFull
  <2>4. x = Holding(x, x.bytes)
        BY <1>1, HoldingIs
  <2> QED
      BY <1>3, <2>1, <2>2, <2>3, <2>4 DEF r
<1>4. CASE "WRITE" \in x.flags /\ ~x.dead
  <2>1. r.f = z /\ r.s = [y EXCEPT !.pos = place + Len(data)]
        BY <1>2, <1>4
  <2> DEFINE w == z.bytes
  <2>2. /\ z = Holding(x, w) /\ w \in Seq(Codes)
        /\ Len(w) = IF place + Len(data) > Len(x.bytes) THEN place + Len(data)
                    ELSE Len(x.bytes)
        /\ \A i \in 1 .. place : w[i] = x.bytes[i]
    <3> HIDE DEF place
    <3> QED
        BY <1>1, WrittenIs
  <2>3. z \in Files /\ z.bytes = w
        BY <2>2, HoldingIs
  <2> HIDE DEF z
  <2>4. r.s \in StreamsOf(z) /\ r.s.pos = place + Len(data)
    <3>1. place + Len(data) \in 0 .. Len(w)
          BY <1>1, <2>2
    <3>2. y.pos \in Int /\ y.st \in SUBSET {"eof", "fail", "bad"} /\ y.we \in BOOLEAN
          BY DEF StreamsOf
    <3> HIDE DEF place
    <3> QED
        BY <2>1, <2>3, <3>1, <3>2 DEF StreamsOf
  <2>5. ASSUME "APPEND" \in x.flags
        PROVE  SubSeq(w, 1, Len(x.bytes)) = x.bytes
    <3> DEFINE k == Len(x.bytes)
    <3>1. place = k
          BY <2>5
    <3>2. k \in Nat /\ k <= Len(w) /\ Len(w) \in Nat
          BY <1>1, <2>2, <3>1
    <3>3. SubSeq(w, 1, k) \in Seq(Codes) /\ Len(SubSeq(w, 1, k)) = k
      <4>1. 1 \in 1 .. Len(w) + 1 /\ k \in 1 - 1 .. Len(w) /\ k - 1 + 1 = k
            BY <3>2
      <4> HIDE DEF w, k
      <4> QED
          BY <2>2, <4>1, PartIs
    <3>4. \A i \in 1 .. k : SubSeq(w, 1, k)[i] = w[i]
          BY <2>2, <3>2
    <3>5. \A i \in 1 .. k : SubSeq(w, 1, k)[i] = x.bytes[i]
          BY <2>2, <3>1, <3>4
    <3> HIDE DEF w
    <3> QED
        BY <1>1, <3>3, <3>5, SeqEqual
  <2> QED
      BY <1>1, <1>4, <2>1, <2>2, <2>3, <2>4, <2>5 DEF r, z
<1> QED
    BY <1>3, <1>4

\* putstr, and putch: a text that is put at the end of a file is read after the text that
\* the file holds.
LEMMA PutstrIs ==
  ASSUME NEW x \in Files, NEW y \in StreamsOf(x), NEW t \in Seq(Codes)
  PROVE  LET r == putstr(x, y, t)
         IN  /\ r.f \in Files /\ r.s \in StreamsOf(r.f) /\ r.f = Holding(x, r.f.bytes)
             /\ "WRITE" \notin x.flags => r.f = x
             /\ "APPEND" \in x.flags => SubSeq(r.f.bytes, 1, Len(x.bytes)) = x.bytes
             /\ (y.pos = Len(x.bytes) \/ "APPEND" \in x.flags)
                  /\ "WRITE" \in x.flags /\ ~x.dead => Whole(r.f) = Whole(x) \o t
<1> DEFINE r == putstr(x, y, t)
           e == Encoded(x, t)
           w == IF t = <<>> THEN [f |-> x, s |-> y] ELSE write(x, y, e)
<1>1. r.f = w.f /\ r.s = IF w.s.we THEN Set(w.s, "bad") ELSE w.s
  <2>1. r = IF w.s.we THEN [w EXCEPT !.s = Set(@, "bad")] ELSE w
        BY DEF putstr
  <2>2. w = [f |-> w.f, s |-> w.s]
        BY DEF write
  <2> HIDE DEF w, r
  <2> QED
      BY <2>1, <2>2
<1>2. e \in Seq(Codes) /\ Whole(Holding(x, x.bytes \o e)) = Whole(x) \o t
      BY EncodedIs
<1>3. x.bytes \in Seq(Codes) /\ Len(x.bytes) \in Nat
      BY LenProperties DEF Files
<1> HIDE DEF r, e
<1>4. /\ w.f \in Files /\ w.s \in StreamsOf(w.f) /\ w.f = Holding(x, w.f.bytes)
      /\ "WRITE" \notin x.flags => w.f = x
      /\ "APPEND" \in x.flags => SubSeq(w.f.bytes, 1, Len(x.bytes)) = x.bytes
      /\ (y.pos = Len(x.bytes) \/ "APPEND" \in x.flags)
           /\ "WRITE" \in x.flags /\ ~x.dead => Whole(w.f) = Whole(x) \o t
  <2>1. CASE t = <<>>
    <3>1. w.f = x /\ w.s = y
          BY <2>1
    <3>2. SubSeq(x.bytes, 1, Len(x.bytes)) = x.bytes
          BY <1>3, SubSeqFull
    <3>3. x = Holding(x, x.bytes)
          BY <1>3, HoldingIs
    <3>4. Whole(x) \o t = Whole(x)
          BY <2>1, WholeIs, ConcatEmptySeq
    <3> HIDE DEF w
    <3> QED
        BY <3>1, <3>2, <3>3, <3>4
  <2>2. CASE t # <<>>
    <3> DEFINE k == write(x, y, e)
               p == IF "APPEND" \in x.flags THEN Len(x.bytes) ELSE y.pos
    <3>1. /\ k.f \in Files /\ k.s \in StreamsOf(k.f) /\ k.f = Holding(x, k.f.bytes)
          /\ "WRITE" \notin x.flags \/ x.dead => k.f = x
          /\ "WRITE" \in x.flags /\ ~x.dead => k.f = Written(x, p, e)
          /\ "APPEND" \in x.flags => SubSeq(k.f.bytes, 1, Len(x.bytes)) = x.bytes
          BY <1>2, WriteIs
    <3>2. w = k
          BY <2>2
    <3> HIDE DEF k, w
    <3>3. ASSUME y.pos = Len(x.bytes) \/ "APPEND" \in x.flags, "WRITE" \in x.flags, ~x.dead
          PROVE  Whole(k.f) = Whole(x) \o t
      <4>1. p = Len(x.bytes)
            BY <3>3
      <4>2. k.f = Written(x, Len(x.bytes), e)
            BY <3>1, <3>3, <4>1
      <4>3. Len(x.bytes) \in 0 .. Len(x.bytes)
            BY <1>3
      <4>4. Written(x, Len(x.bytes), e) = Holding(x, x.bytes \o e)
        <5> DEFINE end == Len(x.bytes)
                   v == Written(x, end, e)
        <5>1. v = Holding(x, v.bytes) /\ (end = Len(x.bytes) => v.bytes = x.bytes \o e)
          <6> HIDE DEF end
          <6> QED
              BY <1>2, <4>3, WrittenIs DEF end
        <5> QED
            BY <5>1
      <4> QED
          BY <1>2, <4>2, <4>4
    <3> QED
        BY <3>1, <3>2, <3>3
  <2> QED
      BY <2>1, <2>2
<1> HIDE DEF w
<1>5. Set(w.s, "bad") \in StreamsOf(w.f)
      BY <1>4, SetIs
<1> QED
    BY <1>1, <1>4, <1>5 DEF r

\* The flags that a mode stands for.
LEMMA OpenFlagsAre ==
  ASSUME NEW mode \in SUBSET ModeBits
  PROVE  /\ OpenFlags(mode) \in SUBSET FlagBits
         /\ mode \cap {"out", "app", "trunc"} = {} =>
              "WRITE" \notin OpenFlags(mode) /\ "TRUNC" \notin OpenFlags(mode)
         /\ "app" \in mode /\ OpenFlags(mode) # {} =>
              "APPEND" \in OpenFlags(mode) /\ "TRUNC" \notin OpenFlags(mode)
         /\ "trunc" \notin mode /\ {"in", "out"} \subseteq mode => "TRUNC" \notin OpenFlags(mode)
         /\ mode = {"in", "out", "trunc"} =>
              OpenFlags(mode) = {"READ", "WRITE", "TRUNC", "CREAT"}
<1> DEFINE k == mode \cap {"app", "in", "out", "trunc"}
           g == CASE k \in {{"app", "in"}, {"app", "in", "out"}} ->
                       {"READ", "WRITE", "APPEND", "CREAT"}
                  [] k \in {{"app"}, {"app", "out"}}      -> {"WRITE", "APPEND", "CREAT"}
                  [] k = {"in"}                           -> {"READ"}
                  [] k = {"in", "out"}                    -> {"READ", "WRITE"}
                  [] k = {"in", "out", "trunc"} -> {"READ", "WRITE", "TRUNC", "CREAT"}
                  [] k \in {{"out"}, {"out", "trunc"}}    -> {"WRITE", "TRUNC", "CREAT"}
                  [] OTHER                                -> {}
<1>1. OpenFlags(mode) = IF g # {} /\ "ate" \in mode THEN g \cup {"AT_END"} ELSE g
      BY DEF OpenFlags
<1> DEFINE C1 == k \in {{"app", "in"}, {"app", "in", "out"}}
           C2 == k \in {{"app"}, {"app", "out"}}
           C3 == k = {"in"}
           C4 == k = {"in", "out"}
           C5 == k = {"in", "out", "trunc"}
           C6 == k \in {{"out"}, {"out", "trunc"}}
<1>2. /\ C1 => "app" \in k /\ g = {"READ", "WRITE", "APPEND", "CREAT"}
      /\ C2 => "app" \in k /\ ~C1 /\ g = {"WRITE", "APPEND", "CREAT"}
      /\ C3 => "app" \notin k /\ ~C1 /\ ~C2 /\ g = {"READ"}
      /\ C4 => "app" \notin k /\ "out" \in k /\ g = {"READ", "WRITE"}
      /\ C5 => "app" \notin k /\ "trunc" \in k /\ g = {"READ", "WRITE", "TRUNC", "CREAT"}
      /\ C6 => "app" \notin k /\ "out" \in k /\ "in" \notin k /\ g = {"WRITE", "TRUNC", "CREAT"}
      /\ ~C1 /\ ~C2 /\ ~C3 /\ ~C4 /\ ~C5 /\ ~C6 => g = {}
  OBVIOUS
<1>3. /\ "app" \in mode <=> "app" \in k
      /\ "in" \in mode <=> "in" \in k
      /\ "out" \in mode <=> "out" \in k
      /\ "trunc" \in mode <=> "trunc" \in k
      OBVIOUS
<1>4. mode = {"in", "out", "trunc"} => C5 /\ "ate" \notin mode
      OBVIOUS
<1> HIDE DEF k, g
<1>5. C1 => "app" \in k
      BY <1>2
<1>6. CASE C1
      BY <1>1, <1>2, <1>3, <1>4, <1>6 DEF FlagBits
<1>7. CASE C2
      BY <1>1, <1>2, <1>3, <1>4, <1>7 DEF FlagBits
<1>8. CASE C3
      BY <1>1, <1>2, <1>3, <1>4, <1>8 DEF FlagBits
<1>9. CASE C4
      BY <1>1, <1>2, <1>3, <1>4, <1>9 DEF FlagBits
<1>10. CASE C5
       BY <1>1, <1>2, <1>3, <1>4, <1>10 DEF FlagBits
<1>11. CASE C6
       BY <1>1, <1>2, <1>3, <1>4, <1>11 DEF FlagBits
<1>12. CASE ~C1 /\ ~C2 /\ ~C3 /\ ~C4 /\ ~C5 /\ ~C6
       BY <1>1, <1>2, <1>3, <1>4, <1>12 DEF FlagBits
<1> QED
    BY <1>6, <1>7, <1>8, <1>9, <1>10, <1>11, <1>12

\* SdStreamBase::open of a file: it is open, with the flags of the mode, or it is closed.
LEMMA OpenIs ==
  ASSUME NEW x \in Files, NEW y \in StreamsOf(x), NEW mode \in SUBSET ModeBits,
         NEW o \in Opens(x, y, mode)
  PROVE  /\ o.f \in Files /\ o.s \in StreamsOf(o.f)
         /\ o.f.broken = x.broken /\ o.f.dead = x.dead
         /\ o.f.open => /\ ~x.open /\ o.f.mode = mode /\ o.f.flags = OpenFlags(mode)
                        /\ OpenFlags(mode) # {}
                        /\ "TRUNC" \notin OpenFlags(mode) => o.f.bytes = x.bytes
         /\ ~o.f.open => o.f.flags = {}
<1> DEFINE flags == OpenFlags(mode)
           z == [x EXCEPT !.open = TRUE, !.exists = TRUE, !.flags = flags,
                          !.bytes = IF "TRUNC" \in flags THEN <<>> ELSE @, !.mode = mode]
           c == Closed(x)
           ok == /\ flags # {} /\ ~x.open /\ (x.exists \/ "CREAT" \in flags)
                 /\ ~("TRUNC" \in flags /\ x.dead /\ x.bytes # <<>>)
           v == [y EXCEPT !.st = {}, !.pos = IF "AT_END" \in flags THEN Len(z.bytes) ELSE 0]
<1>1. flags \in SUBSET FlagBits
      BY OpenFlagsAre
<1>2. CASE ok /\ o = open(x, y, mode)
  <2>1. o.f = z /\ o.s = v
        BY <1>2 DEF open, OpenFile, Files
  <2>2. z \in Files /\ z.bytes = IF "TRUNC" \in flags THEN <<>> ELSE x.bytes
        BY <1>1, EmptySeq DEF Files
  <2>3. Len(z.bytes) \in Nat
        BY <2>2, ByteIsCode
  <2>4. z.broken = x.broken /\ z.dead = x.dead /\ z.open /\ z.mode = mode /\ z.flags = flags
        BY DEF Files
  <2> HIDE DEF z, flags
  <2>5. v \in StreamsOf(z)
    <3> DEFINE start == IF "AT_END" \in flags THEN Len(z.bytes) ELSE 0
    <3>1. start \in 0 .. Len(z.bytes)
          BY <2>3
    <3>2. v = [y EXCEPT !.st = {}, !.pos = start]
          OBVIOUS
    <3> HIDE DEF v, start
    <3> QED
        BY <3>1, <3>2 DEF StreamsOf
  <2> QED
      BY <1>2, <2>1, <2>2, <2>4, <2>5 DEF flags
<1>3. CASE o = Refused(x, y)
  <2>1. o.f = c /\ o.s = Set(y, "fail")
        BY <1>3 DEF Refused
  <2>2. /\ c \in Files /\ c.bytes = x.bytes /\ c.broken = x.broken /\ c.dead = x.dead
        /\ ~c.open /\ c.flags = {}
        BY DEF Closed, Files
  <2>3. Set(y, "fail") \in StreamsOf(x)
        BY SetIs
  <2>4. Set(y, "fail") \in StreamsOf(c)
        BY <2>2, <2>3 DEF StreamsOf
  <2> HIDE DEF c
  <2> QED
      BY <2>1, <2>2, <2>4
<1>4. ~ok => open(x, y, mode) = Refused(x, y)
      BY DEF open, OpenFile
<1>5. o = open(x, y, mode) \/ o = Refused(x, y)
      BY DEF Opens
<1> QED
    BY <1>2, <1>3, <1>4, <1>5

\* seekpos leaves the stream at a place of the file.
LEMMA SeekIs ==
  ASSUME NEW x \in Files, NEW y \in StreamsOf(x), NEW place
  PROVE  seekpos(x, y, place) \in StreamsOf(x)
<1>1. CASE x.open /\ place \in 0 .. Len(x.bytes)
      BY <1>1, PlaceIs DEF seekpos
<1>2. CASE ~(x.open /\ place \in 0 .. Len(x.bytes))
      BY <1>2, SetIs DEF seekpos
<1> QED
    BY <1>1, <1>2

-------------------------------------------------------------------------------
(* The texts of values.                                                    *)

\* The numbers of Width bits.
LEMMA WordIsPositive ==
  Word \in Nat \ {0}
<1>1. \A b \in 2 .. 30 : 2^b \in Nat \ {0}
  <2>1. /\ 2^2 \in Nat \ {0} /\ 2^3 \in Nat \ {0} /\ 2^4 \in Nat \ {0} /\ 2^5 \in Nat \ {0}
         /\ 2^6 \in Nat \ {0} /\ 2^7 \in Nat \ {0} /\ 2^8 \in Nat \ {0} /\ 2^9 \in Nat \ {0}
         /\ 2^10 \in Nat \ {0} /\ 2^11 \in Nat \ {0} /\ 2^12 \in Nat \ {0} /\ 2^13 \in Nat \ {0}
         /\ 2^14 \in Nat \ {0} /\ 2^15 \in Nat \ {0} /\ 2^16 \in Nat \ {0} /\ 2^17 \in Nat \ {0}
         /\ 2^18 \in Nat \ {0} /\ 2^19 \in Nat \ {0} /\ 2^20 \in Nat \ {0} /\ 2^21 \in Nat \ {0}
         /\ 2^22 \in Nat \ {0} /\ 2^23 \in Nat \ {0} /\ 2^24 \in Nat \ {0} /\ 2^25 \in Nat \ {0}
         /\ 2^26 \in Nat \ {0} /\ 2^27 \in Nat \ {0} /\ 2^28 \in Nat \ {0} /\ 2^29 \in Nat \ {0}
         /\ 2^30 \in Nat \ {0}
        OBVIOUS
  <2>2. ASSUME NEW b \in 2 .. 30 PROVE 2^b \in Nat \ {0}
    <3>1. \/ b = 2 \/ b = 3 \/ b = 4 \/ b = 5 \/ b = 6 \/ b = 7 \/ b = 8 \/ b = 9
          \/ b = 10 \/ b = 11 \/ b = 12 \/ b = 13 \/ b = 14 \/ b = 15 \/ b = 16 \/ b = 17
          \/ b = 18 \/ b = 19 \/ b = 20 \/ b = 21 \/ b = 22 \/ b = 23 \/ b = 24 \/ b = 25
          \/ b = 26 \/ b = 27 \/ b = 28 \/ b = 29 \/ b = 30
          OBVIOUS
    <3>2. CASE b = 2
          BY <2>1, <3>2
    <3>3. CASE b = 3
          BY <2>1, <3>3
    <3>4. CASE b = 4
          BY <2>1, <3>4
    <3>5. CASE b = 5
          BY <2>1, <3>5
    <3>6. CASE b = 6
          BY <2>1, <3>6
    <3>7. CASE b = 7
          BY <2>1, <3>7
    <3>8. CASE b = 8
          BY <2>1, <3>8
    <3>9. CASE b = 9
          BY <2>1, <3>9
    <3>10. CASE b = 10
          BY <2>1, <3>10
    <3>11. CASE b = 11
          BY <2>1, <3>11
    <3>12. CASE b = 12
          BY <2>1, <3>12
    <3>13. CASE b = 13
          BY <2>1, <3>13
    <3>14. CASE b = 14
          BY <2>1, <3>14
    <3>15. CASE b = 15
          BY <2>1, <3>15
    <3>16. CASE b = 16
          BY <2>1, <3>16
    <3>17. CASE b = 17
          BY <2>1, <3>17
    <3>18. CASE b = 18
          BY <2>1, <3>18
    <3>19. CASE b = 19
          BY <2>1, <3>19
    <3>20. CASE b = 20
          BY <2>1, <3>20
    <3>21. CASE b = 21
          BY <2>1, <3>21
    <3>22. CASE b = 22
          BY <2>1, <3>22
    <3>23. CASE b = 23
          BY <2>1, <3>23
    <3>24. CASE b = 24
          BY <2>1, <3>24
    <3>25. CASE b = 25
          BY <2>1, <3>25
    <3>26. CASE b = 26
          BY <2>1, <3>26
    <3>27. CASE b = 27
          BY <2>1, <3>27
    <3>28. CASE b = 28
          BY <2>1, <3>28
    <3>29. CASE b = 29
          BY <2>1, <3>29
    <3>30. CASE b = 30
          BY <2>1, <3>30
    <3> QED
        BY <3>1, <3>2, <3>3, <3>4, <3>5, <3>6, <3>7, <3>8, <3>9, <3>10, <3>11, <3>12,
           <3>13, <3>14, <3>15, <3>16, <3>17, <3>18, <3>19, <3>20, <3>21, <3>22,
           <3>23, <3>24, <3>25, <3>26, <3>27, <3>28, <3>29, <3>30
  <2> QED
      BY <2>2
<1> QED
    BY <1>1, StreamAssumption DEF Word

\* A rest and a quotient that make a number: the quotient is less.
LEMMA LessIs ==
  ASSUME NEW n \in Nat, NEW b \in Nat, b >= 2, NEW d \in Nat, NEW r \in 0 .. b - 1,
         n = b * d + r, n > 0
  PROVE  d < n
<1>1. b * d >= 2 * d
      OBVIOUS
<1> QED
    BY <1>1

\* A number is its digits but the last one, times the base, and the last one.
LEMMA DivideIs ==
  ASSUME NEW num \in Nat, NEW base \in {8, 10, 16}
  PROVE  \E d \in Nat, r \in 0 .. base - 1 :
           /\ num \div base = d /\ num % base = r /\ num = base * d + r
           /\ num > 0 => d < num
<1> DEFINE d == num \div base
           r == num % base
<1>1. base \in Nat /\ base >= 2
      OBVIOUS
<1>2. d \in Nat /\ r \in 0 .. base - 1 /\ num = base * d + r
      BY <1>1
<1>3. num > 0 => d < num
  <2> HIDE DEF d, r
  <2> QED
      BY <1>1, <1>2, LessIs
<1>4. num \div base = d /\ num % base = r
      OBVIOUS
<1> HIDE DEF d, r
<1> QED
    BY <1>2, <1>3, <1>4

\* The value of a digit.
LEMMA DigitIs ==
  ASSUME NEW c
  PROVE  DigitOf(c) \in Int /\ (c \in 48 .. 57 => DigitOf(c) = c - 48)
<1>1. DigitOf(c) \in Int
      BY DEF DigitOf, Digit, Upper, Lower
<1>2. c \in 48 .. 57 => DigitOf(c) = c - 48
      BY DEF DigitOf, Digit, Upper, Lower
<1> QED
    BY <1>1, <1>2

\* The value of a sequence of characters, whatever they are, is a number.
LEMMA HornerIs ==
  ASSUME NEW t \in Seq(Codes)
  PROVE  \E v : /\ v[0] = 0 /\ Horner(t, 10) = v[Len(t)]
                /\ \A n \in Nat : v[n + 1] = v[n] * 10 + DigitOf(t[n + 1])
<1> DEFINE Next1(n, v) == v * 10 + DigitOf(t[n])
           Step == [n \in Nat |-> [v \in Int |-> Next1(n, v)]]
           G(g) == [n \in Nat |-> IF n = 0 THEN 0 ELSE Next1(n, g[n - 1])]
           v == CHOOSE h : h = G(h)
<1>1. Horner(t, 10) = v[Len(t)]
      BY DEF Horner
<1>2. \A n \in Nat, u \in Int : Next1(n, u) \in Int
  <2>1. \A n \in Nat : DigitOf(t[n]) \in Int
        BY DigitIs
  <2> QED
      BY <2>1
<1>3. PICK g : IsRun(g, Int, 0, Step)
  <2> HIDE DEF Next1
  <2>1. Step \in [Nat -> [Int -> Int]] /\ 0 \in Int
        BY <1>2
  <2> HIDE DEF Step
  <2> QED
      BY <2>1, Recursion
<1>4. g = G(g)
  <2> HIDE DEF Next1
  <2>1. ASSUME NEW n \in Nat PROVE g[n] = IF n = 0 THEN 0 ELSE Next1(n, g[n - 1])
    <3>1. CASE n = 0
          BY <1>3, <3>1 DEF IsRun
    <3>2. CASE n # 0
      <4>1. n - 1 \in Nat /\ g[n - 1] \in Int
            BY <3>2, <1>3 DEF IsRun
      <4> QED
          BY <1>3, <3>2, <4>1 DEF IsRun
    <3> QED
        BY <3>1, <3>2
  <2> QED
      BY <2>1, <1>3 DEF IsRun
<1>5. v = G(v)
      BY <1>4
<1> HIDE DEF v
<1>6. v[0] = 0 /\ \A n \in Nat : v[n + 1] = Next1(n + 1, v[n])
  <2> HIDE DEF Next1
  <2>1. \A n \in Nat : v[n] = IF n = 0 THEN 0 ELSE Next1(n, v[n - 1])
        BY <1>5
  <2>2. \A n \in Nat : n + 1 \in Nat /\ n + 1 # 0 /\ (n + 1) - 1 = n
        OBVIOUS
  <2> QED
      BY <2>1, <2>2
<1> QED
    BY <1>1, <1>6

\* fmtNum gives the digits of a number; those in base ten say the number.
LEMMA FmtNumIs ==
  ASSUME NEW num \in Nat, NEW base \in {8, 10, 16}, NEW upper \in BOOLEAN
  PROVE  LET t == fmtNum(num, base, upper)
         IN  /\ t \in Seq(Codes) /\ Len(t) >= 1
             /\ base = 10 => /\ \A i \in 1 .. Len(t) : t[i] \in 48 .. 57
                             /\ Horner(t, 10) = num
<1> DEFINE Next1(n, v) == v \div base
           Step == [n \in Nat |-> [v \in Nat |-> Next1(n, v)]]
           G(g) == [n \in Nat |-> IF n = 0 THEN num ELSE Next1(n, g[n - 1])]
           q == CHOOSE h : h = G(h)
           Last(k) == q[k] = 0 /\ \A i \in 1 .. k - 1 : q[i] # 0
           len == CHOOSE k \in 1 .. num + 1 : Last(k)
           Char(d) == IF d < 10 THEN 48 + d ELSE IF upper THEN 55 + d ELSE 87 + d
           rest == [n \in Nat |-> q[n] % base]
           t == [i \in 1 .. len |-> Char(rest[len - i])]
<1>1. fmtNum(num, base, upper) = [i \in 1 .. len |-> Char(q[len - i] % base)]
      BY DEF fmtNum
<1>2. \A n \in Nat, v \in Nat : Next1(n, v) \in Nat
  <2>1. ASSUME NEW v \in Nat PROVE v \div base \in Nat
        BY DivideIs
  <2> QED
      BY <2>1
<1>3. PICK g : IsRun(g, Nat, num, Step)
  <2> HIDE DEF Next1
  <2>1. Step \in [Nat -> [Nat -> Nat]] /\ num \in Nat
        BY <1>2
  <2> HIDE DEF Step
  <2> QED
      BY <2>1, Recursion
<1>4. g = G(g)
  <2> HIDE DEF Next1
  <2>1. ASSUME NEW n \in Nat PROVE g[n] = IF n = 0 THEN num ELSE Next1(n, g[n - 1])
    <3>1. CASE n = 0
          BY <1>3, <3>1 DEF IsRun
    <3>2. CASE n # 0
      <4>1. n - 1 \in Nat /\ g[n - 1] \in Nat
            BY <3>2, <1>3 DEF IsRun
      <4> QED
          BY <1>3, <3>2, <4>1 DEF IsRun
    <3> QED
        BY <3>1, <3>2
  <2> QED
      BY <2>1, <1>3 DEF IsRun
<1>5. q = G(q)
      BY <1>4
<1> HIDE DEF q
<1>6. q[0] = num /\ \A n \in Nat : q[n + 1] = Next1(n + 1, q[n])
  <2> HIDE DEF Next1
  <2>1. \A n \in Nat : q[n] = IF n = 0 THEN num ELSE Next1(n, q[n - 1])
        BY <1>5
  <2>2. \A n \in Nat : n + 1 \in Nat /\ n + 1 # 0 /\ (n + 1) - 1 = n
        OBVIOUS
  <2> QED
      BY <2>1, <2>2
<1>7. /\ q[0] = num
      /\ \A n \in Nat : /\ q[n] \in Nat /\ q[n + 1] \in Nat /\ rest[n] \in 0 .. base - 1
                        /\ q[n] = base * q[n + 1] + rest[n]
                        /\ q[n] > 0 => q[n + 1] < q[n]
                        /\ q[n] = 0 => q[n + 1] = 0
  <2>1. q \in [Nat -> Nat]
    <3>1. q = [n \in Nat |-> IF n = 0 THEN num ELSE Next1(n, q[n - 1])]
          BY <1>5
    <3> DEFINE T == {n \in Nat : q[n] \in Nat}
    <3>2. 0 \in T
          BY <1>6
    <3>3. ASSUME NEW n \in Nat, n \in T PROVE n + 1 \in T
      <4>1. q[n] \in Nat /\ q[n + 1] = q[n] \div base
            BY <1>6, <3>3
      <4> DEFINE a == q[n]
      <4>2. a \div base \in Nat
        <5> HIDE DEF a
        <5> QED
            BY <4>1, DivideIs DEF a
      <4> QED
          BY <4>1, <4>2
    <3>4. Nat \subseteq T
      <4> HIDE DEF T
      <4> QED
          BY <3>2, <3>3, NatInduct
    <3> HIDE DEF Next1
    <3> QED
        BY <3>1, <3>4
  <2>2. ASSUME NEW n \in Nat
        PROVE  /\ q[n + 1] \in Nat /\ rest[n] \in 0 .. base - 1
               /\ q[n] = base * q[n + 1] + rest[n]
               /\ q[n] > 0 => q[n + 1] < q[n]
    <3> DEFINE a == q[n]
    <3>1. a \in Nat /\ q[n + 1] = a \div base /\ rest[n] = a % base
          BY <1>6, <2>1
    <3> HIDE DEF a
    <3>2. PICK d \in Nat, r \in 0 .. base - 1 :
            /\ a \div base = d /\ a % base = r /\ a = base * d + r
            /\ a > 0 => d < a
          BY <3>1, DivideIs
    <3>3. q[n + 1] = d /\ rest[n] = r
          BY <3>1, <3>2
    <3> QED
        BY <3>2, <3>3 DEF a
  <2>3. ASSUME NEW n \in Nat, q[n] = 0 PROVE q[n + 1] = 0
    <3> DEFINE d == q[n + 1]
               r == rest[n]
    <3>1. d \in Nat /\ r \in 0 .. base - 1 /\ 0 = base * d + r
          BY <2>2, <2>3
    <3>2. d # 0 => base * d >= base
          BY <3>1
    <3> HIDE DEF d, r
    <3>3. d = 0
          BY <3>1, <3>2
    <3> QED
        BY <3>3 DEF d
  <2> HIDE DEF rest
  <2> QED
      BY <1>6, <2>1, <2>2, <2>3
<1>8. \A n \in Nat : q[n] = 0 \/ q[n] <= num - n
  <2> DEFINE T == {n \in Nat : q[n] = 0 \/ q[n] <= num - n}
  <2>1. 0 \in T
        BY <1>7
  <2>2. ASSUME NEW n \in Nat, n \in T PROVE n + 1 \in T
    <3> HIDE DEF rest
    <3>1. /\ q[n] \in Nat /\ q[n + 1] \in Nat /\ (q[n] > 0 => q[n + 1] < q[n])
          /\ (q[n] = 0 => q[n + 1] = 0) /\ (q[n] = 0 \/ q[n] <= num - n)
          BY <1>7, <2>2
    <3>2. q[n + 1] = 0 \/ q[n + 1] <= num - (n + 1)
          BY <3>1
    <3> QED
        BY <3>2
  <2>3. Nat \subseteq T
    <3> HIDE DEF T
    <3> QED
        BY <2>1, <2>2, NatInduct
  <2> QED
      BY <2>3
<1> HIDE DEF rest
<1>9. len \in 1 .. num + 1 /\ q[len] = 0
  <2> DEFINE Z == {k \in Nat : q[k] = 0}
  <2>1. q[num + 1] = 0
    <3>1. num + 1 \in Nat /\ q[num + 1] \in Nat /\ ~(num - (num + 1) >= 0)
          BY <1>7
    <3> QED
        BY <1>8, <3>1
  <2>2. \E k \in 1 .. num + 1 : k \in Z /\ \A i \in 1 .. k - 1 : i \notin Z
    <3>1. Z \cap (1 .. num + 1) # {} /\ 1 \in Nat /\ num + 1 \in Nat
          BY <2>1
    <3> HIDE DEF Z
    <3> QED
        BY <3>1, First
  <2>3. \E k \in 1 .. num + 1 : Last(k)
    <3>1. PICK k \in 1 .. num + 1 : k \in Z /\ \A i \in 1 .. k - 1 : i \notin Z
          BY <2>2
    <3> QED
        BY <3>1
  <2>4. len \in 1 .. num + 1 /\ Last(len)
    <3> HIDE DEF Last
    <3> QED
        BY <2>3
  <2> QED
      BY <2>4
<1> HIDE DEF len
<1>10. len \in Nat /\ len >= 1 /\ \A i \in 1 .. len : len - i \in Nat
       BY <1>9
<1>11. fmtNum(num, base, upper) = t
  <2>1. \A i \in 1 .. len : rest[len - i] = q[len - i] % base
        BY <1>10 DEF rest
  <2> HIDE DEF Char
  <2> QED
      BY <1>1, <2>1
<1>12. \A i \in 1 .. len : rest[len - i] \in 0 .. base - 1
       BY <1>7, <1>10
<1>13. t \in Seq(Codes) /\ Len(t) = len
  <2>1. \A d \in 0 .. 15 : Char(d) \in Nat /\ Char(d) <= 255
        OBVIOUS
  <2>2. \A i \in 1 .. len : rest[len - i] \in 0 .. 15
        BY <1>12
  <2> HIDE DEF Char
  <2>3. t \in [1 .. len -> Codes]
        BY <2>1, <2>2, CodesAre
  <2> HIDE DEF t
  <2> QED
      BY <1>10, <2>3, FunIsSeq
<1>14. ASSUME base = 10, NEW i \in 1 .. len
       PROVE  t[i] = 48 + rest[len - i] /\ rest[len - i] \in 0 .. 9
  <2>1. rest[len - i] \in 0 .. 9
        BY <1>12, <1>14
  <2>2. t[i] = Char(rest[len - i])
        OBVIOUS
  <2> QED
      BY <2>1, <2>2
<1> HIDE DEF t
<1>15. ASSUME base = 10 PROVE Horner(t, 10) = num
  <2>1. PICK v : /\ v[0] = 0 /\ Horner(t, 10) = v[Len(t)]
                 /\ \A n \in Nat : v[n + 1] = v[n] * 10 + DigitOf(t[n + 1])
        BY <1>13, HornerIs
  <2> DEFINE T == {n \in Nat : n <= len => v[n] = q[len - n]}
  <2>2. 0 \in T
    <3>1. len - 0 = len
          BY <1>10
    <3> QED
        BY <1>9, <2>1, <3>1
  <2>3. ASSUME NEW n \in Nat, n \in T PROVE n + 1 \in T
    <3>1. SUFFICES ASSUME n + 1 <= len PROVE v[n + 1] = q[len - (n + 1)]
          OBVIOUS
    <3> DEFINE k == len - (n + 1)
    <3>2. /\ k \in Nat /\ len - n = k + 1 /\ n + 1 \in 1 .. len /\ n <= len
          BY <1>10, <3>1
    <3>3. v[n] = q[k + 1]
          BY <2>3, <3>2
    <3>4. t[n + 1] = 48 + rest[k] /\ rest[k] \in 0 .. 9
          BY <1>14, <1>15, <3>2
    <3> HIDE DEF k
    <3>5. DigitOf(t[n + 1]) = rest[k]
      <4>1. t[n + 1] \in 48 .. 57 /\ t[n + 1] - 48 = rest[k]
            BY <3>4
      <4> QED
          BY <4>1, DigitIs
    <3>6. v[n + 1] = q[k + 1] * 10 + rest[k]
          BY <2>1, <3>3, <3>5
    <3>7. q[k] = 10 * q[k + 1] + rest[k] /\ q[k + 1] \in Nat /\ rest[k] \in 0 .. 9
          BY <1>7, <1>15, <3>2, <3>4
    <3>8. v[n + 1] = q[k]
          BY <3>6, <3>7
    <3> QED
        BY <3>8 DEF k
  <2>4. Nat \subseteq T
    <3> HIDE DEF T
    <3> QED
        BY <2>2, <2>3, NatInduct
  <2>5. v[len] = q[0]
    <3>1. len \in T /\ len - len = 0 /\ len <= len
          BY <1>10, <2>4
    <3> QED
        BY <3>1
  <2> QED
      BY <1>7, <1>13, <2>1, <2>5
<1>16. ASSUME base = 10, NEW i \in 1 .. len PROVE t[i] \in 48 .. 57
  <2>1. t[i] = 48 + rest[len - i] /\ rest[len - i] \in 0 .. 9
        BY <1>14, <1>16
  <2> QED
      BY <2>1
<1> QED
    BY <1>10, <1>11, <1>13, <1>15, <1>16

\* The text of a width, and a text with its fill.
LEMMA FieldIs ==
  ASSUME NEW style \in Settings, NEW t \in Seq(Codes)
  PROVE  /\ \A n \in Nat : Fill(style, n) \in Seq(Codes)
         /\ Field(style, t) \in Seq(Codes)
<1>1. style.width \in Nat /\ style.fill \in Codes
      BY DEF Settings
<1>2. ASSUME NEW n \in Nat PROVE Fill(style, n) \in Seq(Codes)
  <2> DEFINE k == IF style.width > n THEN style.width - n ELSE 0
             v == [i \in 1 .. k |-> style.fill]
  <2>1. k \in Nat
        BY <1>1
  <2> HIDE DEF k
  <2>2. v \in [1 .. k -> Codes]
        BY <1>1
  <2>3. Fill(style, n) = v
        BY DEF Fill, k
  <2> HIDE DEF v
  <2> QED
      BY <2>1, <2>2, <2>3, FunIsSeq
<1>3. Len(t) \in Nat
      BY LenProperties
<1>4. Fill(style, Len(t)) \in Seq(Codes)
      BY <1>2, <1>3
<1>5. t \o Fill(style, Len(t)) \in Seq(Codes) /\ Fill(style, Len(t)) \o t \in Seq(Codes)
      BY <1>4, ConcatProperties
<1>6. Field(style, t) \in Seq(Codes)
      BY <1>5 DEF Field
<1> QED
    BY <1>2, <1>6

\* A prefix, the fill and the digits, in the order of the adjustment.
LEMMA InternalIs ==
  ASSUME NEW style \in Settings, NEW a \in Seq(Codes), NEW d \in Seq(Codes)
  PROVE  /\ a \o Fill(style, Len(a) + Len(d)) \o d \in Seq(Codes)
         /\ Field(style, a \o d) \in Seq(Codes)
<1>1. Len(a) + Len(d) \in Nat
      BY LenProperties
<1> DEFINE fill == Fill(style, Len(a) + Len(d))
<1>2. fill \in Seq(Codes)
      BY <1>1, FieldIs
<1> HIDE DEF fill
<1>3. a \o fill \in Seq(Codes)
      BY <1>2, ConcatProperties
<1>4. (a \o fill) \o d \in Seq(Codes)
      BY <1>3, ConcatProperties
<1>5. a \o d \in Seq(Codes)
      BY ConcatProperties
<1>6. Field(style, a \o d) \in Seq(Codes)
      BY <1>5, FieldIs
<1> QED
    BY <1>4, <1>6 DEF fill

\* The characters of texts that the code has.
LEMMA SignsAre ==
  /\ MINUS \in Codes /\ PLUS \in Codes /\ DOT \in Codes /\ LF \in Codes /\ CR \in Codes
  /\ COMMA \in Codes /\ TrueText \in Seq(Codes) /\ FalseText \in Seq(Codes)
  /\ BigText \in Seq(Codes) /\ <<>> \in Seq(Codes)
  /\ \A k \in {48, 49, 88, 120} : k \in Codes
<1>1. \A k \in {10, 13, 32, 43, 44, 45, 46, 48, 49, 66, 70, 71, 73, 76, 84, 88, 97, 101, 102, 108,
                114, 115, 116, 117, 120} : k \in Codes
      BY CodesAre
<1> QED
    BY <1>1, EmptySeq DEF MINUS, PLUS, DOT, LF, CR, COMMA, TrueText, FalseText, BigText

\* putNum and putBool
LEMMA PutNumIs ==
  ASSUME NEW style \in Settings, NEW num \in Nat, NEW neg \in BOOLEAN
  PROVE  putNum(style, num, neg) \in Seq(Codes)
<1> DEFINE digits == fmtNum(num, style.base, style.uppercase)
           prefix == CASE style.base = 10 -> IF neg THEN <<MINUS>>
                                             ELSE IF style.showpos THEN <<PLUS>> ELSE <<>>
                       [] style.base = 16 /\ style.showbase ->
                            <<48, IF style.uppercase THEN 88 ELSE 120>>
                       [] style.base = 8 /\ style.showbase -> <<48>>
                       [] OTHER -> <<>>
<1>1. style.base \in {8, 10, 16} /\ style.uppercase \in BOOLEAN
      BY DEF Settings
<1>2. digits \in Seq(Codes)
      BY <1>1, FmtNumIs
<1>3. prefix \in Seq(Codes)
  <2>1. <<MINUS>> \in Seq(Codes) /\ <<PLUS>> \in Seq(Codes) /\ <<>> \in Seq(Codes)
        BY SignsAre
  <2>2. <<48, 88>> \in Seq(Codes) /\ <<48, 120>> \in Seq(Codes) /\ <<48>> \in Seq(Codes)
        BY SignsAre
  <2> QED
      BY <1>1, <2>1, <2>2
<1>4. putNum(style, num, neg) =
        IF style.adjust = "internal"
        THEN prefix \o Fill(style, Len(prefix) + Len(digits)) \o digits
        ELSE Field(style, prefix \o digits)
      BY DEF putNum
<1> HIDE DEF digits, prefix
<1> QED
    BY <1>2, <1>3, <1>4, InternalIs

\* ostream::putBool gives characters.
LEMMA PutBoolIs ==
  ASSUME NEW style \in Settings, NEW b \in {0, 1}
  PROVE  putBool(style, b) \in Seq(Codes)
<1> DEFINE t == IF ~style.boolalpha THEN <<48 + b>> ELSE IF b = 1 THEN TrueText ELSE FalseText
<1>1. 48 + b \in Codes
  <2>1. 48 + b = 48 \/ 48 + b = 49
        OBVIOUS
  <2> QED
      BY <2>1, SignsAre
<1>2. <<48 + b>> \in Seq(Codes)
      BY <1>1
<1>3. t \in Seq(Codes)
      BY <1>2, SignsAre
<1>4. putBool(style, b) = Field(style, t)
      BY DEF putBool
<1> HIDE DEF t
<1> QED
    BY <1>3, <1>4, FieldIs

\* The digits of a fraction.
LEMMA FractionIs ==
  ASSUME NEW num \in 0 .. 999, NEW nd \in Nat
  PROVE  Fraction(num, nd) \in Seq(Codes)
<1> DEFINE Next1(n, v) == (10 * v) % 1000
           S == 0 .. 999
           Step == [n \in Nat |-> [v \in S |-> Next1(n, v)]]
           G(g) == [n \in Nat |-> IF n = 0 THEN num ELSE Next1(n, g[n - 1])]
           q == CHOOSE h : h = G(h)
           t == [i \in 1 .. nd |-> 48 + (10 * q[i - 1]) \div 1000]
<1>1. Fraction(num, nd) = t
      BY DEF Fraction
<1>2. \A n \in Nat, v \in S : Next1(n, v) \in S
      OBVIOUS
<1>3. num \in S
      OBVIOUS
<1>4. PICK g : IsRun(g, S, num, Step)
  <2> HIDE DEF Next1, S
  <2>1. Step \in [Nat -> [S -> S]] /\ num \in S
        BY <1>2, <1>3
  <2> HIDE DEF Step
  <2> QED
      BY <2>1, Recursion
<1>5. g = G(g)
  <2> HIDE DEF Next1, S
  <2>1. ASSUME NEW n \in Nat PROVE g[n] = IF n = 0 THEN num ELSE Next1(n, g[n - 1])
    <3>1. CASE n = 0
          BY <1>4, <3>1 DEF IsRun
    <3>2. CASE n # 0
      <4>1. n - 1 \in Nat /\ g[n - 1] \in S
            BY <3>2, <1>4 DEF IsRun
      <4> QED
          BY <1>4, <3>2, <4>1 DEF IsRun
    <3> QED
        BY <3>1, <3>2
  <2> QED
      BY <2>1, <1>4 DEF IsRun
<1>6. q = G(q)
      BY <1>5
<1> HIDE DEF q
<1>7. q[0] = num /\ \A n \in Nat : q[n + 1] = Next1(n + 1, q[n])
  <2> HIDE DEF Next1, S
  <2>1. \A n \in Nat : q[n] = IF n = 0 THEN num ELSE Next1(n, q[n - 1])
        BY <1>6
  <2>2. \A n \in Nat : n + 1 \in Nat /\ n + 1 # 0 /\ (n + 1) - 1 = n
        OBVIOUS
  <2> QED
      BY <2>1, <2>2
<1>8. \A n \in Nat : q[n] \in S
  <2> DEFINE T == {n \in Nat : q[n] \in S}
  <2>1. 0 \in T
        BY <1>3, <1>7
  <2>2. ASSUME NEW n \in Nat, n \in T PROVE n + 1 \in T
    <3>1. q[n] \in S /\ q[n + 1] = Next1(n + 1, q[n]) /\ n + 1 \in Nat
          BY <1>7, <2>2
    <3> HIDE DEF Next1, S
    <3> QED
        BY <1>2, <3>1
  <2>3. Nat \subseteq T
    <3> HIDE DEF T
    <3> QED
        BY <2>1, <2>2, NatInduct
  <2> QED
      BY <2>3
<1>9. t \in [1 .. nd -> Codes]
  <2>1. ASSUME NEW i \in 1 .. nd PROVE 48 + (10 * q[i - 1]) \div 1000 \in Codes
    <3> DEFINE a == q[i - 1]
               d == (10 * a) \div 1000
    <3>1. a \in 0 .. 999
          BY <1>8
    <3> HIDE DEF a
    <3>2. d \in Nat /\ d <= 9
          BY <3>1
    <3> HIDE DEF d
    <3>3. 48 + d \in Codes
          BY <3>2, CodesAre
    <3> QED
        BY <3>3 DEF d, a
  <2> QED
      BY <2>1
<1> HIDE DEF t
<1> QED
    BY <1>1, <1>9, FunIsSeq

\* putDouble
LEMMA PutDoubleIs ==
  ASSUME NEW style \in Settings, NEW v \in Int
  PROVE  putDouble(style, v) \in Seq(Codes)
<1> DEFINE n     == IF v < 0 THEN -v ELSE v
           sign  == IF v < 0 THEN <<MINUS>> ELSE IF style.showpos THEN <<PLUS>> ELSE <<>>
           half  == 500 \div 10^style.precision
           r     == n + half
           high  == r \div 1000
           low   == r % 1000
           dot   == IF style.precision > 0 \/ style.showpoint THEN <<DOT>> ELSE <<>>
           whole == fmtNum(high, 10, FALSE) \o dot
           digits == whole \o Fraction(low, style.precision)
<1>1. putDouble(style, v) =
        IF n > Big * 1000 THEN Field(style, BigText)
        ELSE IF style.adjust = "internal"
        THEN sign \o Fill(style, Len(sign) + Len(digits)) \o digits
        ELSE Field(style, sign \o digits)
      BY DEF putDouble
<1>2. style.precision \in 0 .. 3 /\ style.precision \in Nat
      BY DEF Settings
<1>3. half \in Nat
  <2>1. 10^0 \in Nat \ {0} /\ 10^1 \in Nat \ {0} /\ 10^2 \in Nat \ {0} /\ 10^3 \in Nat \ {0}
        OBVIOUS
  <2> DEFINE p == style.precision
  <2>2. p = 0 \/ p = 1 \/ p = 2 \/ p = 3
        BY <1>2
  <2>3. 10^p \in Nat \ {0}
    <3> HIDE DEF p
    <3>1. CASE p = 0
          BY <2>1, <3>1
    <3>2. CASE p = 1
          BY <2>1, <3>2
    <3>3. CASE p = 2
          BY <2>1, <3>3
    <3>4. CASE p = 3
          BY <2>1, <3>4
    <3> QED
        BY <2>2, <3>1, <3>2, <3>3, <3>4
  <2> DEFINE k == 10^p
  <2>4. 500 \div k \in Nat
    <3>1. k \in Nat \ {0}
          BY <2>3
    <3> HIDE DEF k
    <3> QED
        BY <3>1
  <2> QED
      BY <2>4
<1> HIDE DEF half
<1>4. r \in Nat
      BY <1>3
<1> HIDE DEF r
<1>5. high \in Nat /\ low \in 0 .. 999
      BY <1>4
<1> HIDE DEF high, low
<1>6. <<MINUS>> \in Seq(Codes) /\ <<PLUS>> \in Seq(Codes) /\ <<DOT>> \in Seq(Codes)
      BY SignsAre
<1>7. dot \in Seq(Codes) /\ sign \in Seq(Codes)
      BY <1>6, SignsAre
<1> HIDE DEF dot, sign
<1>8. fmtNum(high, 10, FALSE) \in Seq(Codes)
  <2>1. 10 \in {8, 10, 16} /\ FALSE \in BOOLEAN
        OBVIOUS
  <2> QED
      BY <1>5, <2>1, FmtNumIs
<1>9. whole \in Seq(Codes)
      BY <1>7, <1>8, ConcatProperties
<1>10. Fraction(low, style.precision) \in Seq(Codes)
       BY <1>2, <1>5, FractionIs
<1> HIDE DEF whole
<1>11. digits \in Seq(Codes)
       BY <1>9, <1>10, ConcatProperties
<1> HIDE DEF digits
<1>12. Field(style, BigText) \in Seq(Codes)
       BY SignsAre, FieldIs
<1>13. /\ sign \o Fill(style, Len(sign) + Len(digits)) \o digits \in Seq(Codes)
       /\ Field(style, sign \o digits) \in Seq(Codes)
       BY <1>7, <1>11, InternalIs
<1> QED
    BY <1>1, <1>12, <1>13

\* An item is a text, whatever its kind.
LEMMA TextIs ==
  ASSUME m \in Settings, NEW item \in Items, NEW w \in Nat
  PROVE  TextOf(item, w) \in Seq(Codes)
<1> DEFINE mw == [m EXCEPT !.width = w]
<1>1. mw \in Settings
      BY DEF Settings
<1>2. TextOf(item, w) = CASE item.kind = "number" -> putValue(mw, item.v)
                          [] item.kind = "double" -> putDouble(mw, item.v)
                          [] item.kind = "bool"   -> putBool(mw, item.v)
                          [] OTHER                -> Field(mw, item.v)
      BY DEF TextOf
<1> HIDE DEF mw
<1>3. CASE item.kind = "number"
  <2> DEFINE neg == item.v < 0 /\ mw.base = 10
             k == IF neg THEN -item.v ELSE item.v
             num == k % Word
  <2>1. item.v \in Int
        BY <1>3, ProgramsAssumption, WordIsPositive
  <2>2. k \in Int /\ neg \in BOOLEAN
        BY <2>1
  <2>3. putValue(mw, item.v) = putNum(mw, num, neg)
        BY DEF putValue
  <2> HIDE DEF k, neg
  <2>4. num \in Nat
        BY <2>2, WordIsPositive
  <2> HIDE DEF num
  <2>5. putNum(mw, num, neg) \in Seq(Codes)
        BY <1>1, <2>2, <2>4, PutNumIs
  <2> QED
      BY <1>2, <1>3, <2>3, <2>5
<1>4. CASE item.kind = "double"
  <2>1. item.v \in Int
        BY <1>4, ProgramsAssumption
  <2>2. TextOf(item, w) = putDouble(mw, item.v)
        BY <1>2, <1>4
  <2> QED
      BY <1>1, <2>1, <2>2, PutDoubleIs
<1>5. CASE item.kind = "bool"
  <2>1. item.v \in {0, 1}
        BY <1>5, ProgramsAssumption
  <2>2. TextOf(item, w) = putBool(mw, item.v)
        BY <1>2, <1>5
  <2> QED
      BY <1>1, <2>1, <2>2, PutBoolIs
<1>6. CASE item.kind \notin {"number", "double", "bool"}
  <2>1. item.v \in Seq(Codes)
        BY <1>6, ProgramsAssumption
  <2>2. TextOf(item, w) = Field(mw, item.v)
        BY <1>2, <1>6
  <2> QED
      BY <1>1, <2>1, <2>2, FieldIs
<1> QED
    BY <1>3, <1>4, <1>5, <1>6

-------------------------------------------------------------------------------
(* Fields, written by printField and read by fgets.                        *)

\* v is what is left of the first characters of t, one after the other.
IsWithout(v, t, chars) ==
  /\ v[0] = <<>> /\ Without(t, chars) = v[Len(t)]
  /\ \A n \in Nat : v[n + 1] = IF t[n + 1] \in chars THEN v[n] ELSE Append(v[n], t[n + 1])

\* Leaving characters out, one after the other.
LEMMA WithoutRun ==
  ASSUME NEW t \in Seq(Codes), NEW chars
  PROVE  \E v : IsWithout(v, t, chars)
<1> DEFINE C == Codes \cup {t[i] : i \in Nat}
           Next1(n, v) == IF t[n] \in chars THEN v ELSE Append(v, t[n])
           Step == [n \in Nat |-> [v \in Seq(C) |-> Next1(n, v)]]
           G(g) == [n \in Nat |-> IF n = 0 THEN <<>> ELSE Next1(n, g[n - 1])]
           v == CHOOSE h : h = G(h)
<1>1. Without(t, chars) = v[Len(t)]
      BY DEF Without
<1>2. \A n \in Nat, u \in Seq(C) : Next1(n, u) \in Seq(C)
  <2>1. \A n \in Nat : t[n] \in C
        OBVIOUS
  <2> HIDE DEF C
  <2> QED
      BY <2>1
<1>3. <<>> \in Seq(C)
      BY EmptySeq
<1>4. PICK g : IsRun(g, Seq(C), <<>>, Step)
  <2> HIDE DEF Next1, C
  <2>1. Step \in [Nat -> [Seq(C) -> Seq(C)]] /\ <<>> \in Seq(C)
        BY <1>2, <1>3
  <2> HIDE DEF Step
  <2> QED
      BY <2>1, Recursion
<1>5. g = G(g)
  <2> HIDE DEF Next1, C
  <2>1. ASSUME NEW n \in Nat PROVE g[n] = IF n = 0 THEN <<>> ELSE Next1(n, g[n - 1])
    <3>1. CASE n = 0
          BY <1>4, <3>1 DEF IsRun
    <3>2. CASE n # 0
      <4>1. n - 1 \in Nat /\ g[n - 1] \in Seq(C)
            BY <3>2, <1>4 DEF IsRun
      <4> QED
          BY <1>4, <3>2, <4>1 DEF IsRun
    <3> QED
        BY <3>1, <3>2
  <2> QED
      BY <2>1, <1>4 DEF IsRun
<1>6. v = G(v)
      BY Zenon, <1>5
<1> HIDE DEF v
<1>7. v[0] = <<>> /\ \A n \in Nat : v[n + 1] = Next1(n + 1, v[n])
  <2> HIDE DEF Next1, C
  <2>1. \A n \in Nat : v[n] = IF n = 0 THEN <<>> ELSE Next1(n, v[n - 1])
        BY <1>6
  <2>2. \A n \in Nat : n + 1 \in Nat /\ n + 1 # 0 /\ (n + 1) - 1 = n
        OBVIOUS
  <2> QED
      BY <2>1, <2>2
<1> QED
    BY <1>1, <1>7 DEF IsWithout

\* A text without the characters of a set, one character after the other.
LEMMA WithoutIs ==
  ASSUME NEW t \in Seq(Codes), NEW chars
  PROVE  /\ Without(<<>>, chars) = <<>>
         /\ Without(t, chars) \in Seq(Codes)
         /\ \A c \in Codes : Without(Append(t, c), chars) =
                               IF c \in chars THEN Without(t, chars)
                               ELSE Append(Without(t, chars), c)
<1>1. Without(<<>>, chars) = <<>>
  <2>1. <<>> \in Seq(Codes) /\ Len(<<>>) = 0
        BY EmptySeq
  <2>2. PICK v : IsWithout(v, <<>>, chars)
        BY <2>1, WithoutRun
  <2> QED
      BY <2>1, <2>2 DEF IsWithout
<1>2. PICK v : IsWithout(v, t, chars)
      BY WithoutRun
<1>3. Len(t) \in Nat /\ \A i \in 1 .. Len(t) : t[i] \in Codes
      BY LenProperties, ElementOfSeq
<1>4. Without(t, chars) \in Seq(Codes)
  <2> DEFINE T == {n \in Nat : n <= Len(t) => v[n] \in Seq(Codes)}
  <2>1. 0 \in T
        BY <1>2, EmptySeq DEF IsWithout
  <2>2. ASSUME NEW n \in Nat, n \in T PROVE n + 1 \in T
    <3>1. SUFFICES ASSUME n + 1 <= Len(t) PROVE v[n + 1] \in Seq(Codes)
          OBVIOUS
    <3>2. v[n] \in Seq(Codes) /\ t[n + 1] \in Codes
          BY <1>3, <2>2, <3>1 DEF IsWithout
    <3>3. Append(v[n], t[n + 1]) \in Seq(Codes)
          BY <3>2, AppendProperties
    <3> QED
        BY <1>2, <3>2, <3>3 DEF IsWithout
  <2>3. Nat \subseteq T
    <3> HIDE DEF T
    <3> QED
        BY <2>1, <2>2, NatInduct
  <2> QED
      BY <1>2, <1>3, <2>3 DEF IsWithout
<1>5. ASSUME NEW c \in Codes
      PROVE  Without(Append(t, c), chars) =
               IF c \in chars THEN Without(t, chars) ELSE Append(Without(t, chars), c)
  <2> DEFINE k == Len(t)
             l == Append(t, c)
  <2>1. l \in Seq(Codes) /\ Len(l) = k + 1 /\ l[k + 1] = c /\ \A i \in 1 .. k : l[i] = t[i]
        BY <1>3, AppendProperties
  <2> HIDE DEF l
  <2>2. PICK z : IsWithout(z, l, chars)
        BY <2>1, WithoutRun
  <2> DEFINE T == {n \in Nat : n <= k => z[n] = v[n]}
  <2>3. 0 \in T
        BY <1>2, <2>2 DEF IsWithout
  <2>4. ASSUME NEW n \in Nat, n \in T PROVE n + 1 \in T
    <3>1. SUFFICES ASSUME n + 1 <= k PROVE z[n + 1] = v[n + 1]
          OBVIOUS
    <3>2. z[n] = v[n] /\ l[n + 1] = t[n + 1]
          BY <1>3, <2>1, <2>4, <3>1
    <3> QED
        BY <1>2, <2>2, <3>2 DEF IsWithout
  <2>5. Nat \subseteq T
    <3> HIDE DEF T
    <3> QED
        BY <2>3, <2>4, NatInduct
  <2>6. z[k] = v[k] /\ z[k + 1] = IF c \in chars THEN z[k] ELSE Append(z[k], c)
        BY <1>3, <2>1, <2>2, <2>5 DEF IsWithout
  <2> QED
      BY <1>2, <2>1, <2>2, <2>6 DEF l, IsWithout
<1> QED
    BY <1>1, <1>4, <1>5

\* Nothing is left out of a text that has none of the characters.
LEMMA WithoutNone ==
  ASSUME NEW t \in Seq(Codes), NEW chars, \A i \in 1 .. Len(t) : t[i] \notin chars
  PROVE  Without(t, chars) = t
<1>1. PICK v : IsWithout(v, t, chars)
      BY WithoutRun
<1>2. Len(t) \in Nat
      BY LenProperties
<1> DEFINE T == {n \in Nat : n <= Len(t) => v[n] = SubSeq(t, 1, n)}
<1>3. 0 \in T
  <2>1. SubSeq(t, 1, 0) = <<>>
        BY SubSeqEmpty
  <2> QED
      BY <1>1, <2>1 DEF IsWithout
<1>4. ASSUME NEW n \in Nat, n \in T PROVE n + 1 \in T
  <2>1. SUFFICES ASSUME n + 1 <= Len(t) PROVE v[n + 1] = SubSeq(t, 1, n + 1)
        OBVIOUS
  <2>2. v[n] = SubSeq(t, 1, n) /\ v[n + 1] = Append(v[n], t[n + 1])
    <3>1. n \in 0 .. Len(t) /\ n + 1 \in 1 .. Len(t)
          BY <1>2, <2>1
    <3>2. v[n] = SubSeq(t, 1, n) /\ t[n + 1] \notin chars
          BY <1>4, <3>1
    <3> QED
        BY <1>1, <3>2 DEF IsWithout
  <2>3. SubSeq(t, 1, n + 1) = Append(SubSeq(t, 1, n), t[n + 1])
    <3>1. 1 \in 1 .. Len(t) + 1 /\ n + 1 \in 1 .. Len(t) /\ (n + 1) - 1 = n
          BY <1>2, <2>1
    <3> QED
        BY <3>1, PartIs
  <2> QED
      BY <2>2, <2>3
<1>5. Nat \subseteq T
  <2> HIDE DEF T
  <2> QED
      BY <1>3, <1>4, NatInduct
<1>6. SubSeq(t, 1, Len(t)) = t
      BY SubSeqFull
<1>7. v[Len(t)] = SubSeq(t, 1, Len(t))
  <2>1. Len(t) \in T
        BY <1>2, <1>5
  <2> QED
      BY <2>1
<1> QED
    BY <1>1, <1>6, <1>7 DEF IsWithout

\* The first k bytes from a place on, without CR: what fgets has taken of them.
Piece(x, place, k) == Without(SubSeq(x.bytes, place + 1, place + k), {CR})

\* The piece grows by one byte, unless that is a CR.
LEMMA PieceIs ==
  ASSUME NEW x \in Files, NEW place \in 0 .. Len(x.bytes)
  PROVE  /\ Piece(x, place, 0) = <<>>
         /\ \A k \in 0 .. Len(x.bytes) - place : Piece(x, place, k) \in Seq(Codes)
         /\ \A k \in 1 .. Len(x.bytes) - place :
              Piece(x, place, k) = IF x.bytes[place + k] = CR THEN Piece(x, place, k - 1)
                                   ELSE Append(Piece(x, place, k - 1), x.bytes[place + k])
<1> DEFINE t == x.bytes
           one == place + 1
<1>1. t \in Seq(Codes) /\ Len(t) \in Nat /\ \A i \in 1 .. Len(t) : t[i] \in Codes
      BY ByteIsCode DEF Files
<1>2. one \in 1 .. Len(t) + 1 /\ place = one - 1
      BY <1>1
<1> HIDE DEF t, one
<1>3. /\ SubSeq(t, one, place) = <<>>
      /\ \A j \in place .. Len(t) : SubSeq(t, one, j) \in Seq(Codes)
      /\ \A j \in one .. Len(t) : SubSeq(t, one, j) = Append(SubSeq(t, one, j - 1), t[j])
      BY <1>1, <1>2, PartIs
<1>4. <<>> \in Seq(Codes)
      BY EmptySeq
<1>5. Piece(x, place, 0) = <<>>
  <2>1. place + 0 = place
        OBVIOUS
  <2>2. Without(<<>>, {CR}) = <<>>
        BY <1>4, WithoutIs
  <2>3. Piece(x, place, 0) = Without(SubSeq(t, one, place), {CR})
        BY <2>1 DEF Piece, t, one
  <2> QED
      BY <1>3, <2>2, <2>3
<1>6. ASSUME NEW k \in 0 .. Len(t) - place PROVE Piece(x, place, k) \in Seq(Codes)
  <2>1. SubSeq(t, one, place + k) \in Seq(Codes)
        BY <1>1, <1>3
  <2> QED
      BY <2>1, WithoutIs DEF Piece, t, one
<1>7. ASSUME NEW k \in 1 .. Len(t) - place
      PROVE  Piece(x, place, k) = IF t[place + k] = CR THEN Piece(x, place, k - 1)
                                  ELSE Append(Piece(x, place, k - 1), t[place + k])
  <2> DEFINE u == SubSeq(t, one, place + k - 1)
             e == t[place + k]
  <2>1. u \in Seq(Codes) /\ e \in Codes /\ SubSeq(t, one, place + k) = Append(u, e)
    <3>1. place + k \in one .. Len(t) /\ place + k - 1 \in place .. Len(t)
          /\ place + k \in 1 .. Len(t)
          BY <1>1, <1>2
    <3> DEFINE j == place + k
    <3>2. j \in one .. Len(t) /\ j - 1 \in place .. Len(t) /\ t[j] \in Codes
          BY <1>1, <3>1
    <3> HIDE DEF j
    <3>3. SubSeq(t, one, j - 1) \in Seq(Codes)
          /\ SubSeq(t, one, j) = Append(SubSeq(t, one, j - 1), t[j])
          BY <1>3, <3>2
    <3> QED
        BY <3>2, <3>3 DEF j
  <2>2. Piece(x, place, k) = Without(Append(u, e), {CR})
        BY <2>1 DEF Piece, t, one
  <2>3. Piece(x, place, k - 1) = Without(u, {CR})
    <3>1. place + (k - 1) = place + k - 1
          OBVIOUS
    <3> QED
        BY <3>1 DEF Piece, t, one
  <2> HIDE DEF u, e
  <2>4. Without(Append(u, e), {CR}) = IF e \in {CR} THEN Without(u, {CR})
                                     ELSE Append(Without(u, {CR}), e)
        BY <2>1, WithoutIs
  <2> QED
      BY <2>2, <2>3, <2>4 DEF e
<1> QED
    BY <1>5, <1>6, <1>7 DEF t

\* The line from a place to the first delimiter after it.
LineTo(x, place, delims, q) ==
  /\ q \in place + 1 .. Len(x.bytes) /\ x.bytes[q] \in delims \ {CR}
  /\ \A i \in place + 1 .. q - 1 : x.bytes[i] \notin delims \ {CR}
  /\ \A i \in place .. q - 1 : ReadByte(x, i) >= 0

\* What fgets gives is the text without CR, fits, and ends where it should; a line that
\* fits is taken whole.
LEMMA FgetsIs ==
  ASSUME NEW x \in Files, NEW place \in 0 .. Len(x.bytes), NEW num \in Nat, NEW delims
  PROVE  LET g == fgets(x, place, num, delims)
         IN  /\ g.pos \in place .. Len(x.bytes)
             /\ g.n >= 0 =>
                  /\ g.str = Without(SubSeq(x.bytes, place + 1, g.pos), {CR})
                  /\ Len(g.str) < num
                  /\ \/ g.str # <<>> /\ g.str[Len(g.str)] \in delims
                     \/ Len(g.str) + 1 >= num
                     \/ g.pos >= Len(x.bytes)
             /\ \A q : LineTo(x, place, delims, q) /\ Len(g.str) + 1 < num => g.pos = q
<1> DEFINE P(k) == Piece(x, place, k)
           Full(k)  == Len(P(k)) + 1 >= num
           Ended(k) == k > 0 /\ x.bytes[place + k] \in delims \ {CR}
           Ends(k)  == Full(k) \/ Ended(k) \/ ReadByte(x, place + k) < 0
           L == Len(x.bytes) - place
           n == CHOOSE k \in 0 .. L : Ends(k) /\ \A i \in 0 .. k - 1 : ~Ends(i)
           good == Full(n) \/ Ended(n) \/ ReadByte(x, place + n) = End
           g == fgets(x, place, num, delims)
<1>1. Len(x.bytes) \in Nat /\ L \in Nat /\ place \in Nat /\ place + L = Len(x.bytes)
      /\ \A i \in 1 .. Len(x.bytes) : x.bytes[i] \in Codes
      BY ByteIsCode
<1>2. g = IF num <= 1 THEN [n |-> -1, str |-> <<>>, pos |-> place]
          ELSE [n |-> IF good THEN Len(P(n)) ELSE -1, str |-> P(n), pos |-> place + n]
      BY DEF fgets, Piece
<1> HIDE DEF g
<1>3. CASE num <= 1
  <2>1. g.n = -1 /\ g.str = <<>> /\ g.pos = place
        BY <1>2, <1>3
  <2>2. Len(<<>>) = 0
        OBVIOUS
  <2> QED
      BY <1>1, <1>3, <2>1, <2>2 DEF g
<1>4. CASE num > 1
  <2>1. P(0) = <<>> /\ \A k \in 0 .. L : P(k) \in Seq(Codes)
        BY PieceIs
  <2>2. \A k \in 1 .. L : P(k) = IF x.bytes[place + k] = CR THEN P(k - 1)
                                 ELSE Append(P(k - 1), x.bytes[place + k])
        BY PieceIs
  <2> HIDE DEF P
  <2>3. ReadByte(x, Len(x.bytes)) < 0
        BY <1>1 DEF ReadByte, End, Broken
  <2>4. \E k \in 0 .. L : Ends(k) /\ \A i \in 0 .. k - 1 : ~Ends(i)
    <3> DEFINE T == {k \in 0 .. L : Ends(k)}
    <3>1. L \in T
          BY <1>1, <2>3
    <3>2. T \cap (0 .. L) # {}
          BY <1>1, <3>1
    <3>3. PICK k \in 0 .. L : k \in T /\ \A i \in 0 .. k - 1 : i \notin T
      <4> HIDE DEF T
      <4> QED
          BY SMTT(30), <1>1, <3>2, First
    <3>4. \A i \in 0 .. k - 1 : i \in 0 .. L
          BY <1>1
    <3> HIDE DEF Ends
    <3> QED
        BY <3>3, <3>4
  <2>5. n \in 0 .. L /\ Ends(n) /\ \A i \in 0 .. n - 1 : ~Ends(i)
    <3> HIDE DEF Ends
    <3> QED
        BY <2>4
  <2>6. g.n = (IF good THEN Len(P(n)) ELSE -1) /\ g.str = P(n) /\ g.pos = place + n
        BY <1>2, <1>4
  <2> HIDE DEF n
  <2>7. Len(P(n)) \in Nat /\ place + n \in place .. Len(x.bytes)
        BY <1>1, <2>1, <2>5, LenProperties
  <2>8. Len(P(n)) < num
    <3>1. CASE n = 0
      <4>1. Len(P(0)) = 0
            BY <2>1
      <4> QED
          BY <1>4, <3>1, <4>1
    <3>2. CASE n # 0
      <4>1. n - 1 \in 0 .. n - 1 /\ n \in 1 .. L /\ n - 1 \in 0 .. L
            BY <1>1, <2>5, <3>2
      <4>2. ~Full(n - 1)
            BY <2>5, <4>1
      <4>3. P(n - 1) \in Seq(Codes) /\ Len(P(n - 1)) \in Nat /\ x.bytes[place + n] \in Codes
            BY <1>1, <2>1, <4>1, LenProperties
      <4>4. P(n) = P(n - 1) \/ P(n) = Append(P(n - 1), x.bytes[place + n])
            BY <2>2, <4>1
      <4>5. Len(P(n)) <= Len(P(n - 1)) + 1
            BY <4>3, <4>4, AppendProperties
      <4> QED
          BY <2>7, <4>2, <4>3, <4>5
    <3> QED
        BY <3>1, <3>2
  <2>9. Ended(n) => P(n) # <<>> /\ P(n)[Len(P(n))] \in delims
    <3>1. SUFFICES ASSUME Ended(n) PROVE P(n) # <<>> /\ P(n)[Len(P(n))] \in delims
          OBVIOUS
    <3>2. n \in 1 .. L /\ n - 1 \in 0 .. L
          BY <1>1, <2>5, <3>1
    <3>3. P(n - 1) \in Seq(Codes) /\ x.bytes[place + n] \in Codes
          BY <1>1, <2>1, <3>2
    <3>4. P(n) = Append(P(n - 1), x.bytes[place + n])
          BY <2>2, <3>1, <3>2
    <3>5. x.bytes[place + n] \in delims
          BY <3>1
    <3> QED
        BY <3>3, <3>4, <3>5, AppendProperties
  <2>10. ReadByte(x, place + n) = End => place + n >= Len(x.bytes)
    <3>1. SUFFICES ASSUME place + n < Len(x.bytes) PROVE ReadByte(x, place + n) # End
          BY <1>1, <2>5
    <3>2. x.bytes[place + n + 1] \in Codes
          BY <1>1, <2>5, <3>1
    <3>3. ReadByte(x, place + n) \in {Broken, x.bytes[place + n + 1]}
          BY <1>1, <2>5, <3>1 DEF ReadByte
    <3>4. x.bytes[place + n + 1] # -1
          BY <3>2, CodesAre
    <3> QED
        BY <3>3, <3>4 DEF End, Broken
  <2>11. g.n >= 0 => good
        BY <2>6
  <2>12. g.n >= 0 =>
           \/ g.str # <<>> /\ g.str[Len(g.str)] \in delims
           \/ Len(g.str) + 1 >= num
           \/ g.pos >= Len(x.bytes)
    <3> HIDE DEF Ended
    <3> QED
        BY <2>6, <2>9, <2>10, <2>11
  <2>13. ASSUME NEW q, LineTo(x, place, delims, q), Len(g.str) + 1 < num
         PROVE  g.pos = q
    <3>1. q \in place + 1 .. Len(x.bytes) /\ q - place \in 1 .. L
          /\ place + (q - place) = q
          BY <1>1, <2>13 DEF LineTo
    <3>2. ~Full(n)
          BY <2>6, <2>7, <2>13
    <3>3. ~(n < q - place)
      <4>1. SUFFICES ASSUME n < q - place PROVE FALSE
            OBVIOUS
      <4>2. place + n \in place .. q - 1 /\ (n > 0 => place + n \in place + 1 .. q - 1)
            BY <1>1, <2>5, <3>1, <4>1
      <4>3. ReadByte(x, place + n) >= 0 /\ ~Ended(n)
            BY <2>13, <4>2 DEF LineTo
      <4>4. ReadByte(x, place + n) < 0
            BY <2>5, <3>2, <4>3
      <4>5. ReadByte(x, place + n) \in Int
        <5>1. CASE place + n < Len(x.bytes)
          <6>1. x.bytes[place + n + 1] \in Codes
                BY <1>1, <2>5, <5>1
          <6> QED
              BY <6>1, CodesAre DEF ReadByte, End, Broken
        <5>2. CASE place + n >= Len(x.bytes)
              BY <5>2 DEF ReadByte, End, Broken
        <5> QED
            BY <1>1, <2>5, <5>1, <5>2
      <4> QED
          BY <4>3, <4>4, <4>5
    <3>4. ~(n > q - place)
      <4>1. SUFFICES ASSUME n > q - place PROVE FALSE
            OBVIOUS
      <4>2. q - place \in 0 .. n - 1 /\ q - place > 0
            BY <1>1, <2>5, <3>1, <4>1
      <4>3. x.bytes[place + (q - place)] \in delims \ {CR}
            BY <2>13, <3>1 DEF LineTo
      <4> QED
          BY <2>5, <4>2, <4>3
    <3>5. n = q - place
          BY <1>1, <2>5, <3>1, <3>3, <3>4
    <3> QED
        BY <1>1, <2>6, <3>1, <3>5
  <2>14. g.str = Without(SubSeq(x.bytes, place + 1, g.pos), {CR})
        BY <2>6 DEF P, Piece
  <2>15. g.pos \in place .. Len(x.bytes) /\ Len(g.str) < num
        BY <2>6, <2>7, <2>8
  <2>16. \A q : LineTo(x, place, delims, q) /\ Len(g.str) + 1 < num => g.pos = q
        BY <2>13
  <2> QED
      BY <2>12, <2>14, <2>15, <2>16 DEF g
<1> QED
    BY <1>3, <1>4

\* A number that a word holds is its own remainder.
LEMMA WordHolds ==
  ASSUME NEW num \in Nat, num < Word
  PROVE  num % Word = num
<1> DEFINE w == Word
<1>1. w \in Nat /\ w > 0 /\ num < w
      BY WordIsPositive
<1> HIDE DEF w
<1>2. num % w = num
      BY <1>1, Z3
<1> QED
    BY <1>2 DEF w

\* Two characters more are appended one after the other.
LEMMA AppendTwo ==
  ASSUME NEW t \in Seq(Codes), NEW c \in Codes, NEW e \in Codes
  PROVE  t \o <<c>> = Append(t, c) /\ t \o <<c, e>> = Append(Append(t, c), e)
<1>1. <<>> \in Seq(Codes) /\ t \o <<>> = t
      BY EmptySeq, ConcatEmptySeq
<1>2. <<c>> = Append(<<>>, c) /\ <<c>> \in Seq(Codes) /\ <<c, e>> = Append(<<c>>, e)
      OBVIOUS
<1>3. t \o <<c>> = Append(t, c)
  <2>1. t \o Append(<<>>, c) = Append(t \o <<>>, c)
        BY <1>1, ConcatAppend
  <2> QED
      BY <1>1, <1>2, <2>1
<1>4. t \o Append(<<c>>, e) = Append(t \o <<c>>, e)
      BY <1>2, ConcatAppend
<1> QED
    BY <1>2, <1>3, <1>4

\* A field ends with its only delimiter, and without CR it says the value.
LEMMA PrintFieldIs ==
  ASSUME NEW v \in 1 - Word .. Word - 1, NEW term \in {COMMA, LF}
  PROVE  LET t == printField(v, term)
             u == Without(t, {CR})
             d == SubSeq(u, 1, Len(u) - 1)
         IN  /\ t \in Seq(Codes) /\ Len(t) >= 1 /\ t[Len(t)] = term
             /\ \A i \in 1 .. Len(t) - 1 : t[i] \notin {COMMA, LF}
             /\ v = IF Head(d) = MINUS THEN -Horner(Tail(d), 10) ELSE Horner(d, 10)
<1> DEFINE num  == IF v < 0 THEN -v ELSE v
           sign == IF v < 0 THEN <<MINUS>> ELSE <<>>
           digits == fmtNum(num, 10, FALSE)
           body == sign \o digits
           u_1 == printField(v, term)
<1>1. v \in Int /\ num \in Nat /\ num < Word
      BY WordIsPositive
<1>2. num % Word = num
  <2> HIDE DEF num
  <2> QED
      BY <1>1, WordHolds
<1>3. u_1 = body \o IF term = LF THEN <<CR, LF>> ELSE <<term>>
      BY <1>2 DEF printField
<1> HIDE DEF num
<1>4. /\ digits \in Seq(Codes) /\ Len(digits) \in Nat /\ Len(digits) >= 1
      /\ \A i \in 1 .. Len(digits) : digits[i] \in 48 .. 57
      /\ Horner(digits, 10) = num
      BY <1>1, FmtNumIs, LenProperties
<1> HIDE DEF digits
<1>5. /\ MINUS \in Codes /\ LF \in Codes /\ CR \in Codes /\ COMMA \in Codes /\ term \in Codes
      /\ <<>> \in Seq(Codes)
      BY SignsAre
<1>6. /\ body \in Seq(Codes) /\ Len(body) \in Nat /\ Len(body) >= 1
      /\ \A i \in 1 .. Len(body) : body[i] \in {MINUS} \cup 48 .. 57
      /\ v < 0 => Head(body) = MINUS /\ Tail(body) = digits
      /\ v >= 0 => Head(body) # MINUS /\ body = digits
  <2>1. CASE v < 0
    <3>1. <<MINUS>> \in Seq(Codes) /\ Len(<<MINUS>>) = 1 /\ <<MINUS>>[1] = MINUS
          BY <1>5
    <3>2. body = <<MINUS>> \o digits
          BY <2>1
    <3> HIDE DEF body
    <3>3. /\ body \in Seq(Codes) /\ Len(body) = 1 + Len(digits) /\ body[1] = MINUS
          /\ \A i \in 1 .. Len(digits) : body[i + 1] = digits[i]
          BY <1>4, <3>1, <3>2, ConcatProperties
    <3>4. body # <<>> /\ Head(body) = body[1]
          BY <1>4, <3>3
    <3>5. Tail(body) = digits
      <4>1. /\ Tail(body) \in Seq(Codes) /\ Len(Tail(body)) = Len(digits)
            /\ \A i \in 1 .. Len(digits) : Tail(body)[i] = body[i + 1]
            BY <1>4, <3>3, <3>4, HeadTailProperties
      <4> QED
          BY <1>4, <3>3, <4>1, SeqEqual
    <3>6. \A i \in 1 .. Len(body) : body[i] \in {MINUS} \cup 48 .. 57
      <4>1. ASSUME NEW i \in 1 .. Len(body), i # 1 PROVE body[i] \in 48 .. 57
        <5>1. i - 1 \in 1 .. Len(digits) /\ (i - 1) + 1 = i
              BY <1>4, <3>3, <4>1
        <5> QED
            BY <1>4, <3>3, <5>1
      <4> QED
          BY <3>3, <4>1
    <3> QED
        BY <1>1, <1>4, <2>1, <3>3, <3>4, <3>5, <3>6
  <2>2. CASE v >= 0
    <3>0. ~(v < 0)
          BY <1>1, <2>2
    <3>1. body = <<>> \o digits
          BY <3>0
    <3>2. body = digits
          BY <1>4, <3>1, ConcatEmptySeq
    <3> HIDE DEF body
    <3>3. digits # <<>> /\ Head(digits) = digits[1] /\ digits[1] \in 48 .. 57
          BY <1>4
    <3>4. Head(body) # MINUS
          BY <3>2, <3>3 DEF MINUS
    <3> QED
        BY <1>1, <1>4, <2>2, <3>2, <3>4
  <2> QED
      BY <1>1, <2>1, <2>2
<1> HIDE DEF body
<1>7. \A i \in 1 .. Len(body) : body[i] \notin {COMMA, LF} /\ body[i] \notin {CR}
      BY <1>6 DEF MINUS, COMMA, LF, CR
<1>8. Append(body, term) \in Seq(Codes) /\ Len(Append(body, term)) = Len(body) + 1
      /\ Append(body, term)[Len(body) + 1] = term
      /\ \A i \in 1 .. Len(body) : Append(body, term)[i] = body[i]
      BY <1>5, <1>6, AppendProperties
<1>9. Without(body, {CR}) = body
      BY <1>6, <1>7, WithoutNone
<1>10. /\ u_1 \in Seq(Codes) /\ Len(u_1) >= 1 /\ u_1[Len(u_1)] = term
       /\ \A i \in 1 .. Len(u_1) - 1 : u_1[i] \notin {COMMA, LF}
       /\ Without(u_1, {CR}) = Append(body, term)
  <2>1. CASE term = LF
    <3> DEFINE b_1 == Append(body, CR)
    <3>1. u_1 = Append(b_1, LF)
      <4>1. u_1 = body \o <<CR, LF>>
            BY <1>3, <2>1
      <4> HIDE DEF u_1
      <4> QED
          BY <1>5, <1>6, <4>1, AppendTwo
    <3>2. b_1 \in Seq(Codes) /\ Len(b_1) = Len(body) + 1 /\ b_1[Len(body) + 1] = CR
          /\ \A i \in 1 .. Len(body) : b_1[i] = body[i]
          BY <1>5, <1>6, AppendProperties
    <3>3. Without(b_1, {CR}) = body
          BY <1>5, <1>6, <1>9, WithoutIs
    <3> HIDE DEF u_1, b_1
    <3>4. /\ u_1 \in Seq(Codes) /\ Len(u_1) = Len(body) + 2 /\ u_1[Len(body) + 2] = LF
          /\ \A i \in 1 .. Len(body) + 1 : u_1[i] = b_1[i]
          BY <1>5, <1>6, <3>1, <3>2, AppendProperties
    <3>5. \A i \in 1 .. Len(body) + 1 : u_1[i] \notin {COMMA, LF}
      <4>1. CR \notin {COMMA, LF}
            BY DEF CR, COMMA, LF
      <4>2. \A i \in 1 .. Len(body) + 1 : i = Len(body) + 1 \/ i \in 1 .. Len(body)
            BY <1>6
      <4> QED
          BY <1>7, <3>2, <3>4, <4>1, <4>2
    <3>6. Without(u_1, {CR}) = Append(body, LF)
      <4>1. LF \notin {CR}
            BY DEF CR, LF
      <4>2. Without(Append(b_1, LF), {CR}) = IF LF \in {CR} THEN Without(b_1, {CR})
                                            ELSE Append(Without(b_1, {CR}), LF)
            BY <1>5, <3>2, WithoutIs
      <4> QED
          BY <3>1, <3>3, <4>1, <4>2
    <3>7. Len(u_1) - 1 = Len(body) + 1 /\ Len(u_1) >= 1 /\ u_1[Len(u_1)] = LF
          BY <1>6, <3>4
    <3> QED
        BY <2>1, <3>4, <3>5, <3>6, <3>7
  <2>2. CASE term = COMMA
    <3>1. u_1 = Append(body, term)
      <4>1. u_1 = body \o <<term>>
            BY <1>3, <2>2 DEF LF, COMMA
      <4> HIDE DEF u_1
      <4> QED
          BY <1>5, <1>6, <4>1, AppendTwo
    <3> HIDE DEF u_1
    <3>2. Without(u_1, {CR}) = Append(body, term)
      <4>1. term \notin {CR}
            BY <2>2 DEF CR, COMMA
      <4>2. Without(Append(body, term), {CR}) = IF term \in {CR} THEN Without(body, {CR})
                                               ELSE Append(Without(body, {CR}), term)
            BY <1>5, <1>6, WithoutIs
      <4> QED
          BY <1>9, <3>1, <4>1, <4>2
    <3>3. u_1 \in Seq(Codes) /\ Len(u_1) = Len(body) + 1 /\ u_1[Len(body) + 1] = term
          /\ \A i \in 1 .. Len(body) : u_1[i] \notin {COMMA, LF}
          BY <1>7, <1>8, <3>1
    <3>4. Len(u_1) - 1 = Len(body) /\ Len(u_1) >= 1 /\ u_1[Len(u_1)] = term
          BY <1>6, <3>3
    <3> QED
        BY <3>2, <3>3, <3>4
  <2> QED
      BY <2>1, <2>2
<1>11. SubSeq(Append(body, term), 1, Len(Append(body, term)) - 1) = body
  <2> DEFINE w == Append(body, term)
             z == SubSeq(w, 1, Len(body))
  <2>1. Len(w) - 1 = Len(body) /\ 1 \in 1 .. Len(w) + 1 /\ Len(body) \in 1 - 1 .. Len(w)
        BY <1>6, <1>8
  <2>2. w \in Seq(Codes) /\ \A i \in 1 .. Len(body) : w[i] = body[i]
        BY <1>8
  <2> HIDE DEF w
  <2>3. z \in Seq(Codes) /\ Len(z) = Len(body) /\ \A i \in 1 .. Len(body) : z[i] = w[i]
    <3>1. \A i \in 1 .. Len(body) : w[i] \in Codes
          BY <1>6, <2>2, ElementOfSeq
    <3> QED
        BY <1>6, <3>1, SubSeqProperties
  <2> HIDE DEF z
  <2>4. z = body
        BY <1>6, <2>2, <2>3, SeqEqual
  <2> QED
      BY <2>1, <2>4 DEF w, z
<1>12. v = IF Head(body) = MINUS THEN -Horner(Tail(body), 10) ELSE Horner(body, 10)
  <2>1. CASE v < 0
    <3>1. Head(body) = MINUS /\ Horner(Tail(body), 10) = num
          BY <1>4, <1>6, <2>1
    <3>2. v = -num
          BY <1>1, <2>1 DEF num
    <3> QED
        BY <3>1, <3>2
  <2>2. CASE v >= 0
        BY <1>1, <1>4, <1>6, <2>2 DEF num
  <2> QED
      BY <1>1, <2>1, <2>2
<1> HIDE DEF u_1
<1> QED
    BY <1>10, <1>11, <1>12 DEF u_1

-------------------------------------------------------------------------------
(* The inductive invariant of the program.                                 *)

\* The place of a field in the file x holds what printField writes for its value.
FieldAt(x, i) ==
  \E term \in {COMMA, LF} :
    LET t == printField(i.item.v, term)
    IN  /\ i.to = i.from + Len(t) /\ i.to <= Len(x.bytes)
        /\ \A k \in 1 .. Len(t) : x.bytes[i.from + k] = t[k]

FieldItems ==
  [item : [kind : {"field"}, v : 1 - Word .. Word - 1], w : {0}, from : Nat, to : Nat]

StreamsTyped ==
  /\ program \in Kinds /\ m \in Settings /\ f \in Files /\ s \in StreamsOf(f)
  /\ put \in Seq(Codes) /\ taken \in Seq(Codes) /\ origin \in 0 .. s.pos
  /\ lost \in BOOLEAN /\ back \in Nat

\* An open file has the flags that its mode stands for.
FlagsFit == f.open => f.flags = OpenFlags(f.mode) /\ f.flags # {}

\* The fields that have been written one after the other are still there: the next one
\* is written behind the last of them.
FieldsKept ==
  program = "fields" =>
    /\ f.broken = {} /\ ~f.dead /\ (f.open => f.mode = {"in", "out", "trunc"})
    /\ items \in Seq(FieldItems)
    /\ \A i \in 1 .. Len(items) : FieldAt(f, items[i]) /\ items[i].to <= items[Len(items)].to

StreamsInv ==
  /\ StreamsTyped /\ FlagsFit /\ FieldsKept
  /\ program = "read" => items = <<>>
  /\ AtStart(f, origin, s.pos)
  /\ TextIsTheFile

\* What is neither a line nor a piece of fgets says nothing of them.
LEMMA OtherOut ==
  ASSUME out'.op \notin {"line", "fgets"}
  PROVE  LineEndsHonestly' /\ FieldsReadBack'
BY DEF LineEndsHonestly, FieldsReadBack

\* From a place to itself there is no text.
LEMMA NoText ==
  ASSUME NEW x \in Files, NEW place \in 0 .. Len(x.bytes)
  PROVE  Decoded(x, place, place) = <<>> /\ AtStart(x, place, place)
<1>1. place \in Nat /\ place \in 0 .. place
      BY ByteIsCode
<1>2. Decoded(x, place, place) = <<>>
      BY <1>1, DecodedIs
<1>3. ~Joins(x, place, place)
      BY <1>1 DEF Joins
<1> QED
    BY <1>2, <1>3 DEF AtStart

\* An extraction that gives the text it has moved over.
LEMMA TakesKeeps ==
  ASSUME StreamsInv, UNCHANGED <<program, m, f, put, lost>>,
         NEW t, Moved(f, origin, s, s', t), taken' = taken \o t, origin' = origin,
         items' = <<>>, back' = 0, LineEndsHonestly', FieldsReadBack'
  PROVE  StreamsInv'
<1>1. /\ StreamsTyped /\ FlagsFit /\ FieldsKept /\ EveryCharacterOnce /\ TextSurvives
      BY DEF StreamsInv, TextIsTheFile
<1>2. /\ s' \in StreamsOf(f) /\ origin \in 0 .. s'.pos /\ t \in Seq(Codes)
      /\ Decoded(f, origin, s'.pos) = Decoded(f, origin, s.pos) \o t
      /\ AtStart(f, origin, s'.pos)
      BY DEF Moved
<1>3. taken \o t \in Seq(Codes)
      BY <1>1, <1>2, ConcatProperties DEF StreamsTyped
<1>4. StreamsTyped'
      BY <1>1, <1>2, <1>3 DEF StreamsTyped
<1>5. FlagsFit'
      BY <1>1 DEF FlagsFit
<1>6. FieldsKept'
  <2>1. <<>> \in Seq(FieldItems) /\ Len(<<>>) = 0
        BY EmptySeq
  <2>2. items' \in Seq(FieldItems) /\ 1 .. Len(items') = {}
        BY <2>1
  <2> QED
      BY <1>1, <2>2 DEF FieldsKept
<1>7. EveryCharacterOnce'
      BY <1>1, <1>2 DEF EveryCharacterOnce
<1>8. TextSurvives'
      BY <1>1 DEF TextSurvives
<1> QED
    BY <1>2, <1>4, <1>5, <1>6, <1>7, <1>8 DEF StreamsInv, TextIsTheFile

\* An extraction after which the text starts over.
LEMMA RestartKeeps ==
  ASSUME StreamsInv, UNCHANGED <<program, m, f, put, lost>>,
         s' \in StreamsOf(f), taken' = <<>>, origin' = s'.pos,
         items' \in {items, <<>>}, back' \in Nat, LineEndsHonestly', FieldsReadBack'
  PROVE  StreamsInv'
<1>1. /\ StreamsTyped /\ FlagsFit /\ FieldsKept /\ TextSurvives
      /\ program = "read" => items = <<>>
      BY DEF StreamsInv, TextIsTheFile
<1>2. /\ s'.pos \in 0 .. Len(f.bytes) /\ s'.pos \in Nat /\ <<>> \in Seq(Codes)
      BY <1>1, ByteIsCode, EmptySeq DEF StreamsOf, StreamsTyped
<1>3. Decoded(f, s'.pos, s'.pos) = <<>> /\ AtStart(f, s'.pos, s'.pos)
      BY <1>1, <1>2, NoText DEF StreamsTyped
<1>4. StreamsTyped'
      BY <1>1, <1>2 DEF StreamsTyped
<1>5. FlagsFit'
      BY <1>1 DEF FlagsFit
<1>6. FieldsKept'
  <2>1. <<>> \in Seq(FieldItems) /\ Len(<<>>) = 0
        BY EmptySeq
  <2>2. CASE items' = <<>>
    <3>1. items' \in Seq(FieldItems) /\ 1 .. Len(items') = {}
          BY <2>1, <2>2
    <3> QED
        BY <1>1, <3>1 DEF FieldsKept
  <2>3. CASE items' = items
        BY <1>1, <2>3 DEF FieldsKept
  <2> QED
      BY <2>2, <2>3
<1>7. EveryCharacterOnce'
      BY <1>3 DEF EveryCharacterOnce
<1>8. TextSurvives'
      BY <1>1 DEF TextSurvives
<1> QED
    BY <1>1, <1>3, <1>4, <1>5, <1>6, <1>7, <1>8 DEF StreamsInv, TextIsTheFile

\* At the start nothing has been taken.
LEMMA StreamsInitKeeps == StreamsInit => StreamsInv
<1>1. SUFFICES ASSUME StreamsInit PROVE StreamsInv
      OBVIOUS
<1>2. PICK p \in Programs, broken \in {{}, {1}}, exists \in BOOLEAN :
        /\ program = p.kind /\ m = p.m
        /\ f = [bytes |-> p.text, mode |-> {}, open |-> FALSE, exists |-> exists, flags |-> {},
                broken |-> broken, dead |-> FALSE]
        /\ program \in {"values", "fields"} => broken = {}
      BY <1>1 DEF StreamsInit
<1>3. p.kind \in Kinds /\ p.text \in Seq(Codes) /\ p.m \in Settings
      BY ProgramsAssumption
<1>4. f \in Files /\ f.bytes = p.text
      BY <1>2, <1>3 DEF Files
<1>5. /\ s = [pos |-> 0, st |-> {}, we |-> FALSE] /\ out = Nothing /\ put = Whole(f)
      /\ lost = FALSE /\ items = <<>> /\ back = 0 /\ taken = <<>> /\ origin = 0
      BY <1>1 DEF StreamsInit
<1>6. Len(f.bytes) \in Nat /\ <<>> \in Seq(Codes) /\ Whole(f) \in Seq(Codes)
      BY <1>4, ByteIsCode, EmptySeq, WholeIs
<1>7. s \in StreamsOf(f) /\ s.pos = 0 /\ 0 \in 0 .. Len(f.bytes)
      BY <1>5, <1>6 DEF StreamsOf
<1>8. StreamsTyped
  <2>1. origin \in 0 .. s.pos
    <3>1. 0 \in 0 .. 0 /\ origin = 0 /\ s.pos = 0
          BY <1>5
    <3> QED
        BY <3>1
  <2>3. back \in Nat
    <3>1. back = 0
          BY <1>5
    <3> QED
        BY <3>1
  <2>4. lost \in BOOLEAN
        BY <1>5
  <2>2. put \in Seq(Codes) /\ taken \in Seq(Codes)
        BY <1>5, <1>6
  <2> QED
      BY <1>2, <1>3, <1>4, <1>7, <2>1, <2>2, <2>3, <2>4 DEF StreamsTyped
<1>9. FlagsFit
      BY <1>2 DEF FlagsFit
<1>10. FieldsKept
  <2>1. items \in Seq(FieldItems) /\ 1 .. Len(items) = {}
        BY <1>5, EmptySeq
  <2>2. program = "fields" => f.broken = {} /\ ~f.dead /\ ~f.open
        BY <1>2
  <2> QED
      BY <2>1, <2>2 DEF FieldsKept
<1>11. EveryCharacterOnce /\ AtStart(f, origin, s.pos)
  <2>1. Decoded(f, 0, 0) = <<>> /\ AtStart(f, 0, 0)
        BY <1>4, <1>7, NoText
  <2> QED
      BY <1>5, <1>7, <2>1 DEF EveryCharacterOnce
<1>12. TextSurvives /\ LineEndsHonestly /\ FieldsReadBack
      BY <1>5 DEF TextSurvives, LineEndsHonestly, FieldsReadBack, Nothing
<1> QED
    BY <1>5, <1>8, <1>9, <1>10, <1>11, <1>12 DEF StreamsInv, TextIsTheFile

\* What the operations of a stream are told about.
LEMMA Here ==
  ASSUME StreamsInv
  PROVE  /\ f \in Files /\ s \in StreamsOf(f) /\ origin \in 0 .. s.pos
         /\ AtStart(f, origin, s.pos)
         /\ m \in Settings /\ m.skipws \in BOOLEAN /\ m.base \in {8, 10, 16}
         /\ s.pos \in 0 .. Len(f.bytes) /\ Len(f.bytes) \in Nat
<1>1. StreamsTyped /\ AtStart(f, origin, s.pos)
      BY DEF StreamsInv
<1>2. m \in Settings /\ f \in Files /\ s \in StreamsOf(f) /\ origin \in 0 .. s.pos
      BY <1>1 DEF StreamsTyped
<1>3. m.skipws \in BOOLEAN /\ m.base \in {8, 10, 16}
      BY <1>2 DEF Settings
<1>4. s.pos \in 0 .. Len(f.bytes)
      BY <1>2 DEF StreamsOf
<1> QED
    BY <1>1, <1>2, <1>3, <1>4, ByteIsCode

\* One character.
LEMMA GetKeeps ==
  ASSUME StreamsInv, Get
  PROVE  StreamsInv'
<1> DEFINE r == getOne(f, s)
           t == IF r.c < 0 THEN <<>> ELSE <<r.c>>
<1>1. /\ UNCHANGED <<program, m, f, put, lost>> /\ s' = r.s /\ taken' = taken \o t
      /\ origin' = origin /\ items' = <<>> /\ back' = 0 /\ out' = [op |-> "get", from |-> s.pos]
      BY DEF Get, Extraction, Statement, Takes
<1>2. Moved(f, origin, s, r.s, t)
      BY Here, GetOneIs
<1>3. LineEndsHonestly' /\ FieldsReadBack'
      BY <1>1, OtherOut
<1> HIDE DEF r, t
<1> QED
    BY <1>1, <1>2, <1>3, TakesKeeps

\* A look at the next character.
LEMMA PeekKeeps ==
  ASSUME StreamsInv, Peek
  PROVE  StreamsInv'
<1> DEFINE r == peek(f, s)
<1>1. /\ UNCHANGED <<program, m, f, put, lost>> /\ s' = r.s /\ taken' = taken \o <<>>
      /\ origin' = origin /\ items' = <<>> /\ back' = 0
      /\ out' = [op |-> "peek", from |-> s.pos]
      BY DEF Peek, Extraction, Statement, Takes
<1>2. Moved(f, origin, s, r.s, <<>>)
      BY Here, PeekIs
<1>3. LineEndsHonestly' /\ FieldsReadBack'
      BY <1>1, OtherOut
<1> HIDE DEF r
<1> QED
    BY <1>1, <1>2, <1>3, TakesKeeps

\* A text up to a delimiter.
LEMMA GetTextKeeps ==
  ASSUME StreamsInv, NEW num \in Nat, NEW delim \in Codes, GetText(num, delim)
  PROVE  StreamsInv'
<1> DEFINE r == getText(f, s, num, delim)
<1>1. /\ UNCHANGED <<program, m, f, put, lost>> /\ s' = r.s /\ taken' = taken \o r.str
      /\ origin' = origin /\ items' = <<>> /\ back' = 0
      /\ out' = [op |-> "text", from |-> s.pos]
      BY DEF GetText, Extraction, Statement, Takes
<1>2. Moved(f, origin, s, r.s, r.str)
      BY Here, GetTextIs
<1>3. LineEndsHonestly' /\ FieldsReadBack'
      BY <1>1, OtherOut
<1> HIDE DEF r
<1> QED
    BY <1>1, <1>2, <1>3, TakesKeeps

\* A line, which only ends without its delimiter where it may.
LEMMA GetLineKeeps ==
  ASSUME StreamsInv, NEW num \in Nat, NEW delim \in Codes, GetLine(num, delim)
  PROVE  StreamsInv'
<1> DEFINE r == getline(f, s, num, delim)
           over == r.gcount > Len(r.str)
           t == IF over THEN Append(r.str, delim) ELSE r.str
<1>1. /\ UNCHANGED <<program, m, f, put, lost>> /\ s' = r.s /\ taken' = taken \o t
      /\ origin' = origin /\ items' = <<>> /\ back' = 0
      /\ out' = [op |-> "line", from |-> s.pos, str |-> r.str, size |-> num, ended |-> over]
      BY DEF GetLine, Extraction, Statement, Takes
<1>2. /\ Moved(f, origin, s, r.s, t)
      /\ ~over /\ Len(r.str) + 1 < num =>
           \/ "eof" \in r.s.st /\ r.s.pos = Len(f.bytes)
           \/ "bad" \in r.s.st /\ ReadByte(f, r.s.pos) = Broken
      BY Here, GetLineIs
<1> HIDE DEF r, over, t
<1>3. LineEndsHonestly'
  <2>1. f' = f /\ s' = r.s /\ out'.ended = over /\ out'.str = r.str /\ out'.size = num
        BY <1>1
  <2> QED
      BY <1>2, <2>1 DEF LineEndsHonestly
<1>4. FieldsReadBack'
      BY <1>1 DEF FieldsReadBack
<1> QED
    BY <1>1, <1>2, <1>3, <1>4, TakesKeeps

\* A word; with one that is cut the text starts over.
LEMMA GetWordKeeps ==
  ASSUME StreamsInv, NEW num \in Nat, GetWord(num)
  PROVE  StreamsInv'
<1> DEFINE w == [m EXCEPT !.width = num]
           r == getStr(f, s, w)
           cut == num # 1 /\ Len(r.str) = Longest(num)
           t == IF r.str # <<>> \/ r.s.pos > s.pos THEN Skipped \o r.str ELSE <<>>
<1>1. /\ UNCHANGED <<program, m, f, put, lost>> /\ s' = r.s
      /\ items' = <<>> /\ back' = 0 /\ out' = [op |-> "word", from |-> s.pos, cut |-> cut]
      /\ IF cut THEN taken' = <<>> /\ origin' = r.s.pos
         ELSE taken' = taken \o t /\ origin' = origin
      BY DEF GetWord, Extraction, Statement
<1>2. w.skipws = m.skipws /\ w.width = num
      BY Here DEF Settings
<1> HIDE DEF w
<1>3. /\ r.s \in StreamsOf(f) /\ r.str \in Seq(Codes)
      /\ Longest(num) = 0 => r.str = <<>> /\ r.s.pos = s.pos
      /\ Longest(num) # 0 /\ Len(r.str) # Longest(num) =>
           Moved(f, origin, s, r.s, Given(Reads(f, s), 1, readSkip(f, s, w)) \o r.str)
  <2>1. w.skipws \in BOOLEAN /\ w.width \in Nat
        BY <1>2, Here
  <2> QED
      BY <1>2, <2>1, Here, GetStrIs
<1>4. Skipped = Given(Reads(f, s), 1, readSkip(f, s, w))
      BY <1>2, Here, SkippedIs
<1>5. LineEndsHonestly' /\ FieldsReadBack'
      BY <1>1, OtherOut
<1>6. CASE cut
  <2> HIDE DEF r, cut
  <2>1. s' \in StreamsOf(f) /\ taken' = <<>> /\ origin' = s'.pos /\ items' \in {items, <<>>}
        /\ back' \in Nat
        BY <1>1, <1>3, <1>6
  <2> QED
      BY <1>1, <1>5, <2>1, RestartKeeps
<1>7. CASE ~cut
  <2>1. Moved(f, origin, s, r.s, t)
    <3>1. CASE num = 1
      <4>1. Longest(num) = 0
            BY <3>1 DEF Longest
      <4>2. r.str = <<>> /\ r.s.pos = s.pos
            BY <1>3, <4>1
      <4>3. t = <<>>
            BY <4>2, Here
      <4> HIDE DEF r, t
      <4> QED
          BY <1>3, <4>2, <4>3, Here, MovedNot
    <3>2. CASE num # 1
      <4>1. Longest(num) # 0
            BY <3>2 DEF Longest
      <4>2. Moved(f, origin, s, r.s, Skipped \o r.str)
            BY <1>3, <1>4, <1>7, <3>2, <4>1
      <4>3. CASE r.str # <<>> \/ r.s.pos > s.pos
            BY <4>2, <4>3
      <4>4. CASE ~(r.str # <<>> \/ r.s.pos > s.pos)
        <5>1. t = <<>>
              BY <4>4
        <5> HIDE DEF r, t
        <5>2. r.s.pos \in 0 .. Len(f.bytes) /\ s.pos <= r.s.pos
              BY <1>3, <4>2 DEF StreamsOf, Moved
        <5>3. r.s.pos = s.pos
              BY <4>4, <5>2, Here
        <5> QED
            BY <1>3, <5>1, <5>3, Here, MovedNot
      <4> QED
          BY <4>3, <4>4
    <3> QED
        BY <3>1, <3>2
  <2> HIDE DEF r, t, cut
  <2> QED
      BY <1>1, <1>5, <1>7, <2>1, TakesKeeps
<1> QED
    BY <1>6, <1>7

\* A character with >>, which leaves out the spaces before it.
LEMMA GetCharKeeps ==
  ASSUME StreamsInv, GetChar
  PROVE  StreamsInv'
<1> DEFINE r == getChar(f, s, m)
           t == Skipped \o IF r.c < 0 THEN <<>> ELSE <<r.c>>
<1>1. /\ UNCHANGED <<program, m, f, put, lost>> /\ s' = r.s /\ taken' = taken \o t
      /\ origin' = origin /\ items' = <<>> /\ back' = 0
      /\ out' = [op |-> "char", from |-> s.pos]
      BY DEF GetChar, Extraction, Statement, Takes
<1>2. Moved(f, origin, s, r.s, t)
  <2>1. Skipped = Given(Reads(f, s), 1, readSkip(f, s, m))
        BY Here, SkippedIs
  <2> QED
      BY <2>1, Here, GetCharIs
<1>3. LineEndsHonestly' /\ FieldsReadBack'
      BY <1>1, OtherOut
<1> HIDE DEF r, t
<1> QED
    BY <1>1, <1>2, <1>3, TakesKeeps

\* ws
LEMMA SkipWhiteKeeps ==
  ASSUME StreamsInv, SkipWhite
  PROVE  StreamsInv'
<1> DEFINE z == skipWhite(f, s)
           t == Leading(Ahead(s.pos), Spaces)
<1>1. /\ UNCHANGED <<program, m, f, put, lost>> /\ s' = z /\ taken' = taken \o t
      /\ origin' = origin /\ items' = <<>> /\ back' = 0
      /\ out' = [op |-> "ws", from |-> s.pos]
      BY DEF SkipWhite, Extraction, Statement, Takes
<1>2. Moved(f, origin, s, z, t)
  <2>1. PICK k \in Nat \ {0} :
          /\ Reads(f, s)[k].c \notin Spaces
          /\ \A h \in 1 .. k - 1 : Reads(f, s)[h].c \in Spaces
          /\ Moved(f, origin, s, z, Given(Reads(f, s), 1, k))
        BY Here, SkipWhiteIs
  <2>2. t = Given(Reads(f, s), 1, k)
        BY <2>1, Here, SpacesAre
  <2> QED
      BY <2>1, <2>2
<1>3. LineEndsHonestly' /\ FieldsReadBack'
      BY <1>1, OtherOut
<1> HIDE DEF z, t
<1> QED
    BY <1>1, <1>2, <1>3, TakesKeeps

\* ignore
LEMMA IgnoreKeeps ==
  ASSUME StreamsInv, NEW num \in Nat, NEW delim \in Codes, Ignore(num, delim)
  PROVE  StreamsInv'
<1>1. /\ UNCHANGED <<program, m, f, put, lost>> /\ s' = ignore(f, s, num, delim)
      /\ taken' = <<>> /\ origin' = s'.pos /\ items' = <<>> /\ back' = 0
      /\ out' = [op |-> "ignore", from |-> s.pos]
      BY DEF Ignore, Extraction, Statement
<1>2. ignore(f, s, num, delim) \in StreamsOf(f)
      BY Here, IgnoreIs
<1>3. LineEndsHonestly' /\ FieldsReadBack'
      BY <1>1, OtherOut
<1>4. s' \in StreamsOf(f) /\ items' \in {items, <<>>} /\ back' \in Nat
      BY <1>1, <1>2
<1> QED
    BY <1>1, <1>3, <1>4, RestartKeeps

\* A number.
LEMMA GetNumberKeeps ==
  ASSUME StreamsInv, NEW T, GetNumber(T)
  PROVE  StreamsInv'
<1> DEFINE r == getNumber(f, s, m, T)
<1>1. /\ UNCHANGED <<program, m, f, put, lost>> /\ s' = r.s
      /\ taken' = <<>> /\ origin' = r.s.pos /\ items' = <<>> /\ back' = 0
      /\ out'.op = "number"
      BY DEF GetNumber, Extraction, Statement, Values
<1>2. r.s \in StreamsOf(f)
      BY Here, GetNumberIs
<1>3. LineEndsHonestly' /\ FieldsReadBack'
      BY <1>1, OtherOut
<1> HIDE DEF r
<1>4. s' \in StreamsOf(f) /\ items' \in {items, <<>>} /\ back' \in Nat /\ origin' = s'.pos
      BY <1>1, <1>2
<1> QED
    BY <1>1, <1>3, <1>4, RestartKeeps

\* A double.
LEMMA GetDoubleKeeps ==
  ASSUME StreamsInv, GetDouble
  PROVE  StreamsInv'
<1> DEFINE r == getDouble(f, s, m)
<1>1. /\ UNCHANGED <<program, m, f, put, lost>> /\ s' = r.s
      /\ taken' = <<>> /\ origin' = r.s.pos /\ items' = <<>> /\ back' = 0
      /\ out'.op = "double"
      BY DEF GetDouble, Extraction, Statement, Values
<1>2. r.s \in StreamsOf(f)
      BY Here, GetDoubleIs
<1>3. LineEndsHonestly' /\ FieldsReadBack'
      BY <1>1, OtherOut
<1> HIDE DEF r
<1>4. s' \in StreamsOf(f) /\ items' \in {items, <<>>} /\ back' \in Nat /\ origin' = s'.pos
      BY <1>1, <1>2
<1> QED
    BY <1>1, <1>3, <1>4, RestartKeeps

\* The next item, read back.
LEMMA ReadBackKeeps ==
  ASSUME StreamsInv, ReadBack
  PROVE  StreamsInv'
<1> DEFINE item == items[back + 1].item
<1>1. /\ UNCHANGED <<program, m, f, put, lost>> /\ items' = items /\ back' = back + 1
      BY DEF ReadBack, Extraction, Statement
<1>2. /\ taken' = <<>> /\ origin' = s'.pos /\ out'.op = "back"
      /\ s' \in {getNumber(f, s, m, item.type).s, getBool(f, s, m).s, getDouble(f, s, m).s,
                 getStr(f, s, m).s}
      BY DEF ReadBack, Values
<1>3. s' \in StreamsOf(f)
  <2>1. getNumber(f, s, m, item.type).s \in StreamsOf(f)
        BY Here, GetNumberIs
  <2>2. getBool(f, s, m).s \in StreamsOf(f)
        BY Here, GetBoolIs
  <2>3. getDouble(f, s, m).s \in StreamsOf(f)
        BY Here, GetDoubleIs
  <2>4. getStr(f, s, m).s \in StreamsOf(f)
    <3>1. m.width \in Nat
          BY Here DEF Settings
    <3> QED
        BY <3>1, Here, GetStrIs
  <2> QED
      BY <1>2, <2>1, <2>2, <2>3, <2>4
<1>4. back' \in Nat /\ items' \in {items, <<>>}
  <2>1. back \in Nat
        BY DEF StreamsInv, StreamsTyped
  <2> QED
      BY <1>1, <2>1
<1>5. LineEndsHonestly' /\ FieldsReadBack'
      BY <1>2, OtherOut
<1> QED
    BY <1>1, <1>2, <1>3, <1>4, <1>5, RestartKeeps

\* A field that fits comes back as the value that has been written.
LEMMA FieldBack ==
  ASSUME NEW x \in Files, "READ" \in x.flags, x.broken = {},
         NEW i \in FieldItems, FieldAt(x, i), i.from \in 0 .. Len(x.bytes), NEW num \in Nat,
         fgets(x, i.from, num, {COMMA, LF}).n >= 0,
         Len(fgets(x, i.from, num, {COMMA, LF}).str) + 1 < num
  PROVE  LET u == fgets(x, i.from, num, {COMMA, LF}).str
             d == SubSeq(u, 1, Len(u) - 1)
         IN  i.item.v = IF Head(d) = MINUS THEN -Horner(Tail(d), 10) ELSE Horner(d, 10)
<1> DEFINE g == fgets(x, i.from, num, {COMMA, LF})
           v == i.item.v
           start == i.from
<1>1. PICK term \in {COMMA, LF} :
        LET t == printField(v, term)
        IN  /\ i.to = start + Len(t) /\ i.to <= Len(x.bytes)
            /\ \A k \in 1 .. Len(t) : x.bytes[start + k] = t[k]
      BY DEF FieldAt
<1> DEFINE t == printField(v, term)
           q == start + Len(t)
<1>2. v \in 1 - Word .. Word - 1
      BY DEF FieldItems
<1>3. start \in Nat /\ start \in 0 .. Len(x.bytes) /\ Len(x.bytes) \in Nat
      BY ByteIsCode
<1> HIDE DEF v, start
<1>4. /\ t \in Seq(Codes) /\ Len(t) >= 1 /\ t[Len(t)] = term
      /\ \A k \in 1 .. Len(t) - 1 : t[k] \notin {COMMA, LF}
      /\ LET u == Without(t, {CR})
             d == SubSeq(u, 1, Len(u) - 1)
         IN  v = IF Head(d) = MINUS THEN -Horner(Tail(d), 10) ELSE Horner(d, 10)
      BY <1>2, PrintFieldIs
<1>5. q <= Len(x.bytes) /\ \A k \in 1 .. Len(t) : x.bytes[start + k] = t[k]
      BY <1>1
<1> HIDE DEF t
<1>6. Len(t) \in Nat /\ q \in start + 1 .. Len(x.bytes)
      BY <1>3, <1>4, <1>5, LenProperties
<1>7. LineTo(x, start, {COMMA, LF}, q)
  <2>1. x.bytes[q] = term
    <3>1. Len(t) \in 1 .. Len(t)
          BY <1>4, <1>6
    <3> QED
        BY <1>4, <1>5, <3>1
  <2>2. term \in {COMMA, LF} \ {CR}
        BY DEF COMMA, LF, CR
  <2>3. ASSUME NEW k \in start + 1 .. q - 1 PROVE x.bytes[k] \notin {COMMA, LF} \ {CR}
    <3>1. k - start \in 1 .. Len(t) /\ k - start \in 1 .. Len(t) - 1 /\ start + (k - start) = k
          BY <1>3, <1>6
    <3>2. x.bytes[k] = t[k - start]
          BY <1>5, <3>1
    <3> QED
        BY <1>4, <3>1, <3>2
  <2>4. ASSUME NEW k \in start .. q - 1 PROVE ReadByte(x, k) >= 0
    <3>1. k + 1 \in 1 .. Len(x.bytes) /\ k < Len(x.bytes)
          BY <1>3, <1>6
    <3>2. x.bytes[k + 1] \in Codes
          BY <3>1, ByteIsCode
    <3>3. ReadByte(x, k) = x.bytes[k + 1]
          BY <1>3, <3>1 DEF ReadByte
    <3> QED
        BY <3>2, <3>3, CodesAre
  <2> QED
      BY <1>6, <2>1, <2>2, <2>3, <2>4 DEF LineTo
<1>8. g = fgets(x, start, num, {COMMA, LF})
      BY DEF start
<1>9. g.n >= 0 /\ Len(g.str) + 1 < num
      BY <1>8 DEF start
<1> HIDE DEF g, q
<1>10. g.pos = q /\ g.str = Without(SubSeq(x.bytes, start + 1, g.pos), {CR})
       BY <1>3, <1>7, <1>8, <1>9, FgetsIs
<1>11. SubSeq(x.bytes, start + 1, q) = t
  <2> DEFINE z == SubSeq(x.bytes, start + 1, q)
             one == start + 1
  <2>1. one \in Int /\ q \in Int /\ q - one + 1 = Len(t) /\ one <= q
        BY <1>3, <1>6 DEF q
  <2>2. \A k \in one .. q : x.bytes[k] \in Codes
        BY <1>3, <1>6, ByteIsCode
  <2>3. \A k \in 1 .. Len(t) : one + k - 1 = start + k
        BY <1>3, <1>6
  <2> HIDE DEF one
  <2>4. /\ SubSeq(x.bytes, one, q) \in Seq(Codes) /\ Len(SubSeq(x.bytes, one, q)) = Len(t)
        /\ \A k \in 1 .. Len(t) : SubSeq(x.bytes, one, q)[k] = x.bytes[one + k - 1]
        BY <2>1, <2>2, SubSeqProperties
  <2>5. z \in Seq(Codes) /\ Len(z) = Len(t) /\ \A k \in 1 .. Len(t) : z[k] = t[k]
        BY <1>5, <2>3, <2>4 DEF one
  <2> HIDE DEF z
  <2>6. z = t
        BY <1>4, <2>5, SeqEqual
  <2> QED
      BY <2>6 DEF z
<1>12. g.str = Without(t, {CR})
       BY <1>10, <1>11
<1> QED
    BY <1>4, <1>12 DEF g, v, start

\* A field, or a piece of a text.
LEMMA FgetsKeeps ==
  ASSUME StreamsInv, NEW num \in Nat, NEW delims \in {{LF}, {COMMA, LF}}, Fgets(num, delims)
  PROVE  StreamsInv'
<1> DEFINE r == fgets(f, s.pos, num, delims)
           isField == back < Len(items) /\ s.pos = items[back + 1].from
<1>1. /\ f.open /\ program \in {"read", "fields"} /\ UNCHANGED <<program, m, f, put, lost>>
      /\ s' = setpos(s, r.pos) /\ taken' = <<>> /\ origin' = r.pos
      /\ out' = [op |-> "fgets", from |-> s.pos, n |-> r.n, str |-> r.str, size |-> num,
                 delims |-> delims, field |-> isField]
      /\ IF isField THEN back' = back + 1 /\ items' = items ELSE back' = 0 /\ items' = <<>>
      BY DEF Fgets, Extraction, Statement
<1>2. /\ r.pos \in s.pos .. Len(f.bytes)
      /\ r.n >= 0 =>
           /\ r.str = Without(SubSeq(f.bytes, s.pos + 1, r.pos), {CR})
           /\ Len(r.str) < num
           /\ \/ r.str # <<>> /\ r.str[Len(r.str)] \in delims
              \/ Len(r.str) + 1 >= num
              \/ r.pos >= Len(f.bytes)
      BY Here, FgetsIs
<1>3. back \in Nat /\ FlagsFit /\ FieldsKept /\ (program = "read" => items = <<>>)
      BY DEF StreamsInv, StreamsTyped
<1>4. r.pos \in 0 .. Len(f.bytes)
      BY <1>2, Here
<1>5. s' \in StreamsOf(f) /\ s'.pos = r.pos
      BY <1>1, <1>4, Here, PlaceIs
<1>6. ASSUME isField, COMMA \in delims, r.n >= 0, Len(r.str) + 1 < num
      PROVE  LET v == items[back + 1].item.v
                 t == SubSeq(r.str, 1, Len(r.str) - 1)
             IN  v = IF Head(t) = MINUS THEN -Horner(Tail(t), 10) ELSE Horner(t, 10)
  <2>1. program = "fields"
    <3>1. program # "read"
      <4>1. SUFFICES ASSUME program = "read" PROVE FALSE
            OBVIOUS
      <4>2. items = <<>> /\ Len(<<>>) = 0
            BY <1>3, <4>1
      <4> QED
          BY <1>3, <1>6, <4>2
    <3> QED
        BY <1>1, <3>1
  <2>2. /\ f.broken = {} /\ f.mode = {"in", "out", "trunc"} /\ items \in Seq(FieldItems)
        /\ \A i \in 1 .. Len(items) : FieldAt(f, items[i])
        BY <1>1, <1>3, <2>1 DEF FieldsKept
  <2>3. "READ" \in f.flags
    <3>1. f.mode \in SUBSET ModeBits
          BY Here DEF Files
    <3>2. OpenFlags(f.mode) = {"READ", "WRITE", "TRUNC", "CREAT"}
          BY <2>2, <3>1, OpenFlagsAre
    <3> QED
        BY <1>1, <1>3, <3>2 DEF FlagsFit
  <2> DEFINE i == items[back + 1]
  <2>4. back + 1 \in 1 .. Len(items)
        BY <1>3, <1>6, <2>2, LenProperties
  <2>5. i \in FieldItems /\ FieldAt(f, i) /\ i.from = s.pos
        BY <1>6, <2>2, <2>4, ElementOfSeq
  <2>6. delims = {COMMA, LF}
        BY <1>6 DEF COMMA, LF
  <2> HIDE DEF i
  <2>7. i.from \in 0 .. Len(f.bytes) /\ r = fgets(f, i.from, num, {COMMA, LF})
        BY <2>5, <2>6, Here
  <2> HIDE DEF r
  <2> QED
      BY <1>6, <2>2, <2>3, <2>5, <2>7, Here, FieldBack DEF i
<1> HIDE DEF r, isField
<1>7. FieldsReadBack'
  <2>1. /\ out'.n = r.n /\ out'.str = r.str /\ out'.size = num /\ out'.delims = delims
        /\ out'.field = isField /\ out'.from = s.pos /\ s'.pos = r.pos /\ f' = f
        BY <1>1, <1>5
  <2>2. isField => back' = back + 1 /\ items' = items
        BY <1>1
  <2>3. SUFFICES ASSUME r.n >= 0
        PROVE  /\ r.str = Without(SubSeq(f.bytes, s.pos + 1, r.pos), {CR})
               /\ Len(r.str) < num
               /\ \/ r.str # <<>> /\ r.str[Len(r.str)] \in delims
                  \/ Len(r.str) + 1 >= num
                  \/ r.pos >= Len(f.bytes)
               /\ isField /\ COMMA \in delims /\ Len(r.str) + 1 < num =>
                    LET v == items'[back'].item.v
                        t == SubSeq(r.str, 1, Len(r.str) - 1)
                    IN  v = IF Head(t) = MINUS THEN -Horner(Tail(t), 10) ELSE Horner(t, 10)
        BY <2>1 DEF FieldsReadBack
  <2>4. isField /\ COMMA \in delims /\ Len(r.str) + 1 < num =>
          LET v == items'[back'].item.v
              t == SubSeq(r.str, 1, Len(r.str) - 1)
          IN  v = IF Head(t) = MINUS THEN -Horner(Tail(t), 10) ELSE Horner(t, 10)
        BY <1>6, <2>2, <2>3
  <2> QED
      BY <1>2, <2>3, <2>4
<1>8. LineEndsHonestly'
      BY <1>1 DEF LineEndsHonestly
<1>9. items' \in {items, <<>>} /\ back' \in Nat /\ origin' = s'.pos
      BY <1>1, <1>3, <1>5
<1> QED
    BY <1>1, <1>5, <1>7, <1>8, <1>9, RestartKeeps

\* A statement after which the text starts over, whatever it does to the file.
LEMMA StartKeeps ==
  ASSUME StreamsInv, program' = program, m' = m, f' \in Files, s' \in StreamsOf(f'),
         FlagsFit', FieldsKept', program = "read" => items' = <<>>,
         put' \in Seq(Codes), lost' \in BOOLEAN, back' \in Nat, TextSurvives',
         taken' = <<>>, origin' = s'.pos, out'.op \notin {"line", "fgets"}
  PROVE  StreamsInv'
<1>1. program \in Kinds /\ m \in Settings
      BY DEF StreamsInv, StreamsTyped
<1>2. s'.pos \in 0 .. Len(f'.bytes) /\ s'.pos \in 0 .. s'.pos /\ <<>> \in Seq(Codes)
      BY ByteIsCode, EmptySeq DEF StreamsOf
<1>3. Decoded(f', s'.pos, s'.pos) = <<>> /\ AtStart(f', s'.pos, s'.pos)
      BY <1>2, NoText
<1>4. StreamsTyped'
      BY <1>1, <1>2 DEF StreamsTyped
<1>5. EveryCharacterOnce'
      BY <1>3 DEF EveryCharacterOnce
<1>6. LineEndsHonestly' /\ FieldsReadBack'
      BY OtherOut
<1> QED
    BY <1>3, <1>4, <1>5, <1>6 DEF StreamsInv, TextIsTheFile

\* Without items nothing is said of fields.
LEMMA NoFields ==
  ASSUME items' = <<>>
  PROVE  items' \in Seq(FieldItems) /\ 1 .. Len(items') = {}
<1>1. <<>> \in Seq(FieldItems) /\ Len(<<>>) = 0
      BY EmptySeq
<1> QED
    BY <1>1

\* open
LEMMA OpenKeeps ==
  ASSUME StreamsInv, NEW mode \in SUBSET ModeBits, Open(mode)
  PROVE  StreamsInv'
<1>1. PICK o \in Opens(f, s, mode) :
      /\ program' = program /\ m' = m /\ f' = o.f /\ s' = o.s /\ put' = Whole(o.f)
      /\ taken' = <<>> /\ origin' = o.s.pos /\ lost' = FALSE /\ items' = <<>> /\ back' = 0
      /\ out' = [op |-> "open", from |-> 0, mode |-> mode]
      /\ program = "fields" => mode = {"in", "out", "trunc"}
      BY DEF Open, Statement, StartsAt
<1>2. /\ o.f \in Files /\ o.s \in StreamsOf(o.f)
      /\ o.f.broken = f.broken /\ o.f.dead = f.dead
      /\ o.f.open => o.f.mode = mode /\ o.f.flags = OpenFlags(mode) /\ OpenFlags(mode) # {}
      BY Here, OpenIs
<1>3. FieldsKept
      BY DEF StreamsInv
<1>4. FlagsFit'
      BY <1>1, <1>2 DEF FlagsFit
<1>5. FieldsKept'
  <2>1. items' \in Seq(FieldItems) /\ 1 .. Len(items') = {}
        BY <1>1, NoFields
  <2> QED
      BY <1>1, <1>2, <1>3, <2>1 DEF FieldsKept
<1>6. Whole(o.f) \in Seq(Codes)
      BY <1>2, WholeIs
<1>7. put' \in Seq(Codes) /\ lost' \in BOOLEAN /\ TextSurvives'
      BY <1>1, <1>6 DEF TextSurvives
<1>8. f' \in Files /\ s' \in StreamsOf(f') /\ back' \in Nat /\ origin' = s'.pos
      /\ out'.op \notin {"line", "fgets"}
      BY <1>1, <1>2
<1> QED
    BY <1>1, <1>4, <1>5, <1>7, <1>8, StartKeeps

\* seekg and seekp
LEMMA SeekKeeps ==
  ASSUME StreamsInv, NEW place, Seek(place)
  PROVE  StreamsInv'
<1> DEFINE z == seekpos(f, s, place)
<1>1. /\ program' = program /\ m' = m /\ f' = f /\ s' = z /\ put' = Whole(f)
      /\ taken' = <<>> /\ origin' = s'.pos /\ lost' = FALSE /\ out' = Nothing
      /\ items' = items /\ back' = 0
      BY DEF Seek, Statement, StartsAt
<1>2. z \in StreamsOf(f)
      BY Here, SeekIs
<1>3. FlagsFit /\ FieldsKept /\ (program = "read" => items = <<>>)
      BY DEF StreamsInv
<1> HIDE DEF z
<1>4. FlagsFit' /\ FieldsKept'
      BY <1>1, <1>3 DEF FlagsFit, FieldsKept
<1>5. Whole(f) \in Seq(Codes)
      BY Here, WholeIs
<1>6. put' \in Seq(Codes) /\ lost' \in BOOLEAN /\ TextSurvives'
      BY <1>1, <1>5 DEF TextSurvives
<1>7. f' \in Files /\ s' \in StreamsOf(f') /\ back' \in Nat /\ out'.op \notin {"line", "fgets"}
      BY <1>1, <1>2, Here DEF Nothing
<1> QED
    BY <1>1, <1>3, <1>4, <1>6, <1>7, StartKeeps

\* What an insertion leaves of the file's record.
LEMMA HeldFits ==
  ASSUME StreamsInv, NEW b \in Seq(Codes), f' = Holding(f, b)
  PROVE  FlagsFit' /\ f'.mode = f.mode /\ f'.open = f.open /\ f'.broken = f.broken
         /\ f'.dead = f.dead
<1>1. f \in Files /\ FlagsFit
      BY Here DEF StreamsInv
<1>2. /\ f'.mode = f.mode /\ f'.open = f.open /\ f'.broken = f.broken /\ f'.dead = f.dead
      /\ f'.flags = f.flags
      BY <1>1 DEF Holding, Files
<1> QED
    BY <1>1, <1>2 DEF FlagsFit

\* The insertion of a text.
LEMMA InsertKeeps ==
  ASSUME StreamsInv, NEW text \in Seq(Codes), Insert(text),
         program' = program, m' = m, program \in {"edit", "values"}, back' \in Nat,
         out'.op = "put"
  PROVE  StreamsInv'
<1> DEFINE r == putstr(f, s, text)
           atEnd == s.pos = Len(f.bytes) \/ "APPEND" \in f.flags
<1>1. /\ f' = r.f /\ s' = r.s /\ put' = (IF atEnd THEN put \o text ELSE Whole(r.f))
      /\ lost' = (lost \/ f.dead \/ "WRITE" \notin f.flags)
      /\ taken' = <<>> /\ origin' = r.s.pos
      BY DEF Insert
<1>2. /\ r.f \in Files /\ r.s \in StreamsOf(r.f) /\ r.f = Holding(f, r.f.bytes)
      /\ atEnd /\ "WRITE" \in f.flags /\ ~f.dead => Whole(r.f) = Whole(f) \o text
      BY Here, PutstrIs
<1>3. put \in Seq(Codes) /\ TextSurvives
      BY DEF StreamsInv, StreamsTyped, TextIsTheFile
<1> HIDE DEF r, atEnd
<1>4. r.f.bytes \in Seq(Codes) /\ Whole(r.f) \in Seq(Codes) /\ put \o text \in Seq(Codes)
      BY <1>2, <1>3, WholeIs, ConcatProperties DEF Files
<1>5. FlagsFit'
      BY <1>1, <1>2, <1>4, HeldFits
<1>6. FieldsKept'
      BY DEF FieldsKept
<1>7. TextSurvives'
  <2>1. SUFFICES ASSUME ~lost' PROVE put' = Whole(f')
        BY DEF TextSurvives
  <2>2. ~lost /\ ~f.dead /\ "WRITE" \in f.flags
        BY <1>1, <2>1
  <2>3. put = Whole(f)
        BY <1>3, <2>2 DEF TextSurvives
  <2>4. CASE atEnd
        BY <1>1, <1>2, <2>2, <2>3, <2>4
  <2>5. CASE ~atEnd
        BY <1>1, <2>5
  <2> QED
      BY <2>4, <2>5
<1>8. put' \in Seq(Codes)
      BY <1>1, <1>4
<1>9. lost' \in BOOLEAN
      BY <1>1
<1>10. f' \in Files /\ s' \in StreamsOf(f') /\ origin' = s'.pos
       BY <1>1, <1>2
<1> QED
    BY <1>1, <1>5, <1>6, <1>7, <1>8, <1>9, <1>10, StartKeeps

\* A value, and a text.
LEMMA PutKeeps ==
  ASSUME StreamsInv, NEW item \in Items, NEW w \in Nat, NEW separator \in Codes,
         Put(item, w, separator)
  PROVE  StreamsInv'
<1>1. /\ program \in {"values"} /\ program' = program /\ m' = m /\ back = 0 /\ back' = back
      /\ Insert(Append(TextOf(item, w), separator)) /\ out'.op = "put"
      BY DEF Put, Statement
<1>2. TextOf(item, w) \in Seq(Codes)
      BY Here, TextIs
<1>3. Append(TextOf(item, w), separator) \in Seq(Codes)
      BY <1>2, AppendProperties
<1>4. back' \in Nat
      BY <1>1
<1> QED
    BY <1>1, <1>3, <1>4, InsertKeeps

\* A text is put.
LEMMA PutTextKeeps ==
  ASSUME StreamsInv, NEW text \in Seq(Codes), PutText(text)
  PROVE  StreamsInv'
<1>1. /\ program \in {"edit"} /\ program' = program /\ m' = m /\ back' = 0
      /\ Insert(text) /\ out'.op = "put"
      BY DEF PutText, Statement
<1>2. back' \in Nat
      BY <1>1
<1> QED
    BY <1>1, <1>2, InsertKeeps

\* A text is that of the bytes, read in the same way.
LEMMA SameText ==
  ASSUME NEW x \in Files, NEW z \in Files, z.bytes = x.bytes, z.mode = x.mode
  PROVE  /\ \A p \in Nat : \A q \in 0 .. Len(x.bytes) : Decoded(z, p, q) = Decoded(x, p, q)
         /\ Whole(z) = Whole(x)
<1>1. Binary(z) = Binary(x) /\ Len(x.bytes) \in Nat
      BY ByteIsCode DEF Binary
<1>2. ASSUME NEW p \in Nat, NEW q \in 0 .. Len(x.bytes)
      PROVE  Decoded(z, p, q) = Decoded(x, p, q)
  <2>1. q <= Len(z.bytes) /\ \A i \in p + 1 .. q : x.bytes[i] = z.bytes[i]
        BY <1>1
  <2> QED
      BY <1>1, <2>1, DecodedSame
<1>3. Whole(z) = Whole(x)
  <2>1. Len(x.bytes) \in 0 .. Len(x.bytes)
        BY <1>1
  <2> QED
      BY <1>2, <2>1 DEF Whole
<1> QED
    BY <1>2, <1>3

\* A statement that leaves the text and the place, and takes nothing.
LEMMA StayKeeps ==
  ASSUME StreamsInv, UNCHANGED <<program, m, put, lost, items, back, taken, origin>>,
         f' \in Files, f'.bytes = f.bytes, f'.mode = f.mode, FlagsFit', FieldsKept',
         s' \in StreamsOf(f'), s'.pos = s.pos, AtStart(f', origin, s.pos),
         out'.op \notin {"line", "fgets"}
  PROVE  StreamsInv'
<1>1. /\ StreamsTyped /\ EveryCharacterOnce /\ TextSurvives
      /\ (program = "read" => items = <<>>)
      BY DEF StreamsInv, TextIsTheFile
<1>2. origin \in Nat /\ s.pos \in 0 .. Len(f.bytes) /\ f \in Files
      BY Here
<1>3. Decoded(f', origin, s.pos) = Decoded(f, origin, s.pos) /\ Whole(f') = Whole(f)
      BY <1>2, SameText
<1>4. StreamsTyped'
      BY <1>1 DEF StreamsTyped
<1>5. EveryCharacterOnce' /\ TextSurvives'
      BY <1>1, <1>3 DEF EveryCharacterOnce, TextSurvives
<1>6. LineEndsHonestly' /\ FieldsReadBack'
      BY OtherOut
<1> QED
    BY <1>1, <1>4, <1>5, <1>6 DEF StreamsInv, TextIsTheFile

\* close, clear, and a card that fails
LEMMA CloseKeeps ==
  ASSUME StreamsInv, Close
  PROVE  StreamsInv'
<1>1. /\ program \in {"edit"} /\ f' = Closed(f) /\ s' = s /\ out' = Nothing
      /\ UNCHANGED <<program, m, put, lost, items, back, taken, origin>>
      BY DEF Close, Statement
<1>2. f' \in Files /\ f'.bytes = f.bytes /\ f'.mode = f.mode /\ f'.flags = {} /\ ~f'.open
      BY <1>1, Here DEF Closed, Files
<1>3. FlagsFit' /\ FieldsKept'
      BY <1>1, <1>2 DEF FlagsFit, FieldsKept
<1>4. s' \in StreamsOf(f') /\ s'.pos = s.pos
      BY <1>1, <1>2, Here DEF StreamsOf
<1>5. AtStart(f', origin, s.pos)
      BY <1>2 DEF AtStart
<1>6. out'.op \notin {"line", "fgets"}
      BY <1>1 DEF Nothing
<1> QED
    BY <1>1, <1>2, <1>3, <1>4, <1>5, <1>6, StayKeeps

\* The state bits are taken back.
LEMMA ClearKeeps ==
  ASSUME StreamsInv, Clear
  PROVE  StreamsInv'
<1>1. /\ program \in {"read", "edit"} /\ s' = [s EXCEPT !.st = {}, !.we = FALSE] /\ f' = f
      /\ out' = Nothing /\ UNCHANGED <<program, m, put, lost, items, back, taken, origin>>
      BY DEF Clear, Statement
<1>2. FlagsFit' /\ FieldsKept'
      BY <1>1 DEF StreamsInv, FlagsFit, FieldsKept
<1>3. s' \in StreamsOf(f) /\ s'.pos = s.pos
      BY <1>1, Here DEF StreamsOf
<1>4. AtStart(f', origin, s.pos) /\ f' \in Files
      BY <1>1, Here
<1>5. out'.op \notin {"line", "fgets"}
      BY <1>1 DEF Nothing
<1> QED
    BY <1>1, <1>2, <1>3, <1>4, <1>5, StayKeeps

\* The card fails: nothing more is written.
LEMMA DieKeeps ==
  ASSUME StreamsInv, Die
  PROVE  StreamsInv'
<1>1. /\ program = "edit" /\ f' = [f EXCEPT !.dead = TRUE] /\ s' = s /\ out' = Nothing
      /\ UNCHANGED <<program, m, put, lost, items, back, taken, origin>>
      BY DEF Die
<1>2. /\ f' \in Files /\ f'.bytes = f.bytes /\ f'.mode = f.mode /\ f'.flags = f.flags
      /\ f'.open = f.open /\ f'.broken = f.broken
      BY <1>1, Here DEF Files
<1>3. FlagsFit' /\ FieldsKept'
      BY <1>1, <1>2 DEF StreamsInv, FlagsFit, FieldsKept
<1>4. s' \in StreamsOf(f') /\ s'.pos = s.pos
      BY <1>1, <1>2, Here DEF StreamsOf
<1>5. AtStart(f', origin, s.pos)
      BY <1>2, Here DEF AtStart, Joins, Binary
<1>6. out'.op \notin {"line", "fgets"}
      BY <1>1 DEF Nothing
<1> QED
    BY <1>1, <1>2, <1>3, <1>4, <1>5, <1>6, StayKeeps

\* A field is written behind the ones that count.
LEMMA PrintFieldKeeps ==
  ASSUME StreamsInv, NEW v \in 1 - Word .. Word - 1, NEW term \in {COMMA, LF},
         PrintField(v, term)
  PROVE  StreamsInv'
<1> DEFINE t == printField(v, term)
           r == write(f, s, t)
           before == IF items # <<>> /\ items[Len(items)].to = s.pos THEN items ELSE <<>>
           new == [item |-> [kind |-> "field", v |-> v], w |-> 0, from |-> s.pos, to |-> s'.pos]
<1>1. /\ f.open /\ program \in {"fields"} /\ program' = program /\ m' = m
      /\ f' = r.f /\ s' = r.s /\ put' = Whole(f') /\ taken' = <<>> /\ origin' = s'.pos
      /\ back = 0 /\ back' = back /\ items' = Append(before, new)
      /\ lost' = (lost \/ f.dead \/ "WRITE" \notin f.flags) /\ out'.op = "put"
      BY DEF PrintField, Statement, StartsAt, Inserted
<1>2. /\ FlagsFit /\ f.broken = {} /\ ~f.dead /\ f.mode = {"in", "out", "trunc"}
      /\ items \in Seq(FieldItems)
      /\ \A i \in 1 .. Len(items) : FieldAt(f, items[i]) /\ items[i].to <= items[Len(items)].to
      BY <1>1 DEF StreamsInv, FieldsKept
<1>3. f.flags = {"READ", "WRITE", "TRUNC", "CREAT"}
  <2>1. f.mode \in SUBSET ModeBits
        BY Here DEF Files
  <2> QED
      BY <1>1, <1>2, <2>1, OpenFlagsAre DEF FlagsFit
<1>4. t \in Seq(Codes)
      BY PrintFieldIs
<1> HIDE DEF t
<1>5. /\ r.f \in Files /\ r.s \in StreamsOf(r.f) /\ r.f = Holding(f, r.f.bytes)
      /\ r.f = Written(f, s.pos, t) /\ r.s.pos = s.pos + Len(t)
  <2>1. "APPEND" \notin f.flags /\ "WRITE" \in f.flags
        BY <1>3
  <2> QED
      BY <1>2, <1>4, <2>1, Here, WriteIs
<1> HIDE DEF r
<1>6. /\ Len(f'.bytes) = IF s.pos + Len(t) > Len(f.bytes) THEN s.pos + Len(t) ELSE Len(f.bytes)
      /\ \A i \in 1 .. s.pos : f'.bytes[i] = f.bytes[i]
      /\ \A i \in s.pos + 1 .. s.pos + Len(t) : f'.bytes[i] = t[i - s.pos]
      BY SMTT(30), <1>1, <1>4, <1>5, Here, WrittenIs
<1>7. /\ f' \in Files /\ s' \in StreamsOf(f') /\ s'.pos = s.pos + Len(t) /\ Len(t) \in Nat
      /\ s.pos \in Nat /\ s'.pos \in Nat /\ s.pos <= Len(f.bytes) /\ Len(f.bytes) \in Nat
      BY <1>1, <1>4, <1>5, Here, LenProperties
<1>8. FlagsFit' /\ f'.mode = f.mode /\ f'.open = f.open /\ f'.broken = f.broken
      /\ f'.dead = f.dead
  <2>1. r.f.bytes \in Seq(Codes)
        BY <1>5 DEF Files
  <2> QED
      BY <1>1, <1>5, <2>1, HeldFits
<1>9. new \in FieldItems /\ new.to = s'.pos /\ new.from = s.pos /\ new.item.v = v
      BY <1>7 DEF FieldItems
<1>10. FieldAt(f', new)
  <2>1. \A k \in 1 .. Len(t) : f'.bytes[s.pos + k] = t[k]
    <3>1. ASSUME NEW k \in 1 .. Len(t) PROVE f'.bytes[s.pos + k] = t[k]
      <4>1. s.pos + k \in s.pos + 1 .. s.pos + Len(t) /\ (s.pos + k) - s.pos = k
            BY <1>7
      <4> QED
          BY <1>6, <4>1
    <3> QED
        BY <3>1
  <2>2. new.to = new.from + Len(t) /\ new.to <= Len(f'.bytes)
        BY <1>6, <1>7, <1>9
  <2> HIDE DEF new
  <2> QED
      BY <1>9, <2>1, <2>2 DEF FieldAt, t
<1> HIDE DEF new
<1>11. /\ before \in Seq(FieldItems) /\ Len(before) \in Nat
       /\ \A i \in 1 .. Len(before) : FieldAt(f, before[i]) /\ before[i].to <= s.pos
  <2>1. CASE items # <<>> /\ items[Len(items)].to = s.pos
    <3>1. before = items
          BY <2>1
    <3> QED
        BY <1>2, <2>1, <3>1, LenProperties
  <2>2. CASE ~(items # <<>> /\ items[Len(items)].to = s.pos)
    <3>1. before = <<>>
          BY <2>2
    <3>2. <<>> \in Seq(FieldItems) /\ Len(<<>>) = 0 /\ 1 .. Len(<<>>) = {}
          BY EmptySeq
    <3> QED
        BY <3>1, <3>2
  <2> QED
      BY <2>1, <2>2
<1> HIDE DEF before
<1>12. ASSUME NEW i \in 1 .. Len(before) PROVE FieldAt(f', before[i])
  <2>1. FieldAt(f, before[i]) /\ before[i].to <= s.pos /\ before[i] \in FieldItems
        BY <1>11, ElementOfSeq
  <2> DEFINE e == before[i]
  <2>2. e.from \in Nat /\ e.to \in Nat
        BY <2>1 DEF FieldItems
  <2> HIDE DEF e
  <2>3. PICK end \in {COMMA, LF} :
          LET p == printField(e.item.v, end)
          IN  /\ e.to = e.from + Len(p) /\ e.to <= Len(f.bytes)
              /\ \A k \in 1 .. Len(p) : f.bytes[e.from + k] = p[k]
        BY <2>1 DEF FieldAt, e
  <2> DEFINE p == printField(e.item.v, end)
  <2>4. e.to = e.from + Len(p) /\ \A k \in 1 .. Len(p) : f.bytes[e.from + k] = p[k]
        BY <2>3
  <2>5. p \in Seq(Codes)
    <3>1. e.item.v \in 1 - Word .. Word - 1
          BY <2>1 DEF FieldItems, e
    <3> QED
        BY <3>1, PrintFieldIs
  <2> HIDE DEF p
  <2>6. Len(p) \in Nat /\ e.to <= s.pos
        BY <2>1, <2>5, LenProperties DEF e
  <2>7. ASSUME NEW k \in 1 .. Len(p) PROVE f'.bytes[e.from + k] = p[k]
    <3>1. e.from + k \in 1 .. s.pos
          BY SMTT(30), <1>7, <2>2, <2>4, <2>6
    <3> QED
        BY <1>6, <2>4, <3>1
  <2>8. e.to <= Len(f'.bytes)
        BY <1>6, <1>7, <2>2, <2>6
  <2>9. FieldAt(f', e)
        BY <2>4, <2>7, <2>8 DEF FieldAt, p
  <2> QED
      BY <2>9 DEF e
<1>13. /\ items' \in Seq(FieldItems) /\ Len(items') = Len(before) + 1
       /\ items'[Len(items')] = new /\ \A i \in 1 .. Len(before) : items'[i] = before[i]
       BY <1>1, <1>9, <1>11, AppendProperties
<1>14. ASSUME NEW i \in 1 .. Len(items')
       PROVE  FieldAt(f', items'[i]) /\ items'[i].to <= items'[Len(items')].to
  <2>1. CASE i = Len(items')
        BY <1>7, <1>9, <1>10, <1>13, <2>1
  <2>2. CASE i # Len(items')
    <3>1. i \in 1 .. Len(before) /\ items'[i] = before[i]
          BY <1>11, <1>13, <2>2
    <3>2. before[i].to <= s.pos /\ before[i] \in FieldItems
          BY <1>11, <3>1, ElementOfSeq
    <3>3. before[i].to \in Nat
          BY <3>2 DEF FieldItems
    <3> QED
        BY <1>7, <1>9, <1>12, <1>13, <3>1, <3>2, <3>3
  <2> QED
      BY <2>1, <2>2
<1>15. FieldsKept'
      BY <1>2, <1>8, <1>13, <1>14 DEF FieldsKept
<1>16. Whole(f') \in Seq(Codes)
      BY <1>7, WholeIs
<1>17. put' \in Seq(Codes) /\ TextSurvives'
      BY <1>1, <1>16 DEF TextSurvives
<1>18. lost' \in BOOLEAN
      BY <1>1
<1>19. back' \in Nat /\ (program = "read" => items' = <<>>)
      BY <1>1
<1>20. out'.op \notin {"line", "fgets"}
      BY <1>1
<1> QED
    BY <1>1, <1>7, <1>8, <1>15, <1>17, <1>18, <1>19, <1>20, StartKeeps

\* Each statement of a program keeps the invariant.
LEMMA StreamsNextKeeps == StreamsInv /\ [StreamsNext]_streamVars => StreamsInv'
<1> SUFFICES ASSUME StreamsInv, [StreamsNext]_streamVars PROVE StreamsInv'
    OBVIOUS
<1>1. /\ Pieces \subseteq Seq(Codes) /\ Modes \subseteq SUBSET ModeBits
      /\ Widths \subseteq Nat /\ Buffers \subseteq Nat /\ Delims \subseteq Codes
      /\ \A i \in Items : i.kind = "number" => i.v \in 1 - Word .. Word - 1
      BY ProgramsAssumption
<1>2. ASSUME NEW mode \in Modes, Open(mode) PROVE StreamsInv'
  <2>1. mode \in SUBSET ModeBits
        BY <1>1
  <2> QED
      BY <1>2, <2>1, OpenKeeps
<1>3. CASE Close
      BY <1>3, CloseKeeps
<1>4. CASE Clear
      BY <1>4, ClearKeeps
<1>5. CASE Die
      BY <1>5, DieKeeps
<1>6. ASSUME NEW place, Seek(place) PROVE StreamsInv'
      BY <1>6, SeekKeeps
<1>7. ASSUME NEW item \in Items, NEW w \in Widths, NEW separator \in {32, LF},
             Put(item, w, separator)
      PROVE  StreamsInv'
  <2>1. w \in Nat
        BY <1>1
  <2>2. separator \in Codes
        BY CodesAre DEF LF
  <2> QED
      BY <1>7, <2>1, <2>2, PutKeeps
<1>8. ASSUME NEW t \in Pieces, PutText(t) PROVE StreamsInv'
  <2>1. t \in Seq(Codes)
        BY <1>1
  <2> QED
      BY <1>8, <2>1, PutTextKeeps
<1>9. CASE Get
      BY <1>9, GetKeeps
<1>10. CASE Peek
       BY <1>10, PeekKeeps
<1>11. CASE GetChar
       BY <1>11, GetCharKeeps
<1>12. CASE SkipWhite
       BY <1>12, SkipWhiteKeeps
<1>13. CASE GetDouble
       BY <1>13, GetDoubleKeeps
<1>14. CASE ReadBack
       BY <1>14, ReadBackKeeps
<1>15. ASSUME NEW n \in Buffers, NEW delim \in Delims,
              GetText(n, delim) \/ GetLine(n, delim) \/ Ignore(n, delim)
       PROVE  StreamsInv'
  <2>1. n \in Nat /\ delim \in Codes
        BY <1>1
  <2>2. CASE GetText(n, delim)
        BY <2>1, <2>2, GetTextKeeps
  <2>3. CASE GetLine(n, delim)
        BY <2>1, <2>3, GetLineKeeps
  <2>4. CASE Ignore(n, delim)
        BY <2>1, <2>4, IgnoreKeeps
  <2> QED
      BY <1>15, <2>2, <2>3, <2>4
<1>16. ASSUME NEW w \in Widths, GetWord(w) PROVE StreamsInv'
  <2>1. w \in Nat
        BY <1>1
  <2> QED
      BY <1>16, <2>1, GetWordKeeps
<1>17. ASSUME NEW T, GetNumber(T) PROVE StreamsInv'
       BY <1>17, GetNumberKeeps
<1>18. ASSUME NEW item \in {i \in Items : i.kind = "number"}, NEW term \in {COMMA, LF},
              PrintField(item.v, term)
       PROVE  StreamsInv'
  <2>1. item.v \in 1 - Word .. Word - 1
        BY <1>1
  <2> QED
      BY <1>18, <2>1, PrintFieldKeeps
<1>19. ASSUME NEW n \in Buffers, NEW delims \in {{LF}, {COMMA, LF}}, Fgets(n, delims)
       PROVE  StreamsInv'
  <2>1. n \in Nat
        BY <1>1
  <2> QED
      BY <1>19, <2>1, FgetsKeeps
<1>20. CASE UNCHANGED streamVars
  <2>1. UNCHANGED <<program, f, s, m, out, put, lost, items, back, taken, origin, ops>>
        BY <1>20 DEF streamVars
  <2>2. /\ StreamsTyped' /\ FlagsFit' /\ FieldsKept' /\ AtStart(f', origin', s'.pos)
        /\ (program' = "read" => items' = <<>>)
        BY <2>1 DEF StreamsInv, StreamsTyped, FlagsFit, FieldsKept
  <2>3. EveryCharacterOnce' /\ TextSurvives' /\ LineEndsHonestly' /\ FieldsReadBack'
        BY <2>1 DEF StreamsInv, TextIsTheFile, EveryCharacterOnce, TextSurvives,
                    LineEndsHonestly, FieldsReadBack
  <2> QED
      BY <2>2, <2>3 DEF StreamsInv, TextIsTheFile
<1>21. CASE StreamsNext
       BY <1>2, <1>3, <1>4, <1>5, <1>6, <1>7, <1>8, <1>9, <1>10, <1>11, <1>12, <1>13, <1>14,
          <1>15, <1>16, <1>17, <1>18, <1>19, <1>21 DEF StreamsNext
<1> QED
    BY <1>20, <1>21

\* What a program takes from a stream is the text of the file, every character of it once,
\* and what it puts is there; a line that ends without its delimiter says why, and fields
\* come back as they were written: whatever the texts, the statements and their order.
THEOREM TextIsTheFileCorrect == StreamsSpec => []TextIsTheFile
<1>1. StreamsInit => StreamsInv
      BY StreamsInitKeeps
<1>2. StreamsInv /\ [StreamsNext]_streamVars => StreamsInv'
      BY StreamsNextKeeps
<1>3. StreamsInv => TextIsTheFile
      BY DEF StreamsInv
<1> QED
    BY <1>1, <1>2, <1>3, PTL DEF StreamsSpec

\* An open file keeps the flags that its mode stands for.
THEOREM StreamsTypedCorrect == StreamsSpec => [](StreamsTyped /\ FlagsFit)
<1>1. StreamsInit => StreamsInv
      BY StreamsInitKeeps
<1>2. StreamsInv /\ [StreamsNext]_streamVars => StreamsInv'
      BY StreamsNextKeeps
<1>3. StreamsInv => StreamsTyped /\ FlagsFit
      BY DEF StreamsInv
<1> QED
    BY <1>1, <1>2, <1>3, PTL DEF StreamsSpec

\* What one step leaves of a file that is open for reading only, or to append.
KeptHere ==
  LET kept == SubSeq(f'.bytes, 1, Len(f.bytes)) = f.bytes
  IN  f'.open =>
        /\ f'.mode \cap {"out", "app", "trunc"} = {} => f'.bytes = f.bytes
        /\ "app" \in f'.mode => kept
        /\ ~f.open /\ {"in", "out"} \subseteq f'.mode /\ "trunc" \notin f'.mode =>
             f'.bytes = f.bytes

\* A step that leaves the bytes keeps the file.
LEMMA SameBytes ==
  ASSUME StreamsInv, f'.bytes = f.bytes
  PROVE  KeptHere
<1>1. f.bytes \in Seq(Codes)
      BY Here DEF Files
<1>2. SubSeq(f.bytes, 1, Len(f.bytes)) = f.bytes
      BY <1>1, SubSeqFull
<1> QED
    BY <1>2 DEF KeptHere

\* Writing keeps it, because the flags are those of the mode.
LEMMA WritingKeeps ==
  ASSUME StreamsInv, f.open, NEW b \in Seq(Codes), f' = Holding(f, b),
         "WRITE" \notin f.flags => f' = f,
         "APPEND" \in f.flags => SubSeq(f'.bytes, 1, Len(f.bytes)) = f.bytes
  PROVE  KeptHere
<1>1. f.flags = OpenFlags(f.mode) /\ f.flags # {}
      BY DEF StreamsInv, FlagsFit
<1>2. f'.mode = f.mode /\ f.mode \in SUBSET ModeBits
      BY Here, HeldFits DEF Files
<1>3. ASSUME f.mode \cap {"out", "app", "trunc"} = {} PROVE f'.bytes = f.bytes
  <2>1. "WRITE" \notin f.flags
        BY <1>1, <1>2, <1>3, OpenFlagsAre
  <2> QED
      BY <2>1
<1>4. ASSUME "app" \in f.mode PROVE SubSeq(f'.bytes, 1, Len(f.bytes)) = f.bytes
  <2>1. "APPEND" \in f.flags
        BY <1>1, <1>2, <1>4, OpenFlagsAre
  <2> QED
      BY <2>1
<1> QED
    BY <1>2, <1>3, <1>4 DEF KeptHere

\* Opening keeps it as well: only a mode that truncates empties it.
LEMMA OpeningKeeps ==
  ASSUME StreamsInv, NEW mode \in SUBSET ModeBits, NEW o \in Opens(f, s, mode), f' = o.f
  PROVE  KeptHere
<1>1. /\ f'.open => /\ f'.mode = mode /\ OpenFlags(mode) # {}
                    /\ "TRUNC" \notin OpenFlags(mode) => f'.bytes = f.bytes
      BY Here, OpenIs
<1>2. CASE ~f'.open
      BY <1>2 DEF KeptHere
<1>3. CASE f'.open /\ "TRUNC" \notin OpenFlags(mode)
      BY <1>1, <1>3, SameBytes
<1>4. CASE f'.open /\ "TRUNC" \in OpenFlags(mode)
  <2>1. /\ mode \cap {"out", "app", "trunc"} # {} /\ "app" \notin mode
        /\ ~({"in", "out"} \subseteq mode /\ "trunc" \notin mode)
        BY <1>1, <1>4, OpenFlagsAre
  <2> QED
      BY <1>1, <1>4, <2>1 DEF KeptHere
<1> QED
    BY <1>2, <1>3, <1>4

\* No step changes a file that is open for reading only, or loses what a file that is open
\* to append holds, wherever the program has sought to.
THEOREM FileIsKeptCorrect == StreamsSpec => FileIsKept
<1>1. StreamsInit => StreamsInv
      BY StreamsInitKeeps
<1>2. StreamsInv /\ [StreamsNext]_streamVars => StreamsInv'
      BY StreamsNextKeeps
<1>3. StreamsInv /\ [StreamsNext]_streamVars => [KeptHere]_streamVars
  <2> SUFFICES ASSUME StreamsInv, StreamsNext PROVE KeptHere
      OBVIOUS
  <2>1. /\ Pieces \subseteq Seq(Codes) /\ Modes \subseteq SUBSET ModeBits
        /\ Widths \subseteq Nat
        /\ \A i \in Items : i.kind = "number" => i.v \in 1 - Word .. Word - 1
        BY ProgramsAssumption
  <2>2. ASSUME NEW mode \in Modes, Open(mode) PROVE KeptHere
    <3>1. mode \in SUBSET ModeBits /\ \E o \in Opens(f, s, mode) : f' = o.f
          BY <2>1, <2>2 DEF Open
    <3> QED
        BY <3>1, OpeningKeeps
  <2>3. ASSUME NEW text \in Seq(Codes), f.open, Insert(text) PROVE KeptHere
    <3> DEFINE r == putstr(f, s, text)
    <3>1. f' = r.f
          BY <2>3 DEF Insert
    <3>2. /\ r.f \in Files /\ r.f = Holding(f, r.f.bytes) /\ ("WRITE" \notin f.flags => r.f = f)
          /\ "APPEND" \in f.flags => SubSeq(r.f.bytes, 1, Len(f.bytes)) = f.bytes
          BY Here, PutstrIs
    <3> HIDE DEF r
    <3>3. r.f.bytes \in Seq(Codes)
          BY <3>2 DEF Files
    <3> QED
        BY <2>3, <3>1, <3>2, <3>3, WritingKeeps
  <2>4. ASSUME NEW item \in Items, NEW w \in Widths, NEW separator \in {32, LF},
               Put(item, w, separator)
        PROVE  KeptHere
    <3>1. f.open /\ Insert(Append(TextOf(item, w), separator))
          BY <2>4 DEF Put
    <3>2. separator \in Codes /\ w \in Nat
          BY <2>1, CodesAre DEF LF
    <3>3. TextOf(item, w) \in Seq(Codes)
          BY <3>2, Here, TextIs
    <3>4. Append(TextOf(item, w), separator) \in Seq(Codes)
          BY <3>2, <3>3, AppendProperties
    <3> QED
        BY <2>3, <3>1, <3>4
  <2>5. ASSUME NEW t \in Pieces, PutText(t) PROVE KeptHere
    <3>1. f.open /\ Insert(t) /\ t \in Seq(Codes)
          BY <2>1, <2>5 DEF PutText
    <3> QED
        BY <2>3, <3>1
  <2>6. ASSUME NEW item \in {i \in Items : i.kind = "number"}, NEW term \in {COMMA, LF},
               PrintField(item.v, term)
        PROVE  KeptHere
    <3> DEFINE t == printField(item.v, term)
               r == write(f, s, t)
    <3>1. f.open /\ f' = r.f
          BY <2>6 DEF PrintField
    <3>2. item.v \in 1 - Word .. Word - 1
          BY <2>1
    <3>3. t \in Seq(Codes)
          BY <3>2, PrintFieldIs
    <3> HIDE DEF t
    <3>4. /\ r.f \in Files /\ r.f = Holding(f, r.f.bytes) /\ ("WRITE" \notin f.flags => r.f = f)
          /\ "APPEND" \in f.flags => SubSeq(r.f.bytes, 1, Len(f.bytes)) = f.bytes
          BY <3>3, Here, WriteIs
    <3> HIDE DEF r
    <3>5. r.f.bytes \in Seq(Codes)
          BY <3>4 DEF Files
    <3> QED
        BY <3>1, <3>4, <3>5, WritingKeeps
  <2>7. ASSUME Close \/ Die PROVE KeptHere
    <3>1. f'.bytes = f.bytes
          BY <2>7, Here DEF Close, Die, Closed, Files
    <3> QED
        BY <3>1, SameBytes
  <2>8. ASSUME f' = f PROVE KeptHere
        BY <2>8, SameBytes
  <2>9. Clear => f' = f
        BY DEF Clear
  <2>10. \A place : Seek(place) => f' = f
         BY DEF Seek
  <2>11. \A kinds : Extraction(kinds) => f' = f
         BY DEF Extraction
  <2>12. Get \/ Peek \/ GetChar \/ SkipWhite \/ GetDouble \/ ReadBack => f' = f
         BY <2>11 DEF Get, Peek, GetChar, SkipWhite, GetDouble, ReadBack
  <2>13. \A n, delim : GetText(n, delim) \/ GetLine(n, delim) \/ Ignore(n, delim) => f' = f
         BY <2>11 DEF GetText, GetLine, Ignore
  <2>14. \A w : GetWord(w) => f' = f
         BY <2>11 DEF GetWord
  <2>15. \A T : GetNumber(T) => f' = f
         BY <2>11 DEF GetNumber
  <2>16. \A n, delims : Fgets(n, delims) => f' = f
         BY <2>11 DEF Fgets
  <2> QED
      BY <2>2, <2>4, <2>5, <2>6, <2>7, <2>8, <2>9, <2>10, <2>12, <2>13, <2>14, <2>15, <2>16
      DEF StreamsNext
<1>4. StreamsSpec => [][KeptHere]_streamVars
      BY <1>1, <1>2, <1>3, PTL DEF StreamsSpec
<1> QED
    BY <1>4 DEF FileIsKept, KeptHere
===============================================================================
