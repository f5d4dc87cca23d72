--------------------------------- MODULE Streams ---------------------------------
(***************************************************************************)
(* A program that writes and reads a text with a stream of the SdFat       *)
(* library, or with printField and fgets of a file: the file f, the stream *)
(* s, and what the program has put and got.                                *)
(*                                                                         *)
(* Bounds: a program is of one kind and has MaxOps[kind] statements:       *)
(*   "read"    extracts from a file that holds a text,                     *)
(*   "edit"    opens a file in any mode, more than once, and puts texts,   *)
(*   "values"  inserts values and reads them back,                         *)
(*   "fields"  writes fields of a file and reads them back.                *)
(***************************************************************************)
EXTENDS OStream

CONSTANTS
  Programs,              \* their kinds, the settings of the stream, and the text before
  Pieces,                \* texts to insert
  Items,                 \* values to insert: kind, type and value
  MaxItems,
  Modes,                 \* for open
  Widths,                \* for setw
  Buffers,                 \* sizes of the buffers for lines
  Delims,
  MaxOps

VARIABLES
  program,               \* its kind
  f,                     \* the file
  s,                     \* the stream
  m,                     \* its settings
  out,                   \* what the last statement has given, and from where to where
  put,                   \* the text that the file should hold
  lost,                  \* an insertion has failed
  items,                 \* the values inserted one after the other, and where
  back,                  \* how many of them have been read back
  taken, origin,         \* the text that has been taken since the place origin
  ops

Kinds == {"read", "edit", "values", "fields"}

Codes == 0 .. 255        \* of characters

Settings ==
  [base : {8, 10, 16}, adjust : {"left", "right", "internal"}, fill : Codes, showbase : BOOLEAN,
   showpos : BOOLEAN, uppercase : BOOLEAN, boolalpha : BOOLEAN, skipws : BOOLEAN,
   showpoint : BOOLEAN, precision : 0 .. 3, width : Nat]

ModeBits == {"in", "out", "app", "trunc", "ate", "binary"}

ASSUME ProgramsAssumption ==
  /\ \A p \in Programs : p.kind \in Kinds /\ p.text \in Seq(Codes) /\ p.m \in Settings
  /\ Pieces \subseteq Seq(Codes) /\ Modes \subseteq SUBSET ModeBits
  /\ \A i \in Items :
       /\ i.kind \in {"number", "double", "bool", "text"}
       /\ i.kind = "number" => /\ i.type \in [signed : BOOLEAN, bits : 1 .. Width]
                               /\ i.v \in 1 - Word .. Word - 1
       /\ i.kind = "double" => i.v \in Int
       /\ i.kind = "bool" => i.v \in {0, 1}
       /\ i.kind = "text" => i.v \in Seq(Codes)
  /\ Widths \subseteq Nat /\ Buffers \subseteq Nat /\ Delims \subseteq Codes
  /\ MaxItems \in Nat /\ MaxOps \in [Kinds -> Nat]

streamVars == <<program, f, s, m, out, put, lost, items, back, taken, origin, ops>>

\* The text of the bytes from p to q: CR LF is one character.
Decoded(x, p, q) ==
  LET t[n \in Nat] ==
        IF n = 0 THEN <<>>
        ELSE LET before == t[n - 1]
                 b == x.bytes[p + n]
             IN  IF ~Binary(x) /\ n > 1 /\ b = LF /\ x.bytes[p + n - 1] = CR
                   THEN [before EXCEPT ![Len(before)] = LF]
                 ELSE Append(before, b)
  IN  IF p >= q THEN <<>> ELSE t[q - p]

Whole(x) == Decoded(x, 0, Len(x.bytes))

Nothing == [op |-> "none", from |-> 0]

StreamsInit ==
  /\ \E p \in Programs, broken \in {{}, {1}}, exists \in BOOLEAN :
       /\ program = p.kind /\ m = p.m
       /\ f = [bytes |-> p.text, mode |-> {}, open |-> FALSE, exists |-> exists, flags |-> {},
               broken |-> broken, dead |-> FALSE]
       /\ p.text # <<>> => exists
       /\ program \in {"values", "fields"} => broken = {}
  /\ s = [pos |-> 0, st |-> {}, we |-> FALSE]
  /\ out = Nothing /\ put = Whole(f) /\ lost = FALSE /\ items = <<>> /\ back = 0
  /\ taken = <<>> /\ origin = 0 /\ ops = 0

Statement(kinds) ==
  /\ program \in kinds /\ ops < MaxOps[program]
  /\ ops' = ops + 1 /\ UNCHANGED <<program, m>>

\* The stream starts over at the place p, and takes the file as it is.
StartsAt(x, p) == put' = Whole(x) /\ taken' = <<>> /\ origin' = p

Open(mode) ==
  /\ Statement(Kinds)
  /\ program # "edit" => ops = 0 /\ mode = IF program = "read" THEN {"in"}
                                          ELSE {"in", "out", "trunc"}
  /\ \E o \in Opens(f, s, mode) : f' = o.f /\ s' = o.s /\ StartsAt(o.f, o.s.pos)
  /\ lost' = FALSE /\ items' = <<>> /\ back' = 0
  /\ out' = [op |-> "open", from |-> 0, mode |-> mode]

\* close() of the file, which keeps the state of the stream.
Close ==
  /\ f.open /\ Statement({"edit"})
  /\ f' = Closed(f)
  /\ out' = Nothing
  /\ UNCHANGED <<s, put, lost, items, back, taken, origin>>

\* fstream::clear
Clear ==
  /\ s.st # {} /\ Statement({"read", "edit"})
  /\ s' = [s EXCEPT !.st = {}, !.we = FALSE]
  /\ out' = Nothing
  /\ UNCHANGED <<f, put, lost, items, back, taken, origin>>

\* seekg or seekp to the place p, or to p from the end.
Seek(p) ==
  /\ f.open /\ Statement(Kinds)
  /\ program \in {"values", "fields"} => p = 0
  /\ s' = seekpos(f, s, p) /\ f' = f
  /\ StartsAt(f, s'.pos)
  /\ lost' = FALSE /\ out' = Nothing
  /\ UNCHANGED items /\ back' = 0

\* The card takes no more writes from now on.
Die ==
  /\ f.open /\ ~f.dead /\ program = "edit"
  /\ f' = [f EXCEPT !.dead = TRUE]
  /\ out' = Nothing
  /\ UNCHANGED <<program, s, m, put, lost, items, back, taken, origin, ops>>

-------------------------------------------------------------------------------
(* Insertions.                                                             *)

\* The text of an item, with the width w.
TextOf(item, w) ==
  LET mw == [m EXCEPT !.width = w]
  IN  CASE item.kind = "number" -> putValue(mw, item.v)
        [] item.kind = "double" -> putDouble(mw, item.v)
        [] item.kind = "bool"   -> putBool(mw, item.v)
        [] OTHER                -> Field(mw, item.v)

Insert(text) ==
  \E r \in {putstr(f, s, text)} :
    LET atEnd == s.pos = Len(f.bytes) \/ "APPEND" \in f.flags
    IN  /\ f' = r.f /\ s' = r.s
        /\ put' = IF atEnd THEN put \o text ELSE Whole(r.f)
        /\ lost' = (lost \/ f.dead \/ "WRITE" \notin f.flags)
        /\ taken' = <<>> /\ origin' = r.s.pos

\* The item is added to those that end where it begins.
Inserted(item, w) ==
  LET before == IF items # <<>> /\ items[Len(items)].to = s.pos THEN items ELSE <<>>
  IN  items' = Append(before, [item |-> item, w |-> w, from |-> s.pos, to |-> s'.pos])

\* stream << setw(w) << item << separator
Put(item, w, separator) ==
  /\ f.open /\ Statement({"values"}) /\ back = 0 /\ Len(items) < MaxItems
  /\ Insert(Append(TextOf(item, w), separator))
  /\ Inserted(item, w)
  /\ out' = [op |-> "put", from |-> s.pos] /\ back' = back

\* stream << text
PutText(t) ==
  /\ f.open /\ Statement({"edit"})
  /\ Insert(t)
  /\ items' = <<>> /\ back' = 0
  /\ out' = [op |-> "put", from |-> s.pos]

-------------------------------------------------------------------------------
(* Extractions.                                                            *)

Extraction(kinds) == f.open /\ Statement(kinds) /\ UNCHANGED <<f, put, lost>>

\* An extraction that tells its caller the text t that it has taken.
Takes(r, t, what) ==
  /\ s' = r.s /\ taken' = taken \o t /\ origin' = origin
  /\ items' = <<>> /\ back' = 0
  /\ out' = what

\* The characters of t up to the first one that is not in chars.
Leading(t, chars) ==
  SubSeq(t, 1, CHOOSE n \in 0 .. Len(t) : /\ n < Len(t) => t[n + 1] \notin chars
                                         /\ \A i \in 1 .. n : t[i] \in chars)

\* What can be read from the place p on.
Ahead(p) ==
  Decoded(f, p, CHOOSE q \in p .. Len(f.bytes) : /\ ReadByte(f, q) < 0
                                               /\ \A i \in p .. q - 1 : ReadByte(f, i) >= 0)

Skipped == IF m.skipws THEN Leading(Ahead(s.pos), Spaces) ELSE <<>>

Get ==
  /\ Extraction({"read", "edit"})
  /\ \E r \in {getOne(f, s)} :
       Takes(r, IF r.c < 0 THEN <<>> ELSE <<r.c>>, [op |-> "get", from |-> s.pos])

Peek ==
  /\ Extraction({"read"})
  /\ Takes(peek(f, s), <<>>, [op |-> "peek", from |-> s.pos])

GetText(n, delim) ==
  /\ Extraction({"read"})
  /\ \E r \in {getText(f, s, n, delim)} : Takes(r, r.str, [op |-> "text", from |-> s.pos])

GetLine(n, delim) ==
  /\ Extraction({"read"})
  /\ \E r \in {getline(f, s, n, delim)} :
       LET ended == r.gcount > Len(r.str)
       IN  Takes(r, IF ended THEN Append(r.str, delim) ELSE r.str,
                 [op |-> "line", from |-> s.pos, str |-> r.str, size |-> n, ended |-> ended])

\* stream >> setw(w) >> word: the one operator that may lose a character.
GetWord(w) ==
  /\ Extraction({"read"})
  /\ \E r \in {getStr(f, s, [m EXCEPT !.width = w])} :
       LET cut == w # 1 /\ Len(r.str) = Longest(w)
       IN  /\ s' = r.s /\ items' = <<>> /\ back' = 0
           /\ out' = [op |-> "word", from |-> s.pos, cut |-> cut]
           /\ IF cut THEN taken' = <<>> /\ origin' = r.s.pos
              ELSE /\ taken' = taken \o IF r.str # <<>> \/ r.s.pos > s.pos
                                        THEN Skipped \o r.str ELSE <<>>
                   /\ origin' = origin

GetChar ==
  /\ Extraction({"read"})
  /\ \E r \in {getChar(f, s, m)} :
       Takes(r, Skipped \o IF r.c < 0 THEN <<>> ELSE <<r.c>>, [op |-> "char", from |-> s.pos])

SkipWhite ==
  /\ Extraction({"read"})
  /\ Takes([s |-> skipWhite(f, s)], Leading(Ahead(s.pos), Spaces),
           [op |-> "ws", from |-> s.pos])

Ignore(n, delim) ==
  /\ Extraction({"read"})
  /\ s' = ignore(f, s, n, delim) /\ taken' = <<>> /\ origin' = s'.pos
  /\ items' = <<>> /\ back' = 0
  /\ out' = [op |-> "ignore", from |-> s.pos]

\* An extraction of a value; items that have been inserted are read back in order.
Values(r, what) ==
  /\ s' = r.s /\ taken' = <<>> /\ origin' = r.s.pos
  /\ out' = what

GetNumber(T) ==
  /\ Extraction({"read"})
  /\ \E r \in {getNumber(f, s, m, T)} :
       Values(r, [op |-> "number", from |-> s.pos, ok |-> r.ok, over |-> r.over,
                  val |-> r.val, type |-> T])
  /\ items' = <<>> /\ back' = 0

GetDouble ==
  /\ Extraction({"read"})
  /\ \E r \in {getDouble(f, s, m)} :
       Values(r, [op |-> "double", from |-> s.pos, ok |-> r.ok, neg |-> r.neg,
                  frac |-> r.frac, exp |-> r.exp, nan |-> r.nan])
  /\ items' = <<>> /\ back' = 0

\* The next of the items, with the operator for its kind.
ReadBack ==
  /\ Extraction({"values"}) /\ back < Len(items)
  /\ back = 0 => s.pos = items[1].from
  /\ LET item == items[back + 1].item
         Plain(r) == Values(r, [op |-> "back", from |-> s.pos, ok |-> r.ok, val |-> r.val])
     IN  \/ item.kind = "number" /\ Plain(getNumber(f, s, m, item.type))
         \/ item.kind = "bool" /\ Plain(getBool(f, s, m))
         \/ /\ item.kind = "double"
            /\ \E r \in {getDouble(f, s, m)} :
                 Values(r, [op |-> "back", from |-> s.pos, ok |-> r.ok, neg |-> r.neg,
                            frac |-> r.frac, exp |-> r.exp])
         \/ /\ item.kind \notin {"number", "bool", "double"}
            /\ \E r \in {getStr(f, s, m)} :
                 Values(r, [op |-> "back", from |-> s.pos, ok |-> r.str # <<>>, val |-> r.str])
  /\ back' = back + 1 /\ items' = items

-------------------------------------------------------------------------------
(* Fields of a file without a stream.                                      *)

COMMA == 44

\* What printField writes for the value v.
printField(v, term) ==
  (IF v < 0 THEN <<MINUS>> ELSE <<>>) \o fmtNum((IF v < 0 THEN -v ELSE v) % Word, 10, FALSE)
    \o IF term = LF THEN <<CR, LF>> ELSE <<term>>

\* The characters of t that are not in chars.
Without(t, chars) ==
  LET w[n \in Nat] == IF n = 0 THEN <<>>
                      ELSE IF t[n] \in chars THEN w[n - 1] ELSE Append(w[n - 1], t[n])
  IN  w[Len(t)]

\* fgets of up to num - 1 characters without CR, up to one of delims.  Without room for
\* one character nothing is read, which counts as an error.
fgets(x, p, num, delims) ==
  LET Str(k)   == Without(SubSeq(x.bytes, p + 1, p + k), {CR})
      Full(k)  == Len(Str(k)) + 1 >= num
      Ended(k) == k > 0 /\ x.bytes[p + k] \in delims \ {CR}
      Ends(k)  == Full(k) \/ Ended(k) \/ ReadByte(x, p + k) < 0
      n == CHOOSE k \in 0 .. Len(x.bytes) - p : Ends(k) /\ \A i \in 0 .. k - 1 : ~Ends(i)
      good == Full(n) \/ Ended(n) \/ ReadByte(x, p + n) = End
  IN  IF num <= 1 THEN [n |-> -1, str |-> <<>>, pos |-> p]
      ELSE [n |-> IF good THEN Len(Str(n)) ELSE -1, str |-> Str(n), pos |-> p + n]

PrintField(v, term) ==
  /\ f.open /\ Statement({"fields"}) /\ back = 0 /\ Len(items) < MaxItems
  /\ \E r \in {write(f, s, printField(v, term))} : f' = r.f /\ s' = r.s
  /\ StartsAt(f', s'.pos)
  /\ lost' = (lost \/ f.dead \/ "WRITE" \notin f.flags)
  /\ Inserted([kind |-> "field", v |-> v], 0)
  /\ out' = [op |-> "put", from |-> s.pos] /\ back' = back

Fgets(num, delims) ==
  /\ Extraction({"read", "fields"})
  /\ \E r \in {fgets(f, s.pos, num, delims)} :
       LET field == back < Len(items) /\ s.pos = items[back + 1].from
       IN  /\ s' = setpos(s, r.pos) /\ taken' = <<>> /\ origin' = r.pos
           /\ out' = [op |-> "fgets", from |-> s.pos, n |-> r.n, str |-> r.str, size |-> num,
                      delims |-> delims, field |-> field]
           /\ IF field THEN back' = back + 1 /\ items' = items ELSE back' = 0 /\ items' = <<>>

-------------------------------------------------------------------------------
StreamsNext ==
  \/ \E mode \in Modes : Open(mode)
  \/ Close \/ Clear \/ Die
  \/ \E p \in {0, 1, Len(f.bytes), Len(f.bytes) + 1} : Seek(p)
  \/ \E item \in Items, w \in Widths, separator \in {32, LF} : Put(item, w, separator)
  \/ \E t \in Pieces : PutText(t)
  \/ Get \/ Peek \/ GetChar \/ SkipWhite \/ GetDouble \/ ReadBack
  \/ \E n \in Buffers, delim \in Delims : GetText(n, delim) \/ GetLine(n, delim) \/ Ignore(n, delim)
  \/ \E w \in Widths : GetWord(w)
  \/ \E T \in {item.type : item \in {i \in Items : i.kind = "number"}} : GetNumber(T)
  \/ \E item \in {i \in Items : i.kind = "number"}, term \in {COMMA, LF} :
       PrintField(item.v, term)
  \/ \E n \in Buffers, delims \in {{LF}, {COMMA, LF}} : Fgets(n, delims)

StreamsSpec == StreamsInit /\ [][StreamsNext]_streamVars

-------------------------------------------------------------------------------
(* Properties.                                                             *)

\* What the program has taken, character by character, by lines, by words or by peeking,
\* is the text of the file between the two places: nothing twice, nothing left out, and
\* CR LF counts once (getch, the places that get and getline put back, skipWhite).  A
\* word that setw cuts is left out: the code loses the character after it.
EveryCharacterOnce == taken = Decoded(f, origin, s.pos)

\* What the program has put is what the file holds, read as a text, as long as no
\* insertion has failed (putch and putstr against getch).
TextSurvives == lost \/ put = Whole(f)

\* The value of a sequence of digits in base b.
Horner(t, b) ==
  LET v[n \in Nat] == IF n = 0 THEN 0 ELSE v[n - 1] * b + DigitOf(t[n])
  IN  v[Len(t)]

\* The longest beginning of t that is made of digits in base b.
DigitsOf(t, b) == Leading(t, {c \in 0 .. 255 : DigitOf(c) < b})

Dropped(t, n) == SubSeq(t, n + 1, Len(t))

\* A number is read exactly if its text says one that its type can hold; it is that
\* number, and the text after it is left, as is a text that is no number (getNumber).
NumberIsItsText ==
  out.op = "number" =>
    LET text   == Ahead(out.from)
        spaces == IF m.skipws THEN Len(Leading(text, Spaces)) ELSE 0
        t      == Dropped(text, spaces)
        sign   == IF t # <<>> /\ t[1] \in {MINUS, PLUS} THEN 1 ELSE 0
        body   == Dropped(t, sign)
        hexed  == m.base = 16 /\ Len(body) > 1 /\ body[1] = 48 /\ body[2] \in {88, 120}
        digits == DigitsOf(IF hexed THEN Dropped(body, 2) ELSE body, m.base)
        length == spaces + sign + IF ~hexed THEN Len(digits)
                                  ELSE IF digits = <<>> THEN 1 ELSE 2 + Len(digits)
        value  == Horner(digits, m.base)
        neg    == sign = 1 /\ t[1] = MINUS
        T      == out.type
        fits   == value <= Highest(T) + IF neg /\ T.signed THEN 1 ELSE 0
    IN  /\ out.ok = ((digits # <<>> \/ hexed) /\ fits)
        /\ out.ok => Decoded(f, out.from, s.pos) = SubSeq(text, 1, length)
        /\ out.ok => out.val = IF ~neg THEN value ELSE IF T.signed THEN -value
                              ELSE (2^T.bits - value) % 2^T.bits
        /\ ~out.ok /\ fits => s.pos = out.from

\* The text of a double: its digits with the dot, where that is, and the exponent.
Parts(t) ==
  LET body == Without(t, Spaces \cup {MINUS, PLUS})
      es == {i \in 1 .. Len(body) : body[i] \in {69, 101}}
      e  == IF es = {} THEN Len(body) + 1 ELSE CHOOSE i \in es : TRUE
      mant == SubSeq(body, 1, e - 1)
      dots == {i \in 1 .. Len(mant) : mant[i] = DOT}
      minus == \E i \in 2 .. Len(t) : t[i] = MINUS /\ t[i - 1] \in {69, 101}
      exp  == Horner(SubSeq(body, e + 1, Len(body)), 10)
  IN  [mant |-> mant, dot |-> IF dots = {} THEN Len(mant) + 1 ELSE CHOOSE i \in dots : TRUE,
       exp |-> IF minus THEN -exp ELSE exp]

IsZero(x) == \A i \in 1 .. Len(x.mant) : x.mant[i] \in {48, DOT}

\* The exponent of the first digit of a double that is not zero.
Magnitude(x) ==
  LET first == CHOOSE i \in 1 .. Len(x.mant) :
                 /\ x.mant[i] \in 49 .. 57
                 /\ \A j \in 1 .. i - 1 : x.mant[j] \in {48, DOT}
  IN  (IF first < x.dot THEN x.dot - first - 1 ELSE x.dot - first) + x.exp

\* The exponent of the last digit.
LastExponent(x) == x.exp - IF x.dot < Len(x.mant) THEN Len(x.mant) - x.dot ELSE 0

\* The first of the squares of ten that is no float any more is 10 to this power: 64.
FirstInfinite ==
  CHOOSE p \in {2^i : i \in 0 .. 14} : p > MaxExponent /\ p \div 2 <= MaxExponent

\* A double that has been read is zero if its text says so, or has the size that its text
\* says, which is one that a float can have.  Only a zero is ever read as "not a number",
\* and that exactly when its exponent needs a power of ten that is infinite (getDouble:
\* the digits that are left out, the scaling by powers).
DoubleIsItsText ==
  out.op = "double" /\ out.ok =>
    LET x == Parts(Decoded(f, out.from, s.pos))
    IN  /\ (out.frac = 0) = IsZero(x)
        /\ ~IsZero(x) => /\ Size(out.frac) + out.exp = Magnitude(x)
                         /\ Magnitude(x) \in -MaxExponent .. MaxExponent
        /\ out.nan = (IsZero(x) /\ LastExponent(x) >= FirstInfinite)

\* x / 1000, rounded half up to nd digits, in thousandths.
Rounded(x, nd) ==
  LET unit == 1000 \div 10^nd
      n == IF x < 0 THEN -x ELSE x
      r == ((n + unit \div 2) \div unit) * unit
  IN  r

\* An item whose fill stands between its sign or prefix and its digits, or is a digit
\* that stands elsewhere, is not one number; a negative one in another base than ten is
\* a word out of the range of its type.
Readable(i) ==
  LET text == TextOf(i.item, 0)
      filled == i.w > Len(text)
  IN  /\ filled => IF m.fill = 32 THEN m.adjust # "internal" \/ i.item.kind \in {"bool", "text"}
                   ELSE m.adjust = "internal" /\ i.item.kind = "number"
      /\ i.item.kind = "number" => (i.item.v >= 0 \/ m.base = 10)
      /\ i.item.kind = "bool" => m.boolalpha \/ m.base \in {8, 10, 16}
      /\ i.item.kind = "double" => i.item.v \in -Big * 1000 .. Big * 1000
      /\ m.skipws

\* What has been inserted is read back by the extraction with the same settings, item by
\* item, through the signs, prefixes, fills, lines and the places that one extraction
\* leaves to the next (putNum, putBool, putDouble against getNumber, getBool, getDouble).
RoundTrip ==
  out.op = "back" /\ ~f.dead /\  f.broken = {} /\ (\A i \in 1 .. back : Readable(items[i])) =>
    LET item == items[back].item
    IN  /\ out.ok
        /\ IF item.kind = "double"
           THEN /\ out.exp \in -3 .. 0
                /\ out.frac * 10^(3 + out.exp) = Rounded(item.v, m.precision)
                /\ out.neg = (item.v < 0)
           ELSE out.val = item.v

\* The stream, or the file, is only said to be at its end there, and a block that cannot
\* be read is reported as such: a line that has no delimiter and has not filled its
\* buffer ends at the end of the file or in an error (getch, getline).
LineEndsHonestly ==
  out.op = "line" /\ ~out.ended /\ Len(out.str) + 1 < out.size =>
    \/ "eof" \in s.st /\ s.pos = Len(f.bytes)
    \/ "bad" \in s.st /\ ReadByte(f, s.pos) = Broken

\* The piece that fgets gives is the text without CR, fits its buffer, and ends with a
\* delimiter, at the end of the file or with the buffer full; fields that printField has
\* written come back one by one.
FieldsReadBack ==
  out.op = "fgets" /\ out.n >= 0 =>
    /\ out.str = Without(SubSeq(f.bytes, out.from + 1, s.pos), {CR})
    /\ Len(out.str) < out.size
    /\ \/ out.str # <<>> /\ out.str[Len(out.str)] \in out.delims
       \/ Len(out.str) + 1 >= out.size
       \/ s.pos >= Len(f.bytes)
    /\ out.field /\ COMMA \in out.delims /\ Len(out.str) + 1 < out.size =>
         LET v == items[back].item.v
             t == SubSeq(out.str, 1, Len(out.str) - 1)
         IN  v = IF Head(t) = MINUS THEN -Horner(Tail(t), 10) ELSE Horner(t, 10)

\* What a program reads is the text that the file holds and what it has put is there,
\* by characters, lines and fields, across ends of lines, places that are set back and
\* blocks that cannot be read.
TextIsTheFile == EveryCharacterOnce /\ TextSurvives /\ LineEndsHonestly /\ FieldsReadBack

\* A number that is read is the number that its text says, and one that is written is
\* read back, at the limits of its type, in each base and with each fill.
NumbersAreTheirText == NumberIsItsText /\ DoubleIsItsText /\ RoundTrip

\* A file that is open for reading only is never changed, and one that is open to append
\* never loses what it holds, wherever the program seeks (the flags that open works out).
FileIsKept ==
  [][LET kept == SubSeq(f'.bytes, 1, Len(f.bytes)) = f.bytes
     IN  f'.open =>
           /\ f'.mode \cap {"out", "app", "trunc"} = {} => f'.bytes = f.bytes
           /\ "app" \in f'.mode => kept
           /\ ~f.open /\ {"in", "out"} \subseteq f'.mode /\ "trunc" \notin f'.mode =>
                f'.bytes = f.bytes]_streamVars
===============================================================================
