-------------------------------- MODULE SdStream --------------------------------
(***************************************************************************)
(* SdStreamBase: a file of the SdFat library as a stream of characters.    *)
(* A character is its code, a file is the record of its bytes and of the   *)
(* way it has been opened, and a stream is a record                        *)
(*   pos     the place in the file,                                        *)
(*   st      the set of state bits "eof", "fail" and "bad" that are set,   *)
(*   we      writeError of the file, which only clear() takes back.        *)
(* In a text file LF is kept as CR LF.                                     *)
(***************************************************************************)
EXTENDS Integers, Sequences, FiniteSets

LF == 10
CR == 13
End == -1                \* read returned 0
Broken == -2             \* read returned -1

\* The characters for isspace of the C library.
Spaces == {9, 10, 11, 12, 13, 32}

Binary(f) == "binary" \in f.mode

Set(s, bit) == [s EXCEPT !.st = @ \cup {bit}]

\* SdBaseFile::read of one byte: a file that is not open for reading fails; at the end
\* of the file nothing is read; a block of the card that cannot be read fails.
ReadByte(f, p) ==
  IF "READ" \notin f.flags THEN Broken
  ELSE IF p >= Len(f.bytes) THEN End
  ELSE IF p \in f.broken THEN Broken ELSE f.bytes[p + 1]

\* The next character, -1 when there is none, and the stream after it.  A byte after CR
\* that is not LF is put back by seekCur(-1), whose result is ignored: it fails if a block
\* of the FAT that has been read on the way to this byte cannot be read again.  What
\* cannot be read is the same all along here, so that it succeeds.
getch(f, s) ==
  LET c == ReadByte(f, s.pos)
      pair == c = CR /\ ~Binary(f) /\ ReadByte(f, s.pos + 1) = LF
  IN  IF c < 0 THEN [c |-> -1, s |-> Set(s, IF c = End THEN "eof" ELSE "bad")]
      ELSE [c |-> IF pair THEN LF ELSE c, s |-> [s EXCEPT !.pos = @ + IF pair THEN 2 ELSE 1]]

\* The calls of getch from s on, one after the other: what the n-th one gives.
Reads(f, s) ==
  LET r[n \in Nat] == IF n = 0 THEN [c |-> 0, s |-> s] ELSE getch(f, r[n - 1].s)
  IN  r

\* Mutant: the place is not set.
setposNot(s, p) == s

setpos(s, p) == [s EXCEPT !.pos = p]

\* What putch and putstr hand to write for the text t, character by character.
Encoded(f, t) ==
  LET e[n \in Nat] ==
        IF n = 0 THEN <<>>
        ELSE e[n - 1] \o IF t[n] = LF /\ ~Binary(f) THEN <<CR, LF>> ELSE <<t[n]>>
  IN  e[Len(t)]

\* A file opened to append writes at its end, whatever the place (SdBaseFile::write).
Written(f, p, b) ==
  [f EXCEPT !.bytes = [i \in 1 .. IF p + Len(b) > Len(@) THEN p + Len(b) ELSE Len(@) |->
                         IF i \in p + 1 .. p + Len(b) THEN b[i - p] ELSE @[i]]]

\* Mutant: O_APPEND only counts when the file is opened.
writeHere(f, s, b) ==
  IF "WRITE" \notin f.flags \/ f.dead THEN [f |-> f, s |-> [s EXCEPT !.we = TRUE]]
  ELSE [f |-> Written(f, s.pos, b), s |-> [s EXCEPT !.pos = @ + Len(b)]]

write(f, s, b) ==
  LET p == IF "APPEND" \in f.flags THEN Len(f.bytes) ELSE s.pos
  IN  IF "WRITE" \notin f.flags \/ f.dead THEN [f |-> f, s |-> [s EXCEPT !.we = TRUE]]
      ELSE [f |-> Written(f, p, b), s |-> [s EXCEPT !.pos = p + Len(b)]]

\* putstr, and putch for a text of one character.
putstr(f, s, t) ==
  LET w == IF t = <<>> THEN [f |-> f, s |-> s] ELSE write(f, s, Encoded(f, t))
  IN  IF w.s.we THEN [w EXCEPT !.s = Set(@, "bad")] ELSE w

\* The flags for SdBaseFile::open, {} for a mode that there is not.
OpenFlags(mode) ==
  LET m == mode \cap {"app", "in", "out", "trunc"}
      f == CASE m \in {{"app", "in"}, {"app", "in", "out"}} -> {"READ", "WRITE", "APPEND", "CREAT"}
             [] m \in {{"app"}, {"app", "out"}}      -> {"WRITE", "APPEND", "CREAT"}
             [] m = {"in"}                           -> {"READ"}
             [] m = {"in", "out"}                    -> {"READ", "WRITE"}
             [] m = {"in", "out", "trunc"}           -> {"READ", "WRITE", "TRUNC", "CREAT"}
             [] m \in {{"out"}, {"out", "trunc"}}    -> {"WRITE", "TRUNC", "CREAT"}
             [] OTHER                                -> {}
  IN  IF f # {} /\ "ate" \in mode THEN f \cup {"AT_END"} ELSE f

\* SdBaseFile::open of the only file there is, which exists or not.  To truncate what is
\* not empty is to write.
OpenFile(f, flags) ==
  LET ok == /\ flags # {} /\ ~f.open /\ (f.exists \/ "CREAT" \in flags)
            /\ ~("TRUNC" \in flags /\ f.dead /\ f.bytes # <<>>)
  IN  [ok |-> ok,
       f  |-> IF ~ok THEN f
              ELSE [f EXCEPT !.open = TRUE, !.exists = TRUE, !.flags = flags,
                             !.bytes = IF "TRUNC" \in flags THEN <<>> ELSE @]]

Closed(f) == [f EXCEPT !.open = FALSE, !.flags = {}]

\* What fails leaves the file closed.
Refused(f, s) == [f |-> Closed(f), s |-> Set(s, "fail")]

\* SdStreamBase::open: a stream that is open already is closed.
open(f, s, mode) ==
  LET o == OpenFile(f, OpenFlags(mode))
  IN  IF o.ok
      THEN [f |-> [o.f EXCEPT !.mode = mode],
            s |-> [s EXCEPT !.st = {}, !.pos = IF "AT_END" \in o.f.flags THEN Len(o.f.bytes)
                                               ELSE 0]]
      ELSE Refused(f, s)

\* A card that takes no more writes refuses any file while the cache holds a block that
\* has still to be written.
Opens(f, s, mode) == {open(f, s, mode)} \cup IF f.dead THEN {Refused(f, s)} ELSE {}

\* seekpos with the place that seekoff has worked out: a place outside of the file fails.
seekpos(f, s, p) ==
  IF f.open /\ p \in 0 .. Len(f.bytes) THEN setpos(s, p) ELSE Set(s, "fail")
===============================================================================
