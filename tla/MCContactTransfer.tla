---------------------------- MODULE MCContactTransfer ----------------------------
(***************************************************************************)
(* Instances of ContactTransfer: lines of at most three bytes, two of them *)
(* in a file, replies of two bytes.                                        *)
(***************************************************************************)
EXTENDS ContactTransfer

\* Files as they should be, one of them empty.
GoodFiles == {<<>>, <<Chr, NL>>, <<Chr, Chr, NL>>, <<Chr, NL, Chr, NL>>,
              <<Chr, Chr, NL, Chr, NL>>, <<Chr, Chr, NL, Chr, Chr, NL>>}

\* A line that is too long, last lines that are not ended, alone in the file,
\* filling lineBuffer or after another, and files with bytes of 0x80 and more.
OddFiles == GoodFiles \cup
  {<<Chr, Chr, Chr, NL>>, <<Chr, Chr>>, <<Chr, Chr, Chr>>, <<Chr, NL, Chr, Chr>>,
   <<High>>, <<Chr, High, NL>>, <<Chr, NL, High, NL>>}

\* Short lines: more of them in FileSize bytes than the array holds.
CrowdedFiles == {<<Chr, NL, Chr, NL, Chr, NL>>}

\* The bytes as digits of a number: no two contents have the same one.
MCChecksum(s) ==
  LET number[n \in 0 .. Len(s)] ==
        IF n = 0 THEN 0 ELSE 4 * number[n - 1] + (CASE s[n] = NL -> 1 [] s[n] = Chr -> 2 [] s[n] = High -> 3)
  IN  number[Len(s)]
===============================================================================
