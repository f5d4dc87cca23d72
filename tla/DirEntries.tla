------------------------------- MODULE DirEntries -------------------------------
(***************************************************************************)
(* What the SdFat library keeps in the entries of a directory besides the  *)
(* place of a file: its name in the form 8.3 and its dates, and how it     *)
(* lists them (SdBaseFile.cpp, SdBaseFilePrint.cpp).                       *)
(*                                                                         *)
(* Two files with one handle each, the directory tree of one listing, and  *)
(* the last name that has been made or shown.  A program makes a name, or  *)
(* lists a directory, or makes up to MaxCalls calls on the files.          *)
(***************************************************************************)
EXTENDS Integers, Sequences, FiniteSets

CONSTANTS
  NAME, EXT,             \* lengths of the two parts of a name, 8 and 3
  Characters,            \* that a path is made of
  PathMax,
  File,
  Flags,                 \* sets of T_ACCESS, T_CREATE and T_WRITE
  Times,                 \* arguments of timestamp: year, month, day, hour, minute, second
  Trees,                 \* directories to list
  MaxCalls

ASSUME DirAssumption == NAME \in Nat \ {0} /\ EXT \in Nat \ {0} /\ PathMax \in Nat /\ MaxCalls \in Nat

VARIABLES
  made,                  \* a path, and what make83Name makes of it
  entry,                 \* the dates of each file, as the card has them
  dirty,                 \* handles whose entry is to be written by sync
  callback,              \* dateTimeCallback has been called
  now,                   \* what the callback answers
  printed,               \* the dates that have been printed last
  meant, wrote,          \* the dates that the files should have, and the files that have
                         \* been written since they got theirs
  listing,               \* the tree of the last ls, and the names it has printed
  calls

dirVars == <<made, entry, dirty, callback, now, printed, meant, wrote, listing, calls>>

SPACE == 32
DOT83 == 46
SLASH == 47
Illegal == {124, 60, 62, 94, 43, 61, 63, 47, 91, 93, 59, 44, 42, 34, 92}
UpperOf(c) == IF c \in 97 .. 122 THEN c - 32 ELSE c

-------------------------------------------------------------------------------
(* Names.                                                                  *)

Blank == [i \in 1 .. NAME + EXT |-> SPACE]

\* The rest of str, with the entry so far, the next index i and the last one, n.
RECURSIVE MakeRest(_, _, _, _)
MakeRest(str, name, i, n) ==
  IF str = <<>> \/ Head(str) = SLASH THEN [ok |-> name[1] # SPACE, name |-> name, rest |-> str]
  ELSE LET c == Head(str) IN
       IF c = DOT83
       THEN IF n = NAME + EXT - 1 THEN [ok |-> FALSE, name |-> name, rest |-> str]
            ELSE MakeRest(Tail(str), name, NAME, NAME + EXT - 1)
       ELSE IF c \in Illegal \/ i > n \/ c < 33 \/ c > 126
       THEN [ok |-> FALSE, name |-> name, rest |-> str]
       ELSE MakeRest(Tail(str), [name EXCEPT ![i + 1] = UpperOf(c)], i + 1, n)

make83Name(str) == MakeRest(str, Blank, 0, NAME - 1)

\* The characters of the entry from index i on, with the dot.
RECURSIVE NameFrom(_, _)
NameFrom(name, i) ==
  IF i > NAME + EXT THEN <<>>
  ELSE (IF name[i] = SPACE THEN <<>> ELSE IF i = NAME + 1 THEN <<DOT83, name[i]>> ELSE <<name[i]>>)
         \o NameFrom(name, i + 1)

dirName(name) == NameFrom(name, 1)

-------------------------------------------------------------------------------
(* Dates, as fields of 16 bits.                                            *)

FAT_DATE(t) == ((t[1] - 1980) * 512 + t[2] * 32 + t[3]) % 65536
FAT_TIME(t) == (t[4] * 2048 + t[5] * 32 + t[6] \div 2) % 65536

FAT_YEAR(d)   == 1980 + d \div 512
FAT_MONTH(d)  == (d \div 32) % 16
FAT_DAY(d)    == d % 32
FAT_HOUR(t)   == t \div 2048
FAT_MINUTE(t) == (t \div 32) % 64
FAT_SECOND(t) == 2 * (t % 32)

DefaultTime == <<2000, 1, 1, 1, 0, 0>>

\* printFatDate and printFatTime: the numbers that they print.
Printed(d, t) ==
  <<FAT_YEAR(d), FAT_MONTH(d), FAT_DAY(d), FAT_HOUR(t), FAT_MINUTE(t), FAT_SECOND(t)>>

\* The entry that open makes.
NewEntry ==
  LET t == IF callback THEN now ELSE DefaultTime
  IN  [cDate |-> FAT_DATE(t), cTime |-> FAT_TIME(t), tenths |-> 0, aDate |-> FAT_DATE(t),
       wDate |-> FAT_DATE(t), wTime |-> FAT_TIME(t)]

\* sync: the entry of a file whose handle is dirty.
Synced(x) ==
  IF x \in dirty /\ callback
  THEN [entry[x] EXCEPT !.wDate = FAT_DATE(now), !.wTime = FAT_TIME(now), !.aDate = FAT_DATE(now)]
  ELSE entry[x]

MeantSynced(x) == IF x \in wrote /\ callback THEN [meant[x] EXCEPT !.w = now] ELSE meant[x]

Valid(t) ==
  /\ t[1] \in 1980 .. 2107 /\ t[2] \in 1 .. 12 /\ t[3] \in 1 .. 31
  /\ t[4] <= 23 /\ t[5] <= 59 /\ t[6] <= 59

-------------------------------------------------------------------------------
(* Listings.  A directory is a sequence of [kind, name, sub]; sub is the   *)
(* directory, and ok says whether it can be opened.                        *)

Ends == [status |-> 0, pos |-> 0, line |-> <<>>]

\* lsPrintNext: the next entry that is shown from pos on.
RECURSIVE lsPrintNext(_, _, _)
lsPrintNext(dir, pos, indent) ==
  IF pos >= Len(dir) \/ dir[pos + 1].kind = "free" THEN Ends
  ELSE IF dir[pos + 1].kind \in {"file", "dir"}
       THEN [status |-> IF dir[pos + 1].kind = "file" THEN 1 ELSE 2, pos |-> pos + 1,
             line |-> <<indent, dir[pos + 1].name>>]
  ELSE lsPrintNext(dir, pos + 1, indent)

\* The place that ls sets after the entry with this index.
Resume(index) == index + 1

\* ls from the place pos on.  The place in the directory is set again after the
\* listing of a subdirectory.
RECURSIVE lsFrom(_, _, _, _)
lsFrom(dir, pos, recursively, indent) ==
  LET e == lsPrintNext(dir, pos, indent)
      index == e.pos - 1
      sub == IF e.status > 1 /\ recursively /\ dir[index + 1].ok
             THEN lsFrom(dir[index + 1].sub, 0, recursively, indent + 2) ELSE <<>>
  IN  IF e.status = 0 THEN <<>>
      ELSE <<e.line>> \o sub \o lsFrom(dir, Resume(index), recursively, indent)

ls(dir, recursively) == lsFrom(dir, 0, recursively, 0)

-------------------------------------------------------------------------------
Paths == UNION {[1 .. n -> Characters] : n \in 0 .. PathMax}

DirInit ==
  /\ made = [path |-> <<>>, ok |-> FALSE, name |-> Blank, rest |-> <<>>, shown |-> <<>>]
  /\ callback \in BOOLEAN /\ now \in {t \in Times : Valid(t)}
  /\ entry = [x \in File |-> NewEntry]
  /\ meant = [x \in File |-> LET t == IF callback THEN now ELSE DefaultTime IN [c |-> t, w |-> t]]
  /\ dirty = {} /\ wrote = {} /\ printed = [file |-> "none"]
  /\ listing = [tree |-> <<>>, recursively |-> FALSE, lines |-> <<>>] /\ calls = 0

Call == calls < MaxCalls /\ calls' = calls + 1

MakeName ==
  /\ calls = 0 /\ calls' = MaxCalls
  /\ \E path \in Paths :
       LET r == make83Name(path)
       IN  made' = [path |-> path, ok |-> r.ok, name |-> r.name, rest |-> r.rest,
                    shown |-> dirName(r.name)]
  /\ UNCHANGED <<entry, dirty, callback, now, printed, meant, wrote, listing>>

Ls ==
  /\ calls = 0 /\ calls' = MaxCalls
  /\ \E tree \in Trees, recursively \in BOOLEAN :
       listing' = [tree |-> tree, recursively |-> recursively, lines |-> ls(tree, recursively)]
  /\ UNCHANGED <<made, entry, dirty, callback, now, printed, meant, wrote>>

\* What the callback answers goes on.
Tick(t) ==
  /\ Call /\ Valid(t) /\ now' = t
  /\ UNCHANGED <<made, entry, dirty, callback, printed, meant, wrote, listing>>

\* write: the file grows or not.
WriteFile(x, grows) ==
  /\ Call
  /\ dirty' = IF grows \/ callback THEN dirty \cup {x} ELSE dirty
  /\ wrote' = wrote \cup {x}
  /\ UNCHANGED <<made, entry, callback, now, printed, meant, listing>>

\* Mutant: sync does not clear F_FILE_DIR_DIRTY.
CleanNot(xs) == UNCHANGED dirty /\ wrote' = wrote \ xs

\* The handles of the files xs have been synced.
Clean(xs) == dirty' = dirty \ xs /\ wrote' = wrote \ xs

\* sync or close of the file x.
SyncFile(x) ==
  /\ Call
  /\ entry' = [entry EXCEPT ![x] = Synced(x)]
  /\ meant' = [meant EXCEPT ![x] = MeantSynced(x)]
  /\ Clean({x})
  /\ UNCHANGED <<made, callback, now, printed, listing>>

\* timestamp(flags, ...)
Timestamp(x, flags, t) ==
  /\ Call
  /\ IF ~Valid(t) THEN UNCHANGED <<entry, dirty, meant, wrote>>
     ELSE /\ LET e == Synced(x)
                 a == IF "ACCESS" \in flags THEN [e EXCEPT !.aDate = FAT_DATE(t)] ELSE e
                 c == IF "CREATE" \in flags
                      THEN [a EXCEPT !.cDate = FAT_DATE(t), !.cTime = FAT_TIME(t),
                                     !.tenths = IF t[6] % 2 = 1 THEN 100 ELSE 0] ELSE a
             IN  entry' = [entry EXCEPT ![x] =
                             IF "WRITE" \in flags
                             THEN [c EXCEPT !.wDate = FAT_DATE(t), !.wTime = FAT_TIME(t)] ELSE c]
          /\ meant' = [meant EXCEPT ![x] =
                         [c |-> IF "CREATE" \in flags THEN t ELSE @.c,
                          w |-> IF "WRITE" \in flags THEN t ELSE MeantSynced(x).w]]
          /\ Clean({x})
  /\ UNCHANGED <<made, callback, now, printed, listing>>

\* timestamp(file): the dates of the file y, both entries being synced first.
CopyTimestamp(x, y) ==
  /\ Call
  /\ entry' = [entry EXCEPT ![x] = Synced(y), ![y] = Synced(y)]
  /\ meant' = [meant EXCEPT ![x] = MeantSynced(y), ![y] = MeantSynced(y)]
  /\ Clean({x, y})
  /\ UNCHANGED <<made, callback, now, printed, listing>>

\* printCreateDateTime and printModifyDateTime: dirEntry syncs the file first.
PrintDates(x) ==
  /\ Call
  /\ LET e == Synced(x)
     IN  /\ entry' = [entry EXCEPT ![x] = e]
         /\ printed' = [file |-> x, created |-> Printed(e.cDate, e.cTime), tenths |-> e.tenths,
                        modified |-> Printed(e.wDate, e.wTime), meant |-> MeantSynced(x)]
  /\ meant' = [meant EXCEPT ![x] = MeantSynced(x)]
  /\ Clean({x})
  /\ UNCHANGED <<made, callback, now, listing>>

DirNext ==
  \/ MakeName \/ Ls
  \/ \E t \in Times : Tick(t)
  \/ \E x \in File : SyncFile(x) \/ PrintDates(x)
  \/ \E x \in File, grows \in BOOLEAN : WriteFile(x, grows)
  \/ \E x \in File, flags \in Flags, t \in Times : Timestamp(x, flags, t)
  \/ \E x, y \in File : x # y /\ CopyTimestamp(x, y)

DirSpec == DirInit /\ [][DirNext]_dirVars

-------------------------------------------------------------------------------
(* Properties.                                                             *)

\* The first component of the path, in upper case.
Component ==
  LET slash == {i \in 1 .. Len(made.path) : made.path[i] = SLASH}
      end == IF slash = {} THEN Len(made.path)
             ELSE (CHOOSE i \in slash : \A j \in slash : i <= j) - 1
  IN  [i \in 1 .. end |-> UpperOf(made.path[i])]

Legal(t) ==
  LET dots == {i \in 1 .. Len(t) : t[i] = DOT83}
      base == IF dots = {} THEN Len(t) ELSE (CHOOSE i \in dots : TRUE) - 1
  IN  /\ Cardinality(dots) <= 1 /\ base \in 1 .. NAME
      /\ dots # {} => Len(t) - base - 1 <= EXT
      /\ \A i \in 1 .. Len(t) : t[i] \notin Illegal /\ t[i] \in 33 .. 126

\* A path is taken exactly if its first component is a legal name, and the name that the
\* entry shows later is that component but for its case and for a dot at its end: no two
\* names share an entry that is not theirs (make83Name against dirName).
NamesAreKept ==
  made.path # <<>> =>
    LET t == Component
    IN  /\ made.ok = Legal(t)
        /\ made.ok => /\ made.shown = IF t[Len(t)] = DOT83 THEN SubSeq(t, 1, Len(t) - 1) ELSE t
                      /\ made.rest = SubSeq(made.path, Len(t) + 1, Len(made.path))

\* The dates that are printed are those that the program, or the callback at the last
\* sync after a write, has given: a timestamp is not overwritten by the sync of an earlier
\* write, and only the lowest bit of the seconds is lost (timestamp, sync, FAT_DATE).
DatesAreMeant ==
  printed.file # "none" =>
    LET Even(t) == [t EXCEPT ![6] = 2 * (@ \div 2)]
    IN  /\ printed.modified = Even(printed.meant.w)
        /\ printed.created = Even(printed.meant.c)

\* The paths below a directory that a listing is to show.
RECURSIVE Reach(_, _)
Reach(dir, recursively) ==
  LET live == {i \in 1 .. Len(dir) : /\ dir[i].kind \in {"file", "dir"}
                                     /\ \A j \in 1 .. i : dir[j].kind # "free"}
  IN  {<<dir[i].name>> : i \in live}
        \cup UNION {{<<dir[i].name>> \o p : p \in Reach(dir[i].sub, TRUE)} :
                     i \in {j \in live : recursively /\ dir[j].kind = "dir" /\ dir[j].ok}}

\* The path that a reader takes the line i for: below the nearest line above it that
\* stands further left.
RECURSIVE PathOf(_)
PathOf(i) ==
  LET l == listing.lines
      above == {j \in 1 .. i - 1 : l[j][1] < l[i][1]}
  IN  IF above = {} THEN <<l[i][2]>>
      ELSE Append(PathOf(CHOOSE j \in above : \A k \in above : k <= j), l[i][2])

\* A listing shows every file and directory once, below its directory, however deep the
\* listings of subdirectories that come between (ls, which goes on at the place it has
\* kept, and lsPrintNext, which skips deleted entries and stops at the first free one).
ListingIsComplete ==
  LET lines == DOMAIN listing.lines
      paths == Reach(listing.tree, listing.recursively)
  IN  {PathOf(i) : i \in lines} = paths /\ Cardinality(lines) = Cardinality(paths)

\* An entry of a directory gives back the name and the dates that it was given, and each
\* is listed once.
EntriesAreKept == NamesAreKept /\ DatesAreMeant /\ ListingIsComplete
===============================================================================
