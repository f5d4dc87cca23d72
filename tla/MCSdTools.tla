------------------------------ MODULE MCSdTools ------------------------------
(* The parts of the SdFat library that are programs about texts and layouts *)
(* more than about the card: one of them runs, the variables of the others  *)
(* stay as they are.                                                        *)
EXTENDS Formatter, Streams, DirEntries

CONSTANTS fileA, fileB

-------------------------------------------------------------------------------
(* The formatter.                                                           *)

\* Cards from 512 KB to 4 GB, and SDHC cards from 16 MB to 700 GB, among them the
\* ones just below, at and just above each limit of initSizes.
SmallCards ==
  [csd_ver : {0}, c_size : {1, 27, 511, 1023, 1024, 2047, 3872, 4095}, c_size_mult : 0 .. 7,
   read_bl_len : 9 .. 11]

BigCards ==
  [csd_ver : {1}, c_size : {31, 4095, 4223, 4224, 4300, 8191, 65533, 65534, 65535, 65536,
                            131069, 131070, 131071, 131083, 131100, 140000, 200000, 262143, 1400000}]

Cards == SmallCards \cup BigCards

-------------------------------------------------------------------------------
(* Streams.                                                                 *)

T4s == [signed |-> TRUE, bits |-> 4]
T4u == [signed |-> FALSE, bits |-> 4]
T12s == [signed |-> TRUE, bits |-> 12]
T12u == [signed |-> FALSE, bits |-> 12]

Plain == [base |-> 10, adjust |-> "right", fill |-> 32, showbase |-> FALSE, showpos |-> FALSE,
          uppercase |-> FALSE, boolalpha |-> FALSE, skipws |-> TRUE, showpoint |-> FALSE,
          precision |-> 2, width |-> 0]

SomeSettings ==
  {Plain,
   [Plain EXCEPT !.base = 16, !.showbase = TRUE, !.adjust = "internal", !.fill = 48],
   [Plain EXCEPT !.base = 8, !.showbase = TRUE, !.adjust = "left", !.boolalpha = TRUE],
   [Plain EXCEPT !.showpos = TRUE, !.adjust = "internal", !.precision = 0, !.fill = 48],
   [Plain EXCEPT !.showpos = TRUE, !.adjust = "left", !.precision = 1, !.showpoint = TRUE],
   [Plain EXCEPT !.skipws = FALSE, !.base = 16, !.uppercase = TRUE]}

SomeItems ==
  {[kind |-> "number", v |-> x, type |-> T4s] : x \in {-8, 7}}
  \cup {[kind |-> "number", v |-> x, type |-> T12u] : x \in {0, 4095}}
  \cup {[kind |-> "number", v |-> x, type |-> T12s] : x \in {-2048, -26}}
  \cup {[kind |-> "double", v |-> x] : x \in {-50, 1995, 9996}}
  \cup {[kind |-> "bool", v |-> x] : x \in {0, 1}}

\* Texts with ends of lines, with numbers, and with doubles.
SomeTexts ==
  {<<>>, <<97, 13, 10, 98>>, <<13, 13, 10>>, <<13, 97>>, <<97, 32, 13, 10, 10, 98, 99>>,
   <<10, 97, 98, 99, 100, 13>>,
   <<32, 45, 49, 48, 13, 10>>, <<45, 57, 32>>, <<52, 48, 57, 54>>, <<52, 48, 57, 53, 97>>,
   <<48, 120, 49, 70>>, <<48, 120, 103>>, <<43, 120>>, <<45, 50, 48, 52, 56, 10, 55>>,
   <<102, 102, 102>>, <<49, 48, 48, 48>>, <<32, 32, 45>>,
   <<32, 48, 120, 55, 32>>, <<49, 46, 53, 101, 49, 48>>, <<46, 48, 48, 49>>, <<49, 101, 45, 57>>, <<48, 101, 57>>,
   <<57, 57, 57, 57, 46, 57, 57>>, <<49, 101, 43>>, <<57, 57, 101, 45>>, <<46, 32>>,
   <<48, 46, 48, 48, 48, 48, 49>>, <<49, 48, 48, 101, 53>>, <<45, 50, 101, 51, 32, 53>>,
   <<116, 114, 117, 101>>, <<102, 97, 108, 120>>}

\* Numbers are read in each base, lines with the plain settings.
SomePrograms ==
  [kind : {"read"}, text : {t \in SomeTexts : t # <<>>},
   m : {x \in SomeSettings : x.adjust = "right" \/ x.base = 8}]
  \cup [kind : {"edit"}, text : {<<>>, <<97, 13, 10, 98>>}, m : {Plain}]
  \cup [kind : {"values"}, text : {<<>>}, m : SomeSettings]
  \cup [kind : {"fields"}, text : {<<>>}, m : {Plain}]

Statements == [read |-> 3, edit |-> 4, values |-> 6, fields |-> 6]

SomePieces == {<<97>>, <<10>>, <<13>>, <<10, 98, 10, 10>>, <<13, 10, 99>>}

SomeModes ==
  {{"in"}, {"out"}, {"app"}, {"in", "out"}, {"in", "app"}, {"in", "out", "trunc"},
   {"in", "out", "binary"}, {"in", "out", "ate"}, {"trunc"}}

-------------------------------------------------------------------------------
(* Directory entries.                                                       *)


SomeTimes ==
  {<<1980, 1, 1, 0, 0, 0>>, <<2107, 12, 31, 23, 59, 59>>, <<2024, 2, 31, 7, 30, 31>>,
   <<2108, 1, 1, 0, 0, 0>>, <<2000, 13, 1, 0, 0, 0>>, <<2000, 1, 1, 24, 0, 0>>}

Slot(kind, name) == [kind |-> kind, name |-> name, ok |-> TRUE, sub |-> <<>>]
DirSlot(name, sub) == [kind |-> "dir", name |-> name, ok |-> TRUE, sub |-> sub]

Leaf == <<Slot("dot", "."), Slot("dot", ".."), Slot("file", "f"), Slot("deleted", "g"),
          Slot("file", "h"), Slot("free", ""), Slot("file", "old")>>
Slots == {Slot("file", "f"), Slot("deleted", "g"), Slot("free", ""), DirSlot("d", Leaf),
          [DirSlot("e", Leaf) EXCEPT !.ok = FALSE],
          DirSlot("c", <<Slot("dot", "."), DirSlot("d", Leaf), Slot("file", "h")>>)}

SomeTrees == {t \in UNION {[1 .. n -> Slots] : n \in 0 .. 3} :
                \A i, j \in DOMAIN t : i # j /\ t[i].kind \in {"file", "dir"} => t[i].name # t[j].name}

-------------------------------------------------------------------------------
VARIABLE tool

toolVars == <<vars, streamVars, dirVars, tool>>

\* A stream and directories that nothing is done with.
IdleStream ==
  /\ program = "none" /\ m = Plain /\ put = <<>> /\ items = <<>> /\ back = 0 /\ lost = FALSE
  /\ f = [bytes |-> <<>>, mode |-> {}, open |-> FALSE, exists |-> FALSE, flags |-> {},
          broken |-> {}, dead |-> FALSE]
  /\ s = [pos |-> 0, st |-> {}, we |-> FALSE]
  /\ out = Nothing /\ taken = <<>> /\ origin = 0 /\ ops = 0

IdleDirs ==
  /\ callback = FALSE /\ now = DefaultTime /\ calls = MaxCalls
  /\ made = [path |-> <<>>, ok |-> FALSE, name |-> Blank, rest |-> <<>>, shown |-> <<>>]
  /\ entry = [x \in File |-> NewEntry]
  /\ meant = [x \in File |-> [c |-> DefaultTime, w |-> DefaultTime]]
  /\ dirty = {} /\ wrote = {} /\ printed = [file |-> "none"]
  /\ listing = [tree |-> <<>>, recursively |-> FALSE, lines |-> <<>>]

IdleFormatter ==
  csd = [csd_ver |-> 1, c_size |-> 4224] /\ option = "Q" /\ pc = "sizes" /\ erased = 0
    /\ disk = Untouched

ToolsInit ==
  \/ tool = "formatter" /\ Init /\ IdleStream /\ IdleDirs
  \/ tool = "stream" /\ StreamsInit /\ IdleFormatter /\ IdleDirs
  \/ tool = "directory" /\ DirInit /\ IdleFormatter /\ IdleStream

ToolsNext ==
  \/ tool = "formatter" /\ Next /\ UNCHANGED <<streamVars, dirVars, tool>>
  \/ tool = "stream" /\ StreamsNext /\ UNCHANGED <<vars, dirVars, tool>>
  \/ tool = "directory" /\ DirNext /\ UNCHANGED <<vars, streamVars, tool>>

ToolsSpec == ToolsInit /\ [][ToolsNext]_toolVars
===============================================================================
