------------------------------ MODULE FileSystem ------------------------------
(***************************************************************************)
(* What the file library promises to a program, whatever the card looks    *)
(* like: a tree of directories and of files with bytes in them, and calls  *)
(* that act on it.  A path is a sequence of names; <<>> is the root.       *)
(*                                                                         *)
(*    tree    the paths there are, each with its kind and bytes            *)
(*    at      what each file object stands for, and its position           *)
(*    room    how many clusters are free                                   *)
(*    last    the last call with its arguments and what it returned        *)
(*    unwritten   the bytes, as path and place, that are in memory only    *)
(*    failed  the card has failed                                          *)
(***************************************************************************)
EXTENDS Naturals, Sequences, SequencesExt, FiniteSets

CONSTANT SeveralBlocks(_)   \* a read of so many bytes may go past what is in memory

VARIABLES tree, at, room, last, unwritten, failed

vars == <<tree, at, room, last, unwritten, failed>>

Dir == [kind |-> "dir", bytes |-> <<>>]
File(b) == [kind |-> "file", bytes |-> b]

Shut == [open |-> FALSE, path |-> <<>>, pos |-> 0, flags |-> {}]

IsDir(p) == LET t == tree IN p \in DOMAIN t /\ t[p].kind = "dir"
Under(p) == {q \in DOMAIN tree : IsStrictPrefix(p, q)}
Children(p) == {q \in Under(p) : Len(q) = Len(p) + 1}

\* The path of q after p has become to.
Moved(q, p, to) == to \o SubSeq(q, Len(p) + 1, Len(q))

Least(a, b) == IF a <= b THEN a ELSE b

Overlay(b, pos, data) ==
  [i \in 1 .. Len(b) + Len(data) - Least(Len(data), Len(b) - pos) |->
     IF i > pos /\ i <= pos + Len(data) THEN data[i - pos] ELSE b[i]]

Without(paths) == LET t == tree IN [q \in DOMAIN t \ paths |-> t[q]]
With(p, node) ==
  LET t == tree IN [q \in DOMAIN t \cup {p} |-> IF q = p THEN node ELSE t[q]]

\* The call, the object it is made on and the bytes of its file.
Call == last'
This == at[Call.h]
Bytes == tree[This.path].bytes

Moves(pos) == at' = [at EXCEPT ![Call.h].pos = pos]
Shuts == at' = [at EXCEPT ![Call.h] = Shut]
Opens(p, pos, flags) ==
  at' = [at EXCEPT ![Call.h] = [open |-> TRUE, path |-> p, pos |-> pos, flags |-> flags]]

Kept == {"READ", "WRITE", "APPEND", "SYNC"}

-------------------------------------------------------------------------------
MayMake(p) == p \notin DOMAIN tree /\ IsDir(Front(p))

OpenFound ==
  LET p == Call.p
  IN  /\ Call.op = "open" /\ Call.ok /\ p \in DOMAIN tree /\ "EXCL" \notin Call.flags
      /\ IsDir(p) => Call.flags \cap {"WRITE", "TRUNC"} = {}
      /\ tree' = IF "TRUNC" \in Call.flags THEN With(p, File(<<>>)) ELSE tree
      /\ Opens(p, IF "AT_END" \in Call.flags THEN Len(tree'[p].bytes) ELSE 0,
               Call.flags \cap Kept)

OpenNew ==
  /\ Call.op = "open" /\ Call.ok /\ MayMake(Call.p) /\ {"CREAT", "WRITE"} \subseteq Call.flags
  /\ tree' = With(Call.p, File(<<>>))
  /\ Opens(Call.p, 0, Call.flags \cap Kept)

\* The root does not grow, another directory as long as there is room.
OpenRefused ==
  /\ Call.op = "open" /\ ~Call.ok
  /\ IF Call.p \in DOMAIN tree
       THEN "EXCL" \in Call.flags \/ (IsDir(Call.p) /\ Call.flags \cap {"WRITE", "TRUNC"} # {})
       ELSE \/ ~({"CREAT", "WRITE"} \subseteq Call.flags) \/ ~IsDir(Front(Call.p))
            \/ Len(Call.p) = 1 \/ room = 0
  /\ Shuts /\ UNCHANGED tree

WritePos == IF "APPEND" \in This.flags THEN Len(Bytes) ELSE This.pos

Write ==
  /\ Call.op = "write" /\ Call.ok /\ "WRITE" \in This.flags
  /\ LET b == Bytes IN tree' = With(This.path, File(Overlay(b, WritePos, Call.data)))
  /\ Moves(WritePos + Len(Call.data))

\* A write fails only if the volume is full; then some of the bytes that were
\* in the file already may have been replaced.
WriteFails ==
  LET b == Bytes
      pos == WritePos
  IN  /\ Call.op = "write" /\ ~Call.ok
      /\ "WRITE" \in This.flags => room' = 0
      /\ \E k \in 0 .. Len(Call.data) :
           /\ Moves(IF k = 0 THEN This.pos ELSE pos + k)
           /\ tree' = With(This.path,
                File(SubSeq(Overlay(b, pos, SubSeq(Call.data, 1, k)), 1, Len(b))))

\* A read of several blocks may miss what has not been written to the card.
Reads(data, from) ==
  /\ Len(data) = Len(from)
  /\ LET lost == {i \in DOMAIN data : data[i] # from[i]}
     IN  lost # {} => SeveralBlocks(Len(data))
                      /\ {<<This.path, This.pos + i>> : i \in lost} \subseteq unwritten

Read ==
  /\ Call.op = "read" /\ Call.ok = ("READ" \in This.flags)
  /\ Call.ok => Reads(Call.data,
                      SubSeq(Bytes, This.pos + 1, Least(This.pos + Call.n, Len(Bytes))))
  /\ Moves(This.pos + Len(Call.data)) /\ UNCHANGED tree

Peek ==
  /\ Call.op = "peek" /\ Call.ok = ("READ" \in This.flags)
  /\ Call.ok => Call.data = SubSeq(Bytes, This.pos + 1, Least(This.pos + 1, Len(Bytes)))
  /\ UNCHANGED <<tree, at>>

Seek ==
  /\ Call.op = "seek" /\ Call.ok = (Call.n <= Len(Bytes))
  /\ Moves(IF Call.ok THEN Call.n ELSE This.pos) /\ UNCHANGED tree

Truncate ==
  /\ Call.op = "truncate"
  /\ Call.ok = (Call.n <= Len(Bytes) /\ "WRITE" \in This.flags)
  /\ tree' = IF Call.ok THEN With(This.path, File(SubSeq(Bytes, 1, Call.n))) ELSE tree
  /\ Moves(IF Call.ok /\ Call.n < This.pos THEN Call.n ELSE This.pos)

SyncOrClose ==
  /\ Call.op \in {"sync", "close"} /\ Call.ok /\ UNCHANGED tree
  /\ IF Call.op = "sync" THEN UNCHANGED at ELSE Shuts

RemoveFile ==
  /\ Call.op = "remove" /\ Call.ok = ("WRITE" \in This.flags)
  /\ IF Call.ok THEN tree' = Without({This.path}) /\ Shuts ELSE UNCHANGED <<tree, at>>

\* The bytes of the new file are what the card had there.
CreateContiguous ==
  /\ Call.op = "createContiguous"
  /\ \/ /\ Call.ok /\ MayMake(Call.p)
        /\ tree' = With(Call.p, tree'[Call.p])
        /\ tree'[Call.p].kind = "file" /\ Len(tree'[Call.p].bytes) = Call.n
        /\ Opens(Call.p, 0, {"READ", "WRITE"})
     \/ ~Call.ok /\ Shuts /\ UNCHANGED tree

-------------------------------------------------------------------------------
\* Directories are named by their paths; no object is open in them.

Exists == Call.op = "exists" /\ Call.ok = (Call.p \in DOMAIN tree) /\ UNCHANGED <<tree, at>>

IsFile(p) == LET t == tree IN p \in DOMAIN t /\ t[p].kind = "file"

RemovePath ==
  /\ Call.op = "removePath" /\ Call.ok = IsFile(Call.p) /\ UNCHANGED at
  /\ IF Call.ok THEN tree' = Without({Call.p}) ELSE UNCHANGED tree

TruncatePath ==
  /\ Call.op = "truncatePath" /\ UNCHANGED at
  /\ Call.ok = (IsFile(Call.p) /\ Call.n <= Len(tree[Call.p].bytes))
  /\ tree' = IF Call.ok THEN With(Call.p, File(SubSeq(tree[Call.p].bytes, 1, Call.n))) ELSE tree

Missing(p) == {SubSeq(p, 1, k) : k \in 1 .. Len(p)} \ DOMAIN tree
WithDirs(paths) ==
  LET t == tree IN [q \in DOMAIN t \cup paths |-> IF q \in paths THEN Dir ELSE t[q]]
MayMakeDir(p, pFlag) ==
  /\ p \notin DOMAIN tree
  /\ pFlag \/ IsDir(Front(p))
  /\ \A k \in 1 .. Len(p) - 1 : SubSeq(p, 1, k) \in DOMAIN tree => IsDir(SubSeq(p, 1, k))

\* With pFlag the directories on the way are made too.  Where the room ends an
\* empty file may be left in place of a directory.
MkDir ==
  LET p == Call.p
      may == MayMakeDir(p, "P" \in Call.flags)
  IN  /\ Call.op = "mkdir" /\ UNCHANGED at
      /\ \/ Call.ok /\ may /\ tree' = WithDirs(Missing(p))
         \/ ~Call.ok /\ (~may \/ Len(p) = 1) /\ UNCHANGED tree
         \/ /\ ~Call.ok /\ may /\ room' = 0
            /\ \E k \in 1 .. Len(p) :
                 LET made == {q \in Missing(p) : Len(q) < k}
                     at_k == SubSeq(p, 1, k)
                 IN  tree' \in {WithDirs(made),
                                [WithDirs(made \cup {at_k}) EXCEPT ![at_k] = File(<<>>)]}

RmDir ==
  /\ Call.op = "rmdir" /\ UNCHANGED at
  /\ Call.ok = (IsDir(Call.p) /\ Call.p # <<>> /\ Children(Call.p) = {})
  /\ IF Call.ok THEN tree' = Without({Call.p}) ELSE UNCHANGED tree

RmRfStar ==
  /\ Call.op = "rmRfStar" /\ Call.ok = IsDir(Call.p) /\ UNCHANGED at
  /\ tree' = IF Call.ok THEN Without(Under(Call.p) \cup ({Call.p} \ {<<>>})) ELSE tree

\* A directory takes what is in it along.  It needs a cluster meanwhile.  The
\* old name is free when the new one is made, so that it can be the new one.
\* Without room what was renamed may be lost.
Rename ==
  LET p == Call.p
      to == Call.to
      t == tree
      mine == Under(p) \cup {p}
      may == /\ p \in DOMAIN tree \ {<<>>}
             /\ p = to \/ (MayMake(to) /\ ~IsPrefix(p, to))
  IN  /\ Call.op = "rename" /\ UNCHANGED at
      /\ \/ /\ Call.ok /\ may
            /\ tree' = [q \in (DOMAIN t \ mine) \cup {Moved(q, p, to) : q \in mine} |->
                          IF IsPrefix(to, q) THEN t[Moved(q, to, p)] ELSE t[q]]
         \/ ~Call.ok /\ (~may \/ Len(to) = 1) /\ UNCHANGED tree
         \/ /\ ~Call.ok /\ may /\ room' = 0
            /\ DOMAIN tree' \subseteq DOMAIN t \cup {to}
            /\ \A q \in DOMAIN t \ mine : q \in DOMAIN tree' /\ tree'[q] = t[q]

\* A path below a plain file is taken as one in a directory if something is to be made
\* there: the bytes of that file may then be replaced by an entry, and a file that was
\* renamed is at no path any more.
BelowFile ==
  LET made == IF Call.op = "rename" THEN Call.to ELSE Call.p
      t == tree
      gone == IF Call.op = "rename" THEN {Call.p} ELSE {}
      over == Front(made)
  IN  /\ Call.op \in {"open", "createContiguous", "rename"}
      /\ Call.ok \/ Call.op = "createContiguous"
      /\ Call.op = "open" => {"CREAT", "WRITE"} \subseteq Call.flags
      /\ made \notin DOMAIN t /\ over \in DOMAIN t \ gone /\ IsFile(over)
      /\ gone \subseteq {p \in DOMAIN t : t[p].kind = "file"}
      /\ DOMAIN tree' = DOMAIN t \ gone
      /\ \A p \in DOMAIN tree' \ {over} : tree'[p] = t[p]
      /\ tree'[over].kind = "file" /\ Len(tree'[over].bytes) = Len(t[over].bytes)
      /\ \A h \in DOMAIN at \ {Call.h} : at'[h] = at[h]

\* openNext until it finds no more: each name once.
Lists(p) ==
  /\ {Append(p, Call.names[i]) : i \in DOMAIN Call.names} = Children(p)
  /\ Len(Call.names) = Cardinality(Children(p))

List ==
  /\ Call.op = "list" /\ Call.ok = IsDir(Call.p)
  /\ Call.ok => Lists(Call.p)
  /\ UNCHANGED <<tree, at>>

\* The parent of a directory, and what is in it.
OpenParent ==
  /\ Call.op = "openParent" /\ Call.ok = (IsDir(Call.p) /\ Call.p # <<>>)
  /\ Call.ok => Lists(Front(Call.p))
  /\ UNCHANGED <<tree, at>>

\* Once the card or the power has failed nothing is promised here.
Fault == failed' /\ (Call.op \in {"fault", "power"} \/ failed)

-------------------------------------------------------------------------------
Init ==
  /\ IsDir(<<>>) /\ \A p \in DOMAIN tree \ {<<>>} : IsDir(Front(p))
  /\ \A h \in DOMAIN at : at[h] = Shut
  /\ ~failed

Next ==
  \/ OpenFound \/ OpenNew \/ OpenRefused \/ Write \/ WriteFails \/ Read \/ Peek \/ Seek
  \/ Truncate \/ SyncOrClose \/ RemoveFile \/ CreateContiguous
  \/ Exists \/ RemovePath \/ TruncatePath \/ MkDir \/ RmDir
  \/ RmRfStar \/ Rename \/ BelowFile \/ List \/ OpenParent \/ Fault

Spec == Init /\ [][Next]_vars
===============================================================================
