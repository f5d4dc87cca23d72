--------------------------------- MODULE SdFat ---------------------------------
(***************************************************************************)
(* A program that uses a volume through file objects, call by call.  A     *)
(* call runs to its end before the next: the library is used by one thread.*)
(* In a call the card may fail, and the power too: what was in memory is   *)
(* then lost and the volume is used again from the start.                  *)
(*                                                                         *)
(*    vol     the card, the cache and m_allocSearchStart                   *)
(*    file    the file objects                                             *)
(*    path    the paths they were opened with                              *)
(*    tree    what the program finds on the volume: TreeOf(Seen, file)           *)
(*    saved   what is surely on the card: the bytes of the files that were *)
(*            synced and have at most been written behind them since       *)
(*    last    the last call with its arguments and what it returned        *)
(*    torn    "full": a call has failed for lack of room; "card": the card *)
(*            or the power has failed; "astray": an entry was made in a    *)
(*            plain file, and the program makes no further call            *)
(*    use     what kind of program this is (a key of Programs)             *)
(*    calls   how many calls it has made                                   *)
(***************************************************************************)
EXTENDS SdBaseFile, SequencesExt

CONSTANTS
  FirstByte,
  Handles,               \* the number of file objects
  Programs,              \* the calls, paths and sizes each kind may use
  Prepare(_, _)          \* what a kind of program finds on the card

VARIABLES vol, file, path, tree, saved, last, torn, use, calls

Handle == 1 .. Handles

ASSUME ProgramAssumption == Handles \in Nat \ {0} /\ FirstByte \in Nat

vars == <<vol, file, path, tree, saved, last, torn, use, calls>>

VolOf(x) == [card |-> x.card, blk |-> x.blk, buf |-> x.buf, dirty |-> x.dirty,
             fat |-> x.fat, start |-> x.start]

Me == Programs[use]

NoCall == [op |-> "none", h |-> 1, p |-> <<>>,
           to |-> <<>>, flags |-> {}, n |-> 0, data |-> <<>>, names |-> <<>>, ok |-> TRUE]

FormattedFat(b) ==
  [i \in 0 .. EntriesPerFatBlock - 1 |->
     IF (b - m_fatStartBlock) % m_blocksPerFat = 0 /\ i < 2 THEN EOC ELSE 0]

Formatted ==
  [b \in Block |-> IF b < m_rootDirStart THEN FormattedFat(b)
                   ELSE IF b < m_dataStartBlock THEN EmptyDirBlock
                   ELSE Unread]

Mounted(card) == [card |-> card, blk |-> None, buf |-> card[m_fatStartBlock],
                  dirty |-> FALSE, fat |-> FALSE, start |-> 2]

-------------------------------------------------------------------------------
(* What is on the volume, as the program finds it: the cached block goes   *)
(* before the card, and an open file before its directory entry.           *)

DirBlocks(w, e) ==
  IF e.type = "root" THEN m_rootDirStart .. m_dataStartBlock - 1
  ELSE UNION {clusterStartBlock(c) .. clusterStartBlock(c) + m_blocksPerCluster - 1 :
                c \in ClustersOf(Chain(w, e.first))}

\* The entries in use of a directory, with their places.
Entries(w, e) ==
  {[name |-> w[b][i].name, type |-> w[b][i].kind, first |-> w[b][i].first,
    size |-> w[b][i].size, dblk |-> b, didx |-> i] :
     <<b, i>> \in {s \in DirBlocks(w, e) \X (0 .. DirPerBlock - 1) :
                     w[s[1]][s[2]].name \notin {"free", "deleted", ".", ".."}}}

\* An open file whose entry is not up to date knows better.
Current(fs, e) ==
  LET dirty == {h \in Handle : /\ fs[h].type = "file" /\ fs[h].dd
                               /\ fs[h].dblk = e.dblk /\ fs[h].didx = e.didx}
  IN  IF dirty = {} THEN e
      ELSE LET f == fs[CHOOSE h \in dirty : TRUE]
           IN  [e EXCEPT !.first = f.first, !.size = f.size]

\* All there is under a directory: paths with their entries.
RECURSIVE Reach(_, _, _, _)
Reach(w, fs, p, e) ==
  {<<p, e>>} \cup
  IF e.type = "file" THEN {}
  ELSE UNION {Reach(w, fs, Append(p, d.name), Current(fs, d)) : d \in Entries(w, e)}

Everything(w, fs) == Reach(w, fs, <<>>, [type |-> "root", first |-> 0, size |-> 0])

\* The block of the k-th byte of a chain, and the bytes that a file has room for.
PlaceOf(chain, k) ==
  LET n == (k - 1) \div BlockSize
  IN  clusterStartBlock(chain[n \div m_blocksPerCluster + 1]) + (n % m_blocksPerCluster)

Positions(chain, e) ==
  1 .. Least(e.size, (Len(chain) - 1) * BlockSize * m_blocksPerCluster)

BytesOf(w, e) ==
  LET chain == Chain(w, e.first)
  IN  [k \in Positions(chain, e) |->
         AsBytes(w[PlaceOf(chain, k)])[((k - 1) % BlockSize) + 1]]

NodeOf(w, e) == IF e.type = "file" THEN [kind |-> "file", bytes |-> BytesOf(w, e)]
                ELSE [kind |-> "dir", bytes |-> <<>>]

TreeOf(w, fs) ==
  LET all == Everything(w, fs)
      Node(p) == NodeOf(w, (CHOOSE q \in all : q[1] = p)[2])
  IN  (<<>> :> Node(<<>>)) @@ [p \in {q[1] : q \in all} |-> Node(p)]

Seen == View(vol)

-------------------------------------------------------------------------------
(* A call c, made on the file object of c.h: Op is the function, and the   *)
(* card fails after n operations, if the program is an unlucky one: then   *)
(* it works again or, if the power has failed, it does not.                *)

Object(v, f, n, a) == On([left |-> n, after |-> a, ok |-> TRUE, val |-> <<>>] @@ v, f)

Sound(v, f) == Object(v, f, Works, Works)

\* The calls of SdFat use an object of their own.
ByPath(x, Op(_)) == On(Op(On(x, Closed)), FileOf(x))

\* Calls that leave the bytes of all files alone.
Harmless == {"read", "peek", "seek", "sync", "close", "exists", "list", "openParent"}

\* The paths whose bytes a call may change.
Touched(c) ==
  IF c.op \in Harmless \/ (c.op = "open" /\ "TRUNC" \notin c.flags) THEN {}
  ELSE IF c.op = "write" /\ path[c.h] \in DOMAIN saved
            /\ file[c.h].pos >= Len(saved[path[c.h]]) THEN {}
  ELSE {path[c.h], c.p, c.to}

\* A call that syncs what was written.
Syncs(c) == c.op \in {"sync", "close"} \/ (c.op = "write" /\ "SYNC" \in file[c.h].flags)

Saved(c, w) ==
  LET kept == [q \in DOMAIN saved \ Touched(c) |-> saved[q]]
      mine == {e \in Entries(w, Root) : <<e.name>> = path[c.h]}
  IN  IF Me.power /\ c.ok /\ Syncs(c)
        THEN [q \in {path[c.h]} |-> BytesOf(w, CHOOSE e \in mine : TRUE)] @@ kept
      ELSE kept

\* A path below a plain file.
BelowFile(p) ==
  LET t == tree
  IN  p # <<>> /\ p \notin DOMAIN t /\ Front(p) \in DOMAIN t /\ t[Front(p)].kind = "file"
Astray(c, x) ==
  /\ x.ok \/ c.op = "createContiguous"
  /\ BelowFile(IF c.op = "rename" THEN c.to ELSE c.p)

Return(c, x, p) ==
  /\ vol' = VolOf(x)
  /\ \E w \in {View(x)}, fs \in {[file EXCEPT ![c.h] = FileOf(x)]} :
       /\ file' = fs
       /\ tree' = TreeOf(w, fs)
       /\ saved' = Saved([c EXCEPT !.ok = x.ok], w)
  /\ path' = [path EXCEPT ![c.h] = IF x.type = "closed" THEN <<>> ELSE p]
  /\ calls' = IF Astray(c, x) THEN Me.calls ELSE calls + 1

AllShut == [h \in Handle |-> Closed]

PowerOff(c, x) ==
  /\ vol' = Mounted(x.card)
  /\ file' = AllShut /\ tree' = TreeOf(x.card, AllShut)
  /\ path' = [h \in Handle |-> <<>>]
  /\ saved' = [q \in DOMAIN saved \ Touched(c) |-> saved[q]]
  /\ calls' = Me.calls

\* The object stands for path p if the call leaves it open.
Do(c, Op(_), p) ==
  /\ calls < Me.calls /\ UNCHANGED use
  /\ \E n \in Me.faults \cup {Works}, a \in {Works} \cup (IF Me.power THEN {Dead} ELSE {}) :
     \E x \in {Op(Object(vol, file[c.h], n, a))} :
       LET said == [c EXCEPT !.ok = x.ok,
                             !.data = IF c.op \in {"read", "peek"} /\ x.ok THEN x.val ELSE @,
                             !.names = IF c.op \in {"list", "openParent"} /\ x.ok
                                         THEN x.val ELSE @]
       IN  \/ n = Works /\ a = Works /\ Return(c, x, p) /\ last' = said
              /\ torn' = torn \cup (IF ~x.ok /\ c.op \in {"write", "mkdir", "rename"}
                                      THEN {"full"} ELSE {})
                              \cup (IF Astray(c, x) THEN {"astray"} ELSE {})
           \/ n # Works /\ x.left < 0 /\ torn' = torn \cup {"card"}
              /\ \/ a = Works /\ Return(c, x, p) /\ last' = [said EXCEPT !.op = "fault"]
                 \/ a = Dead /\ PowerOff(c, x) /\ last' = [said EXCEPT !.op = "power"]

May(op) == op \in Me.ops
A(op, h) == [NoCall EXCEPT !.op = op, !.h = h]

\* A file is used through one object, also where it is taken for a directory.
InUse(p) == \E h \in Handle : isOpen(file[h]) /\ IsPrefix(path[h], p)

\* A program does not go on with a file after a write has failed.
Usable(h) == file[h].type = "file" /\ file[h].pos <= file[h].size

-------------------------------------------------------------------------------
(* Calls on an object.                                                     *)

\* One object is like another: the first that is closed is used.
NextObject(h) == ~isOpen(file[h]) /\ \A g \in 1 .. h - 1 : isOpen(file[g])

Open(h) ==
  /\ May("open") /\ NextObject(h)
  /\ \E p \in Me.paths, flags \in Me.flags :
       /\ ~InUse(p)
       /\ Do([A("open", h) EXCEPT !.p = p, !.flags = flags], LAMBDA x : open(x, p, flags), p)

CreateContiguous(h) ==
  /\ May("createContiguous") /\ NextObject(h)
  /\ \E p \in Me.paths, n \in Me.sizes \ {0} :
       /\ ~InUse(p)
       /\ Do([A("createContiguous", h) EXCEPT !.p = p, !.n = n],
             LAMBDA x : createContiguous(x, p, n), p)

\* Each call writes bytes of its own.
Write(h) ==
  /\ May("write") /\ Usable(h)
  /\ \E n \in Me.sizes \ {0} :
       LET data == [i \in 1 .. n |-> FirstByte + calls]
       IN  Do([A("write", h) EXCEPT !.data = data], LAMBDA x : write(x, data), path[h])

Read(h) ==
  /\ May("read") /\ Usable(h)
  /\ \E n \in Me.sizes \ {0} :
       Do([A("read", h) EXCEPT !.n = n], LAMBDA x : read(x, n), path[h])

Peek(h) ==
  May("peek") /\ Usable(h) /\ Do([A("peek", h) EXCEPT !.n = 1], peek, path[h])

Seek(h) ==
  /\ May("seek") /\ Usable(h)
  /\ \E n \in Me.sizes :
       Do([A("seek", h) EXCEPT !.n = n], LAMBDA x : seekSet(x, n), path[h])

Truncate(h) ==
  /\ May("truncate") /\ Usable(h)
  /\ \E n \in Me.sizes :
       Do([A("truncate", h) EXCEPT !.n = n], LAMBDA x : truncate(x, n), path[h])

Sync(h) == May("sync") /\ isOpen(file[h]) /\ Do(A("sync", h), sync, path[h])

Close(h) == isOpen(file[h]) /\ Do(A("close", h), close, <<>>)

RemoveFile(h) == May("remove") /\ Usable(h) /\ Do(A("remove", h), remove, path[h])

-------------------------------------------------------------------------------
(* Calls on a path, as SdFat makes them, while no object is open.          *)

AllClosed == \A h \in Handle : ~isOpen(file[h])

Mkdir ==
  /\ May("mkdir") /\ AllClosed
  /\ \E p \in Me.paths, pFlag \in BOOLEAN :
       Do([A("mkdir", 1) EXCEPT !.p = p, !.flags = IF pFlag THEN {"P"} ELSE {}],
          LAMBDA x : ByPath(x, LAMBDA y : mkdir(y, p, pFlag)), <<>>)

\* Open p and do Op with it.
With(x, p, Op(_)) ==
  ByPath(x, LAMBDA y : Then(IF p = <<>> THEN openRoot(y) ELSE open(y, p, {"READ"}), Op))

OnPath(op, p, Op(_)) ==
  May(op) /\ AllClosed /\ Do([A(op, 1) EXCEPT !.p = p], LAMBDA x : With(x, p, Op), <<>>)

Exists == \E p \in Me.paths : OnPath("exists", p, LAMBDA y : y)

\* SdFat::remove and SdFat::truncate open a file to write it.
RemovePath ==
  /\ May("removePath") /\ AllClosed
  /\ \E p \in Me.paths :
       Do([A("removePath", 1) EXCEPT !.p = p],
          LAMBDA x : ByPath(x, LAMBDA y : Then(open(y, p, {"WRITE"}), remove)), <<>>)

TruncatePath ==
  /\ May("truncatePath") /\ AllClosed
  /\ \E p \in Me.paths, n \in Me.sizes :
       Do([A("truncatePath", 1) EXCEPT !.p = p, !.n = n],
          LAMBDA x : ByPath(x, LAMBDA y :
            Then(open(y, p, {"WRITE"}), LAMBDA z : truncate(z, n))), <<>>)

Rmdir == \E p \in Me.paths : OnPath("rmdir", p, rmdir)

RmRf ==
  \E p \in Me.paths \cup {<<>>} :
    OnPath("rmRfStar", p, LAMBDA y : IF isDir(y) THEN rmRfStar(y) ELSE Fail(y))

ListAll(x) == IF isDir(x) THEN List([x EXCEPT !.pos = 0], <<>>) ELSE Fail(x)

Ls == \E p \in Me.paths \cup {<<>>} : OnPath("list", p, ListAll)

LsParent ==
  \E p \in Me.paths : OnPath("openParent", p, LAMBDA y : Then(openParent(y), ListAll))

Rename ==
  /\ May("rename") /\ AllClosed
  /\ \E p, to \in Me.paths :
       Do([A("rename", 1) EXCEPT !.p = p, !.to = to],
          LAMBDA x : With(x, p, LAMBDA y : rename(y, to)), <<>>)

-------------------------------------------------------------------------------
Init ==
  /\ use \in DOMAIN Programs
  /\ vol = Mounted(Prepare(use, Sound(Mounted(Formatted), Closed)).card)
  /\ file = AllShut /\ path = [h \in Handle |-> <<>>]
  /\ tree = TreeOf(Seen, file)
  /\ saved = [p \in {q \in DOMAIN tree : tree[q].kind = "file"} |-> tree[p].bytes]
  /\ last = NoCall /\ torn = {} /\ calls = 0

Next ==
  \/ \E h \in Handle :
       \/ Open(h) \/ CreateContiguous(h) \/ Write(h) \/ Read(h) \/ Peek(h) \/ Seek(h)
       \/ Truncate(h) \/ Sync(h) \/ Close(h) \/ RemoveFile(h)
  \/ Exists \/ RemovePath \/ TruncatePath \/ Mkdir \/ Rmdir \/ RmRf \/ Ls \/ LsParent \/ Rename

Spec == Init /\ [][Next]_vars

-------------------------------------------------------------------------------
(* Properties.                                                             *)

\* Types: what is open has an entry, and a position within its size unless a
\* write has failed; the cache is dirty only for a block it holds.
TypeOK ==
  /\ vol.blk \in Block \cup {None} /\ vol.dirty => vol.blk # None
  /\ vol.fat => vol.blk \in FatBlocks
  /\ vol.start \in Clusters \cup {m_clusterCount + 2}
  /\ \A h \in Handle :
       /\ file[h].type \in {"closed", "file"}
       /\ isOpen(file[h]) => /\ file[h].dblk \in m_rootDirStart .. m_dataStartBlock - 1 \cup Block
                             /\ file[h].first \in Clusters \cup {0}
                             /\ torn # {} \/ file[h].pos <= file[h].size

Chains(w) == {Chain(w, e[2].first) : e \in Everything(w, file)}

\* The chains of the FAT are sound: each ends, none loops, no two share a
\* cluster, and each is long enough for the bytes of its file (fatPut, addCluster,
\* freeChain and truncate, between two calls).
ChainsSound ==
  "card" \in torn \/
  LET w == Seen
      all == Everything(w, file)
  IN  /\ \A q \in all :
           LET chain == Chain(w, q[2].first)
               n == Len(chain) - 1
           IN  /\ isEOC(chain[Len(chain)]) /\ Cardinality(ClustersOf(chain)) = n
               /\ q[2].type = "file" => q[2].size <= n * m_blocksPerCluster * BlockSize
      /\ \A q, r \in all : q # r =>
           ClustersOf(Chain(w, q[2].first)) \cap ClustersOf(Chain(w, r[2].first)) = {}

\* Every cluster that is not free belongs to a file or a directory: nothing that
\* is truncated, removed or renamed leaves clusters behind.
NoLostClusters ==
  torn # {} \/
  LET w == Seen
  IN  Clusters \ Free(w) =
        UNION {ClustersOf(Chain(w, q[2].first)) : q \in Everything(w, file)}

\* The second copy of the FAT is like the first, but for the block that is in
\* the cache (cacheSync writes both).
FatsMirrored ==
  \A b \in FatBlocks :
    vol.card[b] = vol.card[Mirror(b)] \/ "card" \in torn
      \/ (vol.dirty /\ vol.blk = b)

\* A file made by createContiguous lies in blocks that follow one another, so
\* that contiguousRange finds room for all its bytes in them.
ContiguousInPlace ==
  last.op = "createContiguous" /\ last.ok =>
    LET x == contiguousRange(Sound(vol, file[last.h]))
    IN  x.ok /\ Cardinality(x.val) * BlockSize >= last.n

\* The volume is sound after every call, also one that has failed half way: its chains,
\* its free clusters, the copies of its FAT and the objects that are open on it fit.
VolumeIsSound ==
  TypeOK /\ ChainsSound /\ NoLostClusters /\ FatsMirrored /\ ContiguousInPlace

\* What was synced survives a failure of the power in a later call that does
\* not touch those bytes: the file is there with them at its beginning.
SyncedSurvives ==
  last.op = "power" =>
    \A p \in DOMAIN saved : p \in DOMAIN tree /\ IsPrefix(saved[p], tree[p].bytes)

\* An operation of the card that fails in a call leaves all files alone but the
\* one the call is made on.
OthersKept ==
  [][last'.op = "fault" =>
       \A p \in DOMAIN tree \ {path[last'.h], last'.p, last'.to} :
         p \in DOMAIN tree' /\ tree'[p] = tree[p]]_vars

\* The bytes of files that only the cache has: those of the block that is dirty.
Unwritten ==
  LET w == Seen
      files == {q \in Everything(w, file) : q[2].type = "file"}
      In(e) == LET chain == Chain(w, e.first)
               IN  {k \in Positions(chain, e) : vol.dirty /\ PlaceOf(chain, k) = vol.blk}
  IN  UNION {{q[1]} \X In(q[2]) : q \in files}

\* A read that may take several blocks with one command of the card.
SeveralBlocks(n) == USE_MULTI_BLOCK_SD_IO /\ n >= 2 * BlockSize

FS == INSTANCE FileSystem WITH
  tree <- tree, room <- freeClusterCount(Seen), last <- last, failed <- "card" \in torn,
  unwritten <- Unwritten,
  at <- [h \in Handle |->
           IF ~isOpen(file[h]) THEN [open |-> FALSE, path |-> <<>>, pos |-> 0, flags |-> {}]
           ELSE [open |-> TRUE, path |-> path[h], pos |-> file[h].pos, flags |-> file[h].flags]]

\* The calls do with the card, the cache and the objects what the file system
\* promises to do with paths and bytes.
ImplementsFileSystem == FS!Spec
===============================================================================
