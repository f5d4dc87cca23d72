------------------------------ MODULE SdBaseFile ------------------------------
(***************************************************************************)
(* Files and directories (SdBaseFile.cpp).  A file object is part of the   *)
(* record x:                                                               *)
(*    type          "closed", "file", "dir" (a subdirectory) or "root"     *)
(*    flags         the open flags kept (F_OFLAG)                          *)
(*    dd            F_FILE_DIR_DIRTY                                       *)
(*    dblk, didx    m_dirBlock and m_dirIndex                              *)
(*    first, size, pos, cl   m_firstCluster, m_fileSize, m_curPosition and *)
(*                  m_curCluster                                           *)
(* Sizes and positions count bytes of a file and entries of a directory,   *)
(* so that a block holds PerBlock(x) of them.  The root is the fixed one   *)
(* of FAT16.                                                               *)
(***************************************************************************)
EXTENDS SdVolume, TLC

CONSTANTS
  BlockSize,             \* bytes of a block (512)
  DirPerBlock,           \* directory entries of a block (16)
  m_rootDirStart, m_rootDirEntryCount,
  USE_MULTI_BLOCK_SD_IO

ASSUME FileAssumption ==
  /\ BlockSize \in Nat /\ DirPerBlock \in Nat /\ DirPerBlock > 2
  /\ BlockSize > 0 /\ BlockSize % DirPerBlock = 0
  /\ m_rootDirStart = m_fatStartBlock + m_fatCount * m_blocksPerFat
  /\ m_rootDirEntryCount \in Nat /\ m_rootDirEntryCount % DirPerBlock = 0
  /\ m_dataStartBlock = m_rootDirStart + m_rootDirEntryCount \div DirPerBlock

FileOf(x) == [type |-> x.type, flags |-> x.flags, dd |-> x.dd, dblk |-> x.dblk,
              didx |-> x.didx, first |-> x.first, size |-> x.size, pos |-> x.pos,
              cl |-> x.cl]
On(x, f)  == f @@ x                 \* the functions of f, called on the volume x

Root == [type |-> "root", flags |-> {"READ"}, dd |-> FALSE, dblk |-> 0,
         didx |-> 0, first |-> 0, size |-> m_rootDirEntryCount,
         pos |-> 0, cl |-> 0]
Closed == [Root EXCEPT !.type = "closed", !.flags = {}, !.size = 0]

\* A directory entry.  "free" ends the directory, "deleted" does not.
NoEntry == [name |-> "free", kind |-> "none", first |-> 0, size |-> 0]
EmptyDirBlock == [i \in 0 .. DirPerBlock - 1 |-> NoEntry]

\* Nothing stops a program from taking the bytes of a file for a directory: of each
\* entry the first byte tells whether it is in use, by no name that is asked for.
EntrySize == BlockSize \div DirPerBlock
HasEntries(b) == 0 \in DOMAIN b
AsEntries(b) ==
  IF HasEntries(b) THEN b
  ELSE [i \in 0 .. DirPerBlock - 1 |->
          LET bytes == SubSeq(b, i * EntrySize + 1, (i + 1) * EntrySize)
          IN  [NoEntry EXCEPT !.name = IF bytes[1] = 0 THEN "free" ELSE "bytes",
                              !.kind = "bytes", !.size = bytes]]

\* And back: a letter stands for the bytes of an entry.
Letter == 1
AsBytes(b) ==
  IF ~HasEntries(b) THEN b
  ELSE [k \in 1 .. BlockSize |->
          LET e == b[(k - 1) \div EntrySize]
          IN  IF e.kind = "bytes" THEN e.size[((k - 1) % EntrySize) + 1]
              ELSE IF e.name = "free" THEN 0 ELSE Letter]

isOpen(x) == x.type # "closed"
isDir(x)  == x.type \in {"dir", "root"}
PerBlock(x)   == IF isDir(x) THEN DirPerBlock ELSE BlockSize
PerCluster(x) == PerBlock(x) * m_blocksPerCluster
blockOfCluster(x) == (x.pos \div PerBlock(x)) % m_blocksPerCluster
Least(a, b) == IF a <= b THEN a ELSE b

-------------------------------------------------------------------------------
addCluster(x) ==
  Then(allocContiguous(x, 1), LAMBDA y :
    IF y.first # 0 THEN y ELSE [y EXCEPT !.first = y.cl, !.dd = TRUE])

\* Write zeros to the blocks of a new cluster of a directory but the first.
RECURSIVE ZeroBlocks(_, _, _)
ZeroBlocks(x, b, n) ==
  IF n = 0 \/ ~x.ok THEN x
  ELSE ZeroBlocks(writeBlock(x, b, EmptyDirBlock), b + 1, n - 1)

addDirCluster(x) ==
  Then(addCluster(x), LAMBDA y :
  Then(cacheFetch(y, clusterStartBlock(y.cl), "reserve"), LAMBDA z :
  Then(ZeroBlocks([z EXCEPT !.buf = EmptyDirBlock], clusterStartBlock(z.cl) + 1,
                  m_blocksPerCluster - 1), LAMBDA w :
       [w EXCEPT !.size = @ + PerCluster(w)])))

cacheDirEntry(x, action) == cacheFetch(x, x.dblk, action)

\* Change the entry that is in the cache.
PutEntry(x, i, entry) == [x EXCEPT !.buf[i] = entry]

-------------------------------------------------------------------------------
(* seekSet follows the chain from the current cluster if it can.           *)

RECURSIVE FollowChain(_, _)
FollowChain(x, n) ==
  IF n = 0 \/ ~x.ok THEN x
  ELSE FollowChain(Then(fatGet(x, x.cl), LAMBDA y : [y EXCEPT !.cl = y.val]), n - 1)

seekSet(x, to) ==
  IF ~isOpen(x) \/ to > x.size THEN Fail(x)
  ELSE IF x.type = "root" THEN [x EXCEPT !.pos = to]
  ELSE IF to = 0 THEN [x EXCEPT !.pos = 0, !.cl = 0]
  ELSE LET nCur == (x.pos - 1) \div PerCluster(x)
           nNew == (to - 1) \div PerCluster(x)
           back == nNew < nCur \/ x.pos = 0
           from == IF back THEN [x EXCEPT !.cl = x.first] ELSE x
       IN  Then(FollowChain(from, IF back THEN nNew ELSE nNew - nCur),
                LAMBDA y : [y EXCEPT !.pos = to])

seekEnd(x) == seekSet(x, x.size)

\* Mutant: the entry is changed in the cache only.
syncInCache(x) ==
  IF ~isOpen(x) THEN Fail(x)
  ELSE IF ~x.dd THEN x
  ELSE Then(cacheDirEntry(x, "write"), LAMBDA y :
       [PutEntry(y, y.didx, [y.buf[y.didx] EXCEPT !.first = y.first, !.size = y.size])
        EXCEPT !.dd = FALSE])

\* The modified entry goes to the card, and with it all that is cached.
sync(x) ==
  IF ~isOpen(x) THEN Fail(x)
  ELSE IF ~x.dd THEN cacheSync(x)
  ELSE Then(cacheDirEntry(x, "write"), LAMBDA y :
       IF y.buf[y.didx].name = "deleted" THEN Fail(y)
       ELSE cacheSync([PutEntry(y, y.didx,
                         [y.buf[y.didx] EXCEPT !.first = y.first,
                                               !.size = IF isDir(y) THEN @ ELSE y.size])
                       EXCEPT !.dd = FALSE]))

close(x) == [sync(x) EXCEPT !.type = "closed"]

-------------------------------------------------------------------------------
(* read: the cluster of the position, and then block by block, through the *)
(* cache for a part of a block or a block that is in it, else past it.     *)

ToCluster(x) ==
  IF x.type = "root" \/ x.pos % PerCluster(x) # 0 THEN x
  ELSE IF x.pos = 0 THEN [x EXCEPT !.cl = x.first]
  ELSE Then(fatGet(x, x.cl), LAMBDA y : [y EXCEPT !.cl = y.val])

BlockAt(x) == IF x.type = "root" THEN m_rootDirStart + x.pos \div DirPerBlock
              ELSE clusterStartBlock(x.cl) + blockOfCluster(x)

\* Several blocks with one command of the card: the bytes of nb blocks.
RECURSIVE readBlocks(_, _, _, _)
readBlocks(x, b, nb, got) ==
  IF nb = 0 THEN [x EXCEPT !.val = got]
  ELSE Then(readBlock(x, b), LAMBDA y : readBlocks(y, b + 1, nb - 1, got \o y.val))

\* The cache is flushed if its block is at or before the first one that is
\* read, by less than nb.
ReadMulti(x, b, nb) ==
  Then(IF x.blk <= b /\ b < x.blk + nb THEN cacheSync(x) ELSE x,
       LAMBDA y : readBlocks(y, b, nb, <<>>))

\* What one turn of the loop reads.
ReadPart(x, b, off, n) ==
  IF off # 0 \/ n < PerBlock(x) \/ b = x.blk
    THEN Then(cacheFetch(x, b, "read"), LAMBDA y :
              [y EXCEPT !.val = SubSeq(y.buf, off + 1, off + Least(PerBlock(x) - off, n))])
  ELSE IF ~USE_MULTI_BLOCK_SD_IO \/ n < 2 * PerBlock(x)
    THEN readBlocks(x, b, 1, <<>>)
  ELSE ReadMulti(x, b, Least(n \div PerBlock(x), m_blocksPerCluster - blockOfCluster(x)))

RECURSIVE ReadBytes(_, _, _)
ReadBytes(x, n, got) ==
  IF n = 0 THEN [x EXCEPT !.val = got]
  ELSE Then(ToCluster(x), LAMBDA y :
       Then(ReadPart(y, BlockAt(y), y.pos % PerBlock(y), n), LAMBDA z :
            ReadBytes([z EXCEPT !.pos = @ + Len(z.val)], n - Len(z.val), got \o z.val)))

\* read() delivers the bytes in val.  The size less the position is a number
\* without sign: a position beyond the end bounds nothing.
read(x, n) ==
  IF ~isOpen(x) \/ "READ" \notin x.flags THEN Fail(x)
  ELSE ReadBytes(x, IF x.pos > x.size THEN n ELSE Least(n, x.size - x.pos), <<>>)

\* getpos and setpos put the position and the cluster back.
peek(x) ==
  Then(read(x, 1), LAMBDA y : IF y.val = <<>> THEN y ELSE [y EXCEPT !.pos = x.pos, !.cl = x.cl])

\* read() of a directory: the block of the next entry is in the cache.
readDirCache(x) ==
  IF ~isDir(x) THEN Fail(x)
  ELSE IF x.pos >= x.size THEN Fail(x)
  ELSE Then(ToCluster(x), LAMBDA y :
       Then(cacheFetch(y, BlockAt(y), "read"), LAMBDA z :
            [z EXCEPT !.pos = @ + 1, !.val = z.buf[x.pos % DirPerBlock]]))

-------------------------------------------------------------------------------
(* write.                                                                  *)

\* The cluster for the next byte: the next one of the chain, or a new one.
WriteCluster(x) ==
  IF x.pos % PerCluster(x) # 0 THEN x
  ELSE IF x.cl # 0
    THEN Then(fatGet(x, x.cl), LAMBDA y :
              IF isEOC(y.val) THEN addCluster(y) ELSE [y EXCEPT !.cl = y.val])
  ELSE IF x.first = 0 THEN addCluster(x) ELSE [x EXCEPT !.cl = x.first]

\* Mutant: the cache keeps a block that is written past it.
RECURSIVE writeBlocksCached(_, _, _, _)
writeBlocksCached(x, b, nb, src) ==
  IF nb = 0 \/ ~x.ok THEN x
  ELSE writeBlocksCached(writeBlock(x, b, SubSeq(src, 1, BlockSize)),
                         b + 1, nb - 1, SubSeq(src, BlockSize + 1, Len(src)))

\* Blocks of bytes are written past the cache, which forgets them.
RECURSIVE writeBlocks(_, _, _, _)
writeBlocks(x, b, nb, src) ==
  IF nb = 0 \/ ~x.ok THEN x
  ELSE LET y == IF x.blk = b THEN cacheInvalidate(x) ELSE x
       IN  writeBlocks(writeBlock(y, b, SubSeq(src, 1, BlockSize)),
                       b + 1, nb - 1, SubSeq(src, BlockSize + 1, Len(src)))

\* What a reserved buffer held before: it is behind the end of the file.
Unread == [i \in 1 .. BlockSize |-> 0]

WritePart(x, b, off, part, src) ==
  LET option == IF off = 0 /\ x.pos >= x.size THEN "reserve" ELSE "write"
  IN  Then(cacheFetch(x, b, option), LAMBDA y :
      LET old == IF option = "reserve" THEN Unread ELSE y.buf
          new == SubSeq(old, 1, off) \o SubSeq(src, 1, part)
                   \o SubSeq(old, off + part + 1, BlockSize)
      IN  IF off + part = BlockSize THEN cacheSync([y EXCEPT !.buf = new])
          ELSE [y EXCEPT !.buf = new])

RECURSIVE WriteBytes(_, _)
WriteBytes(x, src) ==
  IF src = <<>> \/ ~x.ok THEN x
  ELSE Then(WriteCluster(x), LAMBDA y :
       LET off == y.pos % BlockSize
           nb  == IF ~USE_MULTI_BLOCK_SD_IO THEN 1
                  ELSE Least(Len(src) \div BlockSize,
                             m_blocksPerCluster - blockOfCluster(y))
           whole == off = 0 /\ Len(src) >= BlockSize
           n == IF whole THEN nb * BlockSize ELSE Least(BlockSize - off, Len(src))
       IN  Then(IF whole THEN writeBlocks(y, BlockAt(y), nb, src)
                ELSE WritePart(y, BlockAt(y), off, n, src),
                LAMBDA z : WriteBytes([z EXCEPT !.pos = @ + n],
                                      SubSeq(src, n + 1, Len(src)))))

write(x, src) ==
  IF x.type # "file" \/ "WRITE" \notin x.flags THEN Fail(x)
  ELSE Then(IF "APPEND" \in x.flags /\ x.pos # x.size THEN seekEnd(x) ELSE x, LAMBDA y :
       Then(WriteBytes(y, src), LAMBDA z :
       Then(IF z.pos > z.size THEN [z EXCEPT !.size = z.pos, !.dd = TRUE] ELSE z,
            LAMBDA w : IF "SYNC" \in w.flags THEN sync(w) ELSE w)))

-------------------------------------------------------------------------------
truncate(x, length) ==
  IF x.type # "file" \/ "WRITE" \notin x.flags \/ length > x.size THEN Fail(x)
  ELSE IF x.size = 0 THEN x
  ELSE Then(seekSet(x, length), LAMBDA last :
       Then(IF length = 0
              THEN Then(freeChain(last, last.first), LAMBDA y : [y EXCEPT !.first = 0])
            ELSE Then(fatGet(last, last.cl), LAMBDA y :
                 IF isEOC(y.val) THEN y
                 ELSE Then(freeChain(y, y.val), LAMBDA z : fatPutEOC(z, z.cl))),
            LAMBDA cut :
       Then(sync([cut EXCEPT !.size = length, !.dd = TRUE]), LAMBDA z :
            seekSet(z, Least(x.pos, length)))))

remove(x) ==
  Then(truncate(x, 0), LAMBDA y :
  Then(cacheDirEntry(y, "write"), LAMBDA z :
       cacheSync([PutEntry(z, z.didx, [z.buf[z.didx] EXCEPT !.name = "deleted"])
                  EXCEPT !.type = "closed"])))

-------------------------------------------------------------------------------
(* open.                                                                   *)

openRoot(x) == On(x, Root)

\* setDirSize: the clusters of the chain, counted.
RECURSIVE setDirSize(_, _, _)
setDirSize(x, c, s) ==
  Then(fatGet(x, c), LAMBDA y :
    IF s >= m_clusterCount THEN Fail(y)
    ELSE IF isEOC(y.val)
      THEN [y EXCEPT !.size = (s + 1) * m_blocksPerCluster * DirPerBlock]
    ELSE setDirSize(y, y.val, s + 1))

\* A file object that could not be opened stays closed.
OrClosed(x) == IF x.ok THEN x ELSE [x EXCEPT !.type = "closed"]

openCachedEntry(x, i, oflag) ==
  LET e == x.buf[i]
      f == [Root EXCEPT !.dblk = x.blk, !.didx = i, !.first = e.first,
                        !.flags = oflag \cap {"READ", "WRITE", "APPEND", "SYNC"},
                        !.type = e.kind, !.size = e.size]
      sized == IF e.kind = "dir" THEN setDirSize(On(x, f), e.first, 0) ELSE On(x, f)
  IN  IF e.kind = "none" \/ (e.kind = "dir" /\ oflag \cap {"WRITE", "TRUNC"} # {})
        THEN OrClosed(Fail(x))
      ELSE After(Then(sized, LAMBDA y : IF "TRUNC" \in oflag THEN truncate(y, 0) ELSE y),
           LAMBDA cut : IF ~cut.ok THEN OrClosed(cut)
                        ELSE IF "AT_END" \in oflag THEN seekEnd(cut) ELSE cut)

\* The loop over a directory: the entry called name, or where the directory
\* ends; and the first entry that is not in use.
RECURSIVE Search(_, _, _)
Search(d, name, empty) ==
  IF d.pos >= d.size THEN [d EXCEPT !.val = [found |-> FALSE, empty |-> empty]]
  ELSE Then(Then(ToCluster(d), LAMBDA z : cacheFetch(z, BlockAt(z), "read")), LAMBDA y :
       LET I == 0 .. DirPerBlock - 1
           entry == AsEntries(y.buf)
           stops == {i \in I : entry[i].name \in {"free", name}}
           last  == IF stops = {} THEN DirPerBlock ELSE CHOOSE i \in stops :
                                                          \A j \in stops : i <= j
           unused == {i \in I : i <= last /\ entry[i].name \in {"free", "deleted"}}
           e == IF empty # <<>> \/ unused = {} THEN empty
                ELSE <<y.blk, CHOOSE i \in unused : \A j \in unused : i <= j>>
       IN  IF stops = {}
             THEN Search([y EXCEPT !.pos = @ + PerBlock(y)], name, e)
           ELSE [y EXCEPT !.val = [found |-> entry[last].name = name,
                                   index |-> last, empty |-> e]])

NewEntry(name) == [NoEntry EXCEPT !.name = name, !.kind = "file"]

\* open by name in the directory d.  A new entry goes to the first unused one
\* or, in a subdirectory, to a new cluster.  That d is a directory is not asked.
openIn(x, d, name, oflag) ==
  LET Create(y, i) == Then(y, LAMBDA z :
        cacheSync(PutEntry([z EXCEPT !.buf = AsEntries(@)], i, NewEntry(name))))
      At(y, i) == [y EXCEPT !.val = i]
      OrNew(s) ==
        IF s.val.found
          THEN IF "EXCL" \in oflag THEN Fail(s) ELSE At(s, s.val.index)
        ELSE IF ~({"CREAT", "WRITE"} \subseteq oflag)
                  \/ (s.val.empty = <<>> /\ d.type = "root")
          THEN Fail(s)
        ELSE IF s.val.empty # <<>>
          THEN At(Create(cacheFetch(s, s.val.empty[1], "write"), s.val.empty[2]),
                  s.val.empty[2])
        ELSE At(Create(addDirCluster(s), 0), 0)
  IN  After(Then(Search([On(x, d) EXCEPT !.pos = 0, !.cl = 0], name, <<>>), OrNew),
        LAMBDA y : IF y.ok THEN openCachedEntry(y, y.val, oflag) ELSE OrClosed(y))

\* A file becomes a directory: a cluster of its own, with "." and "..".
mkdirIn(x, d, name) ==
  IF ~isDir(d) THEN OrClosed(Fail(x)) ELSE
  Then(openIn(x, d, name, {"CREAT", "EXCL", "READ", "WRITE"}), LAMBDA y :
  Then(addDirCluster([y EXCEPT !.flags = {"READ"}, !.type = "dir", !.size = 0]), LAMBDA z :
  Then(sync(z), LAMBDA w :
  Then(cacheDirEntry(w, "write"), LAMBDA e :
  LET entry == [e.buf[e.didx] EXCEPT !.kind = "dir"]
      up == IF d.type = "root" THEN 0 ELSE d.first
  IN  Then(cacheFetch(PutEntry(e, e.didx, entry), clusterStartBlock(e.first), "write"),
           LAMBDA b :
             cacheSync(PutEntry(PutEntry(b, 0, [entry EXCEPT !.name = "."]),
                                1, [entry EXCEPT !.name = "..", !.first = up])))))))

\* The directory a path leads to, in the file fields; pFlag: a directory that
\* is missing is made.  The last one but one is closed, whatever comes of it.
RECURSIVE Walk(_, _, _)
Walk(x, path, pFlag) ==
  IF Len(path) = 1 \/ ~x.ok THEN x
  ELSE After(openIn(x, FileOf(x), path[1], {"READ"}), LAMBDA found :
       After(IF found.ok \/ ~pFlag THEN found
             ELSE mkdirIn([found EXCEPT !.ok = TRUE], FileOf(x), path[1]), LAMBDA y :
         Walk(IF y.ok /\ x.type # "root" THEN [cacheSync(y) EXCEPT !.ok = TRUE] ELSE y,
              Tail(path), pFlag)))

open(x, path, oflag) ==
  After(Walk(openRoot(x), path, FALSE), LAMBDA d :
    IF d.ok THEN openIn(d, FileOf(d), path[Len(path)], oflag) ELSE OrClosed(d))

mkdir(x, path, pFlag) ==
  After(Walk(openRoot(x), path, pFlag), LAMBDA d :
    IF d.ok THEN mkdirIn(d, FileOf(d), path[Len(path)]) ELSE OrClosed(d))

createContiguous(x, path, size) ==
  Then(open(x, path, {"CREAT", "EXCL", "READ", "WRITE"}), LAMBDA y :
  After(allocContiguous([y EXCEPT !.cl = y.first], (size - 1) \div PerCluster(y) + 1),
        LAMBDA z :
    IF ~z.ok THEN Fail(remove([z EXCEPT !.ok = TRUE, !.cl = 0]))
    ELSE sync([z EXCEPT !.first = z.cl, !.cl = 0, !.size = size, !.dd = TRUE])))

\* contiguousRange: the blocks of a file that lies in clusters that follow one
\* another, in val.
RECURSIVE Follows(_, _)
Follows(x, c) ==
  Then(fatGet(x, c), LAMBDA y :
    IF y.val = c + 1 THEN Follows(y, c + 1)
    ELSE IF ~isEOC(y.val) THEN Fail(y)
    ELSE [y EXCEPT !.val = clusterStartBlock(y.first)
                             .. clusterStartBlock(c) + m_blocksPerCluster - 1])
contiguousRange(x) == IF x.first = 0 THEN Fail(x) ELSE Follows(x, x.first)

\* openNext: the next file or directory of the directory x, and the directory,
\* whose position has moved, in val.
RECURSIVE openNext(_, _)
openNext(x, oflag) ==
  Then(readDirCache(x), LAMBDA y :
    IF y.val.name = "free" THEN Fail(y)
    ELSE IF y.val.name \in {"deleted", ".", ".."} THEN openNext(y, oflag)
    ELSE [openCachedEntry(y, x.pos % DirPerBlock, oflag)
          EXCEPT !.val = [dir |-> FileOf(y), name |-> y.val.name]])

\* The loop of a program that lists the directory x, in val.
RECURSIVE List(_, _)
List(x, names) ==
  After(openNext(x, {"READ"}), LAMBDA y :
    IF ~y.ok THEN [x EXCEPT !.val = names]
    ELSE List(On(y, y.val.dir), Append(names, y.val.name)))

-------------------------------------------------------------------------------
(* Directories.                                                            *)

\* Whether a directory has entries, in val.
RECURSIVE Occupied(_)
Occupied(x) ==
  IF x.pos >= x.size THEN [x EXCEPT !.val = FALSE]
  ELSE Then(readDirCache(x), LAMBDA y :
       IF y.val.name = "free" THEN [y EXCEPT !.val = FALSE]
       ELSE IF y.val.name \in {"deleted", ".", ".."} THEN Occupied(y)
       ELSE [y EXCEPT !.val = TRUE])

rmdir(x) ==
  IF x.type # "dir" THEN Fail(x)
  ELSE Then(Occupied([x EXCEPT !.pos = 0, !.cl = 0]), LAMBDA y :
       IF y.val THEN Fail(y)
       ELSE remove([y EXCEPT !.type = "file", !.flags = @ \cup {"WRITE"}]))

\* rmRfStar: everything in a directory, subdirectories too, and then itself.
RECURSIVE rmRfStar(_)
RECURSIVE RemoveFrom(_, _)
RemoveFrom(x, i) ==
  IF ~x.ok \/ i >= x.size THEN x
  ELSE Then(Then(seekSet(x, i), readDirCache), LAMBDA y :
       IF y.val.name = "free" THEN y
       ELSE After(IF y.val.name \in {"deleted", ".", ".."} THEN y
                  ELSE Then(openCachedEntry(y, i % DirPerBlock, {"READ"}), LAMBDA f :
                       IF f.type = "dir" THEN rmRfStar(f)
                       ELSE remove([f EXCEPT !.flags = @ \cup {"WRITE"}])),
            LAMBDA g : RemoveFrom(On(g, FileOf(y)), i + 1)))
rmRfStar(x) ==
  Then(RemoveFrom([x EXCEPT !.pos = 0, !.cl = 0], 0), LAMBDA y :
       IF y.type = "root" THEN y ELSE rmdir(y))

\* openParent: by "..", and then by the search for its cluster in "../..".
RECURSIVE FindCluster(_, _)
FindCluster(x, c) ==
  Then(readDirCache(x), LAMBDA y :
    IF y.val.name = "free" THEN Fail(y)
    ELSE IF y.val.name \notin {"deleted", ".", ".."} /\ y.val.first = c
      THEN openCachedEntry(y, x.pos % DirPerBlock, {"READ"})
    ELSE FindCluster(y, c))

openParent(x) ==
  IF x.type # "dir" THEN Fail(x)
  ELSE Then(seekSet(x, 1), LAMBDA s :
  Then(readDirCache(s), LAMBDA y :
  LET c == y.val.first
  IN  IF y.val.name # ".." THEN Fail(y)
      ELSE IF c = 0 THEN openRoot(y)
      ELSE Then(cacheFetch(y, clusterStartBlock(c), "read"), LAMBDA z :
           IF z.buf[1].name # ".." THEN Fail(z)
           ELSE FindCluster(IF z.buf[1].first = 0 THEN openRoot(z)
                            ELSE openCachedEntry(z, 1, {"READ"}), c))))

-------------------------------------------------------------------------------
(* rename: the old entry is marked deleted in the cache, the new one made, *)
(* and what the old one said copied to it; a directory gets the ".." of    *)
(* its new place.                                                          *)
Unmark(x, name) ==
  Fail(Then(cacheDirEntry([x EXCEPT !.ok = TRUE], "write"), LAMBDA y :
       cacheSync(PutEntry(y, y.didx, [y.buf[y.didx] EXCEPT !.name = name]))))

\* The new entry of x, which has been made for the file or directory made, says what
\* the old one said.
CopyEntry(x, made, entry) ==
  Then(cacheDirEntry([x EXCEPT !.dblk = made.dblk, !.didx = made.didx], "write"), LAMBDA y :
       PutEntry(y, y.didx, [entry EXCEPT !.name = y.buf[y.didx].name]))

\* The cluster of the new directory is given back, and its ".." put into the old one.
MoveUp(x, first) ==
  Then(cacheFetch(x, clusterStartBlock(first), "read"), LAMBDA y :
  Then(freeChain(y, first), LAMBDA z :
  Then(cacheFetch(z, clusterStartBlock(z.first), "write"), LAMBDA w :
       PutEntry(w, 1, y.buf[1]))))

rename(x, path) ==
  IF x.type \notin {"file", "dir"} THEN Fail(x)
  ELSE Then(cacheDirEntry([sync(x) EXCEPT !.ok = TRUE], "write"), LAMBDA d :
       LET entry  == d.buf[d.didx]
           marked == PutEntry(d, d.didx, [entry EXCEPT !.name = "deleted"])
       IN  After(IF x.type = "file" THEN open(marked, path, {"CREAT", "EXCL", "WRITE"})
                 ELSE mkdir(marked, path, FALSE), LAMBDA made :
           IF ~made.ok THEN Unmark(On(made, FileOf(d)), entry.name)
           ELSE Then(CopyEntry(On(made, FileOf(d)), made, entry), LAMBDA y :
                Then(IF x.type = "file" THEN y ELSE MoveUp(y, made.first), cacheSync))))
===============================================================================
