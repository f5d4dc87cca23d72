------------------------------- MODULE SdVolume -------------------------------
(***************************************************************************)
(* The FAT of a volume (SdVolume.cpp): fatGet and fatPut through the block *)
(* cache, the search for free clusters and the freeing of chains.          *)
(*                                                                         *)
(* x has the further fields                                                *)
(*    cl      the cluster a caller hands over by reference                 *)
(*    start   m_allocSearchStart                                           *)
(* A FAT block is a function from the numbers of its entries to clusters.  *)
(***************************************************************************)
EXTENDS BlockCache, Sequences, FiniteSets

CONSTANTS
  m_clusterCount,
  EntriesPerFatBlock,    \* 256 for FAT16
  m_dataStartBlock, m_blocksPerCluster,
  EOC                    \* end of a chain

Clusters == 2 .. m_clusterCount + 1

ASSUME VolumeAssumption ==
  /\ m_clusterCount \in Nat \ {0} /\ EntriesPerFatBlock \in Nat \ {0}
  /\ m_blocksPerCluster \in Nat \ {0}
  /\ m_blocksPerFat * EntriesPerFatBlock >= m_clusterCount + 2
  /\ m_dataStartBlock >= m_fatStartBlock + m_fatCount * m_blocksPerFat
  /\ EOC \in Nat /\ EOC > m_clusterCount + 1

isEOC(c) == c >= EOC

clusterStartBlock(c) == m_dataStartBlock + (c - 2) * m_blocksPerCluster

FatBlockOf(c) == m_fatStartBlock + c \div EntriesPerFatBlock
FatIndexOf(c) == c % EntriesPerFatBlock

\* The entry of cluster c is delivered in val.
fatGet(x, c) ==
  IF c \notin Clusters THEN Fail(x)
  ELSE Then(cacheFetchFat(x, FatBlockOf(c), "read"),
            LAMBDA y : [y EXCEPT !.val = y.buf[FatIndexOf(c)]])

fatPut(x, c, value) ==
  IF c \notin Clusters THEN Fail(x)
  ELSE Then(cacheFetchFat(x, FatBlockOf(c), "write"),
            LAMBDA y : [y EXCEPT !.buf[FatIndexOf(c)] = value])

fatPutEOC(x, c) == fatPut(x, c, EOC)

-------------------------------------------------------------------------------
(* allocContiguous: the loop over the FAT has looked at n entries and at a *)
(* group from bgn on; hole says that it has met a cluster in use, so that  *)
(* the place to start the next search from is not moved.                   *)

RECURSIVE FindFree(_, _, _, _, _, _)
FindFree(x, count, n, bgn, end, hole) ==
  IF n >= m_clusterCount THEN Fail(x)
  ELSE LET wraps == end > m_clusterCount + 1
           b == IF wraps THEN 2 ELSE bgn
           e == IF wraps THEN 2 ELSE end
       IN  Then(fatGet(x, e), LAMBDA y :
             IF y.val # 0
               THEN FindFree(y, count, n + 1, e + 1, e + 1, hole \/ b # e)
             ELSE IF e - b + 1 = count
               THEN [y EXCEPT !.val = [bgn |-> b, end |-> e, hole |-> hole]]
             ELSE FindFree(y, count, n + 1, b, e + 1, hole))

\* The group is linked from its end to its beginning.
RECURSIVE Link(_, _, _)
Link(x, bgn, end) ==
  IF end <= bgn \/ ~x.ok THEN x
  ELSE Link(fatPut(x, end - 1, end), bgn, end - 1)

\* The group [bgn, end] is taken: its end, its links, and its beginning in cl.
Take(x, group) ==
  Then(fatPutEOC(IF group.hole THEN x ELSE [x EXCEPT !.start = group.end + 1], group.end),
       LAMBDA y : Link(y, group.bgn, group.end))

FirstTry(x) == IF x.cl = 0 THEN x.start ELSE x.cl + 1

\* Mutant: the new group is not connected with the chain.
AllocUnconnected(x, count) ==
  Then(FindFree(x, count, 0, FirstTry(x), FirstTry(x), x.cl # 0), LAMBDA found :
  Then(Take(found, found.val), LAMBDA y : [y EXCEPT !.cl = found.val.bgn]))

allocContiguous(x, count) ==
  Then(FindFree(x, count, 0, FirstTry(x), FirstTry(x), x.cl # 0), LAMBDA found :
  Then(Take(found, found.val), LAMBDA y :
  Then(IF x.cl = 0 THEN y ELSE fatPut(y, x.cl, found.val.bgn), LAMBDA z :
       [z EXCEPT !.cl = found.val.bgn])))

RECURSIVE freeChain(_, _)
freeChain(x, c) ==
  Then(fatGet(x, c), LAMBDA got :
  Then(fatPut(got, c, 0), LAMBDA put :
  After([put EXCEPT !.start = IF c < @ THEN c ELSE @], LAMBDA freed :
    IF isEOC(got.val) THEN freed ELSE freeChain(freed, got.val))))

-------------------------------------------------------------------------------
(* What the FAT of a view w says.                                          *)

Entry(w, c) == w[FatBlockOf(c)][FatIndexOf(c)]

Free(w) == {c \in Clusters : Entry(w, c) = 0}

\* freeClusterCount counts the entries, those of the clusters 0 and 1 too,
\* which are never 0.
freeClusterCount(w) == Cardinality(Free(w))

\* The clusters of the chain that begins at c: at most as many as there are,
\* and EOC at its end, or something else where the chain is broken.
RECURSIVE ChainFrom(_, _, _)
ChainFrom(w, c, fuel) ==
  IF c \notin Clusters \/ fuel = 0 THEN <<c>>
  ELSE <<c>> \o ChainFrom(w, Entry(w, c), fuel - 1)

Chain(w, c) == IF c = 0 THEN <<EOC>> ELSE ChainFrom(w, c, m_clusterCount)

ClustersOf(chain) == {chain[i] : i \in 1 .. Len(chain) - 1}
===============================================================================
