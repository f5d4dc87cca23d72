------------------------------ MODULE BlockCache ------------------------------
(***************************************************************************)
(* The block cache of SdVolume (SdVolume.cpp): one block of the card is    *)
(* kept in memory and is written back when another one is wanted, or by    *)
(* cacheSync; a block of the FAT is then written to both copies of the FAT.*)
(*                                                                         *)
(* The functions of the library are operators on a record x of everything  *)
(* they read and write.  Here that is                                      *)
(*    card    what the card holds, block by block                          *)
(*    blk     m_cacheBlockNumber                                           *)
(*    buf     m_cacheBuffer                                                *)
(*    dirty, fat   the two bits of m_cacheStatus                           *)
(*    left    how many operations of the card succeed before one fails, or *)
(*            Works or Dead                                                *)
(*    after   what left is after that: Works or Dead                       *)
(*    val     what the last read delivered                                 *)
(*    ok      the function has not gone to its label fail                  *)
(* and the modules that extend this one add the fields they need.          *)
(***************************************************************************)
EXTENDS Integers

CONSTANTS
  m_fatStartBlock, m_blocksPerFat, m_fatCount,
  Block                  \* the blocks of the card

None == -1               \* 0XFFFFFFFF, the number of no block

Works == -1              \* every operation of the card succeeds
Dead  == -2              \* none does

ASSUME CacheAssumption ==
  /\ Block \subseteq Nat
  /\ m_fatStartBlock \in Nat /\ m_blocksPerFat \in Nat \ {0}
  /\ m_fatCount \in {1, 2}
  /\ m_fatStartBlock .. m_fatStartBlock + m_fatCount * m_blocksPerFat - 1
       \subseteq Block

FatBlocks == m_fatStartBlock .. m_fatStartBlock + m_blocksPerFat - 1
Mirror(b) == b + m_blocksPerFat

\* One function after another, unless the first has failed.
Then(x, Op(_)) == IF x.ok THEN Op(x) ELSE x

\* One function after another, even if the first has failed.
After(x, Op(_)) == Op(x)

Fail(x) == [x EXCEPT !.ok = FALSE]

CardFails(x) == x.left \in {0, Dead}
Failed(x) == [x EXCEPT !.left = x.after, !.ok = FALSE]
Left(n)   == IF n = Works THEN n ELSE n - 1

readBlock(x, b) ==
  IF CardFails(x) THEN Failed(x)
  ELSE [x EXCEPT !.left = Left(@), !.val = x.card[b]]

writeBlock(x, b, data) ==
  IF CardFails(x) THEN Failed(x)
  ELSE [x EXCEPT !.left = Left(@), !.card[b] = data]

cacheSync(x) ==
  IF ~x.dirty THEN x
  ELSE Then(writeBlock(x, x.blk, x.buf), LAMBDA y :
       Then(IF x.fat /\ m_fatCount > 1 THEN writeBlock(y, Mirror(x.blk), x.buf) ELSE y,
            LAMBDA z : [z EXCEPT !.dirty = FALSE]))

\* Mutant: the old block is given up even if it could not be written.
ReplaceAnyway(x, b, option) ==
  Then(readBlock([cacheSync(x) EXCEPT !.ok = TRUE], b), LAMBDA y :
       [y EXCEPT !.blk = b, !.dirty = FALSE, !.fat = FALSE, !.buf = y.val])

\* A read that fails leaves the buffer: as the library is configured (USE_SD_CRC 0, the
\* SPI of an AVR) nothing can fail once the data of a block come in (Sd2Card::readData).
\* options of cacheFetch: "read", "write" and "reserve", which leaves in the
\* buffer what was there; isFat is CACHE_STATUS_FAT_BLOCK.
Replace(x, b, option) ==
  Then(cacheSync(x), LAMBDA y :
  Then(IF option = "reserve" THEN y ELSE readBlock(y, b), LAMBDA z :
       [z EXCEPT !.blk = b, !.dirty = FALSE, !.fat = FALSE,
                 !.buf = IF option = "reserve" THEN @ ELSE z.val]))

cacheFetchAs(x, b, option, isFat) ==
  Then(IF x.blk = b THEN x ELSE Replace(x, b, option),
       LAMBDA y : [y EXCEPT !.dirty = @ \/ option # "read", !.fat = @ \/ isFat])

cacheFetch(x, b, option)    == cacheFetchAs(x, b, option, FALSE)
cacheFetchFat(x, b, option) == cacheFetchAs(x, b, option, TRUE)

cacheInvalidate(x) == [x EXCEPT !.blk = None, !.dirty = FALSE, !.fat = FALSE]

\* What the program finds on the card: the cached block goes before the card.
View(x) == [b \in Block |-> IF b = x.blk THEN x.buf ELSE x.card[b]]
===============================================================================
