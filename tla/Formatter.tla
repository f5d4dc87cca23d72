------------------------------- MODULE Formatter -------------------------------
(***************************************************************************)
(* The sketch that erases and formats a card (SdFormatter.ino), and        *)
(* SdVolume::init, which mounts what it has written.  A card of the model  *)
(* is the blocks that matter: the master boot record in block 0, the boot  *)
(* sector of the volume and the copy of FAT32, the area that has been      *)
(* filled with zeros, and the heads of the FATs.                           *)
(*                                                                         *)
(* The card may fail at each write, also in the middle of a step that      *)
(* writes several blocks; the sketch then stops for good.                  *)
(***************************************************************************)
EXTENDS Integers

CONSTANTS
  Registers,             \* contents of the register CSD
  BU16, BU32,            \* units that the data of a volume begins at
  ERASE_SIZE

\* An SDHC card has room for a few units (the standard's smallest has 2 GB), and a card
\* has no more than 1 TB: the 32 bit block numbers of the sketch are then exact.
ASSUME FormatterAssumption ==
  /\ BU16 \in 1 .. 2^10 /\ BU32 \in 1 .. 2^13 /\ ERASE_SIZE \in 1 .. 2^30
  /\ \A csd \in Registers :
       \/ csd.csd_ver = 0 /\ csd.c_size \in 0 .. 2^12 - 1 /\ csd.c_size_mult \in 0 .. 7
            /\ csd.read_bl_len \in 9 .. 11
       \/ csd.csd_ver = 1 /\ csd.c_size \in 0 .. 2^21 - 1
            /\ 4 * BU32 <= (csd.c_size + 1) * 1024

VARIABLES
  csd,                   \* the card's register; version 1 is an SDHC card
  option,                \* "E", "F" or "Q", as the user types it
  pc,                    \* what the sketch does next
  erased,                \* blocks from 0 that have been erased
  disk                   \* what has been written, see Untouched

vars == <<csd, option, pc, erased, disk>>

UInt16 == 65536
RootBlocks == 32         \* of a FAT16 volume
None == [type |-> "none"]

Untouched == [mbr |-> None, boot |-> {}, zeroed |-> {}, heads |-> {}]

-------------------------------------------------------------------------------
(* The sizes.                                                              *)

cardSize(r) ==
  IF r.csd_ver = 0 THEN (r.c_size + 1) * 2^(r.c_size_mult + r.read_bl_len - 7)
  ELSE (r.c_size + 1) * 1024

cardSizeBlocks == cardSize(csd)

\* A 16 bit variable, as reservedSectors is.
cardCapacityMB == ((cardSizeBlocks + 2047) \div 2048) % UInt16

sectorsPerCluster ==
  CASE cardCapacityMB <= 16    -> 2
    [] cardCapacityMB \in 17 .. 32      -> 4
    [] cardCapacityMB \in 33 .. 64      -> 8
    [] cardCapacityMB \in 65 .. 128     -> 16
    [] cardCapacityMB \in 129 .. 1024   -> 32
    [] cardCapacityMB \in 1025 .. 32768 -> 64
    [] OTHER -> 128

sectorsPerTrack == IF cardCapacityMB <= 256 THEN 32 ELSE 63

numberOfHeads ==
  CASE cardCapacityMB <= 16    -> 2
    [] cardCapacityMB \in 17 .. 32     -> 4
    [] cardCapacityMB \in 33 .. 128    -> 8
    [] cardCapacityMB \in 129 .. 504   -> 16
    [] cardCapacityMB \in 505 .. 1008  -> 32
    [] cardCapacityMB \in 1009 .. 2016 -> 64
    [] cardCapacityMB \in 2017 .. 4032 -> 128
    [] OTHER -> 255

fat32 == csd.csd_ver = 1

\* Mutant: the two reserved entries of a FAT are forgotten.
FatOfClusters(nc, entries) == (nc + entries - 1) \div entries

FatSize(nc, entries) == (nc + 2 + entries - 1) \div entries

\* The layout with the data from block d on: the number of clusters, the size of a
\* FAT, and the blocks needed before the data.
LayoutOf(d, nc, size) ==
  [dataStart |-> d, nc |-> nc, fatSize |-> size,
   needed |-> IF fat32 THEN BU32 + 9 + 2 * size ELSE BU16 + 1 + 2 * size + RootBlocks]

LayoutFor(d, nc) == LayoutOf(d, nc, FatSize(nc, IF fat32 THEN 128 ELSE 256))

Layout(d) == LayoutFor(d, (cardSizeBlocks - d) \div sectorsPerCluster)

Unit == IF fat32 THEN BU32 ELSE BU16

\* The loop over dataStart ends at the first layout that has room: before the end of the
\* card, but for a card that is too small, whose layout nobody looks at.
layout ==
  LET last == CHOOSE n \in 2 .. cardSizeBlocks \div Unit + 2 :
                /\ Layout(n * Unit).needed <= n * Unit
                /\ \A m \in 2 .. n - 1 : Layout(m * Unit).needed > m * Unit
  IN  Layout(last * Unit)

\* The type of the partition that ends before block `end` and has `size` blocks.
PartType(end, size) ==
  CASE fat32 /\ end <= 16450560           -> 11
    [] fat32 /\ end > 16450560            -> 12
    [] ~fat32 /\ size < 32680             -> 1
    [] ~fat32 /\ size \in 32680 .. 65535  -> 4
    [] OTHER -> 6

VolumeOf(l) ==
  LET rel == IF fat32 THEN BU32 ELSE l.dataStart - l.needed + BU16
      reserved == IF fat32 THEN (l.dataStart - rel - 2 * l.fatSize) % UInt16 ELSE 1
      size == IF fat32 THEN l.nc * sectorsPerCluster + l.dataStart - rel
              ELSE l.nc * sectorsPerCluster + 2 * l.fatSize + reserved + RootBlocks
  IN  [nc |-> l.nc, fatSize |-> l.fatSize, dataStart |-> l.dataStart, relSector |-> rel,
       reservedSectors |-> reserved, fatStart |-> rel + reserved, partSize |-> size,
       partType |-> PartType(rel + size, size)]

volume == VolumeOf(layout)

CountIsValid(nc) == IF fat32 THEN nc >= 65525 ELSE 4085 <= nc /\ nc < 65525

\* The geometry of the disk that a card pretends to be; a cylinder has 16 bits.
lbnToCylinder(lbn) == (lbn \div (numberOfHeads * sectorsPerTrack)) % UInt16
lbnToHead(lbn) == (lbn % (numberOfHeads * sectorsPerTrack)) \div sectorsPerTrack

lbnToSector(lbn) == (lbn % sectorsPerTrack) + 1

Chs(lbn) ==
  IF lbnToCylinder(lbn) <= 1023
    THEN [c |-> lbnToCylinder(lbn), h |-> lbnToHead(lbn), s |-> lbnToSector(lbn)]
  ELSE [c |-> 1023, h |-> 254, s |-> 63]

-------------------------------------------------------------------------------
(* The sketch.                                                             *)

\* sdError: the sketch loops for ever.
Stops(why) == pc' = why /\ UNCHANGED <<csd, option, disk>>

\* The step label, on to next with the card as `new`; a write that fails stops the sketch
\* with the card as it was, or as one of `partly`.
Does(label, next, partly, new) ==
  /\ pc = label /\ UNCHANGED <<csd, option, erased>>
  /\ \/ pc' = next /\ disk' = new
     \/ pc' = "error" /\ disk' \in {disk} \cup partly

\* eraseCard, one range of blocks after the other.
Erase ==
  /\ pc = "erase"
  /\ LET lastBlock == IF erased + ERASE_SIZE - 1 >= cardSizeBlocks THEN cardSizeBlocks - 1
                      ELSE erased + ERASE_SIZE - 1
     IN  \/ /\ erased' = lastBlock + 1 /\ UNCHANGED <<csd, option, disk>>
            /\ pc' = IF erased + ERASE_SIZE < cardSizeBlocks THEN pc
                     ELSE IF option = "E" THEN "done" ELSE "sizes"
         \/ Stops("error") /\ UNCHANGED erased

Refuses(v) ==
  cardCapacityMB <= 6 \/ ~CountIsValid(v.nc) \/ lbnToCylinder(v.relSector) > 1023

\* initSizes, the layout, and the checks of both.
Sizes ==
  /\ pc = "sizes" /\ pc' = IF Refuses(volume) THEN "refused" ELSE "mbr"
  /\ UNCHANGED <<csd, option, erased, disk>>

writeMbr ==
  \E v \in {volume} :
    Does("mbr", "boot", {},
         [disk EXCEPT !.mbr = [type |-> v.partType, firstSector |-> v.relSector,
                               totalSectors |-> v.partSize, begin |-> Chs(v.relSector),
                               end |-> Chs(v.relSector + v.partSize - 1)]])

BootSector(v) ==
  [sectorsPerCluster |-> sectorsPerCluster, reservedSectorCount |-> v.reservedSectors,
   fatCount |-> 2, rootDirEntryCount |-> IF fat32 THEN 0 ELSE 512,
   sectorsPerFat |-> v.fatSize, totalSectors |-> v.partSize]

WithBoot(v, copies) ==
  [disk EXCEPT !.boot = {[at |-> b, is |-> BootSector(v)] : b \in copies}]

\* The boot sector, and of FAT32 the copy and the sectors that go with it, which come
\* after both.
WriteBoot ==
  \E v \in {volume} :
    LET copies == IF fat32 THEN {v.relSector, v.relSector + 6} ELSE {v.relSector}
    IN  Does("boot", "clear", IF fat32 THEN {WithBoot(v, {v.relSector}), WithBoot(v, copies)} ELSE {},
             WithBoot(v, copies))

Cleared(v) == IF fat32 THEN 2 * v.fatSize + sectorsPerCluster ELSE v.dataStart - v.fatStart

WithZeros(v, n) == [disk EXCEPT !.zeroed = {[from |-> v.fatStart, to |-> v.fatStart + n - 1]}]

\* Of the blocks that may be written when one fails, some; all, when it is writeStop.
CutShort(n) == {1, n \div 2, n}

clearFatDir ==
  \E v \in {volume} :
    Does("clear", "heads", {WithZeros(v, n) : n \in CutShort(Cleared(v))}, WithZeros(v, Cleared(v)))

\* The reserved entries, in both FATs; of FAT32 also the end of the root directory.
WriteHeads ==
  \E v \in {volume} :
    Does("heads", "done", {[disk EXCEPT !.heads = {v.fatStart}]},
         [disk EXCEPT !.heads = {v.fatStart, v.fatStart + v.fatSize}])

Init ==
  /\ csd \in Registers /\ option \in {"E", "F", "Q"}
  /\ pc = (IF option = "Q" THEN "sizes" ELSE "erase")
  /\ erased = 0 /\ disk = Untouched

Next == Erase \/ Sizes \/ writeMbr \/ WriteBoot \/ clearFatDir \/ WriteHeads

Spec == Init /\ [][Next]_vars

-------------------------------------------------------------------------------
(* SdVolume::init of partition 1.  What it also asks of the boot sector    *)
(* are constants that the sketch writes: 512 bytes in a sector, no boot    *)
(* flag other than 0.                                                      *)

Shifts == 0 .. 7

Mounts ==
  /\ disk.mbr # None /\ disk.mbr.firstSector # 0
  /\ \E b \in disk.boot :
       b.at = disk.mbr.firstSector /\ b.is.fatCount # 0 /\ b.is.reservedSectorCount # 0
         /\ \E n \in Shifts : b.is.sectorsPerCluster = 2^n

\* The fields of the volume that is mounted.
Mounted ==
  LET fbs == (CHOOSE b \in disk.boot : b.at = disk.mbr.firstSector).is
      start == disk.mbr.firstSector
      fatStartBlock == start + fbs.reservedSectorCount
      rootDirStart == fatStartBlock + fbs.fatCount * fbs.sectorsPerFat
      dataStartBlock == rootDirStart + (32 * fbs.rootDirEntryCount + 511) \div 512
      clusterCount ==
        (fbs.totalSectors - (dataStartBlock - start)) \div fbs.sectorsPerCluster
  IN  [fatStartBlock |-> fatStartBlock, blocksPerFat |-> fbs.sectorsPerFat,
       rootDirStart |-> rootDirStart, dataStartBlock |-> dataStartBlock,
       clusterCount |-> clusterCount, blocksPerCluster |-> fbs.sectorsPerCluster,
       fatType |-> CASE clusterCount < 4085 -> 12
                     [] 4085 <= clusterCount /\ clusterCount < 65525 -> 16
                     [] OTHER -> 32]

-------------------------------------------------------------------------------
(* Properties.                                                             *)

Formatted == pc = "done" /\ option # "E"

\* A formatted card is mounted as the type of volume it was formatted as, its
\* partition lies within the card, and the FATs have an entry for every cluster.
FormattedMounts ==
  Formatted =>
    /\ Mounts /\ Mounted.fatType = IF fat32 THEN 32 ELSE 16
    /\ Mounted.dataStartBlock + Mounted.clusterCount * Mounted.blocksPerCluster <= cardSizeBlocks
    /\ disk.mbr.firstSector + disk.mbr.totalSectors <= cardSizeBlocks
    /\ Mounted.clusterCount + 2 <= Mounted.blocksPerFat * (IF fat32 THEN 128 ELSE 256)

\* What the library reads as free clusters and as an empty root directory are zeros
\* that the sketch has written, and the heads of the FATs are where it looks for them.
NothingIsLeft ==
  Formatted =>
    \E z \in disk.zeroed :
      /\ z.from = Mounted.fatStartBlock
      /\ z.to >= Mounted.dataStartBlock - 1 + (IF fat32 THEN Mounted.blocksPerCluster ELSE 0)
      /\ disk.heads = {Mounted.fatStartBlock, Mounted.fatStartBlock + Mounted.blocksPerFat}
      /\ \A b \in disk.boot : b.at < z.from

\* Data begins at a multiple of the unit in which cards erase.
DataIsAligned == Formatted => Mounted.dataStartBlock % Unit = 0

\* The cylinders, heads and sectors of the partition say the same as its blocks,
\* unless they say that it is too far away.  (The cylinder of a card of 512 GB does
\* not fit in 16 bits.)
ChsIsRight ==
  disk.mbr # None =>
    \A end \in BOOLEAN :
      LET lbn == IF end THEN disk.mbr.firstSector + disk.mbr.totalSectors - 1
                 ELSE disk.mbr.firstSector
          chs == IF end THEN disk.mbr.end ELSE disk.mbr.begin
          size == numberOfHeads * sectorsPerTrack
      IN  lbn \div size < UInt16 =>
            /\ chs.c <= 1023 /\ chs.h < 256 /\ chs.s \in 1 .. 63
            /\ \/ (chs.c * numberOfHeads + chs.h) * sectorsPerTrack + chs.s - 1 = lbn
               \/ chs = [c |-> 1023, h |-> 254, s |-> 63] /\ lbn >= 1024 * size

\* A card that is not formatted because of its size is as it was, unless the user
\* has chosen to erase it.
RefusedIsUntouched == pc = "refused" => disk = Untouched /\ (option = "Q" => erased = 0)

\* Every block of the card is erased, and none that it does not have.
EraseCoversTheCard ==
  /\ erased <= cardSizeBlocks
  /\ pc \in {"sizes", "done"} /\ option # "Q" => erased = cardSizeBlocks

\* A format ends with a card that the library mounts as an empty volume, or leaves it
\* alone, whatever the size the card reports (initSizes, writeMbr, the two makeFat).
FormatIsRight ==
  /\ FormattedMounts /\ NothingIsLeft /\ DataIsAligned /\ ChsIsRight
  /\ RefusedIsUntouched /\ EraseCoversTheCard
===============================================================================
