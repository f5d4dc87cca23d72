---------------------------- MODULE FormatterProofs ----------------------------
(***************************************************************************)
(* A format ends with an empty volume that the library mounts, or leaves   *)
(* the card alone, for every register CSD of a card of up to 1 TB.         *)
(*                                                                         *)
(* The proof goes by the numbers first: the loop over dataStart ends       *)
(* within the card, because the last unit of the card has room for what    *)
(* a layout with data from there on needs (LayoutExists: the least such    *)
(* unit exists by well-foundedness); the volume that passes the checks     *)
(* fits on the card (AcceptedFits), its reserved sectors fit in 16 bits    *)
(* (ReservedFits), and SdVolume::init computes the same layout back from   *)
(* the boot sector (MountedIs).  The invariant FormatInv then says what    *)
(* has been written when the sketch comes to each step; it needs that the  *)
(* record is the one of an accepted volume even after a failed write, when *)
(* the sketch has stopped in between.                                      *)
(***************************************************************************)
EXTENDS Formatter, FiniteSetTheorems, WellFoundedInduction, TLAPS

-------------------------------------------------------------------------------
(* Numbers.                                                                *)

\* Every set of natural numbers that is not empty has a least element.
LEMMA LeastElement ==
  ASSUME NEW T, T \subseteq Nat, T # {}
  PROVE  \E x \in T : \A y \in T : x <= y
<1>1. PICK m \in T : TRUE
      OBVIOUS
<1> DEFINE N == 0 .. m
           U == {0 .. x : x \in T \cap N}
<1>2. IsWellFoundedOn(StrictSubsetOrdering(N), SUBSET N)
  <2>1. IsFiniteSet(N)
        BY FS_Interval
  <2> QED
      BY <2>1, FS_StrictSubsetOrderingWellFounded, FS_FiniteSubsetsOfFinite
<1>3. U \subseteq SUBSET N /\ U # {}
      OBVIOUS
<1>4. PICK X \in U : \A Y \in U : ~(<<Y, X>> \in StrictSubsetOrdering(N))
  <2> HIDE DEF N, U
  <2> QED
      BY <1>2, <1>3, WFMin
<1>5. PICK x \in T \cap N : X = 0 .. x
      BY <1>4
<1>6. ASSUME NEW y \in T, y < x PROVE FALSE
  <2>1. y \in T \cap N /\ 0 .. y \in U
        BY <1>5, <1>6
  <2>2. /\ 0 .. y \subseteq 0 .. x /\ 0 .. y # 0 .. x
        /\ 0 .. y \in SUBSET N /\ 0 .. x \in SUBSET N
    <3>1. x \in 0 .. x /\ x \notin 0 .. y
          BY <1>5, <1>6
    <3> QED
        BY <1>5, <1>6, <3>1
  <2>3. <<0 .. y, 0 .. x>> \in StrictSubsetOrdering(N)
        BY <2>2 DEF StrictSubsetOrdering
  <2> QED
      BY <1>4, <1>5, <2>1, <2>3
<1> QED
    BY <1>5, <1>6

\* Division with rest, rounding down.
LEMMA DivMod ==
  ASSUME NEW n \in Int, NEW b \in Nat \ {0}
  PROVE  /\ n \div b \in Int /\ n % b \in 0 .. b - 1 /\ n = b * (n \div b) + (n % b)
         /\ n >= 0 => n \div b \in Nat
         /\ n < 0 => n \div b < 0
<1>1. n \div b \in Int /\ n % b \in 0 .. b - 1 /\ n = b * (n \div b) + (n % b)
      OBVIOUS
<1>2. n >= 0 => n \div b \in Nat
      BY <1>1
<1>3. n < 0 => n \div b < 0
      BY <1>1
<1> QED
    BY <1>1, <1>2, <1>3

\* Of natural numbers.
LEMMA NatDivMod ==
  ASSUME NEW n \in Nat, NEW b \in Nat, b > 0
  PROVE  n \div b \in Nat /\ n % b \in Nat /\ n % b < b /\ n = b * (n \div b) + (n % b)
BY DivMod

\* A rest is no more than the number.
LEMMA ModIsLess ==
  ASSUME NEW n \in Nat, NEW b \in Nat \ {0}
  PROVE  n % b \in Nat /\ n % b < b /\ n % b <= n
<1>1. n \div b \in Nat /\ n % b \in 0 .. b - 1 /\ n = b * (n \div b) + (n % b)
      OBVIOUS
<1>2. b * (n \div b) \in Nat
      BY <1>1
<1> QED
    BY <1>1, <1>2

\* Quotient and rest are the only ones.
LEMMA DivModUnique ==
  ASSUME NEW b \in Nat \ {0}, NEW q \in Int, NEW r \in Nat, r < b,
         NEW n \in Int, n = q * b + r
  PROVE  n \div b = q /\ n % b = r
<1> DEFINE p == n \div b  s == n % b
<1>1. p \in Int /\ s \in Nat /\ s < b /\ n = b * p + s
      BY DivMod
<1> HIDE DEF p, s
<1>2. b * (q - p) = s - r
      BY <1>1
<1>3. q - p >= 1 => b * (q - p) >= b
      BY <1>1
<1>4. q - p <= -1 => b * (q - p) <= -b
      BY <1>1
<1>5. q = p
      BY <1>1, <1>2, <1>3, <1>4
<1>6. s = r
      BY <1>1, <1>5
<1> QED
    BY <1>5, <1>6 DEF p, s

\* What is known of the constants.
LEMMA UnitsAre ==
  /\ BU16 \in Nat \ {0} /\ BU16 <= 1024 /\ BU32 \in Nat \ {0} /\ BU32 <= 8192
  /\ ERASE_SIZE \in Nat \ {0} /\ Unit \in Nat \ {0}
<1>1. 2^10 = 1024 /\ 2^13 = 8192
      OBVIOUS
<1>2. BU16 \in 1 .. 2^10 /\ BU32 \in 1 .. 2^13 /\ ERASE_SIZE \in 1 .. 2^30
      BY FormatterAssumption
<1>3. /\ BU16 \in Nat \ {0} /\ BU16 <= 1024 /\ BU32 \in Nat \ {0} /\ BU32 <= 8192
      /\ ERASE_SIZE \in Nat \ {0}
      BY <1>1, <1>2
<1> QED
    BY <1>3 DEF Unit

\* The shifts of cardSize.
LEMMA PowersAre == ASSUME NEW k \in 2 .. 11 PROVE 2^k \in Nat \ {0}
<1>1. /\ 2^2 = 4 /\ 2^3 = 8 /\ 2^4 = 16 /\ 2^5 = 32 /\ 2^6 = 64
      /\ 2^7 = 128 /\ 2^8 = 256 /\ 2^9 = 512 /\ 2^10 = 1024 /\ 2^11 = 2048
      OBVIOUS
<1>2. k \in {2, 3, 4, 5, 6, 7, 8, 9, 10, 11}
      OBVIOUS
<1>3. CASE k = 2
      BY <1>1, <1>3
<1>4. CASE k = 3
      BY <1>1, <1>4
<1>5. CASE k = 4
      BY <1>1, <1>5
<1>6. CASE k = 5
      BY <1>1, <1>6
<1>7. CASE k = 6
      BY <1>1, <1>7
<1>8. CASE k = 7
      BY <1>1, <1>8
<1>9. CASE k = 8
      BY <1>1, <1>9
<1>10. CASE k = 9
      BY <1>1, <1>10
<1>11. CASE k = 10
      BY <1>1, <1>11
<1>12. CASE k = 11
      BY <1>1, <1>12
<1> QED
    BY <1>2, <1>3, <1>4, <1>5, <1>6, <1>7, <1>8, <1>9, <1>10, <1>11, <1>12

\* Every card has blocks, an SDHC card enough for a few units.
LEMMA BlocksAre ==
  ASSUME csd \in Registers
  PROVE  cardSizeBlocks \in Nat \ {0} /\ (fat32 => 4 * BU32 <= cardSizeBlocks)
<1>1. CASE /\ csd.csd_ver = 0 /\ csd.c_size \in 0 .. 2^12 - 1 /\ csd.c_size_mult \in 0 .. 7
           /\ csd.read_bl_len \in 9 .. 11
  <2> DEFINE k == csd.c_size_mult + csd.read_bl_len - 7
  <2>1. k \in 2 .. 11 /\ csd.c_size + 1 \in Nat \ {0}
    <3>1. csd.c_size + 1 \in Nat \ {0}
          BY <1>1
    <3>2. \A a \in 0 .. 7 : \A b \in 9 .. 11 : a + b - 7 \in 2 .. 11
          OBVIOUS
    <3> QED
        BY <1>1, <3>1, <3>2
  <2>2. 2^k \in Nat \ {0}
    <3> HIDE DEF k
    <3> QED
        BY <2>1, PowersAre
  <2>3. cardSizeBlocks = (csd.c_size + 1) * 2^k
        BY <1>1 DEF cardSizeBlocks, cardSize
  <2> HIDE DEF k
  <2>4. \A a, b \in Nat \ {0} : a * b \in Nat \ {0}
        OBVIOUS
  <2> QED
      BY <1>1, <2>1, <2>2, <2>3, <2>4 DEF fat32
<1>2. CASE /\ csd.csd_ver = 1 /\ csd.c_size \in 0 .. 2^21 - 1
           /\ 4 * BU32 <= (csd.c_size + 1) * 1024
      BY <1>2, SMT DEF cardSizeBlocks, cardSize, fat32
<1> QED
    BY <1>1, <1>2, FormatterAssumption, SMT

\* initSizes: what the sizes may be; a card of more than 6 MB has many blocks.
LEMMA SizesAre ==
  ASSUME csd \in Registers
  PROVE  /\ cardCapacityMB \in 0 .. UInt16 - 1
         /\ cardCapacityMB > 6 => cardSizeBlocks > 10240
         /\ sectorsPerCluster \in {2, 4, 8, 16, 32, 64, 128}
         /\ sectorsPerTrack \in {32, 63}
         /\ numberOfHeads \in {2, 4, 8, 16, 32, 64, 128, 255}
<1>1. cardSizeBlocks \in Nat
      BY BlocksAre
<1>2. cardCapacityMB \in 0 .. UInt16 - 1 /\ (cardCapacityMB > 6 => cardSizeBlocks > 10240)
  <2> DEFINE q == (cardSizeBlocks + 2047) \div 2048
  <2>1. q \in Nat /\ 2048 * q <= cardSizeBlocks + 2047
        BY <1>1
  <2>2. cardCapacityMB = q % UInt16 /\ UInt16 \in Nat \ {0}
        BY DEF cardCapacityMB, UInt16
  <2> HIDE DEF q
  <2>3. q % UInt16 \in Nat /\ q % UInt16 < UInt16 /\ q % UInt16 <= q
        BY <2>1, <2>2, ModIsLess
  <2> QED
      BY <1>1, <2>1, <2>2, <2>3
<1> QED
    BY <1>2 DEF sectorsPerCluster, sectorsPerTrack, numberOfHeads

-------------------------------------------------------------------------------
(* The layout.                                                             *)

Entries == IF fat32 THEN 128 ELSE 256

\* The definitions of a layout put together.
LEMMA LayoutIs ==
  ASSUME NEW d
  PROVE  LET nc == (cardSizeBlocks - d) \div sectorsPerCluster
             size == (nc + 2 + Entries - 1) \div Entries
         IN  Layout(d) = [dataStart |-> d, nc |-> nc, fatSize |-> size,
                          needed |-> IF fat32 THEN BU32 + 9 + 2 * size
                                     ELSE BU16 + 1 + 2 * size + 32]
BY DEF Layout, LayoutFor, LayoutOf, FatSize, Entries, RootBlocks

\* The layout with data from block d on takes as many clusters as there are on the card,
\* and FATs as large as these need.
LEMMA LayoutFits ==
  ASSUME csd \in Registers, NEW d \in Nat, NEW l, l = Layout(d)
  PROVE  /\ l.dataStart = d /\ l.nc \in Int /\ l.fatSize \in Int /\ l.needed \in Int
         /\ l.needed = IF fat32 THEN BU32 + 9 + 2 * l.fatSize
                       ELSE BU16 + 33 + 2 * l.fatSize
         /\ l.nc * sectorsPerCluster <= cardSizeBlocks - d
         /\ cardSizeBlocks - d < l.nc * sectorsPerCluster + sectorsPerCluster
         /\ l.nc + 2 <= l.fatSize * Entries
         /\ l.fatSize * Entries <= l.nc + 1 + Entries
<1> DEFINE n == cardSizeBlocks - d
           nc == n \div sectorsPerCluster
           size == (nc + 2 + Entries - 1) \div Entries
<1>1. n \in Int /\ sectorsPerCluster \in Nat \ {0} /\ Entries \in {128, 256}
      BY BlocksAre, SizesAre DEF Entries
<1>2. Layout(d) = [dataStart |-> d, nc |-> nc, fatSize |-> size,
                   needed |-> IF fat32 THEN BU32 + 9 + 2 * size
                              ELSE BU16 + 1 + 2 * size + 32]
      BY LayoutIs
<1> HIDE DEF n
<1>3. /\ nc \in Int /\ n % sectorsPerCluster \in 0 .. sectorsPerCluster - 1
      /\ n = sectorsPerCluster * nc + (n % sectorsPerCluster)
      BY <1>1, DivMod
<1> HIDE DEF nc
<1>4. nc * sectorsPerCluster <= n /\ n < nc * sectorsPerCluster + sectorsPerCluster
      BY <1>1, <1>3
<1>5. size \in Int /\ nc + 2 <= size * Entries /\ size * Entries <= nc + 1 + Entries
  <2>1. CASE Entries = 128
        BY <1>3, <2>1
  <2>2. CASE Entries = 256
        BY <1>3, <2>2
  <2> QED
      BY <1>1, <2>1, <2>2
<1> HIDE DEF size
<1>6. /\ l.dataStart = d /\ l.nc = nc /\ l.fatSize = size
      /\ l.needed = IF fat32 THEN BU32 + 9 + 2 * size ELSE BU16 + 1 + 2 * size + 32
      BY <1>2
<1> QED
    BY <1>3, <1>4, <1>5, <1>6, UnitsAre DEF n

\* The layout that the loop ends at.
Found(n) ==
  /\ n \in 2 .. cardSizeBlocks \div Unit + 2
  /\ Layout(n * Unit).needed <= n * Unit
  /\ \A m \in 2 .. n - 1 : Layout(m * Unit).needed > m * Unit

\* With data from the last unit of the card on, next to nothing is needed before it.
LEMMA LastUnitHasRoom ==
  ASSUME csd \in Registers, cardCapacityMB > 6,
         NEW q, q = cardSizeBlocks \div Unit
  PROVE  /\ q \in Nat /\ q >= 2 /\ q * Unit <= cardSizeBlocks
         /\ Layout(q * Unit).needed <= q * Unit
<1>1. /\ cardSizeBlocks \in Nat /\ cardSizeBlocks > 10240 /\ Unit \in Nat \ {0}
      /\ Unit <= 8192 /\ 4 * Unit <= cardSizeBlocks
      BY BlocksAre, SizesAre, UnitsAre DEF Unit
<1>2. q \in Nat /\ q * Unit <= cardSizeBlocks /\ cardSizeBlocks < q * Unit + Unit
      BY <1>1, DivMod
<1>3. q >= 2
  <2>1. q = 0 => q * Unit = 0
        BY <1>1
  <2>2. q = 1 => q * Unit = Unit
        BY <1>1
  <2> QED
      BY <1>1, <1>2, <2>1, <2>2
<1>4. Layout(q * Unit).needed <= q * Unit
  <2> DEFINE d == q * Unit  l == Layout(d)
  <2>1. d \in Nat /\ d <= cardSizeBlocks /\ cardSizeBlocks < d + Unit
        BY <1>1, <1>2
  <2> HIDE DEF d
  <2>2. /\ l.nc \in Int /\ l.fatSize \in Int
        /\ l.needed = IF fat32 THEN BU32 + 9 + 2 * l.fatSize ELSE BU16 + 33 + 2 * l.fatSize
        /\ l.nc * sectorsPerCluster <= cardSizeBlocks - d
        /\ l.fatSize * Entries <= l.nc + 1 + Entries
        BY <2>1, LayoutFits
  <2> HIDE DEF l
  <2>3. 2 * l.nc <= cardSizeBlocks - d
    <3> DEFINE nc == l.nc  spc == sectorsPerCluster  n == cardSizeBlocks - d
    <3>1. nc \in Int /\ spc \in Nat /\ spc >= 2 /\ nc * spc <= n /\ n \in Nat
          BY <1>1, <2>1, <2>2, SizesAre
    <3> HIDE DEF nc, spc, n
    <3>2. nc >= 0 => 2 * nc <= nc * spc
          BY <3>1
    <3>3. 2 * nc <= n
          BY <3>1, <3>2
    <3> QED
        BY <3>3 DEF nc, n
  <2>4. CASE fat32
    <3>1. /\ Entries = 128 /\ Unit = BU32 /\ BU32 \in Nat \ {0}
          /\ l.needed = BU32 + 9 + 2 * l.fatSize
          BY <2>2, <2>4, UnitsAre DEF Entries, Unit
    <3> DEFINE nc == l.nc  size == l.fatSize
    <3>2. nc \in Int /\ size \in Int /\ size * 128 <= nc + 129 /\ 2 * nc <= cardSizeBlocks - d
          BY <2>2, <2>3, <3>1
    <3> HIDE DEF nc, size
    <3>3. BU32 + 9 + 2 * size <= d
          BY <1>1, <2>1, <3>1, <3>2
    <3> QED
        BY <3>1, <3>3 DEF size, l, d
  <2>5. CASE ~fat32
    <3>1. /\ Entries = 256 /\ Unit = BU16 /\ BU16 \in Nat \ {0} /\ BU16 <= 1024
          /\ l.needed = BU16 + 33 + 2 * l.fatSize
          BY <2>2, <2>5, UnitsAre DEF Entries, Unit
    <3> DEFINE nc == l.nc  size == l.fatSize
    <3>2. nc \in Int /\ size \in Int /\ size * 256 <= nc + 257 /\ 2 * nc <= cardSizeBlocks - d
          BY <2>2, <2>3, <3>1
    <3> HIDE DEF nc, size
    <3>3. BU16 + 33 + 2 * size <= d
          BY <1>1, <2>1, <3>1, <3>2
    <3> QED
        BY <3>1, <3>3 DEF size, l, d
  <2> QED
      BY <2>4, <2>5
<1> QED
    BY <1>2, <1>3, <1>4

\* The loop ends, and within the card.
LEMMA LayoutExists ==
  ASSUME csd \in Registers, cardCapacityMB > 6
  PROVE  \E n : Found(n)
<1> DEFINE q == cardSizeBlocks \div Unit
           Fit == {n \in 2 .. q + 2 : Layout(n * Unit).needed <= n * Unit}
<1>1. q \in Nat /\ q >= 2 /\ Layout(q * Unit).needed <= q * Unit
      BY LastUnitHasRoom
<1> HIDE DEF q
<1>2. q \in Fit
      BY <1>1
<1>3. PICK n \in Fit : \A m \in Fit : n <= m
  <2>1. Fit \subseteq Nat /\ Fit # {}
        BY <1>1, <1>2
  <2> HIDE DEF Fit
  <2> QED
      BY <2>1, LeastElement
<1>4. ASSUME NEW m \in 2 .. n - 1 PROVE Layout(m * Unit).needed > m * Unit
  <2>1. m \in 2 .. q + 2 /\ m < n
        BY <1>1, <1>3
  <2>2. m \notin Fit
        BY <1>1, <1>3, <2>1
  <2>3. m * Unit \in Nat
        BY UnitsAre, <2>1, <1>1
  <2>4. Layout(m * Unit).needed \in Int
        BY <2>3, LayoutFits
  <2> QED
      BY <2>1, <2>2, <2>3, <2>4
<1> QED
    BY <1>3, <1>4 DEF Found, q

\* `layout` is what the loop ends at, within the card.
LEMMA LayoutFound ==
  ASSUME csd \in Registers, cardCapacityMB > 6
  PROVE  \E n : /\ Found(n) /\ layout = Layout(n * Unit)
                /\ n \in Nat /\ n >= 2 /\ n * Unit \in Nat /\ n * Unit <= cardSizeBlocks
<1> DEFINE q == cardSizeBlocks \div Unit
           last == CHOOSE n \in 2 .. q + 2 :
                     /\ Layout(n * Unit).needed <= n * Unit
                     /\ \A m \in 2 .. n - 1 : Layout(m * Unit).needed > m * Unit
<1>1. q \in Nat /\ q >= 2 /\ q * Unit <= cardSizeBlocks /\ Layout(q * Unit).needed <= q * Unit
      BY LastUnitHasRoom
<1>2. layout = Layout(last * Unit)
      BY DEF layout
<1>3. Found(last)
  <2>1. PICK n : Found(n)
        BY LayoutExists
  <2> QED
      BY <2>1 DEF Found
<1> HIDE DEF last
<1>4. last \in 2 .. q + 2 /\ (\A m \in 2 .. last - 1 : Layout(m * Unit).needed > m * Unit)
      BY <1>3 DEF Found
<1> HIDE DEF q
<1>5. Layout(q * Unit).needed \in Int /\ q * Unit \in Nat
  <2>1. q * Unit \in Nat
        BY <1>1, UnitsAre
  <2> QED
      BY <2>1, LayoutFits
<1>6. last \in Nat /\ last >= 2 /\ last <= q
      BY <1>1, <1>4, <1>5
<1>7. last * Unit \in Nat /\ last * Unit <= q * Unit
      BY <1>1, <1>6, UnitsAre
<1>8. last * Unit <= cardSizeBlocks
      BY <1>1, <1>5, <1>7, BlocksAre
<1> QED
    BY <1>2, <1>3, <1>6, <1>7, <1>8

\* The reserved sectors of FAT32 are nine and more, and 16 bits hold their number: a unit
\* less before the data would not have been enough.
LEMMA ReservedFits ==
  ASSUME csd \in Registers, fat32, NEW n \in Nat, n >= 2, Found(n),
         NEW l, l = Layout(n * Unit), l.nc >= 0,
         NEW k, k = n * Unit - BU32 - 2 * l.fatSize
  PROVE  k \in Nat /\ k >= 9 /\ k < UInt16 /\ k % UInt16 = k
<1> DEFINE U == BU32  d == n * U  nc == l.nc  size == l.fatSize  spc == sectorsPerCluster
<1>1. /\ U \in Nat /\ U > 0 /\ U <= 8192 /\ Unit = U /\ Entries = 128
      /\ spc \in Nat /\ spc > 0 /\ cardSizeBlocks \in Nat
      BY UnitsAre, SizesAre, BlocksAre DEF Unit, Entries
<1>2. d \in Nat
      BY <1>1
<1>3. /\ l.needed <= d /\ l.needed = U + 9 + 2 * size
      /\ nc \in Int /\ size \in Int /\ nc + 2 <= size * 128
      /\ cardSizeBlocks - d < nc * spc + spc
  <2>1. l = Layout(d) /\ l.needed <= d
        BY <1>1 DEF Found
  <2> HIDE DEF d
  <2>2. /\ l.nc \in Int /\ l.fatSize \in Int
        /\ l.needed = IF fat32 THEN BU32 + 9 + 2 * l.fatSize ELSE BU16 + 33 + 2 * l.fatSize
        /\ cardSizeBlocks - d < l.nc * sectorsPerCluster + sectorsPerCluster
        /\ l.nc + 2 <= l.fatSize * Entries
        BY <1>2, <2>1, LayoutFits
  <2> QED
      BY <1>1, <2>1, <2>2
<1>4. k = d - U - 2 * size
      BY <1>1
<1>5. CASE n = 2
  <2>1. d = U + U
        BY <1>5, <1>1
  <2> HIDE DEF d, nc, size, spc, U
  <2>2. k >= 9 /\ k < 65536
        BY <1>1, <1>2, <1>3, <1>4, <2>1
  <2> QED
      BY <2>2, <1>1, <1>2, <1>3, <1>4 DEF UInt16
<1>6. CASE n > 2
  <2> DEFINE p == (n - 1) * U  lp == Layout(p)  pnc == lp.nc  psize == lp.fatSize
  <2>1. p \in Nat /\ d = p + U
        BY <1>1, <1>6
  <2>2. lp.needed > p
    <3>1. n - 1 \in 2 .. n - 1
          BY <1>6
    <3> QED
        BY <1>1, <3>1 DEF Found
  <2> HIDE DEF d, p
  <2>3. /\ pnc \in Int /\ psize \in Int
        /\ lp.needed = U + 9 + 2 * psize
        /\ pnc * spc <= cardSizeBlocks - p
        /\ psize * 128 <= pnc + 129
    <3>1. /\ lp.nc \in Int /\ lp.fatSize \in Int
          /\ lp.needed = IF fat32 THEN BU32 + 9 + 2 * lp.fatSize
                         ELSE BU16 + 33 + 2 * lp.fatSize
          /\ lp.nc * sectorsPerCluster <= cardSizeBlocks - p
          /\ lp.fatSize * Entries <= lp.nc + 1 + Entries
          BY <2>1, LayoutFits
    <3> QED
        BY <1>1, <3>1
  <2> DEFINE needed == lp.needed
  <2> HIDE DEF nc, size, spc, U, pnc, psize, lp
  <2>4. (pnc - nc - 1) * spc < U
        BY <1>1, <1>2, <1>3, <2>1, <2>3
  <2>5. pnc - nc - 1 >= U => (pnc - nc - 1) * spc >= U
        BY <1>1, <1>3, <2>3
  <2>6. pnc - nc - 1 < U
        BY <1>1, <1>3, <2>3, <2>4, <2>5
  <2>7. p < U + 9 + 2 * psize
        BY <2>2, <2>3
  <2>8. 128 * (psize - size) <= U + 127
        BY <1>1, <1>3, <2>3, <2>6
  <2>9. k >= 9 /\ k < 65536
    <3>1. k = p - 2 * size /\ size \in Int /\ psize \in Int /\ p \in Nat
          BY <1>1, <1>3, <1>4, <2>1, <2>3
    <3>2. k >= 9
          BY <1>1, <1>2, <1>3, <1>4
    <3> QED
        BY <1>1, <2>7, <2>8, <3>1, <3>2
  <2> QED
      BY <2>9, <1>1, <1>2, <1>3, <1>4 DEF UInt16
<1> QED
    BY <1>5, <1>6

\* What the checks of the sketch let pass fits on the card.
Fits(v) ==
  /\ v.nc \in Nat \ {0} /\ v.fatSize \in Nat /\ v.dataStart \in Nat
  /\ v.relSector \in Nat \ {0} /\ v.reservedSectors \in Nat \ {0} /\ v.partSize \in Nat \ {0}
  /\ CountIsValid(v.nc)
  /\ v.fatStart = v.relSector + v.reservedSectors
  /\ v.dataStart = v.fatStart + 2 * v.fatSize + (IF fat32 THEN 0 ELSE 32)
  /\ v.relSector + v.partSize = v.dataStart + v.nc * sectorsPerCluster
  /\ v.dataStart + v.nc * sectorsPerCluster <= cardSizeBlocks
  /\ v.nc + 2 <= v.fatSize * Entries
  /\ fat32 => v.reservedSectors >= 9
  /\ v.dataStart % Unit = 0

\* A volume that is not refused fits on the card, and begins where it says.
LEMMA AcceptedFits ==
  ASSUME csd \in Registers, ~Refuses(volume)
  PROVE  Fits(volume)
<1>1. cardCapacityMB > 6 /\ CountIsValid(volume.nc)
      BY SizesAre DEF Refuses
<1>2. PICK n : /\ Found(n) /\ layout = Layout(n * Unit)
               /\ n \in Nat /\ n >= 2 /\ n * Unit \in Nat /\ n * Unit <= cardSizeBlocks
      BY <1>1, LayoutFound
<1> DEFINE d == n * Unit  l == Layout(d)
           nc == l.nc  size == l.fatSize  spc == sectorsPerCluster  v == volume
<1>3. l.needed <= d
      BY <1>2 DEF Found
<1>4. d \in Nat /\ d <= cardSizeBlocks /\ l = layout
      BY <1>2
<1>5. d % Unit = 0
  <2>1. Unit \in Nat \ {0} /\ d \in Int /\ d = n * Unit + 0
        BY <1>2, UnitsAre
  <2> HIDE DEF d
  <2> QED
      BY <1>2, <2>1, DivModUnique
<1>6. /\ l.dataStart = d /\ nc \in Int /\ size \in Int
      /\ l.needed = IF fat32 THEN BU32 + 9 + 2 * size ELSE BU16 + 33 + 2 * size
      /\ nc * spc <= cardSizeBlocks - d
      /\ nc + 2 <= size * Entries
  <2> HIDE DEF d
  <2> QED
      BY <1>4, LayoutFits
<1>7. v.nc = nc /\ v.fatSize = size /\ v.dataStart = d
      BY <1>4, <1>6 DEF volume, VolumeOf
<1>8. nc \in Nat \ {0}
      BY <1>1, <1>6, <1>7, SMT DEF CountIsValid
<1>9. size \in Nat
      BY <1>6, <1>8 DEF Entries
<1>10. /\ BU16 \in Nat /\ BU16 > 0 /\ BU32 \in Nat /\ BU32 > 0 /\ cardSizeBlocks \in Nat
       /\ spc \in Nat /\ spc > 0
       BY UnitsAre, BlocksAre, SizesAre
<1>11. nc * spc \in Nat
       BY <1>8, <1>10
<1>12. /\ v.relSector \in Nat \ {0} /\ v.reservedSectors \in Nat \ {0}
       /\ v.fatStart = v.relSector + v.reservedSectors
       /\ v.dataStart = v.fatStart + 2 * v.fatSize + (IF fat32 THEN 0 ELSE 32)
       /\ v.relSector + v.partSize = v.dataStart + nc * spc
       /\ v.partSize \in Nat \ {0}
       /\ fat32 => v.reservedSectors >= 9
  <2>1. CASE fat32
    <3> DEFINE k == d - BU32 - 2 * size
    <3>1. k \in Nat /\ k >= 9 /\ k % UInt16 = k
          BY <1>2, <1>8, <2>1, ReservedFits
    <3>2. /\ v.relSector = BU32 /\ v.reservedSectors = k % UInt16
          /\ v.fatStart = v.relSector + v.reservedSectors
          /\ v.partSize = nc * spc + d - BU32
          BY <1>4, <1>6, <2>1 DEF volume, VolumeOf
    <3> DEFINE data == nc * spc
    <3> HIDE DEF d, nc, size, spc, v, l, data
    <3>3. v.partSize = data + d - BU32 /\ data \in Nat
          BY <3>2, <1>11 DEF data
    <3>4. v.partSize \in Nat \ {0}
          BY <1>4, <1>9, <1>10, <3>1, <3>3
    <3>5. v.dataStart = v.fatStart + 2 * v.fatSize
          BY <1>4, <1>7, <1>9, <1>10, <3>1, <3>2
    <3>6. v.fatSize \in Nat /\ v.fatStart \in Nat
          BY <1>7, <1>9, <1>10, <3>1, <3>2
    <3>7. v.relSector + v.partSize = v.dataStart + data
          BY <1>4, <1>7, <1>10, <3>2, <3>3
    <3> QED
        BY <2>1, <1>10, <3>1, <3>2, <3>4, <3>5, <3>7, <3>6 DEF v, nc, spc, data
  <2>2. CASE ~fat32
    <3>1. /\ v.relSector = d - l.needed + BU16 /\ v.reservedSectors = 1
          /\ v.fatStart = v.relSector + v.reservedSectors
          /\ v.partSize = nc * spc + 2 * size + 1 + 32
          BY <1>4, <1>6, <2>2 DEF volume, VolumeOf, RootBlocks
    <3> DEFINE data == nc * spc
    <3> HIDE DEF d, nc, size, spc, v, l, data
    <3>2. v.partSize = data + 2 * size + 33 /\ data \in Nat
          BY <3>1, <1>9, <1>11 DEF data
    <3>3. l.needed = BU16 + 33 + 2 * size
          BY <1>6, <2>2 DEF l
    <3>4. v.relSector \in Nat \ {0} /\ v.partSize \in Nat \ {0}
          BY <1>3, <1>4, <1>9, <1>10, <3>1, <3>2, <3>3
    <3>5. v.dataStart = v.fatStart + 2 * v.fatSize + 32
          BY <1>4, <1>7, <1>9, <1>10, <3>1, <3>3
    <3>6. v.relSector + v.partSize = v.dataStart + data
          BY <1>4, <1>7, <1>9, <1>10, <3>1, <3>2, <3>3
    <3> QED
        BY <2>2, <3>1, <3>4, <3>5, <3>6 DEF v, nc, spc, data
  <2> QED
      BY <2>1, <2>2
<1>13. v.dataStart + nc * spc <= cardSizeBlocks
  <2> DEFINE data == nc * spc
  <2>1. data \in Nat /\ data <= cardSizeBlocks - d
        BY <1>6, <1>11
  <2> HIDE DEF data, d
  <2> QED
      BY <1>4, <1>7, <1>10, <2>1 DEF data
<1> QED
    BY <1>1, <1>4, <1>5, <1>6, <1>7, <1>8, <1>9, <1>12, <1>13 DEF Fits

\* Cylinder, head and sector are the digits of the block number.
LEMMA ChsSays ==
  ASSUME csd \in Registers, NEW lbn \in Nat, NEW chs, chs = Chs(lbn),
         NEW size, size = numberOfHeads * sectorsPerTrack, lbn \div size < UInt16
  PROVE  /\ chs.c <= 1023 /\ chs.h < 256 /\ chs.s \in 1 .. 63
         /\ \/ (chs.c * numberOfHeads + chs.h) * sectorsPerTrack + chs.s - 1 = lbn
            \/ chs = [c |-> 1023, h |-> 254, s |-> 63] /\ lbn >= 1024 * size
<1> DEFINE H == numberOfHeads  S == sectorsPerTrack
           q == lbn \div size  r == lbn % size  h == r \div S  x == r % S
<1>1. /\ H \in Nat /\ H > 0 /\ H <= 255 /\ S \in Nat /\ S > 0 /\ S <= 63
      /\ UInt16 \in Nat /\ UInt16 > 0
      BY SizesAre DEF UInt16
<1>2. size = H * S /\ size \in Nat /\ size > 0
  <2> HIDE DEF H, S
  <2> QED
      BY <1>1 DEF H, S
<1> HIDE DEF H, S
<1>3. q \in Nat /\ r \in Nat /\ r < size /\ lbn = size * q + r
      BY <1>2, NatDivMod
<1> HIDE DEF q, r
<1>4. h \in Nat /\ x \in Nat /\ x < S /\ r = S * h + x
      BY <1>1, <1>3, NatDivMod
<1> HIDE DEF h, x
<1>5. h < H
  <2>1. h >= H => S * h >= S * H
        BY <1>1, <1>4
  <2>2. S * h < S * H
        BY <1>1, <1>2, <1>3, <1>4
  <2> QED
      BY <1>1, <1>4, <2>1, <2>2
<1>6. lbn = (q * H + h) * S + x
      BY <1>1, <1>2, <1>3, <1>4
<1>7. lbn % S = x
  <2>1. q * H + h \in Int
        BY <1>1, <1>3, <1>4
  <2> QED
      BY <1>1, <1>4, <1>6, <2>1, DivModUnique
<1>8. lbnToCylinder(lbn) = q
  <2>1. q < UInt16 /\ lbnToCylinder(lbn) = q % UInt16
        BY <1>2 DEF lbnToCylinder, q, H, S
  <2>2. q = 0 * UInt16 + q
        BY <1>1, <1>3
  <2> QED
      BY <1>1, <1>3, <2>1, <2>2, DivModUnique
<1>9. lbnToHead(lbn) = h /\ lbnToSector(lbn) = x + 1
      BY <1>2, <1>7 DEF lbnToHead, lbnToSector, h, r, H, S
<1>10. CASE q <= 1023
  <2>1. chs.c = q /\ chs.h = h /\ chs.s = x + 1
        BY <1>8, <1>9, <1>10 DEF Chs
  <2>2. (q * H + h) * S + (x + 1) - 1 = lbn
    <3> DEFINE track == (q * H + h) * S
    <3>1. track \in Int /\ lbn = track + x
          BY <1>1, <1>3, <1>4, <1>6
    <3> HIDE DEF track
    <3>2. track + (x + 1) - 1 = lbn
          BY <1>4, <3>1
    <3> QED
        BY <3>2 DEF track
  <2>3. chs.c <= 1023 /\ chs.h < 256 /\ chs.s \in 1 .. 63
    <3>1. h < 256 /\ x + 1 \in 1 .. 63
          BY <1>1, <1>4, <1>5
    <3> QED
        BY <1>10, <2>1, <3>1
  <2>4. (chs.c * H + chs.h) * S + chs.s - 1 = lbn
        BY <2>1, <2>2
  <2> QED
      BY <2>3, <2>4 DEF H, S
<1>11. CASE q > 1023
  <2>1. chs = [c |-> 1023, h |-> 254, s |-> 63]
        BY <1>3, <1>8, <1>11 DEF Chs
  <2>2. size * q >= size * 1024
        BY <1>2, <1>3, <1>11
  <2> QED
      BY <1>2, <1>3, <2>1, <2>2
<1> QED
    BY <1>3, <1>10, <1>11

-------------------------------------------------------------------------------
(* What the sketch writes.                                                 *)

Mbr ==
  [type |-> volume.partType, firstSector |-> volume.relSector,
   totalSectors |-> volume.partSize, begin |-> Chs(volume.relSector),
   end |-> Chs(volume.relSector + volume.partSize - 1)]

Boots ==
  {[at |-> b, is |-> BootSector(volume)] :
     b \in IF fat32 THEN {volume.relSector, volume.relSector + 6} ELSE {volume.relSector}}

Zeros == {[from |-> volume.fatStart, to |-> volume.fatStart + Cleared(volume) - 1]}

Heads == {volume.fatStart, volume.fatStart + volume.fatSize}

Disk(mbr, boot, zeroed, heads) ==
  [mbr |-> mbr, boot |-> boot, zeroed |-> zeroed, heads |-> heads]

\* What the sketch has done when it comes to each of its steps.
WrittenSoFar ==
  /\ pc \in {"erase", "sizes", "refused", "mbr"} => disk = Untouched
  /\ pc = "boot" => disk = Disk(Mbr, {}, {}, {})
  /\ pc = "clear" => disk = Disk(Mbr, Boots, {}, {})
  /\ pc = "heads" => disk = Disk(Mbr, Boots, Zeros, {})
  /\ Formatted => disk = Disk(Mbr, Boots, Zeros, Heads)

\* A card that has been refused is not written, even if a later write fails.
OnlyIfAccepted ==
  /\ pc \in {"sizes", "mbr", "boot", "clear", "heads"} => option # "E"
  /\ pc \in {"mbr", "boot", "clear", "heads"} => ~Refuses(volume)
  /\ Formatted => ~Refuses(volume)
  /\ disk.mbr # None => disk.mbr = Mbr /\ ~Refuses(volume)

ErasedSoFar ==
  /\ erased \in Nat /\ erased <= cardSizeBlocks
  /\ pc = "erase" => option # "Q" /\ erased < cardSizeBlocks
  /\ option = "Q" => erased = 0
  /\ option # "Q" /\ pc \notin {"erase", "error"} => erased = cardSizeBlocks

FormatInv ==
  /\ csd \in Registers /\ option \in {"E", "F", "Q"}
  /\ WrittenSoFar /\ OnlyIfAccepted /\ ErasedSoFar

-------------------------------------------------------------------------------
(* The library mounts what has been written.                               *)

Accepted == csd \in Registers /\ ~Refuses(volume)

\* All boot sectors written say the same.
LEMMA BootIs ==
  ASSUME NEW b \in Boots
  PROVE  b.is = BootSector(volume)
BY DEF Boots

\* One of them is where the master boot record says that the volume begins.
LEMMA FirstBoot == \E b \in Boots : b.at = volume.relSector
<1> DEFINE v == volume  boot == BootSector(v)
<1> HIDE DEF boot, v
<1>1. ASSUME NEW A, v.relSector \in A
      PROVE  \E b \in {[at |-> i, is |-> boot] : i \in A} : b.at = v.relSector
  <2>1. [at |-> v.relSector, is |-> boot] \in {[at |-> i, is |-> boot] : i \in A}
        BY <1>1, Zenon
  <2>2. [at |-> v.relSector, is |-> boot].at = v.relSector
        OBVIOUS
  <2> QED
      BY <2>1, <2>2, Zenon
<1>2. v.relSector \in IF fat32 THEN {v.relSector, v.relSector + 6} ELSE {v.relSector}
      OBVIOUS
<1> QED
    BY <1>1, <1>2 DEF Boots, boot, v

\* The fields of the mounted volume are those that the sketch has laid out.
LEMMA MountedIs ==
  ASSUME Accepted, disk.mbr = Mbr, disk.boot = Boots
  PROVE  LET v == volume
         IN  /\ Mounts
             /\ Mounted = [fatStartBlock |-> v.fatStart, blocksPerFat |-> v.fatSize,
                           rootDirStart |-> v.fatStart + 2 * v.fatSize,
                           dataStartBlock |-> v.dataStart, clusterCount |-> v.nc,
                           blocksPerCluster |-> sectorsPerCluster,
                           fatType |-> IF fat32 THEN 32 ELSE 16]
<1> DEFINE v == volume  spc == sectorsPerCluster
           first == CHOOSE b \in disk.boot : b.at = disk.mbr.firstSector
           fbs == first.is
           start == disk.mbr.firstSector
           fatStartBlock == start + fbs.reservedSectorCount
           rootDirStart == fatStartBlock + fbs.fatCount * fbs.sectorsPerFat
           dataStartBlock == rootDirStart + (32 * fbs.rootDirEntryCount + 511) \div 512
           clusterCount ==
             (fbs.totalSectors - (dataStartBlock - start)) \div fbs.sectorsPerCluster
<1>1. Fits(v)
      BY AcceptedFits DEF Accepted
<1>2. start = v.relSector
      BY DEF Mbr
<1>3. first \in Boots
      BY <1>2, FirstBoot
<1>4. fbs = BootSector(v)
      BY <1>3, BootIs
<1> HIDE DEF first
<1>5. /\ fbs.sectorsPerCluster = spc /\ fbs.reservedSectorCount = v.reservedSectors
      /\ fbs.fatCount = 2 /\ fbs.rootDirEntryCount = (IF fat32 THEN 0 ELSE 512)
      /\ fbs.sectorsPerFat = v.fatSize /\ fbs.totalSectors = v.partSize
      BY <1>4 DEF BootSector
<1> HIDE DEF fbs, start
<1>6. spc \in Nat \ {0} /\ \E n \in Shifts : spc = 2^n
  <2>1. /\ 2^1 = 2 /\ 2^2 = 4 /\ 2^3 = 8 /\ 2^4 = 16 /\ 2^5 = 32 /\ 2^6 = 64 /\ 2^7 = 128
        /\ {1, 2, 3, 4, 5, 6, 7} \subseteq Shifts
        BY DEF Shifts
  <2>2. spc \in {2, 4, 8, 16, 32, 64, 128}
        BY SizesAre DEF Accepted
  <2>3. /\ spc = 2^1 \/ spc = 2^2 \/ spc = 2^3 \/ spc = 2^4 \/ spc = 2^5 \/ spc = 2^6
           \/ spc = 2^7
        /\ spc \in Nat \ {0}
        BY <2>1, <2>2
  <2> HIDE DEF spc
  <2>4. \E n \in {1, 2, 3, 4, 5, 6, 7} : spc = 2^n
        BY <2>3, Zenon
  <2> QED
      BY <2>1, <2>3, <2>4, Zenon
<1> HIDE DEF spc, v
<1>7. fatStartBlock = v.fatStart /\ rootDirStart = v.fatStart + 2 * v.fatSize
      BY <1>1, <1>2, <1>5 DEF Fits
<1>8. dataStartBlock = v.dataStart
  <2>1. (32 * (IF fat32 THEN 0 ELSE 512) + 511) \div 512 = IF fat32 THEN 0 ELSE 32
        OBVIOUS
  <2> HIDE DEF rootDirStart
  <2> QED
      BY <1>1, <1>5, <1>7, <2>1 DEF Fits
<1> HIDE DEF fatStartBlock, rootDirStart, dataStartBlock
<1>9. clusterCount = v.nc
  <2> DEFINE data == v.nc * spc  n == fbs.totalSectors - (dataStartBlock - start)
  <2>1. v.nc \in Nat /\ data \in Nat /\ data = v.nc * spc + 0
        BY <1>1, <1>6 DEF Fits
  <2>2. v.relSector + v.partSize = v.dataStart + data
        BY <1>1 DEF Fits, spc
  <2> HIDE DEF data
  <2>3. n = data
        BY <1>1, <1>2, <1>5, <1>8, <2>1, <2>2 DEF Fits
  <2>4. data \div spc = v.nc
    <3>1. \A m \in Int : m = v.nc * spc + 0 => m \div spc = v.nc
          BY <1>6, <2>1, DivModUnique
    <3> QED
        BY <2>1, <3>1
  <2> QED
      BY <1>5, <2>3, <2>4
<1> HIDE DEF clusterCount
<1>10. (CASE clusterCount < 4085 -> 12
          [] 4085 <= clusterCount /\ clusterCount < 65525 -> 16
          [] OTHER -> 32) = IF fat32 THEN 32 ELSE 16
       BY <1>1, <1>9, SMT DEF Fits, CountIsValid
<1>11. Mounted = [fatStartBlock |-> v.fatStart, blocksPerFat |-> v.fatSize,
                  rootDirStart |-> v.fatStart + 2 * v.fatSize,
                  dataStartBlock |-> v.dataStart, clusterCount |-> v.nc,
                  blocksPerCluster |-> spc, fatType |-> IF fat32 THEN 32 ELSE 16]
  <2>1. Mounted = [fatStartBlock |-> fatStartBlock, blocksPerFat |-> fbs.sectorsPerFat,
                   rootDirStart |-> rootDirStart, dataStartBlock |-> dataStartBlock,
                   clusterCount |-> clusterCount, blocksPerCluster |-> fbs.sectorsPerCluster,
                   fatType |-> CASE clusterCount < 4085 -> 12
                                 [] 4085 <= clusterCount /\ clusterCount < 65525 -> 16
                                 [] OTHER -> 32]
        BY DEF Mounted, clusterCount, dataStartBlock, rootDirStart, fatStartBlock, fbs,
               first, start
  <2> QED
      BY <1>5, <1>7, <1>8, <1>9, <1>10, <2>1
<1>12. Mounts
  <2>1. disk.mbr # None
        BY DEF Mbr, None
  <2>2. disk.mbr.firstSector # 0
        BY <1>1, <1>2 DEF Fits, start
  <2>3. PICK b \in Boots : b.at = volume.relSector
        BY FirstBoot
  <2>4. /\ b.is.fatCount = 2 /\ b.is.reservedSectorCount = v.reservedSectors
        /\ b.is.sectorsPerCluster = spc
        BY <2>3, BootIs DEF BootSector, v, spc
  <2>5. v.reservedSectors # 0
        BY <1>1 DEF Fits
  <2> QED
      BY <1>2, <1>6, <2>1, <2>2, <2>3, <2>4, <2>5 DEF Mounts, start, v
<1> QED
    BY <1>11, <1>12 DEF v, spc

\* The invariant implies the property.
LEMMA InvMeansRight == ASSUME FormatInv PROVE FormatIsRight
<1> DEFINE v == volume  blocks == cardSizeBlocks  spc == sectorsPerCluster
<1>1. /\ csd \in Registers /\ blocks \in Nat /\ WrittenSoFar /\ OnlyIfAccepted /\ ErasedSoFar
      BY BlocksAre DEF FormatInv
<1>2. ASSUME disk.mbr # None
      PROVE  Accepted /\ disk.mbr = Mbr /\ Fits(v)
      BY <1>1, <1>2, AcceptedFits DEF OnlyIfAccepted, Accepted
<1>3. ASSUME Formatted
      PROVE  /\ disk.mbr # None /\ disk.mbr = Mbr /\ disk.boot = Boots
             /\ disk.zeroed = Zeros /\ disk.heads = Heads
  <2>1. Mbr # None
        BY DEF Mbr, None
  <2> QED
      BY <1>1, <1>3, <2>1 DEF WrittenSoFar, Disk
<1>4. ASSUME Formatted
      PROVE  /\ Mounts
             /\ Mounted = [fatStartBlock |-> v.fatStart, blocksPerFat |-> v.fatSize,
                           rootDirStart |-> v.fatStart + 2 * v.fatSize,
                           dataStartBlock |-> v.dataStart, clusterCount |-> v.nc,
                           blocksPerCluster |-> spc,
                           fatType |-> IF fat32 THEN 32 ELSE 16]
      BY <1>2, <1>3, <1>4, MountedIs
<1>5. ASSUME Formatted
      PROVE  /\ Mounted.fatStartBlock = v.fatStart /\ Mounted.blocksPerFat = v.fatSize
             /\ Mounted.dataStartBlock = v.dataStart /\ Mounted.clusterCount = v.nc
             /\ Mounted.blocksPerCluster = spc /\ Mounted.fatType = IF fat32 THEN 32 ELSE 16
  <2> HIDE DEF v, spc
  <2> QED
      BY <1>4, <1>5
<1>6. /\ Mbr.firstSector = v.relSector /\ Mbr.totalSectors = v.partSize
      /\ Mbr.begin = Chs(v.relSector) /\ Mbr.end = Chs(v.relSector + v.partSize - 1)
      BY DEF Mbr
<1> HIDE DEF v, spc, blocks
<1>7. FormattedMounts
  <2> SUFFICES ASSUME Formatted
               PROVE  /\ Mounts /\ Mounted.fatType = IF fat32 THEN 32 ELSE 16
                      /\ Mounted.dataStartBlock + Mounted.clusterCount * Mounted.blocksPerCluster
                           <= cardSizeBlocks
                      /\ disk.mbr.firstSector + disk.mbr.totalSectors <= cardSizeBlocks
                      /\ Mounted.clusterCount + 2
                           <= Mounted.blocksPerFat * (IF fat32 THEN 128 ELSE 256)
      BY DEF FormattedMounts
  <2>1. Fits(v)
        BY <1>2, <1>3
  <2>2. /\ v.dataStart + v.nc * spc <= blocks /\ v.relSector + v.partSize <= blocks
        /\ v.nc + 2 <= v.fatSize * Entries
        BY <2>1 DEF Fits, spc, blocks
  <2> QED
      BY <1>3, <1>4, <1>5, <1>6, <2>2 DEF Entries, blocks
<1>8. NothingIsLeft
  <2> SUFFICES ASSUME Formatted
               PROVE  \E z \in disk.zeroed :
                        /\ z.from = Mounted.fatStartBlock
                        /\ z.to >= Mounted.dataStartBlock - 1
                                     + (IF fat32 THEN Mounted.blocksPerCluster ELSE 0)
                        /\ disk.heads = {Mounted.fatStartBlock,
                                         Mounted.fatStartBlock + Mounted.blocksPerFat}
                        /\ \A b \in disk.boot : b.at < z.from
      BY DEF NothingIsLeft
  <2> DEFINE to == v.fatStart + Cleared(v) - 1
             z == [from |-> v.fatStart, to |-> to]
  <2>1. Fits(v) /\ spc \in Nat
        BY <1>1, <1>2, <1>3, SizesAre DEF spc
  <2>2. z \in disk.zeroed /\ z.from = v.fatStart /\ z.to = to
        BY <1>3 DEF Zeros, v
  <2>3. to >= v.dataStart - 1 + (IF fat32 THEN spc ELSE 0)
    <3>1. CASE fat32
      <4>1. Cleared(v) = 2 * v.fatSize + spc
            BY <3>1 DEF Cleared, spc
      <4>2. /\ v.dataStart = v.fatStart + 2 * v.fatSize + 0 /\ v.fatSize \in Nat
            /\ v.fatStart \in Nat /\ v.dataStart \in Nat
            BY <2>1, <3>1 DEF Fits
      <4> QED
          BY <2>1, <3>1, <4>1, <4>2
    <3>2. CASE ~fat32
      <4>1. Cleared(v) = v.dataStart - v.fatStart
            BY <3>2 DEF Cleared
      <4>2. v.fatStart \in Nat /\ v.dataStart \in Nat
            BY <2>1 DEF Fits
      <4> QED
          BY <3>2, <4>1, <4>2
    <3> QED
        BY <3>1, <3>2
  <2>4. disk.heads = {v.fatStart, v.fatStart + v.fatSize}
        BY <1>3 DEF Heads, v
  <2>5. ASSUME NEW b \in disk.boot PROVE b.at < v.fatStart
    <3>1. b.at = v.relSector \/ (fat32 /\ b.at = v.relSector + 6)
          BY <1>3, <2>5 DEF Boots, v
    <3>2. /\ v.relSector \in Nat /\ v.reservedSectors \in Nat /\ v.reservedSectors > 0
          /\ v.fatStart = v.relSector + v.reservedSectors
          /\ fat32 => v.reservedSectors >= 9
          BY <2>1 DEF Fits
    <3> QED
        BY <3>1, <3>2
  <2> HIDE DEF z, to
  <2> QED
      BY <1>5, <2>2, <2>3, <2>4, <2>5
<1>9. DataIsAligned
  <2>1. ASSUME Formatted PROVE v.dataStart % Unit = 0
        BY <1>2, <1>3, <2>1 DEF Fits
  <2> QED
      BY <1>5, <2>1 DEF DataIsAligned
<1>10. ChsIsRight
  <2> SUFFICES ASSUME disk.mbr # None, NEW end \in BOOLEAN,
                      NEW lbn, lbn = (IF end THEN disk.mbr.firstSector + disk.mbr.totalSectors - 1
                                      ELSE disk.mbr.firstSector),
                      NEW chs, chs = (IF end THEN disk.mbr.end ELSE disk.mbr.begin),
                      NEW size, size = numberOfHeads * sectorsPerTrack, lbn \div size < UInt16
               PROVE  /\ chs.c <= 1023 /\ chs.h < 256 /\ chs.s \in 1 .. 63
                      /\ \/ (chs.c * numberOfHeads + chs.h) * sectorsPerTrack + chs.s - 1 = lbn
                         \/ chs = [c |-> 1023, h |-> 254, s |-> 63] /\ lbn >= 1024 * size
      BY DEF ChsIsRight
  <2>1. Fits(v) /\ disk.mbr = Mbr
        BY <1>2
  <2>2. lbn \in Nat
    <3>1. v.relSector \in Nat /\ v.partSize \in Nat \ {0}
          BY <2>1 DEF Fits
    <3> QED
        BY <1>6, <2>1, <3>1
  <2>3. chs = Chs(lbn)
        BY <1>6, <2>1
  <2> QED
      BY <1>1, <2>2, <2>3, ChsSays
<1>11. RefusedIsUntouched
  <2> QED
      BY <1>1 DEF RefusedIsUntouched, WrittenSoFar, ErasedSoFar
<1>12. EraseCoversTheCard
  <2> QED
      BY <1>1 DEF EraseCoversTheCard, ErasedSoFar
<1> QED
    BY <1>7, <1>8, <1>9, <1>10, <1>11, <1>12 DEF FormatIsRight

-------------------------------------------------------------------------------
(* Every step keeps the invariant.                                         *)

\* Everything that the sketch computes depends on the card only.
LEMMA SameCard ==
  ASSUME csd' = csd
  PROVE  /\ cardSizeBlocks' = cardSizeBlocks /\ volume' = volume
         /\ Refuses(volume)' = Refuses(volume)
         /\ Mbr' = Mbr /\ Boots' = Boots /\ Zeros' = Zeros /\ Heads' = Heads
<1>1. /\ cardSizeBlocks' = cardSizeBlocks /\ fat32' = fat32
      BY DEF cardSizeBlocks, fat32
<1>2. cardCapacityMB' = cardCapacityMB /\ Unit' = Unit
      BY <1>1 DEF cardCapacityMB, Unit, UInt16
<1>3. /\ sectorsPerCluster' = sectorsPerCluster /\ sectorsPerTrack' = sectorsPerTrack
      /\ numberOfHeads' = numberOfHeads
      BY <1>2 DEF sectorsPerCluster, sectorsPerTrack, numberOfHeads
<1>4. \A d : Layout(d)' = Layout(d)
      BY <1>1, <1>3 DEF Layout, LayoutFor, LayoutOf, FatSize, RootBlocks
<1>5. layout' = layout
      BY <1>1, <1>2, <1>4 DEF layout
<1>6. \A end, size : PartType(end, size)' = PartType(end, size)
      BY <1>1, SMT DEF PartType
<1>7. volume' = volume
      BY <1>1, <1>3, <1>5, <1>6 DEF volume, VolumeOf, RootBlocks, UInt16
<1>8. \A lbn : Chs(lbn)' = Chs(lbn) /\ lbnToCylinder(lbn)' = lbnToCylinder(lbn)
      BY <1>3 DEF Chs, lbnToCylinder, lbnToHead, lbnToSector
<1> QED
    BY <1>1, <1>2, <1>3, <1>7, <1>8
       DEF Refuses, CountIsValid, Mbr, Boots, Zeros, Heads, BootSector, Cleared

\* It holds at the start.
LEMMA InitInv == Init => FormatInv
<1> SUFFICES ASSUME Init PROVE FormatInv
    OBVIOUS
<1>1. cardSizeBlocks \in Nat \ {0}
      BY BlocksAre DEF Init
<1>2. disk.mbr = None
      BY DEF Init, Untouched
<1> QED
    BY <1>1, <1>2 DEF Init, FormatInv, WrittenSoFar, OnlyIfAccepted, ErasedSoFar, Formatted

\* A write that succeeds leaves what the next step expects, one that fails the record as
\* it was.
LEMMA StepInv ==
  ASSUME FormatInv, Next
  PROVE  FormatInv'
<1> DEFINE blocks == cardSizeBlocks
<1>1. /\ csd \in Registers /\ option \in {"E", "F", "Q"} /\ blocks \in Nat \ {0}
      /\ WrittenSoFar /\ OnlyIfAccepted /\ ErasedSoFar /\ ERASE_SIZE \in Nat \ {0}
      BY BlocksAre, UnitsAre DEF FormatInv
<1>2. csd' = csd /\ option' = option
      BY DEF Next, Erase, Stops, Sizes, writeMbr, WriteBoot, clearFatDir, WriteHeads, Does
<1>3. /\ blocks' = blocks /\ Refuses(volume)' = Refuses(volume)
      /\ Mbr' = Mbr /\ Boots' = Boots /\ Zeros' = Zeros /\ Heads' = Heads
      BY <1>2, SameCard
<1>4. csd' \in Registers /\ option' \in {"E", "F", "Q"}
      BY <1>1, <1>2
<1>5. Untouched.mbr = None /\ Mbr # None
      BY DEF Untouched, Mbr, None
<1>6. CASE Erase
  <2>1. PICK lastBlock :
          /\ lastBlock = IF erased + ERASE_SIZE - 1 >= blocks THEN blocks - 1
                         ELSE erased + ERASE_SIZE - 1
          /\ pc = "erase" /\ disk' = disk
          /\ \/ /\ erased' = lastBlock + 1
                /\ pc' = IF erased + ERASE_SIZE < blocks THEN pc
                         ELSE IF option = "E" THEN "done" ELSE "sizes"
             \/ pc' = "error" /\ erased' = erased
        BY <1>6 DEF Erase, Stops
  <2>2. erased \in Nat /\ erased < blocks /\ option # "Q" /\ disk = Untouched
        BY <1>1, <2>1 DEF WrittenSoFar, ErasedSoFar
  <2> HIDE DEF blocks
  <2>3. /\ erased' \in Nat /\ erased' <= blocks
        /\ pc' = "erase" => erased' < blocks
        /\ pc' \in {"erase", "error"} \/ erased' = blocks
        /\ pc' \in {"erase", "sizes", "error", "done"} /\ (pc' = "done" => option = "E")
    <3>1. CASE /\ erased' = lastBlock + 1
               /\ pc' = IF erased + ERASE_SIZE < blocks THEN pc
                        ELSE IF option = "E" THEN "done" ELSE "sizes"
          BY <1>1, <2>1, <2>2, <3>1
    <3>2. CASE pc' = "error" /\ erased' = erased
          BY <1>1, <2>2, <3>2
    <3> QED
        BY <2>1, <3>1, <3>2
  <2>4. WrittenSoFar'
        BY <1>2, <2>1, <2>2, <2>3 DEF WrittenSoFar, Formatted, Untouched
  <2>5. OnlyIfAccepted'
        BY <1>2, <1>5, <2>1, <2>2, <2>3 DEF OnlyIfAccepted, Formatted
  <2>6. ErasedSoFar'
        BY <1>2, <1>3, <2>2, <2>3 DEF ErasedSoFar, blocks
  <2> QED
      BY <1>4, <2>4, <2>5, <2>6 DEF FormatInv
<1>7. CASE Sizes
  <2>1. /\ pc = "sizes" /\ pc' = (IF Refuses(volume) THEN "refused" ELSE "mbr")
        /\ erased' = erased /\ disk' = disk /\ disk = Untouched
        BY <1>1, <1>7 DEF Sizes, WrittenSoFar
  <2>2. WrittenSoFar'
        BY <2>1 DEF WrittenSoFar, Formatted, Untouched
  <2>3. OnlyIfAccepted'
        BY <1>1, <1>2, <1>3, <1>5, <2>1 DEF OnlyIfAccepted, Formatted
  <2>4. ErasedSoFar'
        BY <1>1, <1>2, <1>3, <2>1 DEF ErasedSoFar
  <2> QED
      BY <1>4, <2>2, <2>3, <2>4 DEF FormatInv
<1>8. CASE writeMbr \/ WriteBoot \/ clearFatDir \/ WriteHeads
  <2> DEFINE D1 == Disk(Mbr, {}, {}, {})
             D2 == Disk(Mbr, Boots, {}, {})
             D3 == Disk(Mbr, Boots, Zeros, {})
             D4 == Disk(Mbr, Boots, Zeros, Heads)
  <2>1. /\ erased' = erased /\ pc \in {"mbr", "boot", "clear", "heads"}
        /\ \/ pc = "mbr" /\ pc' = "boot" /\ disk' = D1
           \/ pc = "boot" /\ pc' = "clear" /\ disk' = D2
           \/ pc = "clear" /\ pc' = "heads" /\ disk' = D3
           \/ pc = "heads" /\ pc' = "done" /\ disk' = D4
           \/ pc' = "error" /\ (disk' = disk \/ disk'.mbr = Mbr)
    <3>1. CASE writeMbr
      <4>1. pc = "mbr" => [disk EXCEPT !.mbr = Mbr] = D1
            BY <1>1 DEF WrittenSoFar, Untouched, Disk
      <4> QED
          BY <3>1, <4>1 DEF writeMbr, Does, Mbr
    <3>2. CASE WriteBoot
      <4>1. pc = "boot" => [disk EXCEPT !.boot = Boots] = D2
            BY <1>1 DEF WrittenSoFar, Disk
      <4>2. pc = "boot" => \A x : WithBoot(volume, x).mbr = Mbr
            BY <1>1 DEF WrittenSoFar, Disk, WithBoot
      <4> DEFINE v == volume
                 copies == IF fat32 THEN {v.relSector, v.relSector + 6} ELSE {v.relSector}
      <4>3. WithBoot(v, copies) = [disk EXCEPT !.boot = Boots]
            BY DEF WithBoot, Boots
      <4>4. Does("boot", "clear",
                 IF fat32 THEN {WithBoot(v, {v.relSector}), WithBoot(v, copies)} ELSE {},
                 WithBoot(v, copies))
            BY <3>2 DEF WriteBoot
      <4> HIDE DEF v, copies
      <4>5. /\ erased' = erased /\ pc = "boot"
            /\ \/ pc' = "clear" /\ disk' = WithBoot(v, copies)
               \/ pc' = "error" /\ (disk' = disk \/ \E x : disk' = WithBoot(v, x))
            BY <4>4 DEF Does
      <4> QED
          BY <4>1, <4>2, <4>3, <4>5 DEF v
    <3>3. CASE clearFatDir
      <4>1. pc = "clear" => [disk EXCEPT !.zeroed = Zeros] = D3
            BY <1>1 DEF WrittenSoFar, Disk
      <4>2. pc = "clear" => \A x : [disk EXCEPT !.zeroed = x].mbr = Mbr
            BY <1>1 DEF WrittenSoFar, Disk
      <4> QED
          BY <3>3, <4>1, <4>2 DEF clearFatDir, Does, Zeros, WithZeros
    <3>4. CASE WriteHeads
      <4>1. pc = "heads" => [disk EXCEPT !.heads = Heads] = D4
            BY <1>1 DEF WrittenSoFar, Disk
      <4>2. pc = "heads" => \A x : [disk EXCEPT !.heads = x].mbr = Mbr
            BY <1>1 DEF WrittenSoFar, Disk
      <4> QED
          BY <3>4, <4>1, <4>2 DEF WriteHeads, Does, Heads
    <3> QED
        BY <1>8, <3>1, <3>2, <3>3, <3>4
  <2>2. option # "E" /\ ~Refuses(volume)
        BY <1>1, <2>1 DEF OnlyIfAccepted
  <2>3. D1' = D1 /\ D2' = D2 /\ D3' = D3 /\ D4' = D4
        BY <1>3 DEF Disk
  <2>4. WrittenSoFar'
        BY <2>1, <2>3 DEF WrittenSoFar, Formatted
  <2>5. OnlyIfAccepted'
    <3>1. disk' = disk \/ disk'.mbr = Mbr
          BY <2>1 DEF Disk
    <3> QED
        BY <1>1, <1>2, <1>3, <2>1, <2>2, <3>1 DEF OnlyIfAccepted, Formatted
  <2>6. ErasedSoFar'
        BY <1>1, <1>2, <1>3, <2>1 DEF ErasedSoFar
  <2> QED
      BY <1>4, <2>4, <2>5, <2>6 DEF FormatInv
<1> QED
    BY <1>6, <1>7, <1>8 DEF Next

\* A format ends with a card that the library mounts as an empty volume within the card;
\* a card that is refused is not written (SdFormatter.ino, SdVolume::init).
THEOREM FormatIsRightCorrect == Spec => []FormatIsRight
<1>1. ASSUME FormatInv, UNCHANGED vars PROVE FormatInv'
  <2>1. /\ csd' = csd /\ option' = option /\ pc' = pc /\ erased' = erased /\ disk' = disk
        BY <1>1 DEF vars
  <2>2. /\ cardSizeBlocks' = cardSizeBlocks /\ Refuses(volume)' = Refuses(volume)
        /\ Mbr' = Mbr /\ Boots' = Boots /\ Zeros' = Zeros /\ Heads' = Heads
        BY <2>1, SameCard
  <2> QED
      BY <1>1, <2>1, <2>2
         DEF FormatInv, WrittenSoFar, OnlyIfAccepted, ErasedSoFar, Formatted, Disk, Untouched
<1>2. Spec => []FormatInv
      BY <1>1, InitInv, StepInv, PTL DEF Spec
<1>3. FormatInv => FormatIsRight
      BY InvMeansRight
<1> QED
    BY <1>2, <1>3, PTL

===============================================================================
