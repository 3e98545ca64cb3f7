---------------------------- MODULE RecoverProofs ----------------------------
(***************************************************************************)
(* Proofs about Recover: every step preserves IInv, hence a restore never  *)
(* writes outside the partitions it restores, puts data into the wrong     *)
(* sector only where a wrong record leads it astray, touches nothing when  *)
(* the check value shows damage, and has restored the partitions whose     *)
(* records are whole when it reports success: for any number, size and     *)
(* position of the partitions, any block and unit size and any bitmap.     *)
(***************************************************************************)
EXTENDS Recover, RankTheorems

-----------------------------------------------------------------------------
(***************************************************************************)
(* The blocks of a partition, its bitmap and its units.                    *)
(***************************************************************************)

\* The partitions are numbers.
LEMMA PartNumbers == Parts \subseteq Nat
<1> QED BY SizesAssumption DEF Parts

\* What is wrong is wrong in a partition the image has data of.
LEMMA DamagedPart ==
  ASSUME ImageInv, damage.kind # "none"
  PROVE  damage.part \in Saved /\ damage.part \in Parts
<1>1. damage \in [kind : Kinds, part : Saved, n : 0..DiskSize, seen : BOOLEAN]
  BY DEF ImageInv, Damages
<1> QED BY <1>1 DEF ImageInv

\* The blocks of the partition are whole numbers of sectors, and at most one
\* sector each (func.c, TotalBlocks).
LEMMA TotalBlocksBounds ==
  ASSUME NEW q \in Parts
  PROVE  /\ TotalBlocks(q) \in Nat \ {0} /\ TotalBlocks(q) <= TotalSectors[q]
         /\ TotalSectors[q] <= TotalBlocks(q) * BLOCK_SIZE
         /\ (TotalBlocks(q) - 1) * BLOCK_SIZE < TotalSectors[q]
         /\ TotalSectors[q] <= DiskSize /\ BootBegin[q] \in Nat
<1>1. TotalSectors[q] \in Nat \ {0} /\ BLOCK_SIZE \in Nat \ {0} /\ BootBegin[q] \in Nat
      /\ DiskSize \in Nat
  BY SizesAssumption
<1>2. TotalSectors[q] <= DiskSize
  BY <1>1, LayoutAssumption
<1> QED BY <1>1, <1>2, RoundUp DEF TotalBlocks

\* A bitmap is a finite set of blocks.
LEMMA Bitmap ==
  ASSUME ImageInv, NEW q \in Saved
  PROVE  /\ q \in Parts /\ marked[q] \in SUBSET Nat /\ IsFiniteSet(marked[q])
         /\ Cardinality(marked[q]) \in Nat /\ Cardinality(marked[q]) <= TotalBlocks(q)
<1>1. q \in Parts /\ marked[q] \in SUBSET (0..(TotalBlocks(q) - 1))
  BY DEF ImageInv, Blocks
<1>2. TotalBlocks(q) \in Nat \ {0}
  BY <1>1, TotalBlocksBounds
<1>3. /\ IsFiniteSet(0..(TotalBlocks(q) - 1))
      /\ Cardinality(0..(TotalBlocks(q) - 1)) = TotalBlocks(q)
  <2>1. PICK t : t = TotalBlocks(q) - 1
    OBVIOUS
  <2>2. t \in Int /\ ~(0 > t) /\ t - 0 + 1 = TotalBlocks(q)
    BY <1>2, <2>1
  <2>3. IsFiniteSet(0..t) /\ Cardinality(0..t) = IF 0 > t THEN 0 ELSE t - 0 + 1
    BY <2>2, FS_Interval
  <2> QED BY <2>1, <2>2, <2>3
<1>4. IsFiniteSet(marked[q]) /\ Cardinality(marked[q]) <= TotalBlocks(q)
  BY <1>1, <1>3, FS_Subset
<1> QED BY <1>1, <1>4, FS_CardinalityType

\* Backup made as many units as it takes to hold the blocks.
LEMMA UnitsBounds ==
  ASSUME ImageInv, NEW q \in Saved
  PROVE  /\ Units(q) \in Nat /\ Units(q) <= DiskSize
         /\ \A i \in Nat : i < Units(q) => i * UnitBlocks < Cardinality(marked[q])
         /\ \A i \in Nat : i >= Units(q) => i * UnitBlocks >= Cardinality(marked[q])
<1> DEFINE n == Cardinality(marked[q])
<1>1. n \in Nat /\ UnitBlocks \in Nat \ {0} /\ n <= DiskSize /\ DiskSize \in Nat
  BY Bitmap, TotalBlocksBounds, SizesAssumption
<1>2. /\ Units(q) \in Nat /\ Units(q) <= n /\ n <= Units(q) * UnitBlocks
      /\ (Units(q) - 1) * UnitBlocks < n
  <2> HIDE DEF n
  <2> QED BY <1>1, RoundUp DEF Units, n
<1>3. ASSUME NEW i \in Nat, i < Units(q)
      PROVE  i * UnitBlocks < n
  <2>1. i <= Units(q) - 1 /\ Units(q) - 1 \in Nat
    BY <1>2, <1>3
  <2>2. i * UnitBlocks <= (Units(q) - 1) * UnitBlocks /\ i * UnitBlocks \in Nat
        /\ (Units(q) - 1) * UnitBlocks \in Nat
    BY <1>1, <2>1, TimesMonotone
  <2> QED BY <1>1, <1>2, <2>2
<1>4. ASSUME NEW i \in Nat, i >= Units(q)
      PROVE  i * UnitBlocks >= n
  <2>1. Units(q) * UnitBlocks <= i * UnitBlocks /\ i * UnitBlocks \in Nat
        /\ Units(q) * UnitBlocks \in Nat
    BY <1>1, <1>2, <1>4, TimesMonotone
  <2> QED BY <1>1, <1>2, <2>1
<1> QED BY <1>1, <1>2, <1>3, <1>4

\* UnitEnd is a number of blocks of the bitmap.
LEMMA UnitEndBounds ==
  ASSUME ImageInv, NEW q \in Saved, NEW i \in Nat
  PROVE  /\ UnitEnd(q, i) \in 0..Cardinality(marked[q])
         /\ i < Units(q) => UnitEnd(q, i) = i * UnitBlocks
         /\ i >= Units(q) => UnitEnd(q, i) = Cardinality(marked[q])
<1>1. UnitBlocks \in Nat /\ i * UnitBlocks \in Nat /\ Cardinality(marked[q]) \in Nat
  BY Bitmap, SizesAssumption, TimesMonotone
<1> QED BY <1>1, UnitsBounds DEF UnitEnd

\* Unit i holds the blocks of the ranks (i - 1) * UnitBlocks + 1 and on, in
\* order: the block of rank r is at place r - (i - 1) * UnitBlocks.
LEMMA UnitHolds ==
  ASSUME ImageInv, NEW q \in Saved, NEW i \in 1..Units(q)
  PROVE  /\ UnitOf(q, i) \in Seq(marked[q])
         /\ Len(UnitOf(q, i)) = UnitEnd(q, i) - (i - 1) * UnitBlocks
         /\ Len(UnitOf(q, i)) \in 0..UnitBlocks
         /\ (i - 1) * UnitBlocks \in 0..UnitEnd(q, i)
         /\ \A b \in marked[q] :
              LET k == Rank(marked[q], b) - (i - 1) * UnitBlocks
              IN k \in 1..Len(UnitOf(q, i)) => UnitOf(q, i)[k] = b
<1> DEFINE M == marked[q]
           m == (i - 1) * UnitBlocks
           n == UnitEnd(q, i)
           U == {b \in M : (Rank(M, b) - 1) \div UnitBlocks = i - 1}
<1>1. M \in SUBSET Nat /\ IsFiniteSet(M) /\ Cardinality(M) \in Nat
      /\ UnitBlocks \in Nat \ {0} /\ Units(q) \in Nat
  BY Bitmap, SizesAssumption, UnitsBounds
<1>2. i - 1 \in Nat /\ i \in Nat \ {0} /\ i - 1 < Units(q)
  BY <1>1
<1>3. m \in Nat /\ m < Cardinality(M) /\ i * UnitBlocks = m + UnitBlocks
  BY <1>1, <1>2, UnitsBounds, TimesNext, TimesMonotone
<1>4. n \in 0..Cardinality(M) /\ m \in 0..n /\ n - m <= UnitBlocks
  <2>1. n = IF m + UnitBlocks <= Cardinality(M) THEN m + UnitBlocks ELSE Cardinality(M)
    BY <1>3 DEF UnitEnd
  <2> HIDE DEF M, m, n
  <2> QED BY <1>1, <1>3, <2>1
<1>5. U = {b \in M : m < Rank(M, b) /\ Rank(M, b) <= n}
  <2>1. ASSUME NEW b \in M
        PROVE  (Rank(M, b) - 1) \div UnitBlocks = i - 1 <=> m < Rank(M, b) /\ Rank(M, b) <= n
    <3>1. Rank(M, b) \in 1..Cardinality(M)
      BY <1>1, RankOfElement
    <3>2. (Rank(M, b) - 1) \div UnitBlocks = i - 1
            <=> m < Rank(M, b) /\ Rank(M, b) <= i * UnitBlocks
      BY <1>1, <1>2, <3>1, UnitOfRank
    <3> QED BY <1>1, <1>3, <3>1, <3>2 DEF UnitEnd
  <2> QED BY <2>1
<1>6. /\ U \in SUBSET Nat /\ IsFiniteSet(U) /\ Cardinality(U) = n - m
      /\ \A b \in U : Rank(U, b) = Rank(M, b) - m
  <2>1. IsFiniteSet(M) /\ M \in SUBSET Nat /\ n \in 0..Cardinality(M) /\ m \in 0..n
    BY <1>1, <1>4
  <2> HIDE DEF M, m, n, U
  <2> QED BY <1>5, <2>1, RanksBetween
<1>7. UnitOf(q, i) = [k \in 1..Cardinality(U) |-> Nth(U, k)]
  BY DEF UnitOf
<1>8. UnitOf(q, i) \in Seq(M) /\ Len(UnitOf(q, i)) = n - m
  <2>1. \A k \in 1..Cardinality(U) : Nth(U, k) \in M
    <3>1. \A k \in 1..Cardinality(U) : Nth(U, k) \in U
      <4> HIDE DEF U
      <4> QED BY <1>6, NthHasRank
    <3> QED BY <3>1
  <2> HIDE DEF M, m, n, U
  <2>2. n - m \in Nat
    BY <1>1, <1>4
  <2> QED BY <1>6, <1>7, <2>1, <2>2
<1>9. ASSUME NEW b \in M, Rank(M, b) - m \in 1..(n - m)
      PROVE  UnitOf(q, i)[Rank(M, b) - m] = b
  <2>1. Rank(M, b) \in 1..Cardinality(M)
    BY <1>1, RankOfElement
  <2>2. b \in U
    <3> HIDE DEF M, m, n, U
    <3> QED BY <1>1, <1>4, <1>5, <1>9, <2>1
  <2>3. Nth(U, Rank(U, b)) = b
    <3> HIDE DEF U
    <3> QED BY <1>6, <2>2, NthOfRank
  <2> HIDE DEF M, m, n, U
  <2> QED BY <1>6, <1>7, <1>9, <2>2, <2>3
<1> HIDE DEF M, m, n, U
<1>10. n - m \in 0..UnitBlocks
  BY <1>1, <1>4
<1> QED BY <1>4, <1>8, <1>9, <1>10 DEF M, m, n

\* Going past a block counts it, if the bitmap has it.
LEMMA BeforeNext ==
  ASSUME ImageInv, NEW q \in Saved, NEW b \in Nat
  PROVE  /\ Before(q, b) \in 0..Cardinality(marked[q])
         /\ b \in marked[q] => /\ Rank(marked[q], b) = Before(q, b) + 1
                               /\ Before(q, b + 1) = Before(q, b) + 1
         /\ b \notin marked[q] => Before(q, b + 1) = Before(q, b)
<1> DEFINE M == marked[q]
           S == {d \in M : d < b}
<1>1. M \in SUBSET Nat /\ IsFiniteSet(M) /\ Cardinality(M) \in Nat
  BY Bitmap
<1>2. S \in SUBSET M /\ b \notin S
  BY <1>1
<1>3. IsFiniteSet(S) /\ Cardinality(S) <= Cardinality(M) /\ Cardinality(S) \in Nat
  <2> HIDE DEF S, M
  <2> QED BY <1>1, <1>2, FS_Subset, FS_CardinalityType
<1>4. \A d \in M : (d < b + 1 <=> d < b \/ d = b) /\ (d <= b <=> d < b \/ d = b)
  BY <1>1
<1>5. CASE b \in M
  <2>1. {d \in M : d < b + 1} = S \cup {b} /\ {d \in M : d <= b} = S \cup {b}
    BY <1>4, <1>5
  <2>2. Cardinality(S \cup {b}) = Cardinality(S) + 1
    <3> HIDE DEF S
    <3> QED BY <1>2, <1>3, FS_AddElement
  <2> QED BY <1>1, <1>3, <1>5, <2>1, <2>2 DEF Before, Rank
<1>6. CASE b \notin M
  <2>1. {d \in M : d < b + 1} = S
    BY <1>4, <1>6
  <2> QED BY <1>1, <1>3, <1>6, <2>1 DEF Before
<1> QED BY <1>5, <1>6

\* No block comes before the first.
LEMMA BeforeFirst ==
  ASSUME ImageInv, NEW q \in Saved
  PROVE  Before(q, 0) = 0
<1>1. marked[q] \in SUBSET Nat
  BY Bitmap
<1>2. \A d \in marked[q] : ~(d < 0)
  BY <1>1
<1>3. {d \in marked[q] : d < 0} = {}
  BY <1>2
<1> QED BY <1>3, FS_EmptySet DEF Before

\* When all blocks have been counted, all are behind.
LEMMA BeforeAll ==
  ASSUME ImageInv, NEW q \in Saved, NEW b \in Nat, Before(q, b) = Cardinality(marked[q])
  PROVE  \A d \in marked[q] : d < b
<1> DEFINE S == {d \in marked[q] : d < b}
<1>1. IsFiniteSet(marked[q]) /\ S \in SUBSET marked[q]
  BY Bitmap
<1>2. Cardinality(marked[q]) = Cardinality(S)
  BY DEF Before
<1>3. marked[q] = S
  <2> HIDE DEF S
  <2> QED BY <1>1, <1>2, FS_Subset
<1> QED BY <1>3

-----------------------------------------------------------------------------
(***************************************************************************)
(* Steps that do not write data.                                           *)
(***************************************************************************)

\* What depends on the image alone stays.
LEMMA ImageKept ==
  ASSUME UNCHANGED image
  PROVE  /\ ImageInv => ImageInv'
         /\ Saved' = Saved /\ Allowed' = Allowed
         /\ \A q : RestoredSectors(q)' = RestoredSectors(q)
         /\ \A q, b : Before(q, b)' = Before(q, b)
         /\ \A q, i : UnitEnd(q, i)' = UnitEnd(q, i) /\ UnitOf(q, i)' = UnitOf(q, i)
         /\ \A q : Units(q)' = Units(q)
         /\ Spoiled' = Spoiled /\ Cut' = Cut /\ Whole' = Whole
<1>1. /\ mode' = mode /\ bIsAutoFunc' = bIsAutoFunc /\ limit' = limit /\ marked' = marked
      /\ swap' = swap /\ damage' = damage /\ large' = large
  BY DEF image
<1>2. ImageInv => ImageInv'
  BY <1>1 DEF ImageInv, Saved, Damages, Units
<1>3. Saved' = Saved /\ Allowed' = Allowed
  BY <1>1 DEF Saved, Allowed
<1>4. \A q : RestoredSectors(q)' = RestoredSectors(q)
  BY <1>1 DEF RestoredSectors, Skipped
<1>5. \A q, b : Before(q, b)' = Before(q, b)
  BY <1>1 DEF Before
<1>6. \A q, i : UnitEnd(q, i)' = UnitEnd(q, i) /\ UnitOf(q, i)' = UnitOf(q, i)
  BY <1>1 DEF UnitEnd, UnitOf
<1>7. \A q : Units(q)' = Units(q)
  BY <1>1 DEF Units
<1>8. Spoiled' = Spoiled /\ Cut' = Cut /\ Whole' = Whole
  BY <1>1 DEF Spoiled, Cut, Whole, Saved
<1> QED BY <1>2, <1>3, <1>4, <1>5, <1>6, <1>7, <1>8

\* Where the position in the file is lost no partition is unspoiled, and there
\* currentdata counts the units.
LEMMA InPlace ==
  ASSUME IInv, pc \in {"unit", "blocks"}
  PROVE  /\ part \notin Spoiled => ~lost
         /\ ~lost => (MoreData <=> nread < Units(part))
         /\ lost \/ Is("bits", 0) \/ Is("head", nread + 1) \/ Is("data", nread + 1) =>
              part \in Spoiled
<1>1. /\ ImageInv /\ part \in Saved /\ part \in Parts /\ nread \in Nat
      /\ lost => damage.kind = "head" /\ damage.part <= part
      /\ ~lost => currentdata = nread * Slots
  BY DEF IInv, TypeOK, PositionInv, ImageInv
<1>2. Units(part) \in Nat /\ Slots \in Nat \ {0} /\ part \in Nat
  BY <1>1, UnitsBounds, SizesAssumption DEF Parts
<1>3. lost \/ Is("bits", 0) \/ Is("head", nread + 1) \/ Is("data", nread + 1) =>
        part \in Spoiled
  BY <1>1, <1>2 DEF Is, Spoiled
<1>4. nread < Units(part) <=> nread * Slots < Units(part) * Slots
  <2>1. nread < Units(part) => (nread + 1) * Slots <= Units(part) * Slots
    BY <1>1, <1>2, TimesMonotone
  <2>2. (nread + 1) * Slots = nread * Slots + Slots /\ nread * Slots \in Nat
        /\ Units(part) * Slots \in Nat
    BY <1>1, <1>2, TimesNext, TimesMonotone
  <2>3. nread * Slots < Units(part) * Slots => nread < Units(part)
    BY <1>1, <1>2, TimesLess
  <2> QED BY <1>1, <1>2, <2>1, <2>2, <2>3
<1> QED BY <1>1, <1>3, <1>4 DEF MoreData

\* A partition that lost its place, or whose record is wrong, is spoiled.
LEMMA SpoiledBitmap ==
  ASSUME IInv, part \in Saved, lost \/ Is("bits", 0)
  PROVE  part \in Spoiled
<1>1. part \in Parts /\ part \in Nat /\ (lost => damage.kind = "head" /\ damage.part <= part)
  BY SizesAssumption DEF IInv, ImageInv, PositionInv, TypeOK
<1> QED BY <1>1 DEF Is, Spoiled

\* A step that ends the restore without success: what it did to the disk is all
\* that matters.
LEMMA AbortStep ==
  ASSUME IInv, TypeOK', pc \notin {"done", "hung"}, pc' \in {"done", "hung"},
         UNCHANGED <<image, part, lost, ret>>, pc' = "hung" => fault' = fault,
         StaysInside', NeverMisplaced', DamagedTouchesNothing'
  PROVE  IInv'
<1>1. ret = -1 /\ ret' = -1
  BY DEF IInv, TypeOK, PositionInv
<1>2. ImageInv'
  BY ImageKept DEF IInv
<1>3. PositionInv' /\ RunInv' /\ CheckedInv' /\ UntouchedInv'
  <2>1. CheckedInv'
    BY <1>1 DEF IInv, TypeOK, CheckedInv, image
  <2>2. PositionInv'
    BY <1>1 DEF IInv, TypeOK, PositionInv, image
  <2> QED BY <1>1, <2>1, <2>2 DEF RunInv, UntouchedInv
<1>4. PlaceInv' /\ PendingInv' /\ RestoredInv'
  BY <1>1 DEF PlaceInv, PendingInv, RestoredInv
<1> QED BY <1>2, <1>3, <1>4 DEF IInv

\* An abort that leaves the disk alone.
LEMMA QuietAbort ==
  ASSUME IInv, pc \notin {"done", "hung"}, pc' \in {"done", "hung"}, UNCHANGED Quiet
  PROVE  IInv'
<1>1. UNCHANGED <<image, part, bits, unit, size, p, currentblock,
                  nread, currentdata, lost, conti_info, ret, disk, fault>>
  BY DEF Quiet, place
<1>2. TypeOK'
  BY <1>1 DEF IInv, TypeOK
<1>3. StaysInside' /\ NeverMisplaced' /\ DamagedTouchesNothing'
  BY <1>1, ImageKept DEF IInv, StaysInside, NeverMisplaced, DamagedTouchesNothing, image
<1> QED BY <1>1, <1>2, <1>3, AbortStep

\* The checks before the data: the disk has not been touched and is not.
LEMMA CheckStep ==
  ASSUME IInv, UNCHANGED Quiet,
         pc \in {"start", "destination", "partitions", "valid"},
         pc' \in {"destination", "partitions", "valid", "table"},
         pc' = "table" => mode = "Recover_Linux" \/ (damage.seen => damage.kind = "none")
  PROVE  IInv'
<1>1. UNCHANGED <<image, part, bits, unit, size, p, currentblock,
                  nread, currentdata, lost, conti_info, ret, disk, fault>>
  BY DEF Quiet, place
<1>2. TypeOK' /\ ImageInv'
  BY <1>1, ImageKept DEF IInv, TypeOK
<1>3. PositionInv' /\ RunInv' /\ UntouchedInv'
  BY <1>1 DEF IInv, PositionInv, RunInv, UntouchedInv, image
<1>4. CheckedInv'
  BY <1>1 DEF IInv, CheckedInv, image
<1>5. PlaceInv' /\ PendingInv'
  BY DEF PlaceInv, PendingInv
<1>6. StaysInside' /\ NeverMisplaced' /\ DamagedTouchesNothing'
  BY <1>1, ImageKept DEF IInv, StaysInside, NeverMisplaced, DamagedTouchesNothing, image
<1>7. RestoredInv'
  BY <1>1, ImageKept DEF IInv, RestoredInv, Sound, Behind, Kept, image
<1> QED BY <1>2, <1>3, <1>4, <1>5, <1>6, <1>7 DEF IInv

\* Partitions lie on the disk and do not overlap.
LEMMA PartitionSectors ==
  ASSUME NEW q \in Parts, NEW s \in PartSectors(q)
  PROVE  s \in Sectors /\ s \in Nat /\ \A r \in Parts \ {q} : s \notin PartSectors(r)
<1>1. /\ BootBegin \in [Parts -> Nat] /\ TotalSectors \in [Parts -> Nat \ {0}]
      /\ DiskSize \in Nat /\ Parts \subseteq Nat
  BY SizesAssumption DEF Parts
<1>2. s \in Sectors /\ s \in Nat
  <2>1. PICK b, n : b = BootBegin[q] /\ n = TotalSectors[q]
    OBVIOUS
  <2>2. b \in Nat /\ n \in Nat
    BY <1>1, <2>1
  <2>3. b + n <= DiskSize /\ s \in b..(b + n - 1)
    BY <2>1, LayoutAssumption DEF PartSectors
  <2> QED BY <1>1, <2>2, <2>3 DEF Sectors
<1>3. ASSUME NEW r \in Parts \ {q}
      PROVE  s \notin PartSectors(r)
  <2>1. q < r \/ r < q
    BY <1>1
  <2>2. /\ q < r => BootBegin[q] + TotalSectors[q] <= BootBegin[r]
        /\ r < q => BootBegin[r] + TotalSectors[r] <= BootBegin[q]
    BY LayoutAssumption
  <2> QED BY <1>1, <2>1, <2>2 DEF PartSectors
<1> QED BY <1>2, <1>3

\* The greatest swap partition is one of them.
LEMMA LastSwapIsSwap ==
  ASSUME IInv, NEW q \in swap
  PROVE  LastSwap \in swap /\ (Cardinality(swap) <= 1 => LastSwap = q)
<1>1. swap \in SUBSET Parts /\ Parts = 1..NParts /\ NParts \in Nat
  BY SizesAssumption DEF IInv, ImageInv, Parts
<1>2. IsFiniteSet(swap) /\ Cardinality(swap) \in Nat /\ swap \in SUBSET Nat
  <2>1. IsFiniteSet(1..NParts)
    BY <1>1, FS_Interval
  <2>2. IsFiniteSet(swap)
    BY <1>1, <2>1, FS_Subset
  <2> QED BY <1>1, <2>2, FS_CardinalityType
<1>3. Cardinality(swap) # 0
  BY <1>2, FS_EmptySet
<1>4. PICK m \in swap : Rank(swap, m) = Cardinality(swap)
  <2>1. Cardinality(swap) \in 1..Cardinality(swap)
    BY <1>2, <1>3
  <2> QED BY <1>2, <2>1, NthHasRank
<1>5. \A r \in swap : r <= m
  <2>1. \A r \in swap : Rank(swap, r) \in 1..Cardinality(swap)
    BY <1>2, RankOfElement
  <2>2. \A r \in swap : Rank(swap, r) <= Rank(swap, m)
    BY <1>2, <1>4, <2>1
  <2> QED BY <1>2, <2>2, RankOrder
<1>6. LastSwap \in swap
  BY <1>5 DEF LastSwap
<1>7. ASSUME Cardinality(swap) <= 1
      PROVE  LastSwap = q
  <2>1. Cardinality(swap) = 1
    BY <1>2, <1>3, <1>7
  <2>2. \E x : swap = {x}
    BY <1>2, <2>1, FS_Singleton
  <2> QED BY <1>6, <2>2
<1> QED BY <1>6, <1>7

\* RecoverTable: only the table is written, and only an image the check value
\* does not show to be damaged gets there.
LEMMA TableStepInv == IInv /\ TableStep => IInv'
<1> SUFFICES ASSUME IInv, TableStep PROVE IInv'
  OBVIOUS
<1>1. /\ pc = "table" /\ part = 1 /\ disk = [s \in Sectors |-> Old] /\ ret = -1
      /\ ~(mode = "Recover" /\ damage.kind # "none" /\ damage.seen)
      /\ UNCHANGED <<image, part, bits, unit, size, p, currentblock,
                     nread, currentdata, lost, conti_info, ret>>
      /\ (mode = "Recover" => ~fault)
  BY DEF IInv, TableStep, UntouchedInv, CheckedInv, PositionInv, TypeOK, place
<1>2. disk' \in [Sectors -> Int] /\ fault' \in BOOLEAN
      /\ \A s \in Sectors : disk'[s] \in {Old, s} /\ (disk'[s] # Old => s \in Table)
  <2>1. Old \in Int /\ Sectors \subseteq Nat
    BY SizesAssumption DEF Sectors, Old
  <2>2. ASSUME disk' = disk
        PROVE  /\ disk' \in [Sectors -> Int]
               /\ \A s \in Sectors : disk'[s] \in {Old, s} /\ (disk'[s] # Old => s \in Table)
    BY <1>1, <2>1, <2>2
  <2>3. ASSUME NEW n \in TableSizes,
               disk' = [s \in Sectors |-> IF s < n THEN s ELSE disk[s]]
        PROVE  /\ disk' \in [Sectors -> Int]
               /\ \A s \in Sectors : disk'[s] \in {Old, s} /\ (disk'[s] # Old => s \in Table)
    <3>1. GptSectors \in Nat /\ n \in Nat /\ n <= GptSectors
      BY SizesAssumption DEF TableSizes, Table
    <3>2. \A s \in Sectors : s < n => s \in Table
      BY <2>1, <3>1 DEF Table
    <3> QED BY <1>1, <2>1, <2>3, <3>2
  <2>4. fault' \in BOOLEAN
    BY DEF IInv, TypeOK, TableStep, WriteTable
  <2> QED BY <2>2, <2>3, <2>4 DEF TableStep, WriteTable
<1>3. StaysInside' /\ NeverMisplaced' /\ DamagedTouchesNothing'
  <2>1. Table \subseteq Allowed'
    BY DEF Allowed
  <2> QED BY <1>1, <1>2, <2>1
          DEF StaysInside, NeverMisplaced, DamagedTouchesNothing, image
<1>4. pc' \in {"part", "done"} /\ (pc' = "part" => fault' = fault)
  BY DEF TableStep, WriteTable, Done
<1>5. TypeOK'
  BY <1>1, <1>2, <1>4 DEF IInv, TypeOK
<1>6. CASE pc' = "done"
  BY <1>1, <1>3, <1>5, <1>6, AbortStep
<1>7. CASE pc' = "part"
  <2>1. ImageInv'
    BY <1>1, ImageKept DEF IInv
  <2>2. PositionInv' /\ RunInv' /\ UntouchedInv' /\ PlaceInv' /\ PendingInv' /\ CheckedInv'
    BY <1>1, <1>4, <1>7
       DEF IInv, PositionInv, RunInv, UntouchedInv, PlaceInv, PendingInv, CheckedInv, image
  <2>3. RestoredInv'
    <3> SUFFICES ASSUME NEW q \in Whole', NEW s \in PartSectors(q)
                 PROVE  Kept(s)' /\ ~Behind(q, s)'
      BY DEF RestoredInv
    <3>1. q \in Parts
      BY <2>1 DEF ImageInv, Whole
    <3>2. s \in Sectors
      BY <3>1, PartitionSectors
    <3>3. ~(q < 1)
      BY <3>1, SizesAssumption DEF Parts
    <3> QED BY <1>1, <1>2, <1>7, <3>2, <3>3 DEF Behind, Kept
  <2> QED BY <1>3, <1>5, <2>1, <2>2, <2>3 DEF IInv
<1> QED BY <1>4, <1>6, <1>7

\* The loop goes past a partition without data of which at most sectors that are
\* no saved partition's were written.
LEMMA PassStep ==
  ASSUME IInv, pc = "part", pc' = "part", part \in Parts \ Saved, part' = part + 1,
         UNCHANGED <<image, bits, unit, size, p, currentblock,
                     nread, currentdata, lost, conti_info, ret>>,
         disk' \in [Sectors -> Int], fault' \in BOOLEAN,
         fault' = fault \/ mode = "Recover_Linux",
         fault => fault',
         mode = "Recover" => disk' = disk,
         StaysInside', NeverMisplaced',
         \A q \in Saved : \A s \in PartSectors(q) : disk'[s] = disk[s]
  PROVE  IInv'
<1>1. part \in 1..NParts /\ part' \in 1..(NParts + 1) /\ part \in Nat
  BY SizesAssumption DEF Parts
<1>2. TypeOK'
  BY <1>1 DEF IInv, TypeOK
<1>3. ImageInv' /\ Saved' = Saved
  BY ImageKept DEF IInv
<1>4. PositionInv' /\ RunInv' /\ UntouchedInv' /\ PlaceInv' /\ PendingInv'
  <2>1. lost => damage.kind = "head" /\ damage.part <= part + 1
    <3>1. lost => damage.kind = "head" /\ damage.part <= part
      BY DEF IInv, PositionInv
    <3>2. damage.kind = "head" => damage.part \in Nat
      BY DamagedPart, PartNumbers DEF IInv
    <3> QED BY <1>1, <3>1, <3>2
  <2> QED BY <2>1 DEF IInv, PositionInv, RunInv, UntouchedInv, PlaceInv, PendingInv, image
<1>5. CheckedInv' /\ DamagedTouchesNothing'
  BY DEF IInv, CheckedInv, DamagedTouchesNothing, image
<1>6. RestoredInv'
  <2> SUFFICES ASSUME Sound', NEW q \in Whole, NEW s \in PartSectors(q)
               PROVE  /\ s \notin RestoredSectors(q) => Kept(s)'
                      /\ s \in RestoredSectors(q) /\ Behind(q, s)' => disk'[s] = s
    BY <1>3, ImageKept DEF RestoredInv
  <2>1. Sound /\ disk'[s] = disk[s]
    BY DEF Sound, Whole, image
  <2>2. Behind(q, s)' => Behind(q, s)
    <3>1. q \in Parts /\ q # part /\ q \in Nat
      BY PartNumbers DEF IInv, ImageInv, Whole
    <3>2. q < part + 1 => q < part
      BY <1>1, <3>1
    <3> QED BY <3>2 DEF Behind
  <2> QED BY <2>1, <2>2 DEF IInv, RestoredInv, Kept
<1> QED BY <1>2, <1>3, <1>4, <1>5, <1>6 DEF IInv

\* SkipPart: nothing is written.
LEMMA SkipPartStep == IInv /\ SkipPart => IInv'
<1> SUFFICES ASSUME IInv, SkipPart PROVE IInv'
  OBVIOUS
<1>1. /\ pc = "part" /\ pc' = "part" /\ part \in Parts \ Saved /\ part' = part + 1
      /\ UNCHANGED <<image, bits, unit, size, p, currentblock, nread, currentdata, lost, conti_info,
                     ret, disk, fault>>
  BY DEF SkipPart, place
<1>2. StaysInside' /\ NeverMisplaced'
  BY <1>1, ImageKept DEF IInv, StaysInside, NeverMisplaced, image
<1>3. disk' \in [Sectors -> Int] /\ fault' \in BOOLEAN
  BY <1>1 DEF IInv, TypeOK
<1> QED BY <1>1, <1>2, <1>3, PassStep

\* SwapPart: the head of a swap partition is no saved partition's, and it is its
\* own when there is only one.
LEMMA SwapPartStep == IInv /\ SwapPart => IInv'
<1> SUFFICES ASSUME IInv, SwapPart PROVE IInv'
  OBVIOUS
<1>1. /\ pc = "part" /\ pc' = "part" /\ part \in swap /\ mode = "Recover_Linux"
      /\ part' = part + 1 /\ disk' \in {disk, SwapWritten}
      /\ (fault' = fault \/ fault' = TRUE)
      /\ UNCHANGED <<image, bits, unit, size, p, currentblock,
                     nread, currentdata, lost, conti_info, ret>>
  BY DEF SwapPart, place
<1>2. part \in Parts /\ part \notin Saved /\ LastSwap \in Parts /\ fault' \in BOOLEAN
  BY <1>1, LastSwapIsSwap DEF IInv, ImageInv, TypeOK
<1>3. /\ BootBegin[part] \in Nat /\ BootBegin[LastSwap] \in Nat /\ SwapSectors \in Nat
      /\ TotalSectors[part] \in Nat /\ SwapSectors <= TotalSectors[part] /\ Sectors \subseteq Int
  BY <1>2, SizesAssumption, LayoutAssumption DEF Sectors
<1>4. ASSUME NEW s \in Sectors
      PROVE  /\ disk'[s] \in Int
             /\ disk'[s] = disk[s] \/ s \in BootBegin[part]..(BootBegin[part] + SwapSectors - 1)
             /\ Cardinality(swap) <= 1 => disk'[s] \in {disk[s], s}
  <2>1. disk[s] \in Int /\ s \in Int
    BY <1>3 DEF IInv, TypeOK
  <2>2. CASE disk' = disk
    BY <2>1, <2>2
  <2>3. CASE disk' = SwapWritten
    <3>1. disk'[s] = IF s - BootBegin[part] \in 0..(SwapSectors - 1)
                       THEN BootBegin[LastSwap] + s - BootBegin[part] ELSE disk[s]
      BY <2>3 DEF SwapWritten
    <3>2. Cardinality(swap) <= 1 => BootBegin[LastSwap] = BootBegin[part]
      BY <1>1, LastSwapIsSwap
    <3> QED BY <1>3, <2>1, <3>1, <3>2
  <2> QED BY <1>1, <2>2, <2>3
<1>5. disk' \in [Sectors -> Int]
  <2>1. disk' = [s \in Sectors |-> disk'[s]]
    BY <1>1 DEF IInv, TypeOK, SwapWritten
  <2> QED BY <1>4, <2>1
<1>6. StaysInside'
  <2>1. BootBegin[part]..(BootBegin[part] + SwapSectors - 1) \subseteq Allowed
    BY <1>1 DEF Allowed
  <2> QED BY <1>1, <1>4, <2>1, ImageKept DEF IInv, StaysInside
<1>7. NeverMisplaced'
  BY <1>1, <1>4, ImageKept DEF IInv, NeverMisplaced, image
<1>8. \A q \in Saved : \A s \in PartSectors(q) : disk'[s] = disk[s]
  <2> SUFFICES ASSUME NEW q \in Saved, NEW s \in PartSectors(q)
               PROVE  disk'[s] = disk[s]
    OBVIOUS
  <2>1. q \in Parts /\ part \in Parts \ {q}
    BY <1>2 DEF IInv, ImageInv
  <2>2. s \in Sectors /\ s \notin PartSectors(part)
    BY <2>1, PartitionSectors
  <2>3. BootBegin[part]..(BootBegin[part] + SwapSectors - 1) \subseteq PartSectors(part)
    BY <1>3 DEF PartSectors
  <2> QED BY <1>4, <2>2, <2>3
<1> QED BY <1>1, <1>2, <1>5, <1>6, <1>7, <1>8, PassStep

\* ReadBitmap: no block is behind, and no run is pending.
LEMMA ReadBitmapStep == IInv /\ ReadBitmap => IInv'
<1> SUFFICES ASSUME IInv, ReadBitmap PROVE IInv'
  OBVIOUS
<1>1. pc = "part" /\ part \in Saved /\ UNCHANGED <<image, part, ret, disk, fault>>
  BY DEF ReadBitmap
<1>2. CASE (Done \/ Stays) /\ UNCHANGED <<bits, unit, size, p, currentblock, place, conti_info>>
  BY <1>1, <1>2, QuietAbort DEF Done, Stays, Quiet
<1>3. CASE /\ bits' \in IF lost \/ Is("bits", 0) THEN SUBSET Blocks(part) ELSE {marked[part]}
           /\ unit' = <<>> /\ size' = 0 /\ p' = 0
           /\ currentblock' = 0 /\ nread' = 0 /\ currentdata' = 0
           /\ conti_info' = SmartDiskIoInit
           /\ pc' = "unit" /\ UNCHANGED lost
  <2>1. /\ ImageInv /\ part \in Parts /\ marked[part] \in SUBSET Nat
        /\ TotalBlocks(part) \in Nat /\ Units(part) \in Nat /\ BootBegin[part] \in Nat
        /\ Cardinality(marked[part]) \in Nat
    BY <1>1, Bitmap, TotalBlocksBounds, UnitsBounds DEF IInv
  <2>2. UnitBlocks \in Nat /\ BLOCK_SIZE \in Nat /\ Slots \in Nat /\ DiskSize \in Nat
    BY SizesAssumption
  <2>3. bits' \subseteq Nat
    <3>1. Blocks(part) \subseteq Nat
      BY <2>1 DEF Blocks
    <3> QED BY <1>3, <2>1, <3>1
  <2>4. /\ conti_info' \in [Sector : Nat, Number : Nat, Buffer : Nat]
        /\ conti_info'.Sector = 0 /\ conti_info'.Number = 0 /\ conti_info'.Buffer = 0
    BY <1>3 DEF SmartDiskIoInit
  <2>5. 0 \in 0..DiskSize /\ 0 <= UnitBlocks * BLOCK_SIZE /\ 0 + 0 = 0 /\ 0 \in Sizes
    BY <2>2, TimesMonotone DEF Sizes
  <2>6. TypeOK'
    BY <1>1, <1>3, <2>3, <2>4, <2>5 DEF IInv, TypeOK
  <2>7. ImageInv' /\ Saved' = Saved
    BY <1>1, ImageKept DEF IInv
  <2>8. PositionInv'
    <3>1. /\ 0 <= TotalBlocks(part) /\ 0 <= Units(part) /\ 0 <= Units(part) * Slots
          /\ 0 * Slots = 0
      BY <2>1, <2>2, TimesMonotone
    <3> QED BY <1>1, <1>3, <2>7, <3>1, ImageKept DEF IInv, PositionInv, TypeOK, image
  <2>9. RunInv' /\ UntouchedInv' /\ PendingInv' /\ CheckedInv'
    BY <1>1, <1>3, <2>4 DEF IInv, RunInv, UntouchedInv, PendingInv, CheckedInv, image
  <2>10. PlaceInv'
    <3> SUFFICES ASSUME part \notin Spoiled
                 PROVE  bits' = marked[part] /\ Before(part, 0) = UnitEnd(part, 0)
      BY <1>1, <1>3, ImageKept DEF PlaceInv, image
    <3>1. Before(part, 0) = 0
      BY <1>1, <2>1, BeforeFirst
    <3>2. UnitEnd(part, 0) = 0
      <4>1. 0 * UnitBlocks = 0
        BY <2>2
      <4> QED BY <2>1, <4>1 DEF UnitEnd
    <3>3. ~lost /\ ~Is("bits", 0)
      BY <1>1, SpoiledBitmap
    <3> QED BY <1>3, <3>1, <3>2, <3>3
  <2>11. StaysInside' /\ NeverMisplaced' /\ DamagedTouchesNothing'
    BY <1>1, ImageKept DEF IInv, StaysInside, NeverMisplaced, DamagedTouchesNothing, image
  <2>12. RestoredInv'
    <3> SUFFICES ASSUME Sound, NEW q \in Whole, NEW s \in PartSectors(q)
                 PROVE  Behind(q, s)' => Behind(q, s)
      BY <1>1, <2>7, ImageKept DEF IInv, RestoredInv, Sound, Kept, image
    <3>1. BootBegin[part] + 0 * BLOCK_SIZE = BootBegin[part]
      BY <2>1, <2>2
    <3>2. q \in Parts /\ BootBegin[q] \in Nat /\ s >= BootBegin[q] /\ s \in Nat
      BY <2>1, PartitionSectors, SizesAssumption DEF ImageInv, Whole, PartSectors
    <3> QED BY <1>1, <1>3, <2>1, <3>1, <3>2 DEF Behind
  <2> QED BY <2>6, <2>7, <2>8, <2>9, <2>10, <2>11, <2>12 DEF IInv
<1> QED BY <1>2, <1>3 DEF ReadBitmap

\* Whatever is taken for the next unit goes to the buffer, which no pending run
\* refers to.
LEMMA BufferFilled ==
  ASSUME IInv, pc = "unit", pc' = "blocks", p' = 0, MoreData,
         UNCHANGED <<image, part, bits, currentblock, conti_info, ret, disk, fault>>,
         unit' \in Seq(0..DiskSize), size' \in Sizes,
         (~lost /\ InStep) \/ ((lost \/ Is("head", nread + 1)) /\ OutOfStep),
         part \notin Spoiled => unit' = UnitOf(part, nread + 1) /\ size' = Len(unit')
  PROVE  IInv'
<1>1. ImageInv /\ part \in Saved /\ nread \in Nat /\ currentdata \in Nat
      /\ conti_info.Number = 0 /\ conti_info'.Number = 0 /\ ret = -1
      /\ currentblock <= TotalBlocks(part) /\ part \in Nat /\ currentblock \in Nat
      /\ nread <= Units(part)
  BY DEF IInv, TypeOK, PositionInv, RunInv
<1>2. /\ Units(part) \in Nat /\ Units(part) <= DiskSize /\ DiskSize \in Nat
      /\ BLOCK_SIZE \in Nat /\ UnitBlocks \in Nat /\ Slots \in Nat \ {0}
      /\ Units(part) * Slots \in Nat
  BY <1>1, UnitsBounds, SizesAssumption, TimesMonotone
<1>3. /\ nread' \in Nat /\ nread' <= Units(part) /\ currentdata' \in Nat
      /\ currentdata' <= Units(part) * Slots /\ lost' \in BOOLEAN
      /\ ~lost' => currentdata' = nread' * Slots /\ nread' = nread + 1
      /\ lost' => lost \/ Is("head", nread + 1)
  <2>1. CASE ~lost /\ InStep
    <3>1. nread < Units(part) /\ currentdata = nread * Slots
      BY <2>1, InPlace DEF IInv, PositionInv
    <3>2. (nread + 1) * Slots = nread * Slots + Slots
      BY <1>1, <1>2, TimesNext
    <3>3. (nread + 1) * Slots <= Units(part) * Slots
      BY <1>1, <1>2, <3>1, TimesMonotone
    <3> QED BY <1>1, <1>2, <2>1, <3>1, <3>2, <3>3 DEF InStep, IInv, TypeOK
  <2>2. CASE (lost \/ Is("head", nread + 1)) /\ OutOfStep
    <3> DEFINE N == Units(part) * Slots
    <3>1. currentdata' \in (currentdata + 1)..N /\ N \in Nat
      BY <1>2, <2>2 DEF OutOfStep
    <3> HIDE DEF N
    <3>2. currentdata' \in Nat /\ currentdata' <= N
      BY <1>1, <3>1
    <3> QED BY <1>1, <2>2, <3>2 DEF OutOfStep, N
  <2> QED BY <2>1, <2>2
<1>4. TypeOK'
  <2>1. 0 <= UnitBlocks * BLOCK_SIZE
    BY <1>2, TimesMonotone
  <2>2. nread' \in 0..DiskSize
    BY <1>2, <1>3
  <2> QED BY <1>1, <1>3, <2>1, <2>2 DEF IInv, TypeOK
<1>5. ImageInv' /\ Saved' = Saved
  BY <1>1, ImageKept
<1>6. lost' => part \in Spoiled /\ damage.kind = "head" /\ damage.part <= part
  <2>1. part \in Parts
    BY <1>1 DEF ImageInv
  <2>2. damage.kind = "head" /\ damage.part <= part => part \in Spoiled
    BY <2>1 DEF Spoiled
  <2> QED BY <1>1, <1>3, <2>2 DEF IInv, PositionInv, Is
<1>7. PositionInv'
  <2>1. p' <= currentblock * BLOCK_SIZE
    BY <1>1, <1>2, TimesMonotone
  <2>2. size' # NotWhole => 0 \in 0..size' /\ p' = 0 * BLOCK_SIZE
    BY <1>2 DEF Sizes
  <2>3. part \notin Spoiled => nread' = nread + 1 /\ nread' >= 1
    BY <1>1, <1>3, <1>6
  <2> QED BY <1>1, <1>3, <1>5, <1>6, <2>1, <2>2, <2>3, ImageKept DEF PositionInv, image
<1>8. RunInv' /\ UntouchedInv' /\ PendingInv' /\ CheckedInv'
  BY <1>1 DEF IInv, RunInv, UntouchedInv, PendingInv, CheckedInv, image
<1>9. PlaceInv'
  <2> SUFFICES ASSUME part \notin Spoiled
               PROVE  /\ bits = marked[part]
                      /\ Before(part, currentblock) \in (nread * UnitBlocks)..UnitEnd(part, nread + 1)
                      /\ 0 = (Before(part, currentblock) - nread * UnitBlocks) * BLOCK_SIZE
    <3>1. part \notin Spoiled => nread' = nread + 1
      BY <1>3, <1>6
    <3>2. (nread + 1) - 1 = nread
      BY <1>1
    <3>3. part \notin Spoiled => nread' - 1 = nread
      BY <3>1, <3>2
    <3> QED BY <1>1, <3>1, <3>3, ImageKept DEF PlaceInv, image
  <2>1. bits = marked[part] /\ Before(part, currentblock) = UnitEnd(part, nread)
    BY DEF IInv, PlaceInv
  <2>2. nread < Units(part) /\ nread + 1 \in 1..Units(part) /\ (nread + 1) - 1 = nread
    <3>1. nread < Units(part)
      BY InPlace
    <3> QED BY <1>1, <1>2, <3>1
  <2>3. UnitEnd(part, nread) = nread * UnitBlocks /\ nread * UnitBlocks \in Nat
    BY <1>1, <1>2, <2>2, UnitEndBounds, TimesMonotone
  <2>4. UnitEnd(part, nread + 1) \in Nat
    BY <1>1, <2>2, UnitEndBounds, Bitmap
  <2>5. nread * UnitBlocks \in 0..UnitEnd(part, nread + 1)
    BY <1>1, <2>2, UnitHolds
  <2> QED BY <1>2, <2>1, <2>3, <2>4, <2>5
<1>10. StaysInside' /\ NeverMisplaced' /\ DamagedTouchesNothing'
  BY ImageKept DEF IInv, StaysInside, NeverMisplaced, DamagedTouchesNothing, image
<1>11. RestoredInv'
  BY <1>5, ImageKept DEF IInv, RestoredInv, Sound, Kept, Behind, image
<1> QED BY <1>4, <1>5, <1>7, <1>8, <1>9, <1>10, <1>11 DEF IInv

\* A unit as it was made is one of blocks of the disk.
LEMMA UnitType ==
  ASSUME ImageInv, NEW q \in Saved, NEW i \in 1..Units(q)
  PROVE  UnitOf(q, i) \in Seq(0..DiskSize) /\ Len(UnitOf(q, i)) \in Sizes
<1> DEFINE M == marked[q]
           D == 0..DiskSize
           u == UnitOf(q, i)
<1>1. u \in Seq(M) /\ Len(u) \in 0..UnitBlocks
  BY UnitHolds
<1>2. M \subseteq D
  <2>1. marked[q] \subseteq 0..(TotalBlocks(q) - 1) /\ q \in Parts
    BY DEF ImageInv, Blocks
  <2>2. TotalBlocks(q) \in Nat /\ TotalBlocks(q) <= DiskSize /\ DiskSize \in Nat
    BY <2>1, TotalBlocksBounds, SizesAssumption
  <2>3. 0..(TotalBlocks(q) - 1) \subseteq 0..DiskSize
    BY <2>2
  <2> QED BY <2>1, <2>3
<1>3. u \in Seq(D)
  <2> HIDE DEF M, D, u
  <2> QED BY <1>1, <1>2
<1> QED BY <1>1, <1>3 DEF Sizes

\* ReadUnit, ReadDamagedUnit and ReadDamagedData.
LEMMA ReadUnitStep ==
  IInv /\ (ReadUnit \/ ReadDamagedUnit \/ ReadDamagedData) => IInv'
<1> SUFFICES ASSUME IInv, ReadUnit \/ ReadDamagedUnit \/ ReadDamagedData PROVE IInv'
  OBVIOUS
<1>1. /\ pc = "unit" /\ pc' = "blocks" /\ p' = 0 /\ MoreData
      /\ UNCHANGED <<image, part, bits, currentblock, conti_info, ret, disk, fault>>
  BY DEF ReadUnit, ReadDamagedUnit, ReadDamagedData
<1>2. ImageInv /\ part \in Saved /\ nread \in Nat
  BY <1>1 DEF IInv, TypeOK, PositionInv
<1>3. <<>> \in Seq(0..DiskSize)
  OBVIOUS
<1>4. ASSUME ~lost
      PROVE  /\ UnitOf(part, nread + 1) \in Seq(0..DiskSize)
             /\ Len(UnitOf(part, nread + 1)) \in Sizes
  <2>1. nread < Units(part) /\ Units(part) \in Nat
    BY <1>1, <1>2, <1>4, InPlace, UnitsBounds
  <2>2. nread + 1 \in 1..Units(part)
    BY <1>2, <2>1
  <2> QED BY <1>2, <2>2, UnitType
<1>5. CASE ReadUnit
  <2>1. ~lost /\ unit' = UnitOf(part, nread + 1) /\ size' = Len(unit') /\ InStep
    BY <1>5 DEF ReadUnit
  <2> QED BY <1>1, <1>4, <2>1, BufferFilled
<1>6. CASE ReadDamagedUnit
  <2>1. part \in Spoiled
    BY <1>1, <1>6, InPlace DEF ReadDamagedUnit
  <2>2. size' \in Sizes /\ unit' \in Seq(0..DiskSize)
    BY <1>3, <1>4, <1>6 DEF ReadDamagedUnit
  <2>3. (~lost /\ InStep) \/ ((lost \/ Is("head", nread + 1)) /\ OutOfStep)
    BY <1>6 DEF ReadDamagedUnit
  <2> QED BY <1>1, <2>1, <2>2, <2>3, BufferFilled
<1>7. CASE ReadDamagedData
  <2>1. part \in Spoiled
    BY <1>1, <1>7, InPlace DEF ReadDamagedData
  <2>2. ~lost /\ unit' = <<>> /\ size' \in Sizes /\ InStep
    BY <1>7 DEF ReadDamagedData
  <2> QED BY <1>1, <1>3, <2>1, <2>2, BufferFilled
<1> QED BY <1>5, <1>6, <1>7

\* EndPart: a file that is whole ends a partition only when all its blocks are
\* behind.
LEMMA EndPartStep == IInv /\ EndPart => IInv'
<1> SUFFICES ASSUME IInv, EndPart PROVE IInv'
  OBVIOUS
<1>1. /\ pc = "unit" /\ pc' = "part" /\ part' = part + 1
      /\ UNCHANGED <<image, bits, unit, size, p, currentblock, nread, currentdata, conti_info,
                     ret, disk, fault>>
      /\ lost' # lost => lost' = TRUE /\ Is("head", nread + 1)
      /\ MoreData => lost \/ ~Available(part, nread + 1) \/ Is("head", nread + 1)
  BY DEF EndPart, IInv, TypeOK
<1>2. ImageInv /\ part \in Saved /\ part \in Parts /\ part' \in 1..(NParts + 1)
  <2>1. ImageInv /\ part \in Saved
    BY <1>1 DEF IInv, PositionInv
  <2>2. part \in 1..NParts /\ NParts \in Nat
    BY <2>1, SizesAssumption DEF ImageInv, Parts
  <2>3. part + 1 \in 1..(NParts + 1)
    BY <2>2
  <2> QED BY <1>1, <2>1, <2>2, <2>3 DEF Parts
<1>3. TypeOK' /\ ImageInv' /\ Saved' = Saved
  <2>1. lost' \in BOOLEAN
    BY <1>1 DEF IInv, TypeOK
  <2> QED BY <1>1, <1>2, <2>1, ImageKept DEF IInv, TypeOK
<1>4. PositionInv' /\ RunInv' /\ UntouchedInv' /\ PlaceInv' /\ PendingInv' /\ CheckedInv'
  <2>1. lost' => damage.kind = "head" /\ damage.part <= part + 1
    <3>1. lost' => damage.kind = "head" /\ (damage.part = part \/ damage.part <= part)
      BY <1>1 DEF IInv, PositionInv, Is
    <3>2. damage.kind = "head" => damage.part \in Nat /\ part \in Nat
      BY <1>2, DamagedPart, PartNumbers
    <3> QED BY <3>1, <3>2
  <2> QED BY <1>1, <2>1
          DEF IInv, PositionInv, RunInv, UntouchedInv, PlaceInv, PendingInv, CheckedInv, image
<1>5. StaysInside' /\ NeverMisplaced' /\ DamagedTouchesNothing'
  BY <1>1, ImageKept DEF IInv, StaysInside, NeverMisplaced, DamagedTouchesNothing, image
<1>6. RestoredInv'
  <2> SUFFICES ASSUME Sound, NEW q \in Whole, NEW s \in PartSectors(q),
                      s \in RestoredSectors(q), Behind(q, s)'
               PROVE  Behind(q, s)
    BY <1>1, <1>3, ImageKept DEF IInv, RestoredInv, Sound, Kept, image
  <2>1. CASE q = part
    <3>1. part \notin Spoiled /\ part \notin Cut
      BY <2>1 DEF Whole
    <3>2. ~lost /\ ~Is("head", nread + 1) /\ Available(part, nread + 1)
      <4>1. part \in Nat /\ (damage.kind = "short" => damage.part \in Nat)
        BY <1>2, DamagedPart, PartNumbers
      <4> QED BY <1>1, <1>2, <3>1, <4>1, InPlace DEF Cut, Available
    <3>3. nread >= Units(part) /\ nread \in Nat /\ currentblock \in Nat
      BY <1>1, <1>2, <3>2, UnitsBounds, InPlace DEF IInv, TypeOK
    <3>4. Before(part, currentblock) = Cardinality(marked[part])
      BY <1>1, <1>2, <3>1, <3>3, UnitEndBounds DEF IInv, PlaceInv
    <3>5. \A d \in marked[part] : d < currentblock
      BY <1>2, <3>3, <3>4, BeforeAll
    <3>6. PICK t \in 0..(TotalSectors[q] - 1) :
            s = BootBegin[q] + t /\ t \div BLOCK_SIZE \in marked[q]
      BY DEF RestoredSectors
    <3>7. /\ BLOCK_SIZE \in Nat \ {0} /\ BootBegin[q] \in Nat /\ TotalSectors[q] \in Nat
          /\ t \in Nat
      BY <1>2, <2>1, SizesAssumption
    <3>8. t \div BLOCK_SIZE \in Nat /\ t % BLOCK_SIZE \in 0..(BLOCK_SIZE - 1)
          /\ t = (t \div BLOCK_SIZE) * BLOCK_SIZE + (t % BLOCK_SIZE)
      BY <3>7, DivBounds
    <3>9. (t \div BLOCK_SIZE) + 1 <= currentblock
      BY <3>3, <3>5, <2>1, <3>6, <3>8
    <3>10. ((t \div BLOCK_SIZE) + 1) * BLOCK_SIZE <= currentblock * BLOCK_SIZE
          /\ ((t \div BLOCK_SIZE) + 1) * BLOCK_SIZE = (t \div BLOCK_SIZE) * BLOCK_SIZE + BLOCK_SIZE
      BY <3>3, <3>7, <3>8, <3>9, TimesMonotone, TimesNext
    <3>11. currentblock * BLOCK_SIZE \in Nat /\ (t \div BLOCK_SIZE) * BLOCK_SIZE \in Nat
      BY <3>3, <3>7, <3>8, TimesMonotone
    <3>12. t < currentblock * BLOCK_SIZE
      BY <3>7, <3>8, <3>10, <3>11
    <3>13. s < BootBegin[q] + currentblock * BLOCK_SIZE
      BY <3>6, <3>7, <3>11, <3>12
    <3>14. conti_info.Number = 0
      BY <1>1 DEF IInv, RunInv
    <3>15. 0..(conti_info.Number - 1) = {}
      BY <3>14
    <3> QED BY <1>1, <2>1, <3>13, <3>15 DEF Behind
  <2>2. CASE q # part
    <3>1. q \in Nat /\ part \in Nat
      BY <1>2, PartNumbers DEF ImageInv, Whole
    <3>2. q < part + 1 /\ part' = part + 1
      BY <1>1 DEF Behind
    <3> QED BY <2>2, <3>1, <3>2 DEF Behind
  <2> QED BY <2>1, <2>2
<1> QED BY <1>3, <1>4, <1>5, <1>6 DEF IInv

\* Finish: every partition is behind.
LEMMA FinishStep == IInv /\ Finish => IInv'
<1> SUFFICES ASSUME IInv, Finish PROVE IInv'
  OBVIOUS
<1>1. /\ pc = "part" /\ pc' = "done" /\ part = NParts + 1 /\ ret' = 0
      /\ UNCHANGED <<image, part, bits, unit, size, p, currentblock, nread, currentdata, lost,
                     conti_info, disk, fault>>
  BY DEF Finish, Done, place
<1>2. TypeOK' /\ ImageInv' /\ Saved' = Saved
  BY <1>1, ImageKept DEF IInv, TypeOK
<1>3. PositionInv' /\ RunInv' /\ UntouchedInv' /\ PlaceInv' /\ PendingInv' /\ CheckedInv'
  BY <1>1 DEF IInv, PositionInv, RunInv, UntouchedInv, PlaceInv, PendingInv, CheckedInv, image
<1>4. StaysInside' /\ NeverMisplaced' /\ DamagedTouchesNothing'
  BY <1>1, ImageKept DEF IInv, StaysInside, NeverMisplaced, DamagedTouchesNothing, image
<1>5. RestoredInv'
  BY <1>1, <1>2, ImageKept DEF IInv, RestoredInv, Sound, Behind, Kept, image
<1> QED BY <1>2, <1>3, <1>4, <1>5 DEF IInv

-----------------------------------------------------------------------------
(***************************************************************************)
(* Steps that write data.                                                  *)
(***************************************************************************)

\* The sectors of a block that are the partition's: all of them but for the last
\* block, which ends where the partition does.
LEMMA SecNumBounds ==
  ASSUME NEW q \in Parts, NEW b \in Nat, b < TotalBlocks(q)
  PROVE  /\ SecNum(q, b) \in 1..BLOCK_SIZE /\ b * BLOCK_SIZE \in Nat
         /\ b * BLOCK_SIZE + SecNum(q, b) <= TotalSectors[q]
         /\ SecNum(q, b) = BLOCK_SIZE \/ b * BLOCK_SIZE + SecNum(q, b) = TotalSectors[q]
<1>1. /\ BLOCK_SIZE \in Nat \ {0} /\ TotalSectors[q] \in Nat /\ TotalBlocks(q) \in Nat \ {0}
      /\ TotalSectors[q] <= TotalBlocks(q) * BLOCK_SIZE
      /\ (TotalBlocks(q) - 1) * BLOCK_SIZE < TotalSectors[q]
  BY SizesAssumption, TotalBlocksBounds
<1>2. b * BLOCK_SIZE \in Nat
  BY <1>1, TimesMonotone
<1>3. CASE b = TotalBlocks(q) - 1
  <2>1. TotalBlocks(q) * BLOCK_SIZE = b * BLOCK_SIZE + BLOCK_SIZE
    <3>1. TotalBlocks(q) = b + 1
      BY <1>1, <1>3
    <3> QED BY <1>1, <3>1, TimesNext
  <2>2. SecNum(q, b) = TotalSectors[q] - b * BLOCK_SIZE /\ b * BLOCK_SIZE < TotalSectors[q]
    BY <1>1, <1>3 DEF SecNum
  <2> QED BY <1>1, <1>2, <2>1, <2>2
<1>4. CASE b # TotalBlocks(q) - 1
  <2>1. b + 1 <= TotalBlocks(q) - 1 /\ TotalBlocks(q) - 1 \in Nat
    BY <1>1, <1>4
  <2>2. (b + 1) * BLOCK_SIZE <= (TotalBlocks(q) - 1) * BLOCK_SIZE
        /\ (b + 1) * BLOCK_SIZE = b * BLOCK_SIZE + BLOCK_SIZE
        /\ (TotalBlocks(q) - 1) * BLOCK_SIZE \in Nat
    BY <1>1, <2>1, TimesMonotone, TimesNext
  <2>3. SecNum(q, b) = BLOCK_SIZE
    BY <1>4 DEF SecNum
  <2> QED BY <1>1, <1>2, <2>2, <2>3
<1> QED BY <1>3, <1>4

\* Every entry of the buffer is a number.
LEMMA BufferType ==
  ASSUME IInv, part \in Parts, NEW i \in Nat
  PROVE  g_lz4_buffer(i) \in Int
<1>1. BLOCK_SIZE \in Nat \ {0} /\ BootBegin[part] \in Nat /\ unit \in Seq(0..DiskSize)
      /\ DiskSize \in Nat
  BY SizesAssumption DEF IInv, TypeOK
<1>2. i \div BLOCK_SIZE \in Nat /\ i % BLOCK_SIZE \in Int
  <2>1. i \div BLOCK_SIZE \in Nat /\ i % BLOCK_SIZE \in 0..(BLOCK_SIZE - 1)
    BY <1>1, DivBounds
  <2> QED BY <1>1, <2>1
<1>3. CASE i \div BLOCK_SIZE < Len(unit)
  <2>1. 1 + i \div BLOCK_SIZE \in 1..Len(unit)
    BY <1>1, <1>2, <1>3
  <2>2. unit[1 + i \div BLOCK_SIZE] \in 0..DiskSize
    BY <1>1, <2>1
  <2>3. unit[1 + i \div BLOCK_SIZE] \in Nat
    BY <1>1, <2>2
  <2>4. unit[1 + i \div BLOCK_SIZE] * BLOCK_SIZE \in Nat
    BY <1>1, <2>3, TimesMonotone
  <2> QED BY <1>1, <1>2, <1>3, <2>4 DEF g_lz4_buffer
<1>4. CASE ~(i \div BLOCK_SIZE < Len(unit))
  BY <1>4 DEF g_lz4_buffer, Junk
<1> QED BY <1>3, <1>4

\* Writing a leading part of the pending run changes sectors of the partition
\* only and, in one no wrong record spoils, to what they shall be.
LEMMA WrittenEffect ==
  ASSUME IInv, pc = "blocks", NEW n \in 0..conti_info.Number
  PROVE  /\ Written(n) \in [Sectors -> Int]
         /\ \A s \in Sectors :
              IF s - conti_info.Sector \in 0..(n - 1)
                THEN /\ s \in PartSectors(part)
                     /\ part \notin Spoiled =>
                          Written(n)[s] = s /\ s \in RestoredSectors(part)
                ELSE Written(n)[s] = disk[s]
<1>1. /\ part \in Saved /\ part \in Parts
      /\ conti_info.Sector \in Nat /\ conti_info.Number \in Nat /\ conti_info.Buffer \in Nat
      /\ disk \in [Sectors -> Int] /\ Sectors \subseteq Int
      /\ BootBegin[part] \in Nat /\ TotalSectors[part] \in Nat
  <2>1. part \in Saved /\ part \in Parts
    BY DEF IInv, PositionInv, ImageInv
  <2> QED BY <2>1, SizesAssumption DEF IInv, TypeOK, Sectors
<1>2. ASSUME NEW s \in Sectors, s - conti_info.Sector \in 0..(n - 1)
      PROVE  /\ Written(n)[s] = g_lz4_buffer(conti_info.Buffer + s - conti_info.Sector)
             /\ conti_info.Buffer + s - conti_info.Sector \in Nat
             /\ conti_info.Number # 0
             /\ s \in conti_info.Sector..(conti_info.Sector + conti_info.Number - 1)
  <2>1. Written(n)[s] = g_lz4_buffer(conti_info.Buffer + s - conti_info.Sector)
    BY <1>2 DEF Written
  <2>2. s \in Int /\ n \in Nat /\ n <= conti_info.Number
    BY <1>1
  <2> QED BY <1>1, <1>2, <2>1, <2>2
<1>3. ASSUME NEW s \in Sectors, s - conti_info.Sector \notin 0..(n - 1)
      PROVE  Written(n)[s] = disk[s]
  BY <1>3 DEF Written
<1>4. Written(n) \in [Sectors -> Int]
  <2>1. \A s \in Sectors : Written(n)[s] \in Int
    <3> TAKE s \in Sectors
    <3>1. CASE s - conti_info.Sector \in 0..(n - 1)
      BY <1>1, <1>2, <3>1, BufferType
    <3>2. CASE s - conti_info.Sector \notin 0..(n - 1)
      BY <1>1, <1>3, <3>2
    <3> QED BY <3>1, <3>2
  <2>2. Written(n) = [s \in Sectors |-> Written(n)[s]]
    BY DEF Written
  <2> QED BY <2>1, <2>2
<1>5. ASSUME NEW s \in Sectors, s - conti_info.Sector \in 0..(n - 1)
      PROVE  /\ s \in PartSectors(part)
             /\ part \notin Spoiled => Written(n)[s] = s /\ s \in RestoredSectors(part)
  <2>1. /\ BootBegin[part] <= conti_info.Sector
        /\ conti_info.Sector + conti_info.Number <= BootBegin[part] + TotalSectors[part]
    BY <1>2, <1>5 DEF IInv, RunInv
  <2>2. s \in Int /\ s \in conti_info.Sector..(conti_info.Sector + conti_info.Number - 1)
    BY <1>1, <1>2, <1>5
  <2>3. s \in PartSectors(part)
    BY <1>1, <2>1, <2>2 DEF PartSectors
  <2>4. part \notin Spoiled => Written(n)[s] = s /\ s \in RestoredSectors(part)
    BY <1>2, <1>5, <2>2 DEF IInv, PendingInv
  <2> QED BY <2>3, <2>4
<1> QED BY <1>3, <1>4, <1>5

\* So the disk stays as it should be after any write of SmartDiskIo, one that
\* fails after some pieces included.
LEMMA DiskStep ==
  ASSUME IInv, pc = "blocks", UNCHANGED image, NEW n \in 0..conti_info.Number,
         disk' = Written(n)
  PROVE  disk' \in [Sectors -> Int] /\ StaysInside' /\ NeverMisplaced' /\ DamagedTouchesNothing'
<1>1. /\ disk' \in [Sectors -> Int]
      /\ \A s \in Sectors :
           IF s - conti_info.Sector \in 0..(n - 1)
             THEN /\ s \in PartSectors(part)
                  /\ part \notin Spoiled => disk'[s] = s /\ s \in RestoredSectors(part)
             ELSE disk'[s] = disk[s]
  BY WrittenEffect
<1>2. part \in Saved /\ PartSectors(part) \subseteq Allowed
  <2>1. part \in Saved
    BY DEF IInv, PositionInv
  <2> QED BY <2>1 DEF Allowed
<1>3. StaysInside'
  BY <1>1, <1>2, ImageKept DEF IInv, StaysInside
<1>4. NeverMisplaced'
  <2> SUFFICES ASSUME Cardinality(swap) <= 1, NEW s \in Sectors,
                      \A q \in Spoiled \cap Saved : s \notin PartSectors(q)
               PROVE  disk'[s] \in {Old, s}
    BY ImageKept DEF NeverMisplaced, image
  <2>1. disk[s] \in {Old, s}
    BY DEF IInv, NeverMisplaced
  <2> QED BY <1>1, <1>2, <2>1
<1>5. DamagedTouchesNothing'
  BY DEF IInv, CheckedInv, DamagedTouchesNothing, image
<1> QED BY <1>1, <1>3, <1>4, <1>5

\* In a partition no wrong record spoils, the block the restore is at is the one
\* p points to.
LEMMA BufferAtBlock ==
  ASSUME IInv, pc = "blocks", part \notin Spoiled, currentblock \in bits,
         p # size * BLOCK_SIZE
  PROVE  \A j \in 0..(BLOCK_SIZE - 1) :
           g_lz4_buffer(p + j) = BootBegin[part] + currentblock * BLOCK_SIZE + j
<1> DEFINE M == marked[part]
           m == (nread - 1) * UnitBlocks
           k == Before(part, currentblock) - m
<1>1. /\ ImageInv /\ part \in Saved /\ nread \in Nat /\ nread >= 1 /\ nread <= Units(part)
      /\ unit = UnitOf(part, nread) /\ size = Len(unit)
      /\ currentblock \in M /\ currentblock \in Nat
      /\ Before(part, currentblock) \in m..UnitEnd(part, nread) /\ p = k * BLOCK_SIZE
  BY DEF IInv, TypeOK, PositionInv, PlaceInv
<1>2. /\ BLOCK_SIZE \in Nat \ {0} /\ Units(part) \in Nat /\ nread \in 1..Units(part)
      /\ part \in Parts /\ BootBegin[part] \in Nat
  <2>1. Units(part) \in Nat
    BY <1>1, UnitsBounds
  <2>2. part \in Parts
    BY <1>1 DEF ImageInv
  <2>3. nread \in 1..Units(part)
    BY <1>1, <2>1
  <2> QED BY <2>1, <2>2, <2>3, SizesAssumption
<1>3. /\ m \in Nat /\ Len(unit) = UnitEnd(part, nread) - m /\ Len(unit) \in Nat
      /\ UnitEnd(part, nread) \in Nat
  <2>1. /\ Len(unit) = UnitEnd(part, nread) - m /\ Len(unit) \in 0..UnitBlocks
        /\ m \in 0..UnitEnd(part, nread)
    BY <1>1, <1>2, UnitHolds
  <2>2. UnitEnd(part, nread) \in Nat /\ UnitBlocks \in Nat
    BY <1>1, UnitEndBounds, Bitmap, SizesAssumption
  <2> HIDE DEF m
  <2> QED BY <2>1, <2>2
<1>4. Before(part, currentblock) \in Nat /\ Rank(M, currentblock) = Before(part, currentblock) + 1
  <2>1. /\ Before(part, currentblock) \in 0..Cardinality(M)
        /\ Rank(M, currentblock) = Before(part, currentblock) + 1
    BY <1>1, BeforeNext
  <2>2. Cardinality(M) \in Nat
    BY <1>1, Bitmap
  <2> HIDE DEF M
  <2> QED BY <2>1, <2>2
<1>5. k \in Nat /\ k < Len(unit) /\ Rank(M, currentblock) - m = k + 1
  <2>1. k \in Nat
    <3> HIDE DEF m, M
    <3> QED BY <1>1, <1>3, <1>4
  <2>2. k <= Len(unit)
    <3> HIDE DEF m, M
    <3> QED BY <1>1, <1>3, <1>4
  <2>3. k # Len(unit)
    <3> HIDE DEF k
    <3> QED BY <1>1
  <2> HIDE DEF m, M
  <2> QED BY <1>3, <1>4, <2>1, <2>2, <2>3
<1>6. unit[k + 1] = currentblock
  <2>1. Rank(M, currentblock) - m \in 1..Len(UnitOf(part, nread))
    <3> HIDE DEF k, M, m
    <3> QED BY <1>1, <1>3, <1>5
  <2>2. UnitOf(part, nread)[Rank(M, currentblock) - m] = currentblock
    BY <1>1, <1>2, <2>1, UnitHolds
  <2> HIDE DEF k, M, m
  <2> QED BY <1>1, <1>5, <2>2
<1> TAKE j \in 0..(BLOCK_SIZE - 1)
<1> HIDE DEF k, M, m
<1>7. (p + j) \div BLOCK_SIZE = k /\ (p + j) % BLOCK_SIZE = j
  BY <1>1, <1>2, <1>5, DivMod
<1>8. g_lz4_buffer(p + j) = BootBegin[part] + unit[1 + k] * BLOCK_SIZE + j
  BY <1>5, <1>7 DEF g_lz4_buffer
<1>9. 1 + k = k + 1
  BY <1>5
<1> QED BY <1>6, <1>8, <1>9

\* The sectors of a block of the bitmap are sectors to restore, and the only ones
\* between the block and the next.
LEMMA BlockSectors ==
  ASSUME ImageInv, NEW q \in Saved, NEW b \in Nat, b < TotalBlocks(q)
  PROVE  /\ b \in marked[q] /\ ~Skipped(q, b) =>
              \A j \in 0..(SecNum(q, b) - 1) : BootBegin[q] + b * BLOCK_SIZE + j \in RestoredSectors(q)
         /\ \A s \in RestoredSectors(q) :
              s - BootBegin[q] >= b * BLOCK_SIZE /\ s - BootBegin[q] < (b + 1) * BLOCK_SIZE =>
                /\ b \in marked[q] /\ ~Skipped(q, b)
                /\ s - (BootBegin[q] + b * BLOCK_SIZE) \in 0..(SecNum(q, b) - 1)
<1>1. q \in Parts /\ BLOCK_SIZE \in Nat \ {0} /\ BootBegin[q] \in Nat /\ TotalSectors[q] \in Nat
  BY SizesAssumption DEF ImageInv
<1>2. /\ SecNum(q, b) \in 1..BLOCK_SIZE /\ b * BLOCK_SIZE \in Nat
      /\ b * BLOCK_SIZE + SecNum(q, b) <= TotalSectors[q]
      /\ SecNum(q, b) = BLOCK_SIZE \/ b * BLOCK_SIZE + SecNum(q, b) = TotalSectors[q]
  BY <1>1, SecNumBounds
<1>3. ASSUME b \in marked[q], ~Skipped(q, b), NEW j \in 0..(SecNum(q, b) - 1)
      PROVE  BootBegin[q] + b * BLOCK_SIZE + j \in RestoredSectors(q)
  <2> DEFINE t == b * BLOCK_SIZE + j
  <2>1. j \in 0..(BLOCK_SIZE - 1) /\ j \in Nat
    BY <1>1, <1>2
  <2>2. t \div BLOCK_SIZE = b
    BY <1>1, <2>1, DivMod
  <2>3. t \in 0..(TotalSectors[q] - 1) /\ BootBegin[q] + b * BLOCK_SIZE + j = BootBegin[q] + t
    BY <1>1, <1>2, <2>1
  <2> HIDE DEF t
  <2> QED BY <1>3, <2>2, <2>3 DEF RestoredSectors
<1>4. ASSUME NEW s \in RestoredSectors(q), s - BootBegin[q] >= b * BLOCK_SIZE,
             s - BootBegin[q] < (b + 1) * BLOCK_SIZE
      PROVE  /\ b \in marked[q] /\ ~Skipped(q, b)
             /\ s - (BootBegin[q] + b * BLOCK_SIZE) \in 0..(SecNum(q, b) - 1)
  <2>1. PICK t \in 0..(TotalSectors[q] - 1) :
          /\ s = BootBegin[q] + t /\ t \div BLOCK_SIZE \in marked[q]
          /\ ~Skipped(q, t \div BLOCK_SIZE)
    BY DEF RestoredSectors
  <2>2. (b + 1) * BLOCK_SIZE = b * BLOCK_SIZE + BLOCK_SIZE
    BY <1>1, TimesNext
  <2> DEFINE j == t - b * BLOCK_SIZE
  <2>3. j \in 0..(BLOCK_SIZE - 1) /\ t = b * BLOCK_SIZE + j /\ j \in Nat
    BY <1>1, <1>2, <1>4, <2>1, <2>2
  <2>4. s - (BootBegin[q] + b * BLOCK_SIZE) = j /\ t < TotalSectors[q]
    BY <1>1, <1>2, <2>1
  <2> HIDE DEF j
  <2>5. t \div BLOCK_SIZE = b
    BY <1>1, <2>3, DivMod
  <2>6. j \in 0..(SecNum(q, b) - 1)
    BY <1>1, <1>2, <2>3, <2>4
  <2> QED BY <2>1, <2>4, <2>5, <2>6
<1> QED BY <1>3, <1>4

\* What a call of SmartDiskIo may do: the run grows; or it is written and the
\* request becomes the run; or a write fails, which only Recover notices.
LEMMA WriteOutcomes ==
  ASSUME NEW STATE Sector, NEW STATE Number, NEW STATE Buffer, NEW ACTION next,
         conti_info.Number \in Nat, Write(Sector, Number, Buffer, next)
  PROVE  \/ Extend(Sector, Number) /\ next
         \/ /\ disk' = Written(conti_info.Number) /\ fault' = fault /\ next
            /\ conti_info' = [Sector |-> Sector, Number |-> Number, Buffer |-> Buffer]
         \/ /\ \E n \in 0..conti_info.Number : disk' = Written(n)
            /\ fault' = TRUE
            /\ conti_info' = [Sector |-> Sector, Number |-> Number, Buffer |-> Buffer]
            /\ \/ mode = "Recover" /\ pc' = "done" /\ UNCHANGED <<p, currentblock>>
               \/ mode = "Recover_Linux" /\ next
<1>1. ReplaceFails(Sector, Number, Buffer) =>
        \E n \in 0..conti_info.Number : disk' = Written(n)
  <2> SUFFICES ASSUME NEW n \in 0..(conti_info.Number - 1), disk' = Written(n)
               PROVE  \E m \in 0..conti_info.Number : disk' = Written(m)
    BY DEF ReplaceFails
  <2>1. n \in 0..conti_info.Number
    OBVIOUS
  <2> QED BY <2>1
<1>2. CASE Extend(Sector, Number) /\ next
  BY <1>2
<1>3. CASE Replace(Sector, Number, Buffer) /\ next
  BY <1>3 DEF Replace
<1>4. CASE ReplaceFails(Sector, Number, Buffer) /\ mode = "Recover" /\ Done
           /\ UNCHANGED <<p, currentblock>>
  BY <1>1, <1>4 DEF ReplaceFails, Done
<1>5. CASE ReplaceFails(Sector, Number, Buffer) /\ mode = "Recover_Linux" /\ next
  BY <1>1, <1>5 DEF ReplaceFails
<1> QED BY <1>2, <1>3, <1>4, <1>5 DEF Write, SmartDiskIo, SmartDiskIo_Linux

\* FlushUnit: the pending run reaches the disk before the buffer is used again.
LEMMA FlushUnitStep == IInv /\ FlushUnit => IInv'
<1> SUFFICES ASSUME IInv, FlushUnit PROVE IInv'
  OBVIOUS
<1> DEFINE next == pc' = "unit" /\ UNCHANGED <<p, currentblock>>
<1>1. /\ pc = "blocks" /\ p = size * BLOCK_SIZE /\ Write(0, 0, 0, next)
      /\ UNCHANGED <<image, part, bits, unit, size, nread, currentdata, lost, ret>>
  BY DEF FlushUnit, place
<1>2. /\ ImageInv /\ part \in Saved /\ conti_info.Number \in Nat /\ conti_info.Sector \in Nat
      /\ nread \in Nat /\ currentblock <= TotalBlocks(part) /\ ret = -1
      /\ nread <= Units(part)
  BY <1>1 DEF IInv, TypeOK, PositionInv
<1>3. PICK n \in 0..conti_info.Number :
        /\ disk' = Written(n)
        /\ conti_info' = [Sector |-> 0, Number |-> 0, Buffer |-> 0]
        /\ UNCHANGED <<p, currentblock>>
        /\ \/ pc' = "unit" /\ fault' = fault /\ n = conti_info.Number
           \/ pc' = "unit" /\ fault' = TRUE /\ mode = "Recover_Linux"
           \/ pc' = "done" /\ fault' = TRUE
  <2>1. conti_info.Number \in 0..conti_info.Number /\ ~Extend(0, 0)
    BY <1>2 DEF Extend
  <2>2. \/ /\ disk' = Written(conti_info.Number) /\ fault' = fault /\ next
           /\ conti_info' = [Sector |-> 0, Number |-> 0, Buffer |-> 0]
        \/ /\ \E n \in 0..conti_info.Number : disk' = Written(n)
           /\ fault' = TRUE
           /\ conti_info' = [Sector |-> 0, Number |-> 0, Buffer |-> 0]
           /\ \/ mode = "Recover" /\ pc' = "done" /\ UNCHANGED <<p, currentblock>>
              \/ mode = "Recover_Linux" /\ next
    BY <1>1, <1>2, <2>1, WriteOutcomes
  <2> QED BY <2>1, <2>2
<1>4. disk' \in [Sectors -> Int] /\ StaysInside' /\ NeverMisplaced' /\ DamagedTouchesNothing'
  BY <1>1, <1>3, DiskStep
<1>5. TypeOK'
  <2>1. /\ conti_info' \in [Sector : Nat, Number : Nat, Buffer : Nat]
        /\ conti_info'.Sector + conti_info'.Number \in 0..DiskSize
    BY <1>3, SizesAssumption
  <2>2. fault' \in BOOLEAN /\ pc' \in {"unit", "done"}
    BY <1>3 DEF IInv, TypeOK
  <2> QED BY <1>1, <1>3, <1>4, <2>1, <2>2 DEF IInv, TypeOK
<1>6. CASE pc' = "done"
  BY <1>1, <1>4, <1>5, <1>6, AbortStep
<1>7. CASE pc' = "unit"
  <2>1. ImageInv' /\ Saved' = Saved
    BY <1>1, <1>2, ImageKept
  <2>2. PositionInv' /\ RunInv' /\ UntouchedInv' /\ PendingInv'
    <3>1. /\ currentdata <= Units(part) * Slots
          /\ ~lost => currentdata = nread * Slots
          /\ lost => damage.kind = "head" /\ damage.part <= part
      BY <1>1 DEF IInv, PositionInv
    <3> QED BY <1>1, <1>2, <1>3, <1>7, <2>1, <3>1, ImageKept
            DEF PositionInv, RunInv, UntouchedInv, PendingInv, image
  <2>3. CheckedInv'
    <3>1. mode' = mode /\ damage' = damage
      BY <1>1 DEF image
    <3>2. mode = "Recover" => ~fault /\ ~(damage.kind # "none" /\ damage.seen)
      BY <1>1 DEF IInv, CheckedInv
    <3> QED BY <1>3, <1>7, <3>1, <3>2 DEF CheckedInv
  <2>4. PlaceInv'
    <3> SUFFICES ASSUME part \notin Spoiled
                 PROVE  bits = marked[part] /\ Before(part, currentblock) = UnitEnd(part, nread)
      BY <1>1, <1>3, <1>7, ImageKept DEF PlaceInv, image
    <3> DEFINE m == (nread - 1) * UnitBlocks
               n1 == UnitEnd(part, nread)
               c == Before(part, currentblock)
    <3>1. /\ bits = marked[part] /\ c \in m..n1 /\ p = (c - m) * BLOCK_SIZE
          /\ nread >= 1 /\ unit = UnitOf(part, nread) /\ size = Len(unit)
      BY <1>1 DEF IInv, PlaceInv, PositionInv
    <3>2. nread \in 1..Units(part) /\ BLOCK_SIZE \in Nat \ {0} /\ UnitBlocks \in Nat
      BY <1>2, <3>1, UnitsBounds, SizesAssumption
    <3>3. Len(unit) = n1 - m /\ m \in 0..n1
      BY <1>2, <3>1, <3>2, UnitHolds
    <3>4. n1 \in Nat
      BY <1>2, UnitEndBounds, Bitmap
    <3> HIDE DEF m, n1, c
    <3>5. c - m \in Nat /\ n1 - m \in Nat /\ c - m <= n1 - m
      BY <3>1, <3>3, <3>4
    <3>6. c - m = n1 - m
      BY <1>1, <3>1, <3>2, <3>3, <3>5, TimesEqual
    <3>7. c = n1
      BY <3>1, <3>3, <3>4, <3>6
    <3> QED BY <3>1, <3>7 DEF c, n1
  <2>5. RestoredInv'
    <3> SUFFICES ASSUME Sound', NEW q \in Whole, NEW s \in PartSectors(q)
                 PROVE  /\ s \notin RestoredSectors(q) => Kept(s)'
                        /\ s \in RestoredSectors(q) /\ Behind(q, s)' => disk'[s] = s
      BY <1>1, <2>1, ImageKept DEF RestoredInv
    <3>1. fault' = fault /\ n = conti_info.Number /\ Sound
      BY <1>1, <1>3, <1>7 DEF Sound, image
    <3>2. q = part => part \notin Spoiled
      BY DEF Whole
    <3>3. q \in Parts /\ s \in Sectors /\ part \in Parts
          /\ \A r \in Parts \ {q} : s \notin PartSectors(r)
      BY <1>2, PartitionSectors DEF ImageInv, Whole
    <3>4. IF s - conti_info.Sector \in 0..(conti_info.Number - 1)
            THEN q = part /\ disk'[s] = s /\ s \in RestoredSectors(part)
            ELSE disk'[s] = disk[s]
      BY <1>1, <1>3, <3>1, <3>2, <3>3, WrittenEffect
    <3>5. /\ s \notin RestoredSectors(q) => Kept(s)
          /\ s \in RestoredSectors(q) /\ Behind(q, s) => disk[s] = s
      BY <1>1, <3>1 DEF IInv, RestoredInv
    <3>6. Behind(q, s)' => Behind(q, s) \/ s - conti_info.Sector \in 0..(conti_info.Number - 1)
      BY <1>1, <1>3, <1>7 DEF Behind
    <3> QED BY <3>4, <3>5, <3>6 DEF Kept
  <2> QED BY <1>4, <1>5, <2>1, <2>2, <2>3, <2>4, <2>5 DEF IInv
<1> QED BY <1>3, <1>6, <1>7

\* The restore goes past a block, and p past its data if the bitmap has it.
GoesOn ==
  /\ pc = "blocks" /\ p # size * BLOCK_SIZE /\ currentblock < TotalBlocks(part)
  /\ pc' = "blocks" /\ currentblock' = currentblock + 1
  /\ p' = IF currentblock \in bits THEN p + BLOCK_SIZE ELSE p
  /\ UNCHANGED <<image, part, bits, unit, size, nread, currentdata, lost, ret>>

\* What is known of the place of the restore at such a step.
LEMMA GoesOnFacts ==
  ASSUME IInv, GoesOn
  PROVE  /\ ImageInv /\ part \in Saved /\ part \in Parts
         /\ BLOCK_SIZE \in Nat \ {0} /\ currentblock \in Nat /\ p \in Nat
         /\ BootBegin[part] \in Nat /\ TotalSectors[part] \in Nat
         /\ currentblock * BLOCK_SIZE \in Nat
         /\ (currentblock + 1) * BLOCK_SIZE = currentblock * BLOCK_SIZE + BLOCK_SIZE
         /\ SecNum(part, currentblock) \in 1..BLOCK_SIZE
         /\ currentblock * BLOCK_SIZE + SecNum(part, currentblock) <= TotalSectors[part]
         /\ BootBegin[part] + TotalSectors[part] <= DiskSize /\ DiskSize \in Nat
         /\ conti_info.Sector \in Nat /\ conti_info.Number \in Nat /\ conti_info.Buffer \in Nat
<1>1. ImageInv /\ part \in Saved /\ part \in Parts
  BY DEF IInv, PositionInv, ImageInv, GoesOn
<1>2. BLOCK_SIZE \in Nat \ {0} /\ UnitBlocks \in Nat /\ currentblock \in Nat
      /\ conti_info.Sector \in Nat /\ conti_info.Number \in Nat /\ conti_info.Buffer \in Nat
  BY SizesAssumption DEF IInv, TypeOK
<1>3. p \in Nat
  BY DEF IInv, TypeOK
<1>4. /\ BootBegin[part] \in Nat /\ TotalSectors[part] \in Nat /\ DiskSize \in Nat
      /\ BootBegin[part] + TotalSectors[part] <= DiskSize
  BY <1>1, SizesAssumption, LayoutAssumption
<1>5. /\ SecNum(part, currentblock) \in 1..BLOCK_SIZE /\ currentblock * BLOCK_SIZE \in Nat
      /\ currentblock * BLOCK_SIZE + SecNum(part, currentblock) <= TotalSectors[part]
  BY <1>1, <1>2, SecNumBounds DEF GoesOn
<1>6. (currentblock + 1) * BLOCK_SIZE = currentblock * BLOCK_SIZE + BLOCK_SIZE
  BY <1>2, TimesNext
<1> QED BY <1>1, <1>2, <1>3, <1>4, <1>5, <1>6

\* The place in the buffer and in the partition stay together.
LEMMA GoesOnPlace ==
  ASSUME IInv, GoesOn
  PROVE  /\ ImageInv' /\ PositionInv' /\ PlaceInv' /\ UntouchedInv'
         /\ p' \in Nat /\ (size # NotWhole => p' <= UnitBlocks * BLOCK_SIZE)
         /\ currentblock' \in 0..DiskSize
<1>1. /\ ImageInv /\ part \in Saved /\ part \in Parts /\ BLOCK_SIZE \in Nat \ {0}
      /\ currentblock \in Nat /\ p \in Nat /\ DiskSize \in Nat
      /\ currentblock * BLOCK_SIZE \in Nat
      /\ (currentblock + 1) * BLOCK_SIZE = currentblock * BLOCK_SIZE + BLOCK_SIZE
  BY GoesOnFacts
<1>2. /\ nread \in Nat /\ nread <= Units(part) /\ ret = -1 /\ size \in Sizes
      /\ p <= currentblock * BLOCK_SIZE
      /\ part \notin Spoiled => nread >= 1 /\ unit = UnitOf(part, nread) /\ size = Len(unit)
  BY DEF IInv, TypeOK, PositionInv, GoesOn
<1>3. UnitBlocks \in Nat /\ Units(part) \in Nat /\ UnitBlocks * BLOCK_SIZE \in Nat
  BY <1>1, UnitsBounds, SizesAssumption, TimesMonotone
<1>4. p' \in Nat /\ p' <= currentblock' * BLOCK_SIZE
  BY <1>1, <1>2 DEF GoesOn
<1>5. ASSUME size # NotWhole
      PROVE  (\E i \in 0..size : p' = i * BLOCK_SIZE) /\ p' <= UnitBlocks * BLOCK_SIZE
  <2>1. size \in Nat /\ size <= UnitBlocks
    BY <1>2, <1>3, <1>5 DEF Sizes
  <2>2. PICK k \in 0..size : p = k * BLOCK_SIZE
    BY <1>5 DEF IInv, PositionInv, GoesOn
  <2>3. k \in Nat /\ k # size
    BY <2>1, <2>2 DEF GoesOn
  <2>4. k + 1 \in 0..size /\ (k + 1) * BLOCK_SIZE = p + BLOCK_SIZE
    BY <1>1, <2>1, <2>2, <2>3, TimesNext
  <2>5. PICK i \in 0..size : p' = i * BLOCK_SIZE
    BY <2>2, <2>4 DEF GoesOn
  <2>6. i \in Nat /\ i <= UnitBlocks
    BY <1>3, <2>1
  <2>7. i * BLOCK_SIZE <= UnitBlocks * BLOCK_SIZE
    BY <1>1, <1>3, <2>6, TimesMonotone
  <2> QED BY <2>5, <2>7
<1>6. ImageInv' /\ Saved' = Saved
  BY <1>1, ImageKept DEF GoesOn
<1>7. currentblock' <= TotalBlocks(part) /\ currentblock' \in 0..DiskSize
  <2>1. TotalBlocks(part) \in Nat /\ TotalBlocks(part) <= DiskSize
    BY <1>1, TotalBlocksBounds, SizesAssumption
  <2> QED BY <1>1, <2>1 DEF GoesOn
<1>8. PositionInv'
  <2>1. /\ size' = size /\ unit' = unit /\ nread' = nread /\ currentdata' = currentdata
        /\ lost' = lost /\ part' = part /\ pc' = "blocks" /\ ret' = ret /\ damage' = damage
    BY DEF GoesOn, image
  <2>2. /\ currentdata <= Units(part) * Slots
        /\ ~lost => currentdata = nread * Slots
        /\ lost => damage.kind = "head" /\ damage.part <= part
    BY DEF IInv, PositionInv, GoesOn
  <2> QED BY <1>1, <1>2, <1>4, <1>5, <1>6, <1>7, <2>1, <2>2, ImageKept DEF PositionInv, GoesOn
<1>9. PlaceInv'
  <2> DEFINE m == (nread - 1) * UnitBlocks
             n == UnitEnd(part, nread)
             c == Before(part, currentblock)
             d == Before(part, currentblock + 1)
  <2> SUFFICES ASSUME part \notin Spoiled
               PROVE  bits = marked[part] /\ d \in m..n /\ p' = (d - m) * BLOCK_SIZE
    <3> HIDE DEF d, m, n, c
    <3> QED BY ImageKept DEF PlaceInv, GoesOn, image, d, m, n
  <2>1. bits = marked[part] /\ c \in m..n /\ p = (c - m) * BLOCK_SIZE
    BY DEF IInv, PlaceInv, GoesOn
  <2>2. Len(unit) = n - m /\ m \in 0..n /\ size = Len(unit)
    <3>1. nread \in 1..Units(part)
      BY <1>2, <1>3
    <3> QED BY <1>1, <1>2, <3>1, UnitHolds
  <2>3. n \in Nat
    BY <1>1, <1>2, UnitEndBounds, Bitmap
  <2>4. d = IF currentblock \in bits THEN c + 1 ELSE c
    BY <1>1, <2>1, BeforeNext
  <2> HIDE DEF m, n, c, d
  <2>5. c - m \in Nat /\ m \in Nat /\ c \in Nat
    BY <2>1, <2>2, <2>3
  <2>6. c - m # n - m
    BY <2>1, <2>2 DEF GoesOn
  <2>7. ((c - m) + 1) * BLOCK_SIZE = (c - m) * BLOCK_SIZE + BLOCK_SIZE /\ (c + 1) - m = (c - m) + 1
    BY <1>1, <2>5, TimesNext
  <2> QED BY <2>1, <2>2, <2>3, <2>4, <2>5, <2>6, <2>7 DEF GoesOn
<1>10. UntouchedInv'
  BY DEF UntouchedInv, GoesOn
<1> QED BY <1>4, <1>5, <1>6, <1>7, <1>8, <1>9, <1>10

\* A block that is not written: not in the bitmap, or beyond the limit.
LEMMA PassBlockStep ==
  ASSUME IInv, GoesOn, UNCHANGED <<conti_info, disk, fault>>,
         currentblock \notin bits \/ Skipped(part, currentblock)
  PROVE  IInv'
<1>1. /\ ImageInv /\ part \in Saved /\ part \in Parts
      /\ BLOCK_SIZE \in Nat \ {0} /\ currentblock \in Nat /\ BootBegin[part] \in Nat
      /\ currentblock * BLOCK_SIZE \in Nat /\ currentblock < TotalBlocks(part)
      /\ (currentblock + 1) * BLOCK_SIZE = currentblock * BLOCK_SIZE + BLOCK_SIZE
      /\ conti_info.Sector \in Nat /\ conti_info.Number \in Nat
      /\ UNCHANGED image
  BY GoesOnFacts DEF GoesOn
<1>2. TypeOK'
  BY GoesOnPlace DEF IInv, TypeOK, GoesOn
<1>3. RunInv'
  <2> SUFFICES ASSUME conti_info.Number # 0
               PROVE  /\ BootBegin[part] <= conti_info.Sector
                      /\ conti_info.Sector + conti_info.Number <= BootBegin[part] + TotalSectors[part]
                      /\ conti_info.Sector + conti_info.Number
                           <= BootBegin[part] + (currentblock + 1) * BLOCK_SIZE
    BY DEF RunInv, GoesOn
  <2>1. /\ BootBegin[part] <= conti_info.Sector
        /\ conti_info.Sector + conti_info.Number <= BootBegin[part] + TotalSectors[part]
        /\ conti_info.Sector + conti_info.Number <= BootBegin[part] + currentblock * BLOCK_SIZE
    BY DEF IInv, RunInv, GoesOn
  <2> QED BY <1>1, <2>1
<1>4. PendingInv'
  <2> SUFFICES ASSUME part \notin Spoiled, conti_info.Number # 0
               PROVE  /\ conti_info.Sector + conti_info.Number
                           # BootBegin[part] + (currentblock + 1) * BLOCK_SIZE
                      /\ \A s \in conti_info.Sector..(conti_info.Sector + conti_info.Number - 1) :
                           /\ g_lz4_buffer(conti_info.Buffer + s - conti_info.Sector) = s
                           /\ s \in RestoredSectors(part)
    BY ImageKept DEF PendingInv, GoesOn, g_lz4_buffer, image
  <2>1. conti_info.Sector + conti_info.Number <= BootBegin[part] + currentblock * BLOCK_SIZE
    BY DEF IInv, RunInv, GoesOn
  <2>2. conti_info.Sector + conti_info.Number # BootBegin[part] + (currentblock + 1) * BLOCK_SIZE
    BY <1>1, <2>1
  <2> QED BY <2>2 DEF IInv, PendingInv, GoesOn
<1>5. CheckedInv' /\ StaysInside' /\ NeverMisplaced' /\ DamagedTouchesNothing'
  BY <1>1, ImageKept
     DEF IInv, CheckedInv, StaysInside, NeverMisplaced, DamagedTouchesNothing, GoesOn, image
<1>6. RestoredInv'
  <2> SUFFICES ASSUME Sound, NEW q \in Whole, NEW s \in PartSectors(q),
                      s \in RestoredSectors(q), Behind(q, s)'
               PROVE  Behind(q, s)
    BY <1>1, ImageKept DEF IInv, RestoredInv, Sound, Kept, GoesOn, image
  <2>2. CASE q = part
    <3> HIDE DEF GoesOn
    <3>4. bits = marked[part]
      BY <2>2 DEF IInv, PlaceInv, GoesOn, Whole
    <3>1. s \in Int
      BY <1>1, <2>2, PartitionSectors
    <3>2. ~(/\ s - BootBegin[part] >= currentblock * BLOCK_SIZE
            /\ s - BootBegin[part] < (currentblock + 1) * BLOCK_SIZE)
      BY <1>1, <2>2, <3>4, BlockSectors
    <3>3. s < BootBegin[part] + (currentblock + 1) * BLOCK_SIZE =>
            s < BootBegin[part] + currentblock * BLOCK_SIZE
      BY <1>1, <3>1, <3>2
    <3> QED BY <2>2, <3>3 DEF Behind, GoesOn
  <2>3. CASE q # part
    BY <2>3 DEF Behind, GoesOn
  <2> QED BY <2>2, <2>3
<1> QED BY <1>2, <1>3, <1>4, <1>5, <1>6, GoesOnPlace DEF IInv

\* The run once a block that is to be written was taken in: it ends with the
\* sectors of the block.
Taken ==
  /\ GoesOn /\ currentblock \in bits /\ ~Skipped(part, currentblock)
  /\ \/ Extend(BootBegin[part] + currentblock * BLOCK_SIZE, SecNum(part, currentblock))
     \/ conti_info' = [Sector |-> BootBegin[part] + currentblock * BLOCK_SIZE,
                       Number |-> SecNum(part, currentblock), Buffer |-> p]

\* It still lies in the partition and ends at or before the next block.
LEMMA TakenRun ==
  ASSUME IInv, Taken
  PROVE  /\ RunInv' /\ conti_info' \in [Sector : Nat, Number : Nat, Buffer : Nat]
         /\ conti_info'.Sector + conti_info'.Number \in 0..DiskSize
         /\ conti_info'.Sector + conti_info'.Number =
              BootBegin[part] + currentblock * BLOCK_SIZE + SecNum(part, currentblock)
         /\ conti_info'.Sector <= BootBegin[part] + currentblock * BLOCK_SIZE
<1> DEFINE start == BootBegin[part] + currentblock * BLOCK_SIZE
           num == SecNum(part, currentblock)
           C == [Sector : Nat, Number : Nat, Buffer : Nat]
<1>1. /\ BLOCK_SIZE \in Nat \ {0} /\ BootBegin[part] \in Nat /\ TotalSectors[part] \in Nat
      /\ currentblock * BLOCK_SIZE \in Nat /\ p \in Nat
      /\ (currentblock + 1) * BLOCK_SIZE = currentblock * BLOCK_SIZE + BLOCK_SIZE
      /\ num \in 1..BLOCK_SIZE /\ currentblock * BLOCK_SIZE + num <= TotalSectors[part]
      /\ BootBegin[part] + TotalSectors[part] <= DiskSize /\ DiskSize \in Nat
      /\ conti_info.Sector \in Nat /\ conti_info.Number \in Nat /\ conti_info.Buffer \in Nat
  BY GoesOnFacts DEF Taken
<1>2. start \in Nat /\ num \in Nat /\ conti_info \in C
  <2>1. conti_info \in C
    BY DEF IInv, TypeOK
  <2>2. start \in Nat /\ num \in Nat
    BY <1>1
  <2> QED BY <2>1, <2>2
<1>3. /\ conti_info' \in C /\ conti_info'.Sector + conti_info'.Number = start + num
      /\ BootBegin[part] <= conti_info'.Sector /\ conti_info'.Sector <= start
  <2>1. CASE conti_info' = [Sector |-> start, Number |-> num, Buffer |-> p]
    <3>1. conti_info' \in C /\ conti_info'.Sector = start /\ conti_info'.Number = num
      <4> HIDE DEF start, num
      <4> QED BY <1>1, <1>2, <2>1
    <3> QED BY <1>1, <1>2, <3>1
  <2>2. CASE Extend(start, num)
    <3>1. /\ conti_info.Number # 0 /\ start = conti_info.Sector + conti_info.Number
          /\ conti_info' = [conti_info EXCEPT !.Number = @ + num]
      BY <2>2 DEF Extend
    <3>2. /\ conti_info' \in C /\ conti_info'.Sector = conti_info.Sector
          /\ conti_info'.Number = conti_info.Number + num
      <4> HIDE DEF start, num
      <4> QED BY <1>1, <1>2, <3>1
    <3>3. BootBegin[part] <= conti_info.Sector
      BY <3>1 DEF IInv, RunInv, Taken, GoesOn
    <3> HIDE DEF start, num
    <3> QED BY <1>1, <1>2, <3>1, <3>2, <3>3
  <2> QED BY <2>1, <2>2 DEF Taken
<1> HIDE DEF C
<1>4. /\ start + num <= BootBegin[part] + TotalSectors[part]
      /\ start + num <= BootBegin[part] + (currentblock + 1) * BLOCK_SIZE
      /\ start + num \in 0..DiskSize
  BY <1>1
<1>5. RunInv'
  <2>1. /\ conti_info'.Sector + conti_info'.Number <= BootBegin[part] + TotalSectors[part]
        /\ conti_info'.Sector + conti_info'.Number
             <= BootBegin[part] + (currentblock + 1) * BLOCK_SIZE
    BY <1>3, <1>4
  <2> QED BY <1>3, <2>1 DEF RunInv, Taken, GoesOn
<1> QED BY <1>3, <1>4, <1>5 DEF C

\* In a partition no wrong record spoils, the buffer has what belongs to the block.
LEMMA TakenPending ==
  ASSUME IInv, Taken
  PROVE  PendingInv'
<1> DEFINE start == BootBegin[part] + currentblock * BLOCK_SIZE
           num == SecNum(part, currentblock)
           g(i) == g_lz4_buffer(i)
<1> DEFINE Right(c) ==
             /\ c.Sector + c.Number = BootBegin[part] + (currentblock + 1) * BLOCK_SIZE
                  => c.Buffer + c.Number = p + BLOCK_SIZE
             /\ \A s \in c.Sector..(c.Sector + c.Number - 1) :
                  g(c.Buffer + s - c.Sector) = s /\ s \in RestoredSectors(part)
<1> SUFFICES ASSUME part \notin Spoiled
             PROVE  Right(conti_info')
  <2>1. /\ pc' = "blocks" /\ part' = part /\ unit' = unit /\ damage' = damage
        /\ currentblock' = currentblock + 1 /\ p' = p + BLOCK_SIZE
    BY DEF Taken, GoesOn, image
  <2>2. (\A q : RestoredSectors(q)' = RestoredSectors(q)) /\ Spoiled' = Spoiled
    BY ImageKept DEF Taken, GoesOn
  <2> QED BY <2>1, <2>2 DEF PendingInv, g_lz4_buffer
<1>1. /\ BLOCK_SIZE \in Nat \ {0} /\ BootBegin[part] \in Nat
      /\ currentblock * BLOCK_SIZE \in Nat /\ p \in Nat /\ currentblock \in Nat
      /\ (currentblock + 1) * BLOCK_SIZE = currentblock * BLOCK_SIZE + BLOCK_SIZE
      /\ num \in 1..BLOCK_SIZE
      /\ conti_info.Sector \in Nat /\ conti_info.Number \in Nat /\ conti_info.Buffer \in Nat
      /\ ImageInv /\ part \in Saved /\ currentblock < TotalBlocks(part)
  BY GoesOnFacts DEF Taken, GoesOn
<1>2. start \in Nat /\ num \in Nat /\ num <= BLOCK_SIZE
  BY <1>1
<1>3. bits = marked[part]
  BY DEF IInv, PlaceInv, Taken, GoesOn
<1>4. \A j \in 0..(num - 1) : g(p + j) = start + j /\ start + j \in RestoredSectors(part)
  <2>1. \A j \in 0..(BLOCK_SIZE - 1) : g(p + j) = start + j
    BY BufferAtBlock DEF Taken, GoesOn
  <2>2. \A j \in 0..(num - 1) : start + j \in RestoredSectors(part)
    BY <1>1, <1>3, BlockSectors DEF Taken
  <2>3. \A j \in 0..(num - 1) : j \in 0..(BLOCK_SIZE - 1)
    BY <1>1, <1>2
  <2> QED BY <2>1, <2>2, <2>3
<1>5. start + num = BootBegin[part] + (currentblock + 1) * BLOCK_SIZE => num = BLOCK_SIZE
  BY <1>1
<1>6. CASE conti_info' = [Sector |-> start, Number |-> num, Buffer |-> p]
  <2> HIDE DEF start, num, g
  <2>1. conti_info'.Sector = start /\ conti_info'.Number = num /\ conti_info'.Buffer = p
    BY <1>6
  <2>2. ASSUME NEW s \in start..(start + num - 1)
        PROVE  g(p + s - start) = s /\ s \in RestoredSectors(part)
    <3>1. s - start \in 0..(num - 1) /\ p + s - start = p + (s - start) /\ start + (s - start) = s
      BY <1>1, <1>2
    <3> QED BY <1>4, <3>1
  <2>3. \A s \in start..(start + num - 1) : g(p + s - start) = s /\ s \in RestoredSectors(part)
    BY <2>2
  <2>4. num = BLOCK_SIZE => p + num = p + BLOCK_SIZE
    OBVIOUS
  <2> QED BY <1>5, <2>1, <2>3, <2>4
<1>7. CASE Extend(start, num)
  <2>1. /\ conti_info.Number # 0 /\ start = conti_info.Sector + conti_info.Number
        /\ conti_info' = [conti_info EXCEPT !.Number = @ + num]
        /\ conti_info \in [Sector : Nat, Number : Nat, Buffer : Nat]
    BY <1>7 DEF Extend, IInv, TypeOK
  <2>2. /\ conti_info'.Sector = conti_info.Sector /\ conti_info'.Buffer = conti_info.Buffer
        /\ conti_info'.Number = conti_info.Number + num
    <3> HIDE DEF start, num
    <3> QED BY <2>1
  <2>3. /\ conti_info.Buffer + conti_info.Number = p
        /\ \A s \in conti_info.Sector..(start - 1) :
             g(conti_info.Buffer + s - conti_info.Sector) = s /\ s \in RestoredSectors(part)
    BY <2>1 DEF IInv, PendingInv, Taken, GoesOn
  <2> HIDE DEF start, num, g
  <2>4. num = BLOCK_SIZE => conti_info'.Buffer + conti_info'.Number = p + BLOCK_SIZE
    BY <1>1, <1>2, <2>2, <2>3
  <2>5. ASSUME NEW s \in conti_info.Sector..(start + num - 1)
        PROVE  g(conti_info.Buffer + s - conti_info.Sector) = s /\ s \in RestoredSectors(part)
    <3>1. CASE s <= start - 1
      <4>1. s \in conti_info.Sector..(start - 1)
        BY <1>1, <1>2, <3>1
      <4> QED BY <2>3, <4>1
    <3>2. CASE ~(s <= start - 1)
      <4>1. s - start \in 0..(num - 1) /\ start + (s - start) = s
        BY <1>1, <1>2, <3>2
      <4>2. conti_info.Buffer + s - conti_info.Sector = p + (s - start)
        BY <1>1, <1>2, <2>1, <2>3
      <4> QED BY <1>4, <4>1, <4>2
    <3> QED BY <3>1, <3>2
  <2>6. conti_info'.Sector + conti_info'.Number = start + num
    BY <1>1, <1>2, <2>1, <2>2
  <2>7. \A s \in conti_info.Sector..(start + num - 1) :
          g(conti_info.Buffer + s - conti_info.Sector) = s /\ s \in RestoredSectors(part)
    BY <2>5
  <2>8. \A s \in conti_info'.Sector..(conti_info'.Sector + conti_info'.Number - 1) :
          g(conti_info'.Buffer + s - conti_info'.Sector) = s /\ s \in RestoredSectors(part)
    <3>1. conti_info'.Sector..(conti_info'.Sector + conti_info'.Number - 1)
            = conti_info.Sector..(start + num - 1)
      <4>1. /\ conti_info'.Sector = conti_info.Sector
            /\ conti_info'.Sector + conti_info'.Number - 1 = start + num - 1
        <5>1. \A a, b, c, d \in Int : a + b = c + d => a + b - 1 = c + d - 1
          OBVIOUS
        <5>2. /\ conti_info'.Sector \in Int /\ conti_info'.Number \in Int
              /\ start \in Int /\ num \in Int
          BY <1>1, <1>2, <2>2
        <5> QED BY <2>2, <2>6, <5>1, <5>2
      <4> QED BY <4>1, Zenon
    <3>2. conti_info'.Buffer = conti_info.Buffer /\ conti_info'.Sector = conti_info.Sector
      BY <2>2
    <3> QED BY <2>7, <3>1, <3>2
  <2> QED BY <1>5, <2>4, <2>6, <2>8
<1> QED BY <1>6, <1>7 DEF Taken

\* A block that is taken in, whatever became of the run before it: that run was
\* extended, or written, or Recover_Linux does not care.
LEMMA TakenStep ==
  ASSUME IInv, Taken, fault' \in BOOLEAN,
         disk' \in [Sectors -> Int], StaysInside', NeverMisplaced', DamagedTouchesNothing',
         \/ /\ Extend(BootBegin[part] + currentblock * BLOCK_SIZE, SecNum(part, currentblock))
            /\ UNCHANGED <<disk, fault>>
         \/ /\ conti_info' = [Sector |-> BootBegin[part] + currentblock * BLOCK_SIZE,
                              Number |-> SecNum(part, currentblock), Buffer |-> p]
            /\ disk' = Written(conti_info.Number) /\ fault' = fault
         \/ fault' = TRUE /\ mode = "Recover_Linux"
  PROVE  IInv'
<1> DEFINE start == BootBegin[part] + currentblock * BLOCK_SIZE
           num == SecNum(part, currentblock)
           Run(c) == c.Sector..(c.Sector + c.Number - 1)
<1>1. /\ ImageInv /\ part \in Saved /\ part \in Parts
      /\ BLOCK_SIZE \in Nat \ {0} /\ currentblock \in Nat /\ BootBegin[part] \in Nat
      /\ currentblock * BLOCK_SIZE \in Nat /\ currentblock < TotalBlocks(part)
      /\ (currentblock + 1) * BLOCK_SIZE = currentblock * BLOCK_SIZE + BLOCK_SIZE
      /\ num \in 1..BLOCK_SIZE /\ TotalSectors[part] \in Nat
      /\ conti_info.Sector \in Nat /\ conti_info.Number \in Nat
      /\ UNCHANGED <<image, part, bits, unit, size, nread, currentdata, lost, ret>>
      /\ pc = "blocks" /\ pc' = "blocks"
      /\ GoesOn /\ currentblock' = currentblock + 1
  BY GoesOnFacts DEF Taken, GoesOn
<1>2. /\ RunInv' /\ conti_info' \in [Sector : Nat, Number : Nat, Buffer : Nat]
      /\ conti_info'.Sector + conti_info'.Number \in 0..DiskSize
      /\ conti_info'.Sector + conti_info'.Number = start + num
      /\ conti_info'.Sector <= start
  BY TakenRun
<1>3. TypeOK'
  BY <1>1, <1>2, GoesOnPlace DEF IInv, TypeOK
<1>4. CheckedInv'
  BY <1>1 DEF IInv, CheckedInv, image
<1>5. RestoredInv'
  <2> SUFFICES ASSUME Sound', NEW q \in Whole, NEW s \in PartSectors(q)
               PROVE  /\ s \notin RestoredSectors(q) => Kept(s)'
                      /\ s \in RestoredSectors(q) /\ Behind(q, s)' => disk'[s] = s
    BY <1>1, ImageKept DEF RestoredInv
  <2>1. /\ fault' = fault /\ Sound
        /\ \/ Extend(start, num) /\ disk' = disk
           \/ conti_info' = [Sector |-> start, Number |-> num, Buffer |-> p]
              /\ disk' = Written(conti_info.Number)
    BY <1>1 DEF Sound, image
  <2>2. q \in Saved /\ (q = part => part \notin Spoiled)
    BY DEF Whole
  <2>3. q \in Parts /\ s \in Sectors /\ s \in Nat
        /\ \A r \in Parts \ {q} : s \notin PartSectors(r)
    BY <1>1, <2>2, PartitionSectors DEF ImageInv
  <2>4. /\ s \notin RestoredSectors(q) => Kept(s)
        /\ s \in RestoredSectors(q) /\ Behind(q, s) => disk[s] = s
    BY <1>1, <2>1 DEF IInv, RestoredInv
  <2>5. ASSUME q = part, s \in RestoredSectors(q), Behind(q, s)'
        PROVE  s < start
    <3>1. s < BootBegin[part] + (currentblock + 1) * BLOCK_SIZE
          /\ s - conti_info'.Sector \notin 0..(conti_info'.Number - 1)
      <4>1. Behind(q, s)' /\ part' = part /\ part \in Nat /\ currentblock' = currentblock + 1
        BY <1>1, <2>5 DEF IInv, TypeOK
      <4> QED BY <2>5, <4>1 DEF Behind
    <3>2. ASSUME s >= start PROVE FALSE
      <4>1. s - start \in 0..(num - 1)
        <5>1. s - BootBegin[q] >= currentblock * BLOCK_SIZE
              /\ s - BootBegin[q] < (currentblock + 1) * BLOCK_SIZE
          BY <1>1, <2>3, <2>5, <3>1, <3>2
        <5> QED BY <1>1, <2>5, <5>1, BlockSectors
      <4>2. num \in Nat /\ start \in Nat /\ conti_info'.Sector \in Nat /\ conti_info'.Number \in Nat
        BY <1>1, <1>2
      <4> HIDE DEF start, num
      <4> QED BY <1>2, <2>3, <3>1, <3>2, <4>1, <4>2
    <3>3. ~(s >= start)
      BY <3>2
    <3>4. s \in Int /\ start \in Int
      BY <1>1, <2>3
    <3> HIDE DEF start, num
    <3> QED BY <3>3, <3>4
  <2>6. CASE Extend(start, num) /\ disk' = disk
    <3>1. Behind(q, s)' /\ s \in RestoredSectors(q) => Behind(q, s)
      <4>1. CASE q = part
        <5> SUFFICES ASSUME Behind(q, s)', s \in RestoredSectors(q)
                     PROVE  Behind(q, s)
          OBVIOUS
        <5>1. s < start /\ s - conti_info'.Sector \notin 0..(conti_info'.Number - 1)
          <6>1. s < start
            BY <2>5, <4>1
          <6>2. Behind(q, s)' /\ part' = part /\ part \in Nat
            BY <1>1 DEF IInv, TypeOK
          <6>3. s - conti_info'.Sector \notin 0..(conti_info'.Number - 1)
            BY <4>1, <6>2 DEF Behind
          <6> QED BY <6>1, <6>3
        <5>2. /\ conti_info' = [conti_info EXCEPT !.Number = @ + num]
              /\ conti_info \in [Sector : Nat, Number : Nat, Buffer : Nat]
          BY <2>6 DEF Extend, IInv, TypeOK
        <5>3. conti_info'.Sector = conti_info.Sector /\ conti_info'.Number = conti_info.Number + num
          <6> HIDE DEF start, num
          <6> QED BY <5>2
        <5>4. s - conti_info.Sector \notin 0..(conti_info.Number - 1)
          <6>1. num \in Nat
            BY <1>1
          <6> HIDE DEF start, num
          <6> QED BY <1>1, <2>3, <5>1, <5>3, <6>1
        <5> QED BY <1>1, <4>1, <5>1, <5>4 DEF Behind
      <4>2. CASE q # part
        BY <1>1, <4>2 DEF Behind
      <4> QED BY <4>1, <4>2
    <3> QED BY <2>4, <2>6, <3>1 DEF Kept
  <2>7. CASE /\ conti_info' = [Sector |-> start, Number |-> num, Buffer |-> p]
             /\ disk' = Written(conti_info.Number)
    <3>1. IF s - conti_info.Sector \in 0..(conti_info.Number - 1)
            THEN q = part /\ disk'[s] = s /\ s \in RestoredSectors(part)
            ELSE disk'[s] = disk[s]
      <4>1. conti_info.Number \in 0..conti_info.Number
        BY <1>1
      <4> QED BY <1>1, <2>2, <2>3, <2>7, <4>1, WrittenEffect
    <3>2. Behind(q, s)' /\ s \in RestoredSectors(q) =>
            Behind(q, s) \/ s - conti_info.Sector \in 0..(conti_info.Number - 1)
      <4>1. CASE q = part
        BY <1>1, <2>5, <4>1 DEF Behind
      <4>2. CASE q # part
        BY <1>1, <4>2 DEF Behind
      <4> QED BY <4>1, <4>2
    <3> QED BY <2>4, <3>1, <3>2 DEF Kept
  <2> QED BY <2>1, <2>6, <2>7
<1> QED BY <1>1, <1>2, <1>3, <1>4, <1>5, GoesOnPlace, TakenPending DEF IInv

\* RestoreBlock: the block is taken in or gone past.
LEMMA RestoreBlockStep == IInv /\ RestoreBlock => IInv'
<1> SUFFICES ASSUME IInv, RestoreBlock PROVE IInv'
  OBVIOUS
<1> DEFINE next == /\ pc' = "blocks" /\ currentblock' = currentblock + 1
                   /\ p' = IF currentblock \in bits THEN p + BLOCK_SIZE ELSE p
           start == BootBegin[part] + currentblock * BLOCK_SIZE
           num == SecNum(part, currentblock)
           block == [Sector |-> start, Number |-> num, Buffer |-> p]
<1>1. /\ pc = "blocks" /\ p # size * BLOCK_SIZE /\ currentblock < TotalBlocks(part)
      /\ UNCHANGED <<image, part, bits, unit, size, nread, currentdata, lost, ret>>
      /\ conti_info.Number \in Nat /\ fault \in BOOLEAN /\ disk \in [Sectors -> Int]
  BY DEF RestoreBlock, IInv, TypeOK, place
<1>2. CASE ~(currentblock \in bits /\ ~Skipped(part, currentblock))
  <2>1. next /\ UNCHANGED <<conti_info, disk, fault>>
    BY <1>2 DEF RestoreBlock
  <2> QED BY <1>1, <1>2, <2>1, PassBlockStep DEF GoesOn
<1>3. CASE currentblock \in bits /\ ~Skipped(part, currentblock)
  <2>1. Write(start, num, p, next)
    BY <1>3 DEF RestoreBlock
  <2>2. CASE Extend(start, num) /\ next
    <3>1. UNCHANGED <<disk, fault>> /\ Taken
      BY <1>1, <1>3, <2>2 DEF Extend, Taken, GoesOn
    <3>2. StaysInside' /\ NeverMisplaced' /\ DamagedTouchesNothing'
      BY <1>1, <3>1, ImageKept
         DEF IInv, StaysInside, NeverMisplaced, DamagedTouchesNothing, image
    <3> QED BY <1>1, <2>2, <3>1, <3>2, TakenStep
  <2>3. CASE /\ disk' = Written(conti_info.Number) /\ fault' = fault /\ next
             /\ conti_info' = block
    <3>1. conti_info.Number \in 0..conti_info.Number
      BY <1>1
    <3>2. disk' \in [Sectors -> Int] /\ StaysInside' /\ NeverMisplaced' /\ DamagedTouchesNothing'
      BY <1>1, <2>3, <3>1, DiskStep
    <3>3. Taken
      BY <1>1, <1>3, <2>3 DEF Taken, GoesOn
    <3> QED BY <1>1, <2>3, <3>2, <3>3, TakenStep
  <2>4. ASSUME NEW n \in 0..conti_info.Number, disk' = Written(n), fault' = TRUE,
               conti_info' = block,
               \/ mode = "Recover" /\ pc' = "done" /\ UNCHANGED <<p, currentblock>>
               \/ mode = "Recover_Linux" /\ next
        PROVE  IInv'
    <3>1. disk' \in [Sectors -> Int] /\ StaysInside' /\ NeverMisplaced' /\ DamagedTouchesNothing'
      BY <1>1, <2>4, DiskStep
    <3>2. CASE mode = "Recover" /\ pc' = "done" /\ UNCHANGED <<p, currentblock>>
      <4>1. conti_info' \in [Sector : Nat, Number : Nat, Buffer : Nat]
            /\ conti_info'.Sector + conti_info'.Number \in 0..DiskSize
        <5>1. /\ part \in Parts /\ currentblock \in Nat /\ BootBegin[part] \in Nat
              /\ BLOCK_SIZE \in Nat /\ UnitBlocks \in Nat /\ DiskSize \in Nat
              /\ TotalSectors[part] \in Nat
              /\ BootBegin[part] + TotalSectors[part] <= DiskSize
          <6>1. part \in Parts /\ currentblock \in Nat
            BY <1>1 DEF IInv, TypeOK, PositionInv, ImageInv
          <6> QED BY <6>1, SizesAssumption, LayoutAssumption
        <5>2. /\ num \in 1..BLOCK_SIZE /\ currentblock * BLOCK_SIZE \in Nat
              /\ currentblock * BLOCK_SIZE + num <= TotalSectors[part]
          BY <1>1, <5>1, SecNumBounds
        <5>3. p \in Nat
          BY DEF IInv, TypeOK
        <5>4. start \in Nat /\ num \in Nat /\ start + num \in 0..DiskSize
          BY <5>1, <5>2
        <5> HIDE DEF start, num
        <5> QED BY <2>4, <5>3, <5>4
      <4>2. TypeOK'
        BY <1>1, <2>4, <3>1, <3>2, <4>1 DEF IInv, TypeOK
      <4> QED BY <1>1, <3>1, <3>2, <4>2, AbortStep
    <3>3. CASE mode = "Recover_Linux" /\ next
      <4>1. Taken
        BY <1>1, <1>3, <2>4, <3>3 DEF Taken, GoesOn
      <4> QED BY <2>4, <3>1, <3>3, <4>1, TakenStep
    <3> QED BY <2>4, <3>2, <3>3
  <2> QED BY <1>1, <2>1, <2>2, <2>3, <2>4, WriteOutcomes
<1> QED BY <1>2, <1>3
-----------------------------------------------------------------------------
(***************************************************************************)
(* The theorems.                                                           *)
(***************************************************************************)

\* The first state.
LEMMA InitIInv == Init => IInv
<1> SUFFICES ASSUME Init PROVE IInv
  OBVIOUS
<1>1. /\ pc = "start" /\ part = 1 /\ bits = {} /\ unit = <<>> /\ size = 0 /\ p = 0
      /\ currentblock = 0 /\ nread = 0 /\ currentdata = 0 /\ lost = FALSE /\ ret = -1
      /\ conti_info = [Sector |-> 0, Number |-> 0, Buffer |-> 0]
      /\ disk = [s \in Sectors |-> Old] /\ fault = FALSE
  BY DEF Init, SmartDiskIoInit
<1>2. ImageInv
  <2>1. PICK S \in SUBSET Parts :
          /\ marked \in {m \in [S -> SUBSET UNION {Blocks(q) : q \in S}] :
                           \A q \in S : m[q] \subseteq Blocks(q)}
          /\ swap \in SUBSET (Parts \ S)
    BY DEF Init
  <2>2. Saved = S /\ \A q \in Saved : marked[q] \subseteq Blocks(q)
    BY <2>1 DEF Saved
  <2>3. /\ mode \in {"Recover", "Recover_Linux"} /\ bIsAutoFunc \in BOOLEAN
        /\ limit \in {NoLimit} \cup Limits
        /\ damage \in Damages /\ large \in BOOLEAN
    BY DEF Init
  <2> QED BY <2>1, <2>2, <2>3 DEF ImageInv
<1>3. TypeOK
  <2>1. NParts \in Nat /\ DiskSize \in Nat /\ UnitBlocks * BLOCK_SIZE \in Nat
    <3>1. NParts \in Nat /\ DiskSize \in Nat /\ UnitBlocks \in Nat /\ BLOCK_SIZE \in Nat
      BY SizesAssumption
    <3> QED BY <3>1, TimesMonotone
  <2>2. unit \in Seq(0..DiskSize)
    BY <1>1
  <2>3. disk \in [Sectors -> Int]
    BY <1>1 DEF Old
  <2>4. conti_info \in [Sector : Nat, Number : Nat, Buffer : Nat]
        /\ conti_info.Sector + conti_info.Number \in 0..DiskSize
    BY <1>1, <2>1
  <2>5. /\ part \in 1..(NParts + 1) /\ bits \subseteq Nat /\ size \in Sizes
        /\ p \in Nat /\ p <= UnitBlocks * BLOCK_SIZE
        /\ currentblock \in 0..DiskSize /\ nread \in 0..DiskSize
    <3> DEFINE u == UnitBlocks * BLOCK_SIZE
    <3>1. u \in Nat
      BY <2>1
    <3> HIDE DEF u
    <3>2. p \in Nat /\ p <= u
      BY <1>1, <3>1
    <3>3. part \in 1..(NParts + 1) /\ bits \subseteq Nat /\ size \in Sizes
          /\ currentblock \in 0..DiskSize /\ nread \in 0..DiskSize
      BY <1>1, <2>1, SizesAssumption DEF Sizes
    <3> QED BY <3>2, <3>3 DEF u
  <2> QED BY <1>1, <2>2, <2>3, <2>4, <2>5 DEF TypeOK
<1>4. PositionInv /\ RunInv /\ CheckedInv /\ UntouchedInv /\ PlaceInv /\ PendingInv
  BY <1>1 DEF PositionInv, RunInv, CheckedInv, UntouchedInv, PlaceInv, PendingInv
<1>5. StaysInside /\ NeverMisplaced /\ DamagedTouchesNothing
  BY <1>1 DEF StaysInside, NeverMisplaced, DamagedTouchesNothing
<1>6. RestoredInv
  <2> SUFFICES ASSUME NEW q \in Whole, NEW s \in PartSectors(q)
               PROVE  disk[s] = Old /\ ~Behind(q, s)
    BY DEF RestoredInv, Kept
  <2>1. q \in Parts /\ Parts = 1..NParts /\ NParts \in Nat
    BY <1>2, SizesAssumption DEF ImageInv, Parts, Whole
  <2>2. s \in Sectors
    BY <2>1, PartitionSectors
  <2>3. ~(q < part)
    BY <1>1, <2>1
  <2> QED BY <1>1, <2>2, <2>3 DEF Behind
<1> QED BY <1>2, <1>3, <1>4, <1>5, <1>6 DEF IInv

\* Every step.
LEMMA NextIInv == IInv /\ [Next]_vars => IInv'
<1> SUFFICES ASSUME IInv, [Next]_vars PROVE IInv'
  OBVIOUS
<1>1. CASE OpenImage \/ CheckDestination \/ CheckPartitions \/ OpenImage_Linux
           \/ ValidImageCheckValue
  <2>1. UNCHANGED Quiet /\ pc \in {"start", "destination", "partitions", "valid"}
        /\ \/ pc' \in {"done", "hung"}
           \/ /\ pc' \in {"destination", "partitions", "valid", "table"}
              /\ pc' = "table" => mode = "Recover_Linux" \/ (damage.seen => damage.kind = "none")
    BY <1>1 DEF OpenImage, CheckDestination, CheckPartitions, OpenImage_Linux,
                ValidImageCheckValue, Check, Done, Stays
  <2>2. pc \notin {"done", "hung"}
    BY <2>1
  <2> QED BY <2>1, <2>2, CheckStep, QuietAbort
<1>2. CASE RecoverTable \/ RecoverTable_Linux
  BY <1>2, TableStepInv DEF RecoverTable, RecoverTable_Linux
<1>3. CASE SkipPart
  BY <1>3, SkipPartStep
<1>4. CASE SwapPart
  BY <1>4, SwapPartStep
<1>5. CASE ReadBitmap
  BY <1>5, ReadBitmapStep
<1>6. CASE ReadUnit \/ ReadDamagedUnit \/ ReadDamagedData
  BY <1>6, ReadUnitStep
<1>7. CASE EndPart
  BY <1>7, EndPartStep
<1>8. CASE RestoreBlock
  BY <1>8, RestoreBlockStep
<1>9. CASE Corrupted \/ ReadFails \/ ReadStays
  <2>1. pc \notin {"done", "hung"} /\ pc' \in {"done", "hung"} /\ UNCHANGED Quiet
    BY <1>9 DEF Corrupted, ReadFails, ReadStays, Done, Stays
  <2> QED BY <2>1, QuietAbort
<1>10. CASE FlushUnit
  BY <1>10, FlushUnitStep
<1>11. CASE Finish
  BY <1>11, FinishStep
<1>12. CASE Returned \/ UNCHANGED vars
  <2>1. UNCHANGED <<image, pc, part, bits, unit, size, p, currentblock, nread, currentdata,
                    lost, conti_info, ret, disk, fault>>
    BY <1>12 DEF Returned, vars, place
  <2>2. TypeOK' /\ PositionInv' /\ RunInv' /\ CheckedInv' /\ UntouchedInv'
    BY <2>1, ImageKept DEF IInv, TypeOK, PositionInv, RunInv, CheckedInv, UntouchedInv, image
  <2>3. ImageInv' /\ StaysInside' /\ NeverMisplaced' /\ DamagedTouchesNothing'
    BY <2>1, ImageKept DEF IInv, StaysInside, NeverMisplaced, DamagedTouchesNothing, image
  <2>4. PlaceInv' /\ PendingInv' /\ RestoredInv'
    BY <2>1, ImageKept DEF IInv, PlaceInv, PendingInv, g_lz4_buffer, RestoredInv, Sound, Kept,
                           Behind, image
  <2> QED BY <2>2, <2>3, <2>4 DEF IInv
<1> QED BY <1>1, <1>2, <1>3, <1>4, <1>5, <1>6, <1>7, <1>8, <1>9, <1>10, <1>11, <1>12
        DEF Next, Step

\* Every state a restore reaches, of every image with every kind of damage, is
\* one IInv describes: in a partition that no wrong record spoils the place in
\* the buffer is that of the block of the bitmap and the pending run of
\* SmartDiskIo has the data of its sectors, and what is behind of a partition
\* with all its records has been restored (func.c, Recover and Recover_Linux).
THEOREM RecoverInductive == Spec => []IInv
<1> QED BY InitIInv, NextIInv, PTL DEF Spec

\* Every variable keeps its type: currentblock of Recover and Recover_Linux never
\* leaves the partition nor the pending run of SmartDiskIo the disk, whatever is
\* wrong with the image; the pointer stays in the unit's buffer unless a wrong
\* lz4_size is no whole number of blocks (datasize never becomes 0 then).
THEOREM RecoverTypeOK == Spec => []TypeOK
<1>1. IInv => TypeOK
  BY DEF IInv
<1> QED BY <1>1, RecoverInductive, PTL

\* A restore never writes a sector outside the table, the partitions the image
\* has data of and the heads of its swap partitions, whatever is wrong with the
\* image, for disks, partitions, blocks and units of every size.
THEOREM RestoreStaysInside == Spec => []StaysInside
<1>1. IInv => StaysInside
  BY DEF IInv
<1> QED BY <1>1, RecoverInductive, PTL

\* No sector receives the data of another one, however SmartDiskIo merges and
\* cuts the runs, wherever a write fails and wherever the file ends, but for the
\* partitions a wrong record spoils: its own, and those behind a wrong head of a
\* unit.
THEOREM RestoreNeverMisplaced == Spec => []NeverMisplaced
<1>1. IInv => NeverMisplaced
  BY DEF IInv
<1> QED BY <1>1, RecoverInductive, PTL

\* Recover ends before its first write when the check value shows the damage.
THEOREM DamagedImageTouchesNothing == Spec => []DamagedTouchesNothing
<1>1. IInv => DamagedTouchesNothing
  BY DEF IInv
<1> QED BY <1>1, RecoverInductive, PTL

\* What a restore that reports success has restored: of every partition whose
\* records are all there and right, every marked block it was to write, as far as
\* the partition reaches, and nothing else.
THEOREM SuccessIsRestored == Spec => []SuccessMeansRestored
<1>1. IInv => SuccessMeansRestored
  <2> SUFFICES ASSUME IInv, pc = "done", ret = 0, Sound, NEW q \in Whole,
                      NEW s \in PartSectors(q)
               PROVE  IF s \in RestoredSectors(q) THEN disk[s] = s ELSE Kept(s)
    BY DEF SuccessMeansRestored
  <2>1. part = NParts + 1 /\ q \in 1..NParts /\ NParts \in Nat
    BY SizesAssumption DEF IInv, PositionInv, ImageInv, Parts, Whole
  <2>2. Behind(q, s)
    BY <2>1 DEF Behind
  <2> QED BY <2>2 DEF IInv, RestoredInv
<1> QED BY <1>1, RecoverInductive, PTL
=============================================================================
