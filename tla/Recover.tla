------------------------------ MODULE Recover ------------------------------
(***************************************************************************)
(* A restore (func.c, Recover and Recover_Linux) of an image to the disk   *)
(* it was taken of, through the write combining of SmartDiskIo (utils.c).  *)
(*                                                                         *)
(* The disk holds in every sector s either Old or, once restored, s: the   *)
(* image was taken when sector s held s.  A unit is the sequence of the    *)
(* blocks it holds; Backup reads whole blocks, also where the last one     *)
(* reaches beyond the partition.  Files are sequences of records (a bitmap *)
(* or a unit, with its head); one that was cut short ends after some of    *)
(* them or within the next.  A record is wrong in one place: a bitmap, the *)
(* head of a unit or its data.  The header of the image is right.          *)
(*                                                                         *)
(* As in Backup, bMultiThread is FALSE in this build.  The repairs of the  *)
(* partition table for a new or a smaller disk (the Fix functions) are     *)
(* left out.                                                               *)
(***************************************************************************)
EXTENDS Integers, Sequences, FiniteSets, Ranks

CONSTANTS
  NParts, DiskSize,
  BootBegin, TotalSectors,   \* of every partition
  BLOCK_SIZE,                \* sectors in a block
  UnitBlocks,                \* CompressBlockSize, in blocks
  Slots,                     \* the parts in which align_lz4_size is counted
  GptSectors,                \* 128: GPT_DATA_SIZE, the table with what follows it
  MaxRun,                    \* 2048: SmartDiskIo writes so many sectors at once
  SwapSectors,               \* 12: the head of a swap partition
  NoLimit, Limits,           \* needlimit: the last block of Windows to write
  Kinds                      \* what may be wrong with the image

Parts == 1..NParts
Sectors == 0..(DiskSize - 1)
Windows == 1                 \* the partition that HasWindows
Table == 0..(GptSectors - 1)
Old == -1
Junk == -2                   \* what no sector of the image held

TotalBlocks(p) == (TotalSectors[p] + BLOCK_SIZE - 1) \div BLOCK_SIZE
Blocks(p) == 0..(TotalBlocks(p) - 1)

ASSUME SizesAssumption ==
  /\ NParts \in Nat /\ {DiskSize, BLOCK_SIZE, UnitBlocks, Slots, GptSectors, MaxRun, SwapSectors}
                          \subseteq Nat \ {0}
  /\ BootBegin \in [Parts -> Nat] /\ TotalSectors \in [Parts -> Nat \ {0}]
  /\ NoLimit \notin Nat /\ Limits \subseteq Nat
  /\ Kinds \subseteq {"short", "head", "data", "bits"}
ASSUME LayoutAssumption ==
  /\ \A p \in Parts : /\ SwapSectors <= TotalSectors[p]
                      /\ BootBegin[p] + TotalSectors[p] <= DiskSize
  /\ \A p, q \in Parts : p < q => BootBegin[p] + TotalSectors[p] <= BootBegin[q]

VARIABLES
  \* the image and the request
  mode,         \* "Recover" or "Recover_Linux"
  bIsAutoFunc,  \* nobody is asked, and nobody can break
  limit,
  marked,       \* the blocks of the partitions the image has data of
  swap,         \* the Linux swap partitions of the image
  damage,       \* [kind, part, n]; seen: the check value tells
  large,        \* the image is on FAT, and a read may be of 20 MB or more
  \* the engine
  pc, part, bits,
  unit, size,   \* what the buffer holds of the image, and g_lz4_size in blocks
  p, currentblock,
  nread,        \* the units of the partition before the position in the file
  currentdata,  \* in slots: a unit has Slots of them
  lost,         \* the position in the file is not at a record
  conti_info, ret,
  \* the disk to restore
  disk, fault

image == <<mode, bIsAutoFunc, limit, marked, swap, damage, large>>
place == <<nread, currentdata, lost>>
vars == <<image, pc, part, bits, unit, size, p, currentblock, place, conti_info, ret,
          disk, fault>>

Saved == DOMAIN marked       \* bIfBackup, and BackupDataSize is not 0

\* How many units Backup made of partition q, and the blocks of the i-th.
Units(q) == (Cardinality(marked[q]) + UnitBlocks - 1) \div UnitBlocks
UnitOf(q, i) ==
  LET U == {b \in marked[q] : (Rank(marked[q], b) - 1) \div UnitBlocks = i - 1}
  IN [k \in 1..Cardinality(U) |-> Nth(U, k)]

\* The i-th sector (from 0) of g_lz4_buffer, or of what lies behind it.
g_lz4_buffer(i) ==
  IF i \div BLOCK_SIZE < Len(unit)
    THEN BootBegin[part] + unit[1 + i \div BLOCK_SIZE] * BLOCK_SIZE + (i % BLOCK_SIZE)
    ELSE Junk

\* A unit whose size is not a whole number of blocks: datasize, a UINT64, never
\* becomes 0.
NotWhole == -1
Sizes == {NotWhole} \cup 0..UnitBlocks

\* n is the unit with the wrong head or data, or how many records of the
\* partition a short file has.
Damages ==
  {[kind |-> "none", part |-> 0, n |-> 0, seen |-> FALSE]} \cup
  {d \in [kind : Kinds, part : Saved, n : 0..DiskSize, seen : BOOLEAN] :
     CASE d.kind = "short" -> d.n <= Units(d.part)
       [] d.kind = "bits" -> d.n = 0
       [] OTHER -> d.n \in 1..Units(d.part)}

\* conti_info as SmartDiskIoInit leaves it.
SmartDiskIoInit == [Sector |-> 0, Number |-> 0, Buffer |-> 0]

Init ==
  /\ mode \in {"Recover", "Recover_Linux"} /\ bIsAutoFunc \in BOOLEAN
  /\ limit \in {NoLimit} \cup (IF mode = "Recover" THEN Limits ELSE {})
  /\ \E S \in SUBSET Parts :
       /\ marked \in {m \in [S -> SUBSET UNION {Blocks(q) : q \in S}] :
                        \A q \in S : m[q] \subseteq Blocks(q)}
       /\ swap \in SUBSET (Parts \ S)
  /\ damage \in Damages /\ (mode = "Recover_Linux" => ~damage.seen) /\ large \in BOOLEAN
  /\ pc = "start" /\ part = 1 /\ bits = {} /\ unit = <<>> /\ size = 0 /\ p = 0
  /\ currentblock = 0 /\ nread = 0 /\ currentdata = 0 /\ lost = FALSE
  /\ conti_info = SmartDiskIoInit /\ ret = -1
  /\ disk = [s \in Sectors |-> Old] /\ fault = FALSE

-----------------------------------------------------------------------------
(***************************************************************************)
(* Before the data.                                                        *)
(***************************************************************************)
Done == pc' = "done"

\* A read of 20 MB or more at the end of a segment, which never returns (SegFile,
\* FileReadReturns).
Stays == large /\ pc' = "hung"

Quiet == <<image, part, bits, unit, size, p, currentblock, place, conti_info, ret, disk, fault>>

\* Goes on to the next check, or ends: none of the checks touches the disk.
Check(from, to) == pc = from /\ (pc' = to \/ Done) /\ UNCHANGED Quiet

\* File system, header with Magic and bComplete, buffers.
OpenImage == mode = "Recover" /\ Check("start", "destination")

\* A destination disk is found, of the RAID kind the image wants, and the user
\* accepts NVMe and BitLocker.
CheckDestination == Check("destination", "partitions")

\* The partitions and GUIDs are those of the image, or the restore is forced;
\* the user is asked a last time.
CheckPartitions == Check("partitions", "valid")

\* Recover_Linux: the same without RAID, BitLocker, GUIDs and check value.
OpenImage_Linux == mode = "Recover_Linux" /\ Check("start", "table")

\* Mutant: a value that does not match is only logged.
ValidImageCheckValueLogged == Check("valid", "table")

\* Only Recover looks at the check value.  It does not tell damage between the
\* samples of a large file, nor of an image that has no check value; with a file
\* that ends too early it may ask for too much (CheckValue, FileReadStays).
ValidImageCheckValue ==
  /\ pc = "valid"
  /\ \/ Done
     \/ damage.kind = "short" /\ Stays
     \/ (damage.seen => damage.kind = "none") /\ pc' = "table"
  /\ UNCHANGED Quiet

\* A table that has changed, or is forced, is written as a whole, also where a
\* partition begins in its last sectors; otherwise as far as the first partition.
TableSizes ==
  {GptSectors} \cup {BootBegin[q] : q \in {r \in Parts : r = 1 /\ BootBegin[r] \in Table \ {0}}}

\* The table of the image, or its boot code, is written, or it cannot be.
WriteTable ==
  \/ /\ pc' = "part" /\ UNCHANGED fault
     /\ \E n \in TableSizes : disk' = [s \in Sectors |-> IF s < n THEN s ELSE disk[s]]
  \/ Done /\ fault' = TRUE /\ UNCHANGED disk

TableStep ==
  /\ pc = "table"
  /\ \/ (pc' = "part" \/ Done) /\ UNCHANGED <<disk, fault>>
     \/ WriteTable
  /\ UNCHANGED <<image, part, bits, unit, size, p, currentblock, place, conti_info, ret>>

\* It ends when the table cannot be read, or when it has changed and that is not
\* forced.  Nothing is written to a GPT disk that has not changed; when the
\* table is not wanted Recover goes on and Recover_Linux ends.
RecoverTable == mode = "Recover" /\ TableStep
RecoverTable_Linux == mode = "Recover_Linux" /\ TableStep

-----------------------------------------------------------------------------
(***************************************************************************)
(* SmartDiskIo                                                             *)
(***************************************************************************)

\* The disk after n sectors of the pending run were written.
Written(n) ==
  [s \in Sectors |-> IF s - conti_info.Sector \in 0..(n - 1)
                       THEN g_lz4_buffer(conti_info.Buffer + s - conti_info.Sector)
                       ELSE disk[s]]

\* A pending run that the request continues grows.
Extend(Sector, Number) ==
  /\ conti_info.Number # 0 /\ Number # 0
  /\ Sector = conti_info.Sector + conti_info.Number
  /\ conti_info' = [conti_info EXCEPT !.Number = @ + Number]
  /\ UNCHANGED <<disk, fault>>

\* Otherwise it is written, in pieces, and the request becomes the pending run:
\* also when a write failed, which ends the pieces.
Replace(Sector, Number, Buffer) ==
  /\ ~ (conti_info.Number # 0 /\ Number # 0
        /\ Sector = conti_info.Sector + conti_info.Number)
  /\ conti_info' = [Sector |-> Sector, Number |-> Number, Buffer |-> Buffer]
  /\ disk' = Written(conti_info.Number)
  /\ UNCHANGED fault
ReplaceFails(Sector, Number, Buffer) ==
  /\ ~ (Number # 0 /\ Sector = conti_info.Sector + conti_info.Number)
  /\ \E n \in 0..(conti_info.Number - 1) : n % MaxRun = 0 /\ disk' = Written(n)
  /\ conti_info' = [Sector |-> Sector, Number |-> Number, Buffer |-> Buffer]
  /\ fault' = TRUE

\* The calls of Recover: it ends when one of them fails.  next is what it does
\* after one that went well.
SmartDiskIo(Sector, Number, Buffer, next) ==
  \/ (Extend(Sector, Number) \/ Replace(Sector, Number, Buffer)) /\ next
  \/ ReplaceFails(Sector, Number, Buffer) /\ Done /\ UNCHANGED <<p, currentblock>>

\* The calls of Recover_Linux: it does not look at the result.
SmartDiskIo_Linux(Sector, Number, Buffer, next) ==
  /\ \/ Extend(Sector, Number)
     \/ Replace(Sector, Number, Buffer)
     \/ ReplaceFails(Sector, Number, Buffer)
  /\ next

Write(Sector, Number, Buffer, next) ==
  \/ mode = "Recover" /\ SmartDiskIo(Sector, Number, Buffer, next)
  \/ mode = "Recover_Linux" /\ SmartDiskIo_Linux(Sector, Number, Buffer, next)

-----------------------------------------------------------------------------
(***************************************************************************)
(* The loop over the partitions of the header.                             *)
(***************************************************************************)

\* The last swap partition is the one whose head TempBuffer holds.
LastSwap == CHOOSE q \in swap : \A r \in swap : r <= q
SwapWritten ==
  [s \in Sectors |-> IF s - BootBegin[part] \in 0..(SwapSectors - 1)
                       THEN BootBegin[LastSwap] + s - BootBegin[part] ELSE disk[s]]

\* A partition without data.
SkipPart ==
  /\ pc = "part" /\ part \in Parts \ Saved
  /\ mode = "Recover_Linux" => part \notin swap
  /\ part' = part + 1
  /\ UNCHANGED <<image, pc, bits, unit, size, p, currentblock, place, conti_info, ret,
                 disk, fault>>

\* Recover_Linux writes the head of a swap partition and does not look at the
\* result.
SwapPart ==
  /\ pc = "part" /\ part \in swap /\ mode = "Recover_Linux"
  /\ \/ disk' = SwapWritten /\ UNCHANGED fault
     \/ fault' = TRUE /\ UNCHANGED disk
  /\ part' = part + 1
  /\ UNCHANGED <<image, pc, bits, unit, size, p, currentblock, place, conti_info, ret>>

\* Record i of partition q (0 is its bitmap) lies before the end of a short file.
Available(q, i) ==
  damage.kind = "short" => q < damage.part \/ (q = damage.part /\ i < damage.n)
Is(kind, i) == damage.kind = kind /\ damage.part = part /\ damage.n = i

\* The bitmap must be there as a whole.  One of 20 MB or more that begins a
\* segment is asked for at the end of the segment before.
ReadBitmap ==
  /\ pc = "part" /\ part \in Saved
  /\ \/ (Done \/ Stays) /\ UNCHANGED <<bits, unit, size, p, currentblock, place, conti_info>>
     \/ /\ lost \/ Available(part, 0)
        /\ bits' \in IF lost \/ Is("bits", 0) THEN SUBSET Blocks(part) ELSE {marked[part]}
        /\ unit' = <<>> /\ size' = 0 /\ p' = 0
        /\ currentblock' = 0 /\ nread' = 0 /\ currentdata' = 0
        /\ conti_info' = SmartDiskIoInit
        /\ pc' = "unit" /\ UNCHANGED lost
  /\ UNCHANGED <<image, part, ret, disk, fault>>

\* Until currentdata reaches totaldatasize: head and data of the next unit, then
\* DecompressBuffer.
MoreData == currentdata < Units(part) * Slots

\* The user breaks; the head has an unknown flag or too large a size; there is less
\* data than it says, or the data cannot be decompressed.
ReadFails ==
  /\ pc = "unit" /\ (bIsAutoFunc => MoreData)
  /\ Done /\ UNCHANGED Quiet

\* What should be a head may ask for any data, and a short file have less.
ReadStays ==
  /\ pc = "unit" /\ MoreData
  /\ lost \/ Is("head", nread + 1) \/ ~Available(part, nread + 1)
  /\ Stays /\ UNCHANGED Quiet

\* align_lz4_size moves the position in the file and currentdata alike: to the
\* next record, or anywhere.
InStep == nread' = nread + 1 /\ currentdata' = currentdata + Slots /\ UNCHANGED lost
OutOfStep ==
  /\ lost' = TRUE /\ UNCHANGED nread
  /\ currentdata' \in (currentdata + 1)..(Units(part) * Slots)

ReadUnit ==
  /\ pc = "unit" /\ MoreData /\ ~lost /\ Available(part, nread + 1)
  /\ ~Is("head", nread + 1) /\ ~Is("data", nread + 1)
  /\ unit' = UnitOf(part, nread + 1) /\ size' = Len(unit') /\ p' = 0
  /\ pc' = "blocks" /\ InStep
  /\ UNCHANGED <<image, part, bits, currentblock, conti_info, ret, disk, fault>>

\* A head with one of the two flags is believed: lz4_size bytes are taken for the
\* unit, decompressed or not.  Up to 8 bytes are none.
ReadDamagedUnit ==
  /\ pc = "unit" /\ MoreData
  /\ \/ lost /\ unit' = <<>> /\ OutOfStep
     \/ /\ ~lost /\ Is("head", nread + 1) /\ unit' \in {<<>>, UnitOf(part, nread + 1)}
        /\ InStep \/ OutOfStep
  /\ size' \in Sizes /\ p' = 0 /\ pc' = "blocks"
  /\ UNCHANGED <<image, part, bits, currentblock, conti_info, ret, disk, fault>>

\* Wrong data is written as it is, or may still be decompressed.
ReadDamagedData ==
  /\ pc = "unit" /\ MoreData /\ ~lost /\ Is("data", nread + 1)
  /\ unit' = <<>> /\ size' \in Sizes /\ p' = 0
  /\ pc' = "blocks" /\ InStep
  /\ UNCHANGED <<image, part, bits, currentblock, conti_info, ret, disk, fault>>

\* g_lz4_size is 0 when the data was all read, but also when the file ended and
\* when a head has the lz4_size 0.
EndPart ==
  /\ pc = "unit" /\ part' = part + 1 /\ pc' = "part"
  /\ \/ (MoreData => lost \/ ~Available(part, nread + 1)) /\ UNCHANGED lost
     \/ MoreData /\ (lost \/ Is("head", nread + 1)) /\ lost' = TRUE
     \/ MoreData /\ Is("head", nread + 1) /\ nread + 1 = Units(part) /\ UNCHANGED lost
  /\ UNCHANGED <<image, bits, unit, size, p, currentblock, nread, currentdata,
                 conti_info, ret, disk, fault>>

\* Mutants: the last block is written as a whole; the blocks before it are not
\* taken off.
SecNumWhole(q, b) == BLOCK_SIZE
SecNumTotal(q, b) == IF b = TotalBlocks(q) - 1 THEN TotalSectors[q] ELSE BLOCK_SIZE

SecNum(q, b) ==
  IF b = TotalBlocks(q) - 1 THEN TotalSectors[q] - b * BLOCK_SIZE ELSE BLOCK_SIZE

Skipped(q, b) == limit # NoLimit /\ q = Windows /\ b >= limit + 1

\* A block of the bitmap while datasize is not 0.
RestoreBlock ==
  /\ pc = "blocks" /\ p # size * BLOCK_SIZE
  /\ currentblock < TotalBlocks(part)
  /\ LET next == /\ pc' = "blocks" /\ currentblock' = currentblock + 1
                 /\ p' = IF currentblock \in bits THEN p + BLOCK_SIZE ELSE p
     IN IF currentblock \in bits /\ ~Skipped(part, currentblock)
          THEN Write(BootBegin[part] + currentblock * BLOCK_SIZE,
                     SecNum(part, currentblock), p, next)
          ELSE next /\ UNCHANGED <<conti_info, disk, fault>>
  /\ UNCHANGED <<image, part, bits, unit, size, place, ret>>

\* More data than the bitmap has blocks.
Corrupted ==
  /\ pc = "blocks" /\ p # size * BLOCK_SIZE
  /\ currentblock >= TotalBlocks(part)
  /\ Done /\ UNCHANGED Quiet

\* Mutants: the run stays pending until the last unit, while the buffer is used
\* again; its failure is not looked at; the loop takes the same unit again.
FlushUnitLast ==
  /\ pc = "blocks" /\ p = size * BLOCK_SIZE /\ pc' = "unit"
  /\ IF MoreData THEN UNCHANGED <<conti_info, disk, fault>> ELSE Replace(0, 0, 0)
  /\ UNCHANGED <<image, part, bits, unit, size, p, currentblock, place, ret>>
FlushUnitIgnored ==
  /\ pc = "blocks" /\ p = size * BLOCK_SIZE /\ pc' = "unit"
  /\ Replace(0, 0, 0) \/ ReplaceFails(0, 0, 0)
  /\ UNCHANGED <<image, part, bits, unit, size, p, currentblock, place, ret>>
FlushUnitAgain ==
  /\ pc = "blocks" /\ p = size * BLOCK_SIZE /\ pc' = "unit"
  /\ Replace(0, 0, 0) /\ currentblock' = 0
  /\ nread' = nread - 1 /\ currentdata' = currentdata - Slots
  /\ UNCHANGED <<image, part, bits, unit, size, p, lost, ret>>

\* The unit is used up: SmartDiskIo of nothing writes the pending run.
FlushUnit ==
  /\ pc = "blocks" /\ p = size * BLOCK_SIZE
  /\ Write(0, 0, 0, pc' = "unit" /\ UNCHANGED <<p, currentblock>>)
  /\ UNCHANGED <<image, part, bits, unit, size, place, ret>>

\* BackupLastProcess, DiskFlush, success.
Finish ==
  /\ pc = "part" /\ part = NParts + 1
  /\ ret' = 0 /\ Done
  /\ UNCHANGED <<image, part, bits, unit, size, p, currentblock, place, conti_info, disk,
                 fault>>

Step ==
  \/ OpenImage \/ CheckDestination \/ CheckPartitions \/ ValidImageCheckValue
  \/ RecoverTable \/ OpenImage_Linux \/ RecoverTable_Linux
  \/ SkipPart \/ SwapPart \/ ReadBitmap \/ ReadFails \/ ReadStays
  \/ ReadUnit \/ ReadDamagedUnit \/ ReadDamagedData \/ EndPart
  \/ RestoreBlock \/ Corrupted \/ FlushUnit \/ Finish

Returned == pc \in {"done", "hung"} /\ UNCHANGED vars

Next == Step \/ Returned

\* One thread; every call of the firmware returns.
Spec == Init /\ [][Next]_vars
FairSpec == Spec /\ WF_vars(Step)

-----------------------------------------------------------------------------
(***************************************************************************)
(* What must hold.                                                         *)
(***************************************************************************)

\* Every variable keeps its type: currentblock stays within the partition and the
\* pending run of SmartDiskIo within the disk, whatever is wrong with the image;
\* p stays within the unit's buffer unless lz4_size is not a whole number of blocks
\* (func.c, Recover and Recover_Linux).
TypeOK ==
  /\ pc \in {"start", "destination", "partitions", "valid", "table",
             "part", "unit", "blocks", "done", "hung"}
  /\ part \in 1..(NParts + 1) /\ bits \subseteq Nat
  /\ unit \in Seq(0..DiskSize) /\ size \in Sizes
  /\ p \in Nat /\ (size # NotWhole => p <= UnitBlocks * BLOCK_SIZE)
  /\ currentblock \in 0..DiskSize /\ nread \in 0..DiskSize
  /\ currentdata \in Nat /\ lost \in BOOLEAN
  /\ conti_info \in [Sector : Nat, Number : Nat, Buffer : Nat]
  /\ conti_info.Sector + conti_info.Number \in 0..DiskSize
  /\ ret \in {-1, 0} /\ disk \in [Sectors -> Int] /\ fault \in BOOLEAN

PartSectors(q) == BootBegin[q]..(BootBegin[q] + TotalSectors[q] - 1)

\* Where a restore may write: the table, the partitions the image has data of
\* and the heads of its swap partitions.
Allowed ==
  Table \cup (UNION {PartSectors(q) : q \in Saved}) \cup
  (UNION {BootBegin[q]..(BootBegin[q] + SwapSectors - 1) : q \in swap})

\* Whatever is wrong with the image, a restore never writes a sector outside the
\* partitions it restores: the last block of a partition, of which the image
\* holds sectors beyond its end, does not spill into the next one.
StaysInside == \A s \in Sectors : disk[s] # Old => s \in Allowed

\* The partitions that wrong records can spoil: what follows a wrong head is
\* looked for at another position, also in the partitions behind.
Spoiled ==
  {q \in Parts : \/ damage.kind \in {"bits", "data"} /\ q = damage.part
                 \/ damage.kind = "head" /\ q >= damage.part}

\* The partitions a short file has not all of.
Cut == {q \in Parts : damage.kind = "short" /\ q >= damage.part}

\* Outside the partitions a wrong record spoils, no sector ever receives data of
\* another one: not when SmartDiskIo merges blocks into one run, not when the
\* unit's buffer is used again, not when a write fails halfway, not when the file
\* ends too early.
NeverMisplaced ==
  Cardinality(swap) <= 1 =>
    \A s \in Sectors : (\A q \in Spoiled \cap Saved : s \notin PartSectors(q))
                          => disk[s] \in {Old, s}

\* Recover does not touch the disk when the check value shows that the image
\* is damaged: ValidImageCheckValue comes before the first DiskWrite.
DamagedTouchesNothing ==
  mode = "Recover" /\ damage.kind # "none" /\ damage.seen =>
    disk = [s \in Sectors |-> Old]

RestoredSectors(q) ==
  {BootBegin[q] + s : s \in {t \in 0..(TotalSectors[q] - 1) :
                               /\ t \div BLOCK_SIZE \in marked[q]
                               /\ ~Skipped(q, t \div BLOCK_SIZE)}}

\* Sector s was not written, unless with the table.
Kept(s) == disk[s] = Old \/ (s \in Table /\ disk[s] = s)

\* No write failed without ending the restore.
Sound == mode = "Recover_Linux" => ~fault

\* The partitions of which the file has every record, and rightly.
Whole == Saved \ (Spoiled \cup Cut)

\* A restore that reports success restored, of every partition whose records are
\* all there and right, every marked block it was to write, up to the odd last
\* sector, and left the blocks that were not in use alone, but for the sectors the
\* table is written to.  In Recover this includes that no write failure goes
\* unreported, although SmartDiskIo reports it one call later.  Nothing is said of the
\* other partitions: a wrong lz4_size of 0 and an early end of the file are taken
\* for the end of the partition, and the restore goes on to its success.
SuccessMeansRestored ==
  pc = "done" /\ ret = 0 /\ Sound =>
    \A q \in Whole : \A s \in PartSectors(q) :
      IF s \in RestoredSectors(q) THEN disk[s] = s ELSE Kept(s)

\* A restore comes to an end, whatever the image holds: every unit it reads
\* brings it nearer to BackupDataSize or to the end of the file, and every unit
\* is used up or found to be corrupted.  Only a read of 20 MB or more from a FAT
\* image may not return.
RecoverEnds == pc = "start" ~> pc = "done" \/ (large /\ pc = "hung")

-----------------------------------------------------------------------------
(***************************************************************************)
(* The inductive strengthening of the safety properties.                   *)
(***************************************************************************)

\* The image and the request, which a restore never changes.
ImageInv ==
  /\ mode \in {"Recover", "Recover_Linux"} /\ bIsAutoFunc \in BOOLEAN
  /\ limit \in {NoLimit} \cup Limits
  /\ Saved \subseteq Parts /\ \A q \in Saved : marked[q] \subseteq Blocks(q)
  /\ swap \subseteq Parts \ Saved
  /\ damage \in Damages /\ large \in BOOLEAN

\* How far the restore is.  Only a wrong head makes it lose the position.
PositionInv ==
  /\ pc \in {"unit", "blocks"} =>
       /\ part \in Saved /\ currentblock <= TotalBlocks(part)
       /\ nread <= Units(part) /\ currentdata <= Units(part) * Slots
       /\ ~lost => currentdata = nread * Slots
  /\ pc = "blocks" =>
       /\ p <= currentblock * BLOCK_SIZE
       /\ size # NotWhole => \E k \in 0..size : p = k * BLOCK_SIZE
  /\ pc = "blocks" /\ part \notin Spoiled =>
       nread >= 1 /\ unit = UnitOf(part, nread) /\ size = Len(unit)
  /\ lost => damage.kind = "head" /\ damage.part <= part
  /\ ret = 0 => pc = "done"
  /\ pc = "done" /\ ret = 0 => part = NParts + 1

\* A run is pending only while a unit is worked on, and it ends at or before the
\* block that comes next.
RunInv ==
  /\ pc = "unit" => conti_info.Number = 0
  /\ pc = "blocks" /\ conti_info.Number # 0 =>
       /\ BootBegin[part] <= conti_info.Sector
       /\ conti_info.Sector + conti_info.Number <= BootBegin[part] + TotalSectors[part]
       /\ conti_info.Sector + conti_info.Number <= BootBegin[part] + currentblock * BLOCK_SIZE

\* What the check value shows ends Recover before its first write, and so does
\* every write failure it meets.
CheckedInv ==
  mode = "Recover" =>
    /\ damage.kind # "none" /\ damage.seen =>
         pc \in {"start", "destination", "partitions", "valid", "done", "hung"} /\ ret = -1
    /\ fault => pc = "done" /\ ret = -1

\* The marked blocks of partition q before block b, and how many of them are in
\* its first i units.
Before(q, b) == Cardinality({d \in marked[q] : d < b})
UnitEnd(q, i) ==
  IF i * UnitBlocks <= Cardinality(marked[q]) THEN i * UnitBlocks ELSE Cardinality(marked[q])

\* In a partition that no wrong record spoils, the place in the buffer is that of
\* the block: as many blocks of the bitmap are behind as the units had, and as
\* many of the unit.
PlaceInv ==
  pc \in {"unit", "blocks"} /\ part \notin Spoiled =>
    /\ bits = marked[part]
    /\ pc = "unit" => Before(part, currentblock) = UnitEnd(part, nread)
    /\ pc = "blocks" =>
         /\ Before(part, currentblock) \in ((nread - 1) * UnitBlocks)..UnitEnd(part, nread)
         /\ p = (Before(part, currentblock) - (nread - 1) * UnitBlocks) * BLOCK_SIZE

\* ... and so the buffer has for every sector of the pending run what belongs
\* there, and a request that continues the run continues it in the buffer.
PendingInv ==
  pc = "blocks" /\ part \notin Spoiled /\ conti_info.Number # 0 =>
    /\ conti_info.Sector + conti_info.Number = BootBegin[part] + currentblock * BLOCK_SIZE
         => conti_info.Buffer + conti_info.Number = p
    /\ \A s \in conti_info.Sector..(conti_info.Sector + conti_info.Number - 1) :
         /\ g_lz4_buffer(conti_info.Buffer + s - conti_info.Sector) = s
         /\ s \in RestoredSectors(part)

\* Sector s of partition q is behind the restore.
Behind(q, s) ==
  \/ q < part
  \/ /\ q = part /\ pc \in {"unit", "blocks"}
     /\ s < BootBegin[q] + currentblock * BLOCK_SIZE
     /\ s - conti_info.Sector \notin 0..(conti_info.Number - 1)

\* What is behind is restored, and nothing else of the whole partitions has been
\* written but the table.
RestoredInv ==
  Sound /\ (pc \in {"start", "destination", "partitions", "valid", "table", "part",
                    "unit", "blocks"} \/ ret = 0) =>
    \A q \in Whole : \A s \in PartSectors(q) :
      /\ s \notin RestoredSectors(q) => Kept(s)
      /\ s \in RestoredSectors(q) /\ Behind(q, s) => disk[s] = s

\* Before the data nothing has been written.
UntouchedInv ==
  pc \in {"start", "destination", "partitions", "valid", "table"} =>
    part = 1 /\ disk = [s \in Sectors |-> Old]

\* The inductive invariant.
IInv ==
  /\ TypeOK /\ ImageInv /\ PositionInv /\ RunInv /\ CheckedInv /\ UntouchedInv
  /\ PlaceInv /\ PendingInv /\ RestoredInv
  /\ StaysInside /\ NeverMisplaced /\ DamagedTouchesNothing
=============================================================================
