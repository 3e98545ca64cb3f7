# OKR: a verification project

OKR is a UEFI application (`src/OkrPkg/okrefi`) that saves the partitions of a
disk to an image on a FAT or NTFS volume and restores them. It runs before any
operating system, on one thread: `StartAP` and the asynchronous variants are in
the source, but in this build `bMultiThread` stays FALSE. What makes it hard is
not interleaving. It is the order of writes to storage that can lose power at
any moment, faults some of which the code does not look at, a cache between the
code and the file, files split into segments, images that were damaged since
they were written, and loops that must end for every length.

## Inventory

| component | state | operations | interacts with |
|---|---|---|---|
| backup engine (`func.c`, `Backup`) | header in memory, file handle, current partition, block and unit | create, write header, bitmap and units, close, update header, check value, clean up | file layer, check value, partition scan |
| catalogue (`GetBackupFileList`, `GetAllBackupFiles`, `CheckAllBackupFiles`) | `g_data.images`, `ImageFilesNumber` | scan, delete the unfinished, sort, check the segments, close the gaps | file layer |
| restore engine (`Recover`, `Recover_Linux`) | header, bitmap, unit buffer, pending run | checks, partition table, units, blocks, flush | file layer, `SmartDiskIo`, check value |
| check value (`CalculateFileCheckValue`, `ValidImageCheckValue`) | hash contexts, salt, position | placeholder, hash, save, compare | file layer |
| NTFS file handle (`utils.c`, `_FileRead`, `_FileWrite`) | position, one cache for reading and writing | open, seek, read, write, close | NTFS library |
| FAT segments (`FileRead`, `FileWrite`, `SegFileRead`, `SegFileWrite`) | current segment and its size | split, join | firmware files |
| destination choice (`GetDestinationDisk`, `DetectNewHddFace`, `FindNewHdd`) | `g_disklist`, `g_Partitions`, flags in `g_data` that outlive a restore | classify the disks, choose one, compare it with the image, ask | restore engine, faces |
| partition table repair (the `Fix` functions) | table and its copy on the disk, header in memory, `g_WinREState`, `g_wireTotalSectors` | move WinRE, add or drop a data partition, cut C, patch the size of the volume | restore engine |
| automatic mode, session (`Face`, `AutoRestoreFace`) | `bIsAutoFunc`, `bForceRestorePartition`, `bFactoryRestore` | Ctrl-F, Ctrl-T, choose an image, restore without a user | all of the above |
| parallel buffers | ring of buffers | dead in this build | backup and restore |
| progress bar, drawing | window state | presentation | all |

`PROJECT.json` lists every part with its sources, the ones that are not modelled
too, and under `hazards` what is hard to test, each at its line.

What makes the parts correct:

* **backup**: an image that says `bComplete` has all its data on the disk; a run
  that reports success left an image a restore accepts; a run that fails cleans
  up; every run ends.
* **catalogue**: exactly the usable images are listed, in order and without gaps;
  nothing usable is deleted; a deletion that is cut off can be resumed.
* **restore**: no sector outside the restored partitions is written, none receives
  data of another one, damage that the check value shows keeps the disk untouched,
  success means restored, every run ends.
* **session and destination**: a table is replaced only when somebody asked for it, a
  flag of one restore does not leak into the next, a disk that is merely similar is
  refused, the image is not destroyed by its own restore.
* **table repair**: data goes where the table says the partition is; both copies of
  the table agree.
* **check value**: accepts what was not changed, refuses what was, keeps the data.
* **file layer**: is a file of bytes, of which only a failing close loses any; segments are
  joined as they were split.

## Modules

| module | models | checked by |
|---|---|---|
| `Backup` | `Backup`, `CreateImageHeader`, the file layer as records, the scan that deletes what is unfinished, power loss | `MCBackup` |
| `Ranks` | the rank of a block among those a bitmap marks | through `Backup` and `Recover` |
| `RankTheorems` | lemmas about ranks, blocks, sectors and least elements | TLAPS |
| `BackupProofs` | `Backup`: what is on the disk when a header says complete; files, order, cleaning up, success; coverage of the marked blocks | TLAPS |
| `CachedFile` | the NTFS handle as operators on a record | through the next two |
| `FileHandle` | a user of one handle; refines `ByteFile` | `MCFileHandle` |
| `ByteFile` | the abstract file: content and position | as a property of `FileHandle` |
| `FileHandleProofs` | the cache, the loop of `_FileRead`, the refinement of `ByteFile` | TLAPS |
| `SegFile` | writing and reading an image on FAT | `MCSegFile` |
| `SegFileProofs` | order across segments, requests that are answered whole | TLAPS |
| `CheckValue` | calculation and validation, over `CachedFile` on NTFS | `MCCheckValue` |
| `CheckValueProofs` | both passes over the files: types, progress, data kept, damage noticed, good images accepted | TLAPS |
| `Catalog` | the list of images | `MCCatalog` |
| `CatalogProofs` | order, loss, gaps and deletions of the list | TLAPS |
| `Recover` | the data of `Recover`, `Recover_Linux`, with `SmartDiskIo` | `MCRecover` |
| `RecoverProofs` | containment, place of the data, damage, success | TLAPS |
| `TableFix` | the `Fix` functions as operators on tables and headers | through the next one |
| `RestorePlan` | a session of restores: choice of the disk, questions, table, repairs, flags | `MCRestorePlan` |
| `RestorePlanProofs` | who may force, which tables are replaced, agreement of the two copies, the entry of WinRE, the image on another disk | TLAPS |

`CheckValue` and `FileHandle` compose with `CachedFile`, whose operators both
extend. The others talk about the same image at different grain: `Backup` knows
records and the files they are in, `SegFile` their bytes, `Recover` the blocks of
the units, `CheckValue` the bytes of the files, `RestorePlan` the partitions.
`RestorePlan` composes the session with the restore engine and `TableFix`; it takes
the data as one step, for which `Recover` has the detail, and it gives the conditions
that are nondeterministic checks in `Recover`.

### How state and actions correspond to the code

**Backup.** `pc` names the stretch of `Backup` that is next; one action is one
stretch up to the next write, read, break or `goto Done`. `hdr` is `*pheader`,
`head` the header on the disk, `exist` the files that exist (0 is `name`, k is
`name.k`), `body` the pairs of a file and a record in it, `cache` the records that
only the NTFS cache holds, `log` all records written, `seg` `currentfileseg`,
`bHandle` whether the handle has a file. The data of a block is its number. A
reported failure is a disjunct of the action. A failure that the code does not see
(`close`, `delete`, `read`, `compress`) is put down in `fault`, so that a property
can say what it relies on. `PowerLoss` is possible at every step and is followed by
the scan of the next start; `DeleteUnfinished` deletes one file per step.

**CachedFile, FileHandle.** A handle is a record with the fields of
`FILE_HANDLE_INFO` and the bytes the library has. `_FileRead` is given as rounds of
its loop; `ReadEnds` shows that two are enough. `FileHandle` lets a user open, seek,
read, write and close, with failures of each library call, that of the write in
`FileClose` included, which reports success all the same. The refinement mapping
takes the dirty cache laid over the stored bytes for the content of the file, and the
stored bytes for what is safe (`stored`): `ByteFile` lets a close keep the content or fall
back to what is stored, which is the file as it was some leading part of a write ago.

**SegFile.** Bytes are numbered as they are written. One step of `SegFileRead` is
one `Read` of the firmware.

**CheckValue.** One step is one round of a hash loop or one function. SHA-256 and
PBKDF2 are taken to be injective: a digest is the sequence of what went into it.
The 8192-byte chunk, the 2 MB section, the samples and the sizes at which they begin
are constants in the same proportions. The size of a request is a `DWORD`: when less than a
check value is left of the last file, it wraps (`Wraps`), and the read does not return
(`FileReadStays`). That takes an empty last segment whose placeholder could not be written.

**Catalog.** `images` is `g_data.images`; a slot is the number of an image or 0. One
step is one directory entry, one comparison of the sort, one image checked or one
slot packed.

**Recover.** The disk holds in each sector `Old` or the number of a sector of the
image, so that a misplaced sector can be told from a right one. `conti_info` is the
pending run of `SmartDiskIo`; the buffer it points to is read when the run is written,
which is what makes it matter when the buffer is used again. The checks before the
data (destination, RAID, BitLocker, GUIDs, questions to the user) touch nothing and
either end the run or let it go on. `Recover_Linux` has no check value and looks at
no result of `SmartDiskIo`. Damage is to a bitmap, to the head of a unit, to its data, or the
loss of the end of the file; the header of the image is right. As in the code, a head with
one of the two flags is believed. A wrong `lz4_size` makes the unit longer, shorter, not a
whole number of blocks (`NotWhole`: `datasize` never becomes 0, and the loop goes on to the
end of the bitmap, with a pointer that leaves the buffer), or empty, which is taken for the
end of the partition. A wrong `align_lz4_size` moves the position in the file out of step
with the records (`OutOfStep`), for this partition and for those behind it (`lost`). Wrong
data is refused by LZ4, or written as `Junk`, whatever its size is then. A read that does
not return (`Stays`) is one of 20 MB or more from an image on FAT: at the end of a segment,
of a file that was cut short, or with a size that a wrong head asks for. Whether the check
value tells the damage (`seen`) is a free choice, also for a short image. The table that is
written is `GptSectors` long, with what follows it up to there.

**RestorePlan, TableFix.** A disk is its table, the copy of the table, its GUID, the
Windows volumes that begin somewhere on it (with serial number and size) and the
partitions BitLocker has locked. `g_Partitions` is computed from the disks, as the
program does after every restore; `g_disklist` keeps what a rescan does not reset.
GUID and label of a partition are one `key`; random GUIDs are the one key `NewKey`.
Index 0 stands for the -1 of the code. `destdisktype` is not a variable: it is read
only together with `comefromnewhddface`, which is 1 for a new disk only. `pc` names
the stretch of `RecoveryFace` and `Recover` that is next. `PartC` is
`PartCBootBegin` and `PartCTotalSector`, `used` is `CurImageSyspartitionsize` in
sectors. The answers of the user, and refusals that depend on hardware (memory, RAID,
GSKU, NVMe), are free choices: any question can be cancelled. A repair can fail to
read or to write at each of its writes; the code goes on, and `fault` remembers it.
`asked`, `wanted` and `before` are history: whether this restore was asked to replace
the table, who has switched forcing on, and the disks when it began. Header and table
move together or not by `TableFix`: each of its operators returns the table, the
header and `fixSmallc` of the C function of that name. `needlimit`, by which the data
of C is limited, is left to `Recover`. An image may lack a recovery partition; it is then
not restored to a disk chosen in `DetectNewHddFace` (`skip`), for `IsFixNewHddWay` would use an
index that was never set. To another disk it is restored, and when `FixNewHDD` runs with a
`g_WinREState` that an earlier restore has left, it copies 128 bytes from behind its buffer
into the table (`func.c:5033`): `Beyond` has what they may be when taken for an entry, `Junk`
is the choice.

## Runs

Passing runs; every property has a mutant in `PROJECT.json`.

| run | instance | what it shows |
|---|---|---|
| `backup` | 2 partitions of 3 blocks, 2 blocks per unit, segments of 1 record, all hidden faults; the last partition is empty or full, and nothing is marked in one that is not saved | records read back in order; complete images cover the marked blocks and are on the disk; success means a valid check value; failure before completion cleans up; scans can be resumed and leave nothing unfinished that has a header; the inductive invariant; every backup ends |
| `file_handle` | sector 2, page 4, cache 4 bytes; requests of 1, 3 and 9 bytes; 3 operations in each of 2 sessions | the cached handle is a `ByteFile`: what a failing call leaves, and what a failing close loses |
| `segments` | split at 5, buffer 3, records of 2, 3 and 5 bytes, up to 5 reads | order, whole requests, termination of the reads that can be answered |
| `check_value` | chunk 8, section 16, five samples, images of one to three files around each limit | acceptance, detection, data kept, progress, and the one image for which the loop does not end |
| `catalog` | 2 partitions, up to 3 entries, list of 3, 2 times | one order, nothing lost, no gaps, no image of the user deleted, termination |
| `recover` | 2 adjacent partitions of 5 and 2 sectors, blocks of 2, runs of 3, a table of 3 sectors that reaches into the first partition, all kinds of damage, reads that do not return | containment, no misplacing, damage, success, termination |
| `restore_plan` | 2 or 3 disks of 20 to 70 sectors, 1 or 2 images, 2 restores in a row (`MaxRounds`), 2691 machines in nine groups | no table is replaced unasked, and none because an earlier restore was forced; on a new disk the data of WinRE goes to an entry and the two tables agree; the image survives a restore that is not forced |

The bounds are chosen so that each limit is met from both sides: a record that
splits and one that does not, a last block with an odd sector next to another
partition, a run longer than what is written at once, sizes below, at and above the
cache, a list that is full. Two partitions are enough for what one leaves behind for
the next (handle, buffer, position, pending run); in `backup` only the first has every
bitmap (`MCInit`); three list entries for a sort with
a factory backup and a gap. In `restore_plan` the sizes and alignments of the code are
scaled down and keep their order and divisibility (`Fine` 2 for 0x10, `Coarse` 4 for
0x100, `Cluster` 4 for 0x40, `Rear` 3 for 0x22, `Spare` 6 for 0x64000, `NearGap` 3 for
0x1000, `Shift` 4 for 0x20, `Extra` 4 for 20 GB, `SysSlack` 2 for 16 MB, `SizeSlack` 3
for 8 MB, `Wrap` 256 for 2^64, which differences below zero meet). The groups of machines are the
situations in which the choice differs: the image on a stick and a new disk
(`OnStick`), on the system disk, also automatic and forced (`OnSystemDisk`), in
`LENOVO_PART` (`Factory`), on a new disk (`OnNewDisk`), in the space a smaller WinRE has left (`Freed`); the original disk lost (`Lost`) or
copied (`Swapped`), a second image without a recovery partition, whose disk is repaired with
what the first restore has left (`Stale`), and images for `Recover_Linux` (`Linux`). In each the system disk has
C larger, smaller, locked, moved, with other GUIDs, repartitioned, blank, or is larger
itself. Two restores are enough for what one leaves to the next: a third begins with
flags that a second can also begin with. `CHECK_DEADLOCK FALSE` is used for the file handle only,
whose user stops when its operations are used up.

### Disagreements with what the code says of itself

Each is a run that expects a violation; `PROJECT.json` quotes the line.

* `backup_failed`: a backup that fails from the header update on leaves its segments,
  for `FileOpen` has cleared the count of segments by which they are deleted.
* `segments_end`: a read of 20 MB or more at the end of a segment never returns. With
  blocks of 32 KB a bitmap is that large for partitions from 5 TB on; a unit often is,
  so a segment that was cut short is enough.
* `check_value_behind`: on NTFS the check value replaces the last bytes of the image:
  the placeholder that should make room for it is still in the cache when the size of
  the file is asked for. The last bytes are padding unless a unit ends at its alignment.
* `catalog_newest`: the sort puts the oldest image first (`func.c:2775`), and the closing of
  the gaps keeps that order; the comments at `func.c:2765` and `2949` say from now backwards.
* `plan_image_disk`: when the original disk is not found, the first large enough disk
  that is neither removable nor a data disk becomes the destination, also when the image
  is on it; a forced restore then replaces the table of the disk it reads from.

Others have no run of their own. Where a property touches them, a guard of it names them:

* A compression error becomes the end of the partition (`CompleteMeansCovered` excepts
  `"compress"`), although `func.c:40` calls it an error.
* Files of an unfinished backup without a readable header stay after a scan
  (`ScanLeavesNoUnfinished` is about those with one), although `func.c:2655` says that
  unfinished files are deleted.
* `bComplete` is on the disk before the check value, although `utils.c:2938` says it is 1
  once the backup has ended: a power loss between the two leaves an image that is listed and
  refused.
* `FileClose` ignores the result of its last write and returns TRUE (`utils.c:3018`). What was
  written is then lost, although every `FileWrite` has reported success (`IsByteFile` says
  what remains of the file, `CompleteMeansDurable` what that means for an image).
* A read after a write in one session loses the write (`ReadAfterWrite` is FALSE in the
  run; TLC finds the loss with TRUE).
* A deleted factory backup is taken off `ImageFilesNumber` twice (`func.c:2978`), although
  `okr.h:193` calls it the number of image files.
* A head of which nothing can be read ends a partition silently (`func.c:6597`, `7318`), and
  so does a head with an `lz4_size` of 0: a short image, or one with such a head, is restored in
  part and reported as complete when the check value does not tell. Other wrong sizes in a head
  that is believed shift the blocks behind it (`SuccessMeansRestored` and `NeverMisplaced` are
  about the partitions no wrong record reaches).
* `datasize` is counted down in whole blocks from a size that need not be one: it passes 0, and
  only the end of the bitmap ends the loop (`func.c:6612`, `6653`; `TypeOK` excepts the place in
  the unit then).
* When an empty last segment on FAT has not got its placeholder, the size of a request wraps and
  the read does not return (`func.c:7971`; `HashProgress` names the case `NoRoom`).
* On a disk without an entry of the recovery type, `FixNewHDD` with a `g_WinREState` of an earlier
  restore writes 128 bytes from behind its buffer into the table (`func.c:5033`).
* `bForceRestorePartition` stays set after a factory restore by `Recover_Linux` and after
  a restore whose medium is gone (`ForcedMeansAsked` excepts the former; the user has
  asked for the latter).
* A C that became smaller is accepted if it had room for exactly 20 GB more than its data,
  and by up to 16 MB without any look at the data; and no other partition has its size
  compared at all, so that the data of a WinRE that became smaller is written past its end
  (`ImageSurvives` excepts the three by `LeftOpen`; without any one of them TLC shows the
  first sector of the image overwritten).
* A copy of the original disk (with its GUID, or with the GUIDs and sizes of its
  partitions), with another system disk in the machine, has its table repaired by `FixNewHDD` although nobody asked (`UnforcedKeepsTable` names the
  case), and with `g_WinREState` of an earlier restore.
* `DetectNewHddFace` checks the system disk the user chooses and then sets
  `comefromnewhddface` to 0 (`face.c:8010`), so that `Recover` searches by itself.
* `Recover` writes the table of the image to the front of the disk only (`func.c:6280`):
  the copy at its end agrees only after a repair (`TablesAgree` is about new disks).
* `UpdateOKRHeaderInfo` moves the first partition of the recovery type, also if it is
  `LENOVO_PART` (`WinREOnEntry` excepts that header).
* In the real alignments, the end of a data partition can fall on the first sector of
  WinRE (`func.c:5326`, `4976`), and `FixNoDataPartTable` does not count the sectors of the
  copy of the table when it finds room enough (`func.c:4371`).
* A factory backup of which a file is missing is deleted when the list is made
  (`func.c:2865`), although `utils.c:2857`, `2891` and `format.h:37` (in `src/include`) say that the
  factory backup must not be deleted (`ListedIsPresent` is about the images of the user).

### Fairness

`FairSpec` has weak fairness of the program's own steps: one thread, no waiting for
anybody, firmware calls that return. A user break, a power loss, damage and faults
are never required to happen. Where the code can end, TLC checks that it does, with
no assumption on which branch is taken.

## Proofs

Every safety property and every action property the passing runs check is proved, except
`TypeOK` of `RestorePlan` and, of its `ImageSurvives`, the restore to the very disk the
image is on: for every value of the constants that satisfies the assumptions in the
component's module. Each proof has the same form: an inductive invariant, a conjunction of
named parts; a lemma for `Init`, one per action and part; and for every property a theorem
that follows from the invariant. The invariants stand at the end of the component's module
and were checked with TLC on the instance of the run before they were proved (one that TLC
cannot evaluate, `HistoryInv` of `CheckValueProofs`, stands in the proofs). Only safety is
proved: none of the theorems uses fairness.

| component | inductive invariant | theorem: property |
|---|---|---|
| `Backup` | `IInv` | `BackupTypeOK`: `TypeOK`; `CompleteIsDurable`: `CompleteMeansDurable` |
| | `FInv`, relative to `IInv` | `FilesReadBackInOrder`: `ReadsBackInOrder`; `AbortLeavesNoFile`: `AbortCleansUp`; `ScanRemovesUnfinished`: `ScanLeavesNoUnfinished`; `SuccessIsValid`: `SuccessMeansValid`; `ScanResumes`: `ScanCanResume` |
| | `CInv`, relative to `IInv` | `CompleteIsCovered`: `CompleteMeansCovered` |
| `Catalog` | `IInv` | `CatalogTypeOK`: `TypeOK`; `ListIsSorted`: `SortedList`; `ListLosesNothing`: `NothingLost`; `ListHasNoGaps`: `NoGaps`; `ListedArePresent`: `ListedIsPresent` |
| `Recover` | `IInv` | `RecoverTypeOK`: `TypeOK`; `RestoreStaysInside`: `StaysInside`; `RestoreNeverMisplaced`: `NeverMisplaced`; `DamagedImageTouchesNothing`: `DamagedTouchesNothing`; `SuccessIsRestored`: `SuccessMeansRestored` |
| `FileHandle` | `IInv` | `FileHandleTypeOK`: `TypeOK`; `ReadTerminates`: `ReadEnds`; `HandleIsByteFile`: `IsByteFile` |
| `SegFile` | `IInv` | `SegFileTypeOK`: `TypeOK`; `SegmentsReadInOrder`: `ReadsInOrder`; `RequestsAnsweredWhole`: `RequestsAreWhole` |
| `CheckValue` | `IInv` | `TypeCorrect`: `TypeOK`; `LoopsAdvance`: `HashProgress` |
| | `DataInv`, `ValueInv`, relative to `IInv` | `DataIsKept`: `DataKept` |
| | `PureInv`, `HitInv`, relative to those | `RotIsNoticed`: `DamageIsDetected` |
| | `HistoryInv`, relative to those | `GoodImageAccepted`: `ValidAfterCalculate` |
| `RestorePlan` | `IInv` | `ForceIsAskedFor`: `ForcedMeansAsked`; `NewDiskTablesAgree`: `TablesAgree` |
| | `PInv`, relative to `IInv` | `TableIsKept`: `UnforcedKeepsTable`; `WinREGoesToItsEntry`: `WinREOnEntry`; `ImageOnAnotherDisk`: `ImageSurvives` where the image is on another disk than the one restored to; `ImageStaysListed` |

### What is assumed of the constants

* `Backup`: any number of partitions, blocks, deletions and records in a segment, units
  of at least one block, any set of hidden faults.
* `Catalog`: the list has fewer slots than a `WORD` has values. The list buffer
  (`HEADLISTBUFFER`) is 1 MB, which holds far fewer headers, so that `ImageFilesNumber`
  does not wrap; with a longer list `NoGaps` would be false.
* `Recover`: the partitions of the image are inside the disk, in ascending order and do
  not overlap, and a swap partition has room for its head. This is what `Recover` has
  established, or written, when it comes to the data. A partition may begin within the
  sectors of the table. Blocks, units, runs, the table and the parts in which the size of a
  record is counted (`Slots`) have any positive size.
* `FileHandle`: sectors and pages are not empty, a page is a multiple of a sector, the
  cache a multiple of a page. `DEFAULT_FILE_CACHE_SIZE` is 0x100000.
* `SegFile`: `SPLIT_SIZE`, the buffer of the firmware and the head of a unit are not empty,
  and a record is longer than a head. Nothing relates the size of a record to `SPLIT_SIZE`
  or to the buffer: a record may be larger than either.
* `CheckValue`: a page is at least four check values long (4096 and 32 bytes), and files
  have whole pages, as `Backup` writes them. Chunks are whole pages, sections and samples
  whole chunks, a chunk is less than the cache (8192 bytes, 2 MB, 1 MB). The number of
  segments is odd and more than one (17), and a segment of a big file is at least two
  caches long (20 MB). Odd, because then the middle of the file, where the salt is read,
  lies in a gap between two samples: the cache that the last sample leaves cannot hold
  the salt's old bytes. That depends on these numbers alone; nothing in the code says so.
* `RestorePlan`: `MachinesAssumption` says what a machine is, in any number and of any size.
  Tables are sequences of entries, and an image is found on one of the disks and has a saved
  partition. The other parts are from the code: GUIDs tell GPT from MBR, for `ParseGPTInfo`
  copies the GUIDs of a GPT disk and `IsGPT` puts zeros and the signature in their place on
  any other (`Told`), and what lies behind a buffer (`Beyond`, which must look like an entry)
  does not have the GUID that stands for a partition of an MBR image; an image that is restored
  to a disk chosen in `DetectNewHddFace` has a recovery partition; `ProbeSystemPartition` marks only partitions of the disk with
  Windows, in the order of `g_Partitions` (`WindowsImage`); the random GUID `NewKey` is in no
  image. Sizes, alignments and the number of restores are arbitrary.

### Backup

`CompleteMeansDurable` is not inductive: that a header can be completed depends on
what earlier phases have put on the disk. `IInv` says it phase by phase. While
records are written, each is in a file or in the cache (`BuildingInv`); after
`FinishData` the cache is empty or holds only the header, and every file the header
counts exists (`ClosingInv`); the header on the disk is complete only as a copy of a
complete one in memory (`HeaderInv`); a deletion has taken `name` first or met a
header that is not complete (`DeleteInv`). The lemmas at the head of `BackupProofs` say
what `FileWrite`, `FileClose` and `FileDelete` do to files, records and cache; then
there is one lemma per action. TLC checks `IInv` in `backup`.

`FInv` adds where the records are. On NTFS there is one file and order is trivial; on FAT
there is no cache, and every record on the disk is in a segment up to the current one and
older than the next (`OrderInv`): that is why splitting keeps the order. A failing run
knows of every file through `seg` until the header is completed (`FilesInv`); it is the
loss of `seg` afterwards that `backup_failed` shows. `ScanInv` and `SuccessInv` say how far
a deletion is and that only `FileClose` and the check value come between the header and a
success.

`CInv` follows one partition: its bitmap, then units without a gap (`LogInv`); the marked
blocks before `currentblock` are in the log or in the buffer (`ReadingInv`); a size enters
the header when the partition is finished (`SizeInv`). A unit is what has the lowest ranks
among the marked blocks that are left, so the step that fills the buffer is reduced to
`RankTheorems`: ranks are injective and without gaps, the blocks of the lowest ranks come
before all others, and there are blocks left only if the buffer is full.

### Catalog

The code sorts upwards, and the invariant says so; `SortedList` only speaks of one order.
The sort exchanges in place, so `SortInv` carries the slots before `i`, which are final,
and the least of those before `j`; `First` begins after the factory backup. `ListInv`
relates slots, entries found and files present through the check that clears slots;
`CountInv` counts the cleared ones, which is what makes the number of images right after
`PackInv` has closed the gaps.

### Recover

That a write goes to the right sector with the right data depends on two counts agreeing,
the marked blocks of the bitmap that are behind, and the blocks of the units that were
used (`PlaceInv`), which is where the rank lemmas come in again: unit `i` has exactly the
marked blocks whose ranks lie between `(i - 1) * UnitBlocks` and its end. `SmartDiskIo`
writes later, from a buffer that will be used again: `RunInv` bounds the pending run by the
partition and the current block, and `PendingInv` says that the buffer still has the data of
each of its sectors, and that a request that continues the run on the disk continues it in
the buffer. `RestoredInv` is about what is behind: restored, unless it is still in the
pending run, and untouched where nothing is marked, but for the table. All of this is about
partitions that no wrong record reaches (`Spoiled`): `PositionInv` says that the position in
the file is that of the next record until a wrong head comes, and that a place in the unit is a
whole number of blocks within its size, unless the size is none. `StaysInside` needs none of
the counts, so it holds for every kind of damage; `CheckedInv` has what the check value and
reported failures exclude.

### FileHandle

`CacheInv`: the cache of an open file agrees with the file unless it is dirty, it is dirty
only after a write in this session, and a closed file has none. `ReadTerminates` follows
from the shape of a round: it hands out the rest of the cache, refills it at the aligned
position or reads directly, so that the second round ends the request or meets the end of
the file. `HandleIsByteFile` is the refinement: the content of the abstract file is the
dirty cache laid over the stored bytes, the position is `filepos`. Opening, seeking,
a close that writes and a failed read leave the content alone; a close whose write fails leaves what
is stored; a write lays its bytes over it, whether
they join the cache or replace it; and what the two rounds of a read return is the slice of
the content at the position. The theorem assumes `~ReadAfterWrite`, the way the program uses
a handle. Without it the theorem is false (see above): a refill overwrites a dirty cache.

### SegFile

`SegsInv`: the segments hold the bytes in order, and only the last can be empty, so that the
byte a segment begins with is known from the one before it. `RequestInv` and `CursorInv` tie
the handle to what was returned: the byte at the handle is the one after `out` and `buffer`,
and a segment is left only at its end. This gives `ReadsInOrder` also for an image that has
lost its end. `RequestsAreWhole` needs more, where the requests that are still to come lie
(`LaidInv`): each has an offset in one segment that it does not leave, and it begins where the
one before it ends, or with the next segment. `FileWrite` keeps this because it splits after
a record and never inside one; a read that comes to the end of a segment with nothing in its
buffer is therefore at the end of a request, and the next segment begins with it. The offsets are a
witness of an existential quantifier over functions to the naturals, which TLC cannot
enumerate; TLC checked `IInv` on the instance of `segments` with the offsets computed by a
walk over the requests.

### CheckValue

On NTFS every read goes through the cache that may still hold the placeholder, so a pass
does not read what the file has but what the cache lets it see. `CacheInv` says how far
the two can differ: while the files are hashed the cache agrees with the file or lies
behind its end (`Good`), and when the salt is read it agrees or is not where the salt is.
`SizeInv` and `HashInv` say where the loops stand in files whose size changes by the
placeholder. What one read and one write do to a handle is taken from `FileHandleProofs`,
of which `CheckValueProofs` is an instance. `LoopsAdvance` needs no sum over the rounds: it
compares a round with the next. For the round that does not return it shows that a wrapped size needs
an empty last file on FAT without a placeholder, since files have whole pages.

`DataInv` and `ValueInv` say what the files hold without and in the place of the check
value, for the two writes there are: `DataIsKept` follows. For `RotIsNoticed` the byte that rots
becomes 0, which no image has: the calculation meets none (`PureInv`), and a validation that
has passed the byte has met one (`HitInv`), whichever of the loops it was in; the hashed
prefix of a section ends where a chunk ends, which is what `LostTail` takes away on FAT.

`GoodImageAccepted` compares two runs over the image, by the same program but with different
caches and, on NTFS, different ends of the file. What a round makes of the digest is a function `After` of
where it stands and of the image only (`FileFollows`, `AllFollows` and `SampleFollows` are
one lemma per kind of round); `HistoryInv` keeps the rounds of the first pass as a history, along which the
second one goes until it comes to its end with the same digest. The history is an
existential over functions, so that no induction over the rounds is needed.

TLC checked `IInv`, `DataInv`, `ValueInv`, `PureInv` and `HitInv` on the instance of
`check_value` (779,430 states with the properties).

### RestorePlan

`Way` says which steps belong to `Recover`, which to `Recover_Linux`, and that a disk chosen
in `DetectNewHddFace` stays chosen to the end. `ForceInv` is why `ForcedMeansAsked` survives
several restores: a forcing flag is either the user's or was set by a question of the restore
under way, and when the menu comes back only the former is left. `FaceInv` carries the
disk that was chosen, that its table is going to be written, and that it has the kind of the
image when the repairs begin; the two copies agree because every repair that does not fail
writes both.

The other theorems need `PInv`, which is about the tables. No theorem computes what a
repair makes of a table; they compare tables, or follow one entry.

* `DisksInv`: whatever a restore has done, GUIDs still tell GPT from MBR, and what is in a
  table are entries, also what was copied from behind the buffer.
* `StartInv`: the disks are as they were until the table is written, and the header is that of
  the image until it is repaired, so that what was compared is still true when it is used.
* `CopyInv`: a restore nobody forced comes to the table only with a disk that is a copy of
  the original one (`Copy`), because every way out of the comparison but the refusals went
  through `AnotherDisk` or found the same GUID. `Told` is used here: without it a GPT image
  could meet an MBR disk of the same GUID.
* `WinREInv`: on a new disk the table written is that of the image; the first repair leaves
  the entries in front of C alone (`FrontInv`); the second one puts the begin of WinRE into its entry
  and into the header in one go, or drops the data partition and keeps both. That C is found
  again in the written table uses that entries ascend (`WindowsImage`).
* `HomeInv`: the image is where it was found, only the table of the destination is written, and
  `DetectNewHddFace` does not offer the disk of the image as the new one.

TLC checked `IInv` and `PInv` on all 2,691 machines, group by group (561,405 states, depth 26).

Proving `ImageSurvives` for the disk the image is on failed for a reason that became part of
the model: `GetDestinationDisk` compares the size of C only, so any other saved partition may
have become smaller and the image may lie in what it has left. The machines `Freed` show it, and
`LeftOpen` names it. What remains is that C, moved or cut within the limits the code compares, does
not reach the partition of the image. That is about where partitions lie on a
machine (they do not overlap before the restore), which the assumptions do not say, and about sums of sizes
over the header; it stays with TLC.

### Only model-checked

* Liveness, which is out of this prover's reach: `BackupEnds`, `CatalogEnds`, `RecoverEnds`,
  `ReadEnds` of `SegFile`. That the hash loops end is proved as far as one round goes
  (`LoopsAdvance`); that they end follows by induction on what is left.
* `TypeOK` of `RestorePlan`: its positions are results of folds over the header and of
  differences of sizes of the machine, which need not stay natural numbers for machines whose
  numbers are arbitrary. The proofs use the shapes (`Shape`, `TableShape`) instead.
* `ImageSurvives` for a restore to the disk the image is on (see above).

## Not modelled

* Drawing, fonts, input, dialogs, resources and the log: presentation, and by far most of
  the lines (`res.h`, `window.c`, `vga.c`, most of `face.c`).
* Vendored code: the NTFS library, LZ4, SHA-256, PBKDF2, JPEG, the SSD drivers of EDK II.
  Together with the above it is nine tenths of the repository; what is modelled is the
  program's own logic in `func.c`, `utils.c`, and the session in `face.c`, `autoface.c`.
* The parsers of partition tables and file systems (`partition.c`, `getlist.c`): what they
  find is the state the models begin with.
* The parallel buffers: `InitMp` returns before it looks for other processors, so that
  `bMultiThread` stays FALSE and the asynchronous variants are never reached.
* The command flags of the automatic mode (`autofacefunc.c`), the conversion of old image
  headers, `FixSmallDiskCSize_Bitmap` (a call of the NTFS library).
* Undefined behaviour that depends on the layout of memory (a 32-bit size passed by the
  address of a 64-bit one, a pointer freed that was never set, an index that was never
  set when an image without a recovery partition is restored to a new disk): listed as a hazard
  or named above.
* A wrong header of an image: `Recover` believes its partitions and sizes once `Magic` and
  `bComplete` are right.

## Plan

What is left, in the order in which it would say most:

1. `ImageSurvives` on the disk of the image, with an assumption that partitions of a machine
   do not overlap and lemmas about the sums of `GetDestinationDisk`.
2. The bitmap and the list of unused data: no block in use is left out.
3. The flags of the automatic mode, and the conversion of old headers in `FileRead`.
