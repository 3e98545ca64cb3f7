------------------------------- MODULE Backup -------------------------------
(***************************************************************************)
(* One backup run of OneKey Recovery (func.c, Backup), the files it leaves *)
(* on the destination partition, and the catalogue scan that meets them    *)
(* later (func.c, GetBackupFileList).  Power may be lost between any two   *)
(* file operations.                                                        *)
(*                                                                         *)
(* An image is a file "name" and, on FAT, segments "name.1", "name.2" ...  *)
(* Every FileWrite hands over one record.  Record 0 is the header together *)
(* with the partition table (rewritten in place at the end), record k > 0  *)
(* is the k-th bitmap or compressed unit; log[k] is what it holds.  Files  *)
(* only grow, so the set of the records a file holds is its content.       *)
(*                                                                         *)
(* This is the sequential engine: InitMp returns before it starts a second *)
(* processor (utils.c:3238), so bMultiThread is FALSE in this build.       *)
(***************************************************************************)
EXTENDS Integers, Sequences, FiniteSets, Ranks

CONSTANTS
  NParts,      \* partitions in g_Partitions
  NBlocks,     \* blocks (64 sectors) in a partition
  UnitBlocks,  \* blocks that fill one buffer, that is one compressed unit
  SplitRecs,   \* SPLIT_SIZE, in records
  MaxDele,     \* MAX_DELE_FILE_NUM
  Faults       \* faults the code does not report to its caller that may happen

\* read: a disk or file read fails; compress: LZ4 fails; close: the cache is not
\* written on close; delete: a file stays; readonly: the file system opens
\* only for reading when the catalogue is scanned.
FaultKinds == {"read", "compress", "close", "delete", "readonly"}

ASSUME NPartsAssumption == NParts \in Nat
ASSUME NBlocksAssumption == NBlocks \in Nat
ASSUME UnitBlocksAssumption == UnitBlocks \in Nat \ {0}
ASSUME SplitRecsAssumption == SplitRecs \in Nat
ASSUME MaxDeleAssumption == MaxDele \in Nat
ASSUME FaultsAssumption == Faults \subseteq FaultKinds

Parts == 1..NParts
Blocks == 0..(NBlocks - 1)

VARIABLES
  \* what the run was asked to do
  ifntfs,     \* the destination is NTFS: one cached file; else FAT: segments
  bIfBackup,  \* the partitions to save
  marked,     \* the blocks ScanPartitionData finds in use
  \* the engine
  pc, part, cur,
  buffer,     \* blocks of the unit in g_lz4_buffer
  readok,     \* whether every block of it was read
  lz4,        \* sign of g_lz4_size
  hdr,        \* the header in memory (pheader)
  ret,
  \* the open handle
  bHandle, bFileCreated, ifneedseg, seg, size, cache,
  \* the destination partition: what survives a power loss
  exist,      \* numbers of the files there are
  body,       \* <<file, record>>: the records in them
  head,       \* what record 0 says
  check,      \* the check value at the end of the last file
  \* history
  log,        \* the records FileWrite accepted
  fault       \* the unreported faults that have happened

asked  == <<ifntfs, bIfBackup, marked>>
engine == <<part, cur, buffer, readok, lz4>>
handle == <<bHandle, bFileCreated, ifneedseg, seg, size>>
store  == <<exist, body, head, check>>
vars == <<asked, engine, handle, store, pc, hdr, ret, cache, log, fault>>

Record == [part : Parts, kind : {"bitmap", "unit"}, blocks : SUBSET Blocks,
           good : BOOLEAN]
Header == [bComplete : BOOLEAN, FileNumber : Nat, BackupDataSize : [Parts -> Nat]]
NoCheck == [done |-> FALSE, head |-> <<>>, body |-> {}]

\* CreateImageHeader: all zero but what identifies the disk
CreateImageHeader ==
  [bComplete |-> FALSE, FileNumber |-> 0, BackupDataSize |-> [p \in Parts |-> 0]]

Init ==
  /\ ifntfs \in BOOLEAN
  /\ bIfBackup \in SUBSET Parts
  /\ marked \in [Parts -> SUBSET Blocks]
  /\ pc = "start" /\ part = 0 /\ cur = 0
  /\ buffer = {} /\ readok = TRUE /\ lz4 = "data"
  /\ hdr = CreateImageHeader /\ ret = -1
  /\ bHandle = FALSE /\ bFileCreated = FALSE /\ ifneedseg = FALSE
  /\ seg = 0 /\ size = 0 /\ cache = {}
  /\ exist = {} /\ body = {} /\ head = CreateImageHeader /\ check = NoCheck
  /\ log = <<>> /\ fault = {}

-----------------------------------------------------------------------------
(***************************************************************************)
(* The file layer, as far as the engine can tell (utils.c).                *)
(***************************************************************************)

\* The records F of the open file reach the disk.
Store(F) ==
  /\ body' = body \cup {<<seg, k>> : k \in F}
  /\ head' = IF 0 \in F THEN hdr ELSE head

\* The leading part of what the write-behind cache holds.
Prefixes(S) == {{k \in S : k < m} : m \in S} \cup {S}

\* Mutant: the segment number is kept in one bit.
FatWriteNarrow(k) ==
  /\ ~ifntfs
  /\ Store({k})
  /\ IF ifneedseg /\ size + 1 > SplitRecs
       THEN seg' = (seg + 1) % 2 /\ size' = 0 /\ exist' = exist \cup {seg'}
       ELSE size' = size + 1 /\ UNCHANGED <<seg, exist>>
  /\ UNCHANGED cache

\* FileWrite on FAT: written through; a file past SPLIT_SIZE is closed and the
\* next one is created.
FatWrite(k) ==
  /\ ~ifntfs
  /\ Store({k})
  /\ IF ifneedseg /\ size + 1 > SplitRecs
       THEN seg' = seg + 1 /\ size' = 0 /\ exist' = exist \cup {seg + 1}
       ELSE size' = size + 1 /\ UNCHANGED <<seg, exist>>
  /\ UNCHANGED cache

\* FileWrite on NTFS: into the cache, of which a leading part may be written.
NtfsWrite(k) ==
  /\ ifntfs
  /\ \E F \in Prefixes(cache \cup {k}) :
       /\ F # {} => bHandle
       /\ Store(F)
       /\ cache' = (cache \cup {k}) \ F
  /\ size' = size + 1
  /\ UNCHANGED <<seg, exist>>

FileWrite(k) ==
  /\ FatWrite(k) \/ NtfsWrite(k)
  /\ UNCHANGED <<bHandle, bFileCreated, ifneedseg, check>>

\* FileWrite returns FALSE: the write failed, of record 0 perhaps after the part
\* that is the header; or the record was written and the next segment could not
\* be created (its number is already taken); or the cache could only be written
\* in part.
FileWriteFails(k) ==
  /\ \/ /\ \E F \in SUBSET ({k} \cap {0}) : (ifntfs => F = {}) /\ Store(F)
        /\ UNCHANGED <<seg, size, cache, bHandle>>
     \/ /\ ~ifntfs /\ ifneedseg /\ size + 1 > SplitRecs
        /\ Store({k})
        /\ seg' = seg + 1 /\ size' = 0 /\ bHandle' = FALSE
        /\ UNCHANGED cache
     \/ /\ ifntfs /\ bHandle
        /\ \E F \in Prefixes(cache \cup {k}) \ {cache \cup {k}} :
             Store(F) /\ cache' = (cache \cup {k}) \ F
        /\ UNCHANGED <<seg, size, bHandle>>
  /\ UNCHANGED <<exist, check, bFileCreated, ifneedseg>>

\* FileClose: a dirty cache is written; nobody looks at the outcome.
FileClose ==
  /\ \/ /\ Store(IF bHandle THEN cache ELSE {})
        /\ UNCHANGED fault
     \/ /\ "close" \in Faults /\ cache # {} /\ bHandle
        /\ \E F \in Prefixes(cache) \ {cache} : Store(F)
        /\ fault' = fault \cup {"close"}
  /\ cache' = {}
  /\ bHandle' = FALSE

\* FileDelete of file n.  On FAT it is opened with the create flag first, so that
\* a delete that fails may even leave a file that was not there.
FileDelete(n) ==
  /\ \/ /\ exist' = exist \ {n}
        /\ body' = {x \in body : x[1] # n}
        /\ UNCHANGED fault
     \/ /\ "delete" \in Faults
        /\ exist' = IF ifntfs THEN exist ELSE exist \cup {n}
        /\ UNCHANGED body
        /\ fault' = fault \cup {"delete"}
  /\ UNCHANGED <<head, check>>

-----------------------------------------------------------------------------
(***************************************************************************)
(* Backup.                                                                 *)
(***************************************************************************)
Goto(label) == pc' = label

\* goto Done with ret < 0
Fail == pc' = "fail"

\* Buffers, header, InitGlobalDataForBackup, the file system, the directory.
Prepare ==
  /\ pc = "start"
  /\ Goto("create") \/ Goto("done")
  /\ UNCHANGED <<asked, engine, handle, store, hdr, ret, cache, log, fault>>

\* FileOpen with the create flag.  On NTFS a failed n_createfile is not
\* reported: the handle stays NULL.
CreateFile ==
  /\ pc = "create"
  /\ \/ /\ exist' = {0} /\ bHandle' = TRUE /\ bFileCreated' = TRUE
        /\ Goto("header")
     \/ /\ ifntfs
        /\ bFileCreated' = TRUE /\ UNCHANGED <<exist, bHandle>>
        /\ Goto("header")
     \/ UNCHANGED <<exist, bHandle, bFileCreated>> /\ Fail
  /\ ifneedseg' = ~ifntfs
  /\ UNCHANGED <<asked, engine, seg, size, body, head, check, hdr, ret, cache,
                 log, fault>>

\* DiskRead of the table, then header and table in one FileWrite.
WriteHeader ==
  /\ pc = "header"
  /\ \/ FileWrite(0) /\ Goto("part") /\ part' = 1
     \/ FileWriteFails(0) /\ Fail /\ UNCHANGED part
     \/ UNCHANGED <<handle, store, cache, part>> /\ Fail
  /\ UNCHANGED <<asked, cur, buffer, readok, lz4, hdr, ret, log, fault>>

\* Mutant: a partition that could not be scanned gets an error code as its size.
SkipPartError ==
  /\ pc = "part" /\ part \in Parts
  /\ \/ part \notin bIfBackup /\ UNCHANGED hdr
     \/ part \in bIfBackup /\ hdr' = [hdr EXCEPT !.BackupDataSize[part] = -1]
  /\ part' = part + 1
  /\ UNCHANGED <<asked, cur, buffer, readok, lz4, handle, store, pc, ret, cache,
                 log, fault>>

\* The head of the loop over g_Partitions: nothing to save, or the scan fails.
SkipPart ==
  /\ pc = "part" /\ part \in Parts
  /\ \/ part \notin bIfBackup /\ UNCHANGED hdr
     \/ part \in bIfBackup /\ hdr' = [hdr EXCEPT !.BackupDataSize[part] = 0]
  /\ part' = part + 1
  /\ UNCHANGED <<asked, cur, buffer, readok, lz4, handle, store, pc, ret, cache,
                 log, fault>>

\* The scan succeeds and the bitmap is written.
WriteBitmap ==
  /\ pc = "part" /\ part \in bIfBackup
  /\ \/ /\ FileWrite(Len(log) + 1)
        /\ log' = Append(log, [part |-> part, kind |-> "bitmap",
                               blocks |-> marked[part], good |-> TRUE])
        /\ cur' = 0 /\ lz4' = "data"
        /\ Goto("read")
     \/ FileWriteFails(Len(log) + 1) /\ Fail /\ UNCHANGED <<log, cur, lz4>>
  /\ UNCHANGED <<asked, part, buffer, readok, hdr, ret, fault>>

\* The next UnitBlocks marked blocks from block c on.
NextBlocks(p, c) ==
  LET rest == {b \in marked[p] : b >= c} IN {b \in rest : Rank(rest, b) <= UnitBlocks}

\* Mutant: currentblock is also incremented after the break.
AfterBlocksTwice(S) ==
  IF Cardinality(S) = UnitBlocks /\ \E b \in S : \A d \in S : d <= b
    THEN 2 + CHOOSE b \in S : \A d \in S : d <= b
    ELSE NBlocks

\* currentblock after a buffer S was read from block c on.
AfterBlocks(S) ==
  IF Cardinality(S) = UnitBlocks /\ \E b \in S : \A d \in S : d <= b
    THEN 1 + CHOOSE b \in S : \A d \in S : d <= b
    ELSE NBlocks

\* Fill a buffer and compress it.  The outcome of the disk reads is ignored.
\* CompressBuffer leaves 0 for an empty buffer and a negative size on error.
ReadUnit ==
  /\ pc = "read"
  /\ \/ Fail /\ UNCHANGED <<cur, buffer, readok, lz4, fault>>      \* UserBreak
     \/ /\ buffer' = NextBlocks(part, cur)
        /\ cur' = IF cur < NBlocks THEN AfterBlocks(buffer') ELSE cur
        /\ \E bad \in SUBSET (Faults \cap {"read", "compress"}) :
             /\ bad # {} => buffer' # {}
             /\ readok' = ("read" \notin bad)
             /\ lz4' = IF buffer' = {} THEN "zero"
                       ELSE IF "compress" \in bad THEN "error" ELSE "data"
             /\ fault' = fault \cup bad
        /\ Goto("write")
  /\ UNCHANGED <<asked, part, handle, store, hdr, ret, cache, log>>

\* BackupDataSize is what the partition wrote: its bitmap and its units.
DataSize(p) == Cardinality({k \in 1..Len(log) : log[k].part = p})

\* An empty buffer ends the partition; so does a negative size.
EndPart ==
  /\ pc = "write" /\ lz4 \in {"zero", "error"}
  /\ hdr' = [hdr EXCEPT !.BackupDataSize[part] = DataSize(part)]
  /\ part' = part + 1
  /\ Goto("part")
  /\ UNCHANGED <<asked, cur, buffer, readok, lz4, handle, store, ret, cache, log,
                 fault>>

WriteUnit ==
  /\ pc = "write" /\ lz4 = "data"
  /\ \/ /\ FileWrite(Len(log) + 1)
        /\ log' = Append(log, [part |-> part, kind |-> "unit",
                               blocks |-> buffer, good |-> readok])
        /\ Goto("read")
     \/ FileWriteFails(Len(log) + 1) /\ Fail /\ UNCHANGED log
  /\ UNCHANGED <<asked, engine, hdr, ret, fault>>

\* The second UserBreak of the loop, before the size is looked at.
BreakWrite ==
  /\ pc = "write"
  /\ Fail
  /\ UNCHANGED <<asked, engine, handle, store, hdr, ret, cache, log, fault>>

\* Mutant: the handle is dropped without the write of its cache.
FinishDataNoFlush ==
  /\ pc = "part" /\ part = NParts + 1
  /\ cache' = {} /\ bHandle' = FALSE /\ UNCHANGED <<body, head, fault>>
  /\ hdr' = [hdr EXCEPT !.bComplete = TRUE, !.FileNumber = seg + 1]
  /\ Goto("update")
  /\ UNCHANGED <<asked, engine, bFileCreated, ifneedseg, seg, size, exist, check,
                 ret, log>>

\* All partitions are done: close, and complete the header in memory.
FinishData ==
  /\ pc = "part" /\ part = NParts + 1
  /\ FileClose
  /\ hdr' = [hdr EXCEPT !.bComplete = TRUE, !.FileNumber = seg + 1]
  /\ Goto("update")
  /\ UNCHANGED <<asked, engine, bFileCreated, ifneedseg, seg, size, exist, check,
                 ret, log>>

\* updateheader: FileOpen clears the handle, the segment number with it.
UpdateHeader ==
  /\ pc = "update"
  /\ seg' = 0 /\ size' = 1 /\ ifneedseg' = FALSE
  /\ \/ /\ 0 \in exist
        /\ bHandle' = TRUE
        /\ \/ Goto("close") /\
              IF ifntfs
                THEN cache' = {0} /\ UNCHANGED <<body, head>>
                ELSE body' = body \cup {<<0, 0>>} /\ head' = hdr /\ UNCHANGED cache
           \/ ~ifntfs /\ Fail /\ head' \in {head, hdr} /\ UNCHANGED <<cache, body>>
     \/ Fail /\ bHandle' = FALSE /\ UNCHANGED <<cache, body, head>>
  /\ UNCHANGED <<asked, engine, bFileCreated, exist, check, hdr, ret, log, fault>>

CloseHeader ==
  /\ pc = "close"
  /\ FileClose
  /\ Goto("check")
  /\ UNCHANGED <<asked, engine, bFileCreated, ifneedseg, seg, size, exist, check,
                 hdr, ret, log>>

\* Mutant: a check value that could not be made is taken for one that was.
CalculateFileCheckValueLenient ==
  /\ pc = "check"
  /\ \/ hdr.FileNumber - 1 \in exist /\ check' = [done |-> TRUE, head |-> head, body |-> body]
     \/ UNCHANGED check
  /\ ret' = 0 /\ Goto("done")
  /\ UNCHANGED <<asked, engine, handle, exist, body, head, hdr, cache, log, fault>>

\* CalculateFileCheckValue on a handle of its own: the last file must open, the
\* user may break, the value must be written.  A digest stands for the content
\* it was taken of.  A failed read ends the digest early and is not reported;
\* on NTFS the value itself reaches the disk in FileClose.
CalculateFileCheckValue ==
  /\ pc = "check"
  /\ \/ /\ hdr.FileNumber - 1 \in exist
        /\ \/ /\ check' = [done |-> TRUE, head |-> head, body |-> body]
              /\ UNCHANGED fault
           \/ /\ "read" \in Faults
              /\ check' = [done |-> TRUE, head |-> head, body |-> {}]
              /\ fault' = fault \cup {"read"}
           \/ /\ "close" \in Faults /\ ifntfs
              /\ fault' = fault \cup {"close"}
              /\ UNCHANGED check
        /\ ret' = 0 /\ Goto("done")
     \/ Fail /\ UNCHANGED <<check, ret, fault>>
  /\ UNCHANGED <<asked, engine, handle, exist, body, head, hdr, cache, log>>

\* Done with ret < 0: close, then delete the file if it was created ...
FailClose ==
  /\ pc = "fail"
  /\ FileClose
  /\ Goto(IF bFileCreated THEN "delete" ELSE "done")
  /\ part' = 0
  /\ UNCHANGED <<asked, cur, buffer, readok, lz4, bFileCreated, ifneedseg, seg,
                 size, exist, check, hdr, ret, log>>

\* One round of a deletion loop: file n goes, and the loop may go on.
DeleteOne(n, more, end) ==
  /\ FileDelete(n)
  /\ part' = part + 1
  /\ Goto(IF more THEN pc ELSE end)
  /\ UNCHANGED <<asked, cur, buffer, readok, lz4, handle, hdr, ret, cache, log>>

\* Mutants: the loop stops before the last segment; "name" is deleted last; the
\* loop does not advance.
DeleteFilesShort == pc = "delete" /\ DeleteOne(part, part + 1 < seg, "done")
DeleteFilesNameLast ==
  pc = "delete" /\ DeleteOne(IF part < seg THEN part + 1 ELSE 0, part < seg, "done")
DeleteFilesStuck ==
  /\ pc = "delete" /\ FileDelete(part)
  /\ Goto(IF part < seg THEN "delete" ELSE "done")
  /\ UNCHANGED <<asked, engine, handle, hdr, ret, cache, log>>

\* ... "name" first, then "name.1" up to the segment the handle is at.
DeleteFiles == pc = "delete" /\ DeleteOne(part, part < seg, "done")

-----------------------------------------------------------------------------
(***************************************************************************)
(* Power loss, and the catalogue scan of a later session.                  *)
(***************************************************************************)
PowerLoss ==
  /\ pc \notin {"off", "listed"}
  /\ Goto("off")
  /\ cache' = {} /\ bHandle' = FALSE
  /\ UNCHANGED <<asked, engine, bFileCreated, ifneedseg, seg, size, store, hdr,
                 ret, log, fault>>

\* GetBackupFileList meets "name": a file with a readable header that is not
\* complete is deleted, when the file system could be opened for writing.
GetBackupFileList ==
  /\ pc \in {"done", "off"}
  /\ IF <<0, 0>> \in body /\ ~head.bComplete
       THEN \/ Goto("listdelete") /\ part' = 1 /\ UNCHANGED fault
            \/ /\ "readonly" \in Faults /\ fault' = fault \cup {"readonly"}
               /\ Goto("listed") /\ UNCHANGED part
       ELSE Goto("listed") /\ UNCHANGED <<part, fault>>
  /\ UNCHANGED <<asked, cur, buffer, readok, lz4, handle, store, hdr, ret, cache,
                 log>>

\* Mutants: "name" is never deleted; it is deleted first.
DeleteUnfinishedShort == pc = "listdelete" /\ DeleteOne(part, part < MaxDele, "listed")
DeleteUnfinishedNameFirst ==
  pc = "listdelete" /\ DeleteOne(part - 1, part <= MaxDele, "listed")

\* "name.1" to "name.MAX_DELE_FILE_NUM", and "name" last.
DeleteUnfinished ==
  /\ pc = "listdelete"
  /\ DeleteOne(IF part <= MaxDele THEN part ELSE 0, part <= MaxDele, "listed")

Engine ==
  \/ Prepare \/ CreateFile \/ WriteHeader
  \/ SkipPart \/ WriteBitmap \/ ReadUnit \/ EndPart \/ WriteUnit \/ BreakWrite
  \/ FinishData \/ UpdateHeader \/ CloseHeader \/ CalculateFileCheckValue
  \/ FailClose \/ DeleteFiles
Scan == GetBackupFileList \/ DeleteUnfinished

Listed == pc = "listed" /\ UNCHANGED vars

Next == Engine \/ Scan \/ PowerLoss \/ Listed

Spec == Init /\ [][Next]_vars

\* The engine is one thread that nothing preempts and every firmware call
\* returns, so as long as the machine is on it takes its next step.
FairSpec == Spec /\ WF_vars(Engine) /\ WF_vars(Scan)

-----------------------------------------------------------------------------
(***************************************************************************)
(* What must hold.                                                         *)
(***************************************************************************)
Phases == {"start", "create", "header", "part", "read", "write", "update",
           "close", "check", "fail", "delete", "done", "off", "listdelete", "listed"}

\* Every variable keeps its type: in particular the handle's segment number
\* and the deletion loops' index stay natural numbers and the cache only ever
\* holds records FileWrite was given (func.c, Backup).
TypeOK ==
  /\ ifntfs \in BOOLEAN /\ bIfBackup \subseteq Parts
  /\ marked \in [Parts -> SUBSET Blocks]
  /\ pc \in Phases /\ part \in Nat /\ cur \in Nat
  /\ buffer \subseteq Blocks /\ readok \in BOOLEAN
  /\ lz4 \in {"data", "zero", "error"}
  /\ hdr \in Header /\ ret \in {-1, 0}
  /\ bHandle \in BOOLEAN /\ bFileCreated \in BOOLEAN /\ ifneedseg \in BOOLEAN
  /\ seg \in Nat /\ size \in Nat /\ cache \subseteq 0..(Len(log) + 1)
  /\ exist \subseteq Nat /\ body \subseteq Nat \X Nat /\ head \in Header
  /\ log \in Seq(Record) /\ fault \subseteq FaultKinds

\* A partition is being read only when it was asked for.
PartInv == pc \in {"read", "write"} => part \in bIfBackup

\* What a scan of the catalogue takes for a finished backup.
Complete == <<0, 0>> \in body /\ head.bComplete

\* The first n files exist and hold every record.
Durable(n) ==
  /\ 0..(n - 1) \subseteq exist
  /\ \A k \in 1..Len(log) : \E s \in 0..(n - 1) : <<s, k>> \in body

\* The completion mark is never on the disk before the data: whenever "name"
\* says bComplete, every record is in one of the FileNumber files the header
\* counts and all of these exist, at whatever moment power is lost or the
\* backup fails (the order FileClose, updateheader, FileDelete in Backup).
CompleteMeansDurable ==
  Complete /\ "close" \notin fault /\ "delete" \notin fault => Durable(head.FileNumber)

\* The files of a complete image, read one after the other, give the records
\* in the order they were written: a record follows its predecessor in the same
\* file or opens the next one (FileWrite splits only between records, which is
\* what FileRead relies on when it moves to the next file).
ReadsBackInOrder ==
  \A x, y \in body : 0 < x[2] /\ x[2] < y[2] => x[1] <= y[1]

UnitsOf(p) == {k \in 1..Len(log) : log[k].part = p /\ log[k].kind = "unit"}

\* A complete image holds, for every partition it has data of, the bitmap first
\* and then units that cover the marked blocks, each once and in ascending
\* order, as many as BackupDataSize says: what Recover needs to find the block
\* a piece of data belongs to, for it only has the bitmap to go by.
CompleteMeansCovered ==
  Complete /\ "compress" \notin fault =>
    \A p \in Parts : head.BackupDataSize[p] # 0 =>
      /\ UNION {log[k].blocks : k \in UnitsOf(p)} = marked[p]
      /\ head.BackupDataSize[p] = Cardinality(UnitsOf(p)) + 1
      /\ \A k \in UnitsOf(p) :
           /\ log[k].blocks # {}
           /\ \E b \in 1..(k - 1) : log[b].part = p /\ log[b].kind = "bitmap"
                                     /\ \A j \in b..k : log[j].part = p
           /\ \A j \in UnitsOf(p) : j < k =>
                \A b \in log[j].blocks, c \in log[k].blocks : b < c

\* A run that reported success left a complete image whose check value is that
\* of what is on the disk, so that ValidImageCheckValue will accept it.
SuccessMeansValid ==
  pc = "done" /\ ret = 0 /\ fault = {} =>
    Complete /\ check = [done |-> TRUE, head |-> head, body |-> body]

\* A run that failed before the header was completed removed every file it
\* made, the last segment, which may not even exist, included.
AbortCleansUp ==
  pc = "done" /\ ret = -1 /\ ~hdr.bComplete /\ "delete" \notin fault => exist = {}

\* The catalogue scan never deletes "name" while a segment it is to delete is
\* still there: a power loss during the deletion leaves a file the next scan
\* recognises and goes on with.
ScanCanResume ==
  [][(pc = "listdelete" /\ 0 \in exist /\ 0 \notin exist' /\ fault' = {}) =>
       exist' \cap (1..MaxDele) = {}]_vars

\* No unfinished image survives a scan that could write.
ScanLeavesNoUnfinished ==
  pc = "listed" /\ fault = {} => (<<0, 0>> \in body => head.bComplete)

\* Whatever fails and whenever the user breaks, a backup comes to an end: the
\* loop over the blocks, the loop over the partitions and the deletion of the
\* files all terminate.  Only a power loss keeps it from its last line.
BackupEnds == pc = "start" ~> pc \in {"done", "off"}

-----------------------------------------------------------------------------
(***************************************************************************)
(* The inductive strengthening of CompleteMeansDurable.                    *)
(***************************************************************************)
Building == {"header", "part", "read", "write"}
Closing  == {"update", "close", "check"}

\* Nothing is there before the file is created.
FreshInv ==
  pc \in {"start", "create"} =>
    exist = {} /\ body = {} /\ cache = {} /\ log = <<>> /\ seg = 0 /\ ~bHandle

\* The header on the disk is complete only as a copy of a complete one in memory.
HeaderInv ==
  /\ head.bComplete => head = hdr
  /\ pc \in {"start", "create"} \cup Building => ~hdr.bComplete
  /\ pc \in Closing => hdr.bComplete

\* While records are written, each is in a file or still in the cache; a handle
\* n_createfile failed to set has no file.
BuildingInv ==
  pc \in Building =>
    /\ \A k \in 1..Len(log) : k \in cache \/ \E s \in 0..seg : <<s, k>> \in body
    /\ bHandle => 0..seg \subseteq exist
    /\ ~bHandle => exist = {}
    /\ ~ifntfs => bHandle /\ cache = {}

\* From FinishData on the data is on the disk and only the header may be cached.
ClosingInv ==
  /\ pc \in Closing =>
       /\ cache \subseteq {0}
       /\ 0 \in exist /\ "close" \notin fault => Durable(hdr.FileNumber)
  /\ pc \in {"close", "check"} => 0 \in exist
  /\ pc \in {"update", "check"} => cache = {}
  /\ pc = "fail" /\ hdr.bComplete => cache = {}

\* A deletion in progress has taken "name" first, or met a header not complete.
DeleteInv ==
  /\ pc = "delete" /\ part # 0 /\ "delete" \notin fault => <<0, 0>> \notin body
  /\ pc = "listdelete" => ~head.bComplete

\* The inductive invariant: types, what each phase has on the disk and in the
\* cache, and CompleteMeansDurable itself.
IInv ==
  /\ TypeOK /\ PartInv /\ FreshInv /\ HeaderInv /\ BuildingInv /\ ClosingInv
  /\ DeleteInv /\ CompleteMeansDurable

\* Which files hold which records.  On NTFS there is one file; on FAT there is no
\* cache, and what is written next comes after everything there is.
OrderInv ==
  /\ ~ifntfs => cache = {}
  /\ ifntfs => seg = 0 /\ \A x \in body : x[1] = 0
  /\ ~ifntfs /\ pc \in Building => \A x \in body : x[1] <= seg /\ x[2] <= Len(log)
  /\ ReadsBackInOrder

\* Which files there are: the failing run knows of all of them, up to the segment
\* its handle is at, and deletes them from "name" on.
FilesInv ==
  /\ pc \in Building \cup Closing => bFileCreated
  /\ pc \in Building => exist \subseteq 0..seg
  /\ pc = "fail" /\ ~hdr.bComplete => exist \subseteq 0..seg
  /\ pc = "fail" /\ ~bFileCreated => exist = {}
  /\ pc = "delete" /\ ~hdr.bComplete /\ "delete" \notin fault =>
       part <= seg /\ exist \subseteq part..seg
  /\ AbortCleansUp

\* What the scan has deleted so far.
ScanInv ==
  /\ pc = "listdelete" => part >= 1
  /\ pc = "listdelete" /\ "delete" \notin fault => \A n \in exist \cap (1..MaxDele) : n >= part
  /\ ScanLeavesNoUnfinished

\* Success is reported last, after updateheader has put the completed header into
\* the file or its cache and FileClose has written that.
SuccessInv ==
  /\ ret = 0 => pc \in {"done", "off", "listdelete", "listed"}
  /\ pc = "close" => /\ seg = 0 /\ bHandle
                     /\ 0 \in cache \/ (<<0, 0>> \in body /\ head = hdr)
  /\ pc = "check" /\ "close" \notin fault => <<0, 0>> \in body /\ head = hdr
  /\ SuccessMeansValid

\* The inductive invariant of the properties about the files, relative to IInv.
FInv == OrderInv /\ FilesInv /\ ScanInv /\ SuccessInv

\* What the log has of partition p, and the blocks in it.
Entries(p) == {k \in 1..Len(log) : log[k].part = p}
ReadBlocks(p) == UNION {log[k].blocks : k \in UnitsOf(p)}

\* Of every partition: the bitmap, then units without a gap, none of them empty,
\* each of blocks after those of the one before.
LogInv ==
  \A p \in Parts :
    /\ Entries(p) # {} =>
         \E b \in Entries(p) :
           /\ log[b].kind = "bitmap"
           /\ \A k \in Entries(p) \ {b} :
                log[k].kind = "unit" /\ b < k /\ \A j \in b..k : log[j].part = p
    /\ \A k \in UnitsOf(p) : log[k].blocks # {}
    /\ \A j, k \in UnitsOf(p) : j < k => \A b \in log[j].blocks, c \in log[k].blocks : b < c

\* The partition being saved is the last in the log, and its marked blocks up to
\* currentblock are in the log or in the buffer.
ReadingInv ==
  /\ pc \in {"start", "create", "header"} => part = 0 /\ log = <<>>
  /\ pc = "part" => \A k \in 1..Len(log) : log[k].part < part
  /\ pc \in {"read", "write"} => /\ \A k \in 1..Len(log) : log[k].part <= part
                                 /\ Len(log) # 0 /\ log[Len(log)].part = part
  /\ pc = "read" => ReadBlocks(part) = {b \in marked[part] : b < cur}
  /\ pc = "write" =>
       /\ ReadBlocks(part) \cup buffer = {b \in marked[part] : b < cur}
       /\ \A b \in ReadBlocks(part), c \in buffer : b < c
       /\ lz4 = "data" => buffer # {}
       /\ lz4 = "zero" => buffer = {} /\ cur >= NBlocks
       /\ lz4 = "error" => "compress" \in fault

\* A size in the header is that of a partition that was finished.
SizeInv ==
  \A p \in Parts : hdr.BackupDataSize[p] # 0 =>
    /\ pc \in {"start", "create"} \cup Building => p < part
    /\ "compress" \notin fault =>
         ReadBlocks(p) = marked[p] /\ hdr.BackupDataSize[p] = Cardinality(UnitsOf(p)) + 1

\* The inductive invariant of CompleteMeansCovered, relative to IInv.
CInv == LogInv /\ ReadingInv /\ SizeInv

-----------------------------------------------------------------------------
(***************************************************************************)
(* What a comment of the code says.                                        *)
(***************************************************************************)

\* func.c:2387 "the backup failed, delete the files": nothing is left.
FailedBackupLeavesNothing ==
  pc = "done" /\ ret = -1 /\ fault = {} => exist = {}
=============================================================================
