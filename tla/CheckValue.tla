----------------------------- MODULE CheckValue -----------------------------
(***************************************************************************)
(* The check value of an image (func.c): CalculateFileCheckValue appends   *)
(* it to the last file of a backup that has just been written,             *)
(* ValidImageCheckValue recomputes it before a restore.  In between a byte *)
(* of the image may rot.                                                   *)
(*                                                                         *)
(* Both work on the open handle of the last file; on NTFS that is a        *)
(* CachedFile, on FAT reads and writes go to the file.  SHA-256 and PBKDF2 *)
(* are external and taken to be injective: a digest is the sequence of     *)
(* what was hashed.  A check value is Val bytes that stand for the number  *)
(* of its digest in seen.                                                  *)
(***************************************************************************)
EXTENDS CachedFile

CONSTANTS
  Val,          \* PBKDF2P_LEN, SALT_LEN
  Chunk,        \* BufferSize, 8192
  Section,      \* 2 MB: so much is hashed at a time
  SegNumber,    \* FILE_SHA256_SEG_NUMBER
  Big,          \* 20 MB: a file larger than SegNumber * Big is only sampled
  PerSector, MultiPerSector,  \* FILE_PER_SECTOR_DATA, MULTI_FILE_PER_SECTOR_DATA
  Lengths,      \* the images to check: the lengths of their files
  Faults        \* faults nobody reports: "read", "write", "close"

\* Backup writes multiples of 4096 bytes and at least the header.
ASSUME LengthsAssumption ==
  \A l \in Lengths : /\ l \in Seq(Nat) /\ l # <<>> /\ l[1] > 0
                     /\ \A i \in 1..Len(l) : l[i] % Page = 0
\* 32 bytes, far less than a page.
ASSUME ValAssumption == Val \in Nat \ {0} /\ 4 * Val <= Page
\* Pages make chunks, and chunks make sections and samples; the samples of a big
\* file are apart; a chunk is less than the cache.
ASSUME HashAssumption ==
  /\ {Chunk, Section, SegNumber, Big, PerSector, MultiPerSector} \subseteq Nat \ {0}
  /\ Chunk % Page = 0 /\ Section % Chunk = 0 /\ Chunk < CacheSize
  /\ \A s \in {PerSector, MultiPerSector} : s % Chunk = 0 /\ s + Val <= Big
\* 17 samples: the middle of a big file is between two of them, and the cache,
\* 1 MB, does not reach from one to it.
ASSUME SampleAssumption ==
  SegNumber > 1 /\ SegNumber % 2 = 1 /\ 2 * CacheSize <= Big /\ SegNumber + 2 * Page <= Big

VARIABLES
  ifntfs,
  image,       \* the files as Backup left them
  f,           \* their handles, that of the last file being the open one
  pc, mode,
  file,        \* iFileNameIndex + 1
  llReadSize, iSegIndex, llSectorDataReadSize, ctxSec, ctx,
  salt,        \* ucSlatValue with ucIterValue[0]
  seen,        \* the digests that check values were made of
  damaged,     \* <<file, offset>> of the byte that rotted
  fault

hash == <<file, llReadSize, iSegIndex, llSectorDataReadSize, ctxSec, ctx>>
vars == <<ifntfs, image, f, pc, mode, hash, salt, seen, damaged, fault>>

N == Len(image)
Size(i) == Len(f[i].disk)   \* FileGetSize: what is still cached does not count

\* The files of a backup; no two bytes of a file are the same and none is 0.
ImageOf(l) == [i \in 1..Len(l) |-> [j \in 1..l[i] |-> 100 * i + j]]

Init ==
  /\ ifntfs \in BOOLEAN
  /\ \E l \in Lengths :
       /\ ifntfs => Len(l) = 1
       /\ image = ImageOf(l)
  /\ f = [i \in 1..N |-> Opened(image[i])]
  /\ pc = "written" /\ mode = "calculate"
  /\ file = 1 /\ llReadSize = 0 /\ iSegIndex = 0 /\ llSectorDataReadSize = 0
  /\ ctxSec = <<>> /\ ctx = <<>> /\ salt = <<>> /\ seen = <<>>
  /\ damaged = {} /\ fault = {}

-----------------------------------------------------------------------------
\* NormalFileRead of n bytes at position p, and NormalFileWrite of d at p.
NormalFileRead(g, p, n) ==
  IF ifntfs THEN Fetched([g EXCEPT !.filepos = p], n)
  ELSE LET bytes == Slice(g.disk, p, n)
       IN [f |-> [g EXCEPT !.filepos = p + Len(bytes)], out |-> bytes]
NormalFileWrite(g, p, d) ==
  IF ifntfs THEN Written([g EXCEPT !.filepos = p], d)
  ELSE [g EXCEPT !.disk = Overwrite(@, p, d), !.filepos = p + Len(d)]

Closed(g) == Opened(IF g.cachedirty THEN Flush(g).disk ELSE g.disk)

\* bRet = FALSE: the handle is closed.
Refuse ==
  /\ pc' = IF mode = "calculate" THEN "failed" ELSE "refused"
  /\ f' = [f EXCEPT ![N] = Closed(@)]

\* CalculateFileCheckValue and ValidImageCheckValue open the last file.
Begin(m) ==
  /\ mode' = m
  /\ f' = [f EXCEPT ![N] = Opened(@.disk)]
  /\ file' = 1 /\ ctx' = <<>>
  /\ UNCHANGED <<ifntfs, image, llReadSize, iSegIndex, llSectorDataReadSize,
                 ctxSec, salt, seen, damaged, fault>>
CalculateFileCheckValue ==
  pc = "written" /\ Begin("calculate") /\ pc' \in {"placeholder", "failed"}
ValidImageCheckValue ==
  pc = "calculated" /\ Begin("validate") /\ pc' \in {"file", "refused"}

\* Val bytes at the end of the file; nobody looks at the outcome.
SaveZeroDataToFileEndForCheckValue ==
  /\ pc = "placeholder" /\ pc' = "file"
  /\ \/ /\ f' = [f EXCEPT ![N] = NormalFileWrite(@, Size(N), [i \in 1..Val |-> 0])]
        /\ UNCHANGED fault
     \/ /\ ~ifntfs /\ "write" \in Faults /\ fault' = fault \cup {"write"}
        /\ UNCHANGED f
  /\ UNCHANGED <<ifntfs, image, mode, hash, salt, seen, damaged>>

\* CalculateFileSHA256Value: the next file, through a handle of its own unless
\* it is the last one.
CalculateFileSHA256Value ==
  /\ pc = "file"
  /\ llReadSize' = 0 /\ iSegIndex' = 0 /\ llSectorDataReadSize' = 0 /\ ctxSec' = <<>>
  /\ \/ /\ f' = IF file < N THEN [f EXCEPT ![file] = Opened(@.disk)] ELSE f
        /\ pc' = IF Size(file) > SegNumber * Big THEN "sample" ELSE "all"
     \/ file < N /\ Refuse
  /\ UNCHANGED <<ifntfs, image, mode, file, ctx, salt, seen, damaged, fault>>

\* The end of the loop over one file.
NextFile == file' = file + 1 /\ pc' = IF file = N THEN "salt" ELSE "file"

IsLast == file = N   \* bIsCheckValue

-----------------------------------------------------------------------------
(***************************************************************************)
(* _CalFileSHA256Value: the whole file but the check value.                *)
(***************************************************************************)
ReadSize ==
  IF Size(file) - llReadSize > Chunk THEN Chunk
  ELSE Size(file) - llReadSize - (IF IsLast THEN Val ELSE 0)

\* dwReadSize is a DWORD: when less than a check value is left, it wraps and is
\* far more than Big.
Wraps == ReadSize < 0

\* Mutant: the loop is left only by its breaks.
GoesOnAlways(n, p) == TRUE

\* Whether the loop goes on after n bytes made the position p.
GoesOn(n, p) == n = Chunk /\ p < Size(file)

\* Mutants: only a full section is hashed; a section is never closed.
HashedFull(n, p) == Len(ctxSec) + n >= Section
HashedNever(n, p) == FALSE

\* Whether the section is complete: it is full or the loop ends.
Hashed(n, p) == Len(ctxSec) + n >= Section \/ ~GoesOn(n, p)

_CalFileSHA256Value ==
  /\ pc = "all" /\ ~Wraps
  /\ LET r == NormalFileRead(f[file], llReadSize, ReadSize)
         n == Len(r.out)
         sec == ctxSec \o r.out
     IN /\ f' = [f EXCEPT ![file] = r.f]
        /\ llReadSize' = llReadSize + n
        /\ IF n # 0 /\ Hashed(n, llReadSize + n)
             THEN ctx' = Append(ctx, sec) /\ ctxSec' = <<>>
             ELSE ctx' = ctx /\ ctxSec' = sec
        /\ IF GoesOn(n, llReadSize + n) THEN UNCHANGED <<file, pc>> ELSE NextFile
  /\ UNCHANGED <<ifntfs, image, mode, iSegIndex, llSectorDataReadSize, salt, seen,
                 damaged, fault>>

-----------------------------------------------------------------------------
(***************************************************************************)
(* _CalculateFileSHA256ValueBySegData: SegNumber samples spread over the   *)
(* file and one at its end.                                                *)
(***************************************************************************)
Limit == IF N > 1 THEN MultiPerSector ELSE PerSector

\* Where sample k begins.
SampleStart(k) ==
  IF k < SegNumber THEN k * (Size(file) \div SegNumber)
  ELSE Size(file) - Limit - (IF IsLast THEN Val ELSE 0)

_CalculateFileSHA256ValueBySegData ==
  /\ pc = "sample"
  /\ LET r == NormalFileRead(f[file], llReadSize, Chunk)
         n == Len(r.out)
         sec == ctxSec \o r.out
         full == Len(sec) >= Section
         data == llSectorDataReadSize + n
         done == data >= Limit                        \* with this sample
         end == done /\ iSegIndex + 1 > SegNumber     \* with all of them
         next == IF done THEN SampleStart(iSegIndex + 1) ELSE llReadSize + n
     IN /\ f' = [f EXCEPT ![file] = r.f]
        /\ ctx' = IF full THEN Append(ctx, sec) \o (IF end THEN <<<<>>>> ELSE <<>>)
                  ELSE IF end THEN Append(ctx, sec) ELSE ctx
        /\ ctxSec' = IF full \/ end THEN <<>> ELSE sec
        /\ iSegIndex' = IF done THEN iSegIndex + 1 ELSE iSegIndex
        /\ llSectorDataReadSize' = IF done THEN 0 ELSE data
        /\ llReadSize' = IF end THEN llReadSize + n ELSE next
        /\ IF ~end /\ GoesOn(n, next) THEN UNCHANGED <<file, pc>> ELSE NextFile
  /\ UNCHANGED <<ifntfs, image, mode, salt, seen, damaged, fault>>

\* A FileRead of Big bytes or more on FAT does not return at the end of the file
\* (SegFile, FileReadReturns).
FileReadStays ==
  /\ pc = "all" /\ Wraps
  /\ pc' = "hung"
  /\ UNCHANGED <<ifntfs, image, f, mode, hash, salt, seen, damaged, fault>>

\* A read error ends the loop, not the calculation; inside a sector it leaves
\* cachedatapos moved under the old cache.
HashReadFails ==
  /\ pc \in {"all", "sample"}
  /\ "read" \in Faults /\ fault' = fault \cup {"read"}
  /\ LET r == Align([f |-> [f[file] EXCEPT !.filepos = llReadSize],
                     out |-> <<>>, n |-> Chunk, stop |-> FALSE])
     IN f' = IF ifntfs THEN [f EXCEPT ![file].cachedatapos = r.f.cachedatapos] ELSE f
  /\ NextFile
  /\ UNCHANGED <<ifntfs, image, mode, llReadSize, iSegIndex, llSectorDataReadSize,
                 ctxSec, ctx, salt, seen, damaged>>

\* UserBreak, at the head of either loop.
UserBreak ==
  /\ pc \in {"all", "sample"}
  /\ Refuse
  /\ UNCHANGED <<ifntfs, image, mode, hash, salt, seen, damaged, fault>>

-----------------------------------------------------------------------------
\* GetSaltValue: Val bytes from the middle of the first file, one from its third.
GetSaltValue ==
  /\ pc = "salt"
  /\ LET a == NormalFileRead(IF N > 1 THEN Opened(f[1].disk) ELSE f[1], Size(1) \div 2, Val)
         b == NormalFileRead(a.f, Size(1) \div 3, 1)
     IN \/ /\ f' = [f EXCEPT ![1] = b.f]
           /\ salt' = a.out \o b.out
           /\ pc' = IF mode = "calculate" THEN "save" ELSE "compare"
        \/ Refuse /\ UNCHANGED salt
  /\ UNCHANGED <<ifntfs, image, mode, hash, seen, damaged, fault>>

Digest == <<ctx, salt>>
CheckBytes(s) ==
  LET k == CHOOSE i \in 1..Len(s) : s[i] = Digest
  IN [j \in 1..Val |-> 10000 * k + j]

\* Mutants: the position is the end of the file; it is two lengths before it.
ValuePosEnd == Size(N)
ValuePosTwice == Size(N) - 2 * Val

\* Where the check value goes and where it is read.
ValuePos == IF Size(N) > 0 THEN Size(N) - Val ELSE 0

SaveFileCheckValue ==
  /\ pc = "save"
  /\ \/ /\ seen' = Append(seen, Digest)
        /\ LET g == NormalFileWrite(f[N], ValuePos, CheckBytes(seen'))
           IN \/ f' = [f EXCEPT ![N] = Closed(g)] /\ UNCHANGED fault
              \/ /\ "close" \in Faults /\ g.cachedirty
                 /\ f' = [f EXCEPT ![N] = Opened(g.disk)]
                 /\ fault' = fault \cup {"close"}
        /\ pc' = "calculated"
     \/ Refuse /\ UNCHANGED <<seen, fault>>
  /\ UNCHANGED <<ifntfs, image, mode, hash, salt, damaged>>

GetFileCheckValue ==
  /\ pc = "compare"
  /\ \/ /\ seen' = IF \E i \in 1..Len(seen) : seen[i] = Digest THEN seen
                   ELSE Append(seen, Digest)
        /\ LET r == NormalFileRead(f[N], ValuePos, Val)
           IN /\ pc' = IF r.out = CheckBytes(seen') THEN "valid" ELSE "invalid"
              /\ f' = [f EXCEPT ![N] = Opened(r.f.disk)]
     \/ Refuse /\ UNCHANGED seen
  /\ UNCHANGED <<ifntfs, image, mode, hash, salt, damaged, fault>>

-----------------------------------------------------------------------------
\* A byte of the image, the check value aside, is not what was written: no byte of
\* the image is 0.
Damage ==
  /\ pc = "calculated" /\ damaged = {}
  /\ \E i \in 1..N : \E j \in 1..(IF i = N THEN Size(i) - Val ELSE Size(i)) :
       /\ f' = [f EXCEPT ![i].disk[j] = 0]
       /\ damaged' = {<<i, j - 1>>}
  /\ UNCHANGED <<ifntfs, image, pc, mode, hash, salt, seen, fault>>

Step ==
  \/ CalculateFileCheckValue \/ SaveZeroDataToFileEndForCheckValue
  \/ ValidImageCheckValue \/ CalculateFileSHA256Value \/ _CalFileSHA256Value
  \/ FileReadStays \/ _CalculateFileSHA256ValueBySegData \/ HashReadFails \/ UserBreak
  \/ GetSaltValue \/ SaveFileCheckValue \/ GetFileCheckValue

\* "hung" stands for a call that never returns.
Ended == {"failed", "refused", "valid", "invalid", "hung"}
Done == pc \in Ended /\ UNCHANGED vars

Next == Step \/ Damage \/ Done

Spec == Init /\ [][Next]_vars

-----------------------------------------------------------------------------
\* Every variable keeps its type; the salt and the hashed section never outgrow
\* ucSlatValue and the size at which a section is closed (func.c, 7914-8574).
TypeOK ==
  /\ ifntfs \in BOOLEAN /\ mode \in {"calculate", "validate"}
  /\ pc \in Ended \cup {"written", "placeholder", "file", "all", "sample", "salt",
                        "save", "calculated", "compare"}
  /\ file \in 1..(N + 1) /\ iSegIndex \in 0..(SegNumber + 1)
  /\ llReadSize \in Nat /\ llSectorDataReadSize \in 0..Limit
  /\ Len(ctxSec) < Section + Chunk /\ Len(salt) <= Val + 1
  /\ \A i \in 1..N : Len(f[i].cache) <= CacheSize
  /\ fault \subseteq {"read", "write", "close"}

\* An image nobody touched is accepted: what ValidImageCheckValue computes over
\* the finished file is what CalculateFileCheckValue computed while the check
\* value, or its placeholder, was still in the handle's cache or not yet there.
ValidAfterCalculate == pc = "invalid" /\ fault = {} => damaged # {}

\* The tail of a last file on FAT whose length is a multiple of Chunk: the loop
\* ends with a read of no bytes, and the section begun is not hashed.
LostTail(i, len) ==
  IF ~ifntfs /\ i = N /\ len % Chunk = 0 THEN (len - (len % Section))..len ELSE {}

\* The bytes of file i, of len bytes without the check value, that are to be
\* hashed: all of a small file, the samples of a big one.
Covered(i, len) ==
  LET size == IF i = N THEN len + Val ELSE len IN
  IF size <= SegNumber * Big THEN 0..(len - 1)
  ELSE (UNION {(k * (size \div SegNumber))..(k * (size \div SegNumber) + Limit - 1) :
                 k \in 0..(SegNumber - 1)})
         \cup (len - Limit)..(len - 1)

DataLen(i) == IF i = N THEN Size(i) - Val ELSE Size(i)

\* A byte that rotted is noticed before the image is restored, if it is in a
\* small file or in a sample of a big one, but for the lost tail.
DamageIsDetected ==
  pc = "valid" /\ fault = {} =>
    \A x \in damaged : x[2] \notin Covered(x[1], DataLen(x[1])) \ LostTail(x[1], DataLen(x[1]))

\* The calculation leaves the image alone: on FAT every byte of every file; on
\* NTFS, and when the placeholder could not be written, every byte but the last
\* Val ones, where the check value ends up.
DataKept ==
  pc = "calculated" /\ damaged = {} =>
    \A i \in 1..N :
      LET len == Len(image[i]) - (IF ifntfs \/ "write" \in fault THEN Val ELSE 0)
      IN Slice(f[i].disk, 0, len) = Slice(image[i], 0, len)

\* Both loops end but for one image: a round that is followed by another one has
\* gone on in the file or to the next sample, of which there are SegNumber + 1;
\* and a round ends unless the last file, on FAT, is empty and has not got the
\* placeholder, which makes the subtraction wrap (func.c, 7971-7977).
GoesOnward ==
  iSegIndex' > iSegIndex \/ (llReadSize' > llReadSize /\ llReadSize' < Size(file))
NoRoom == ~ifntfs /\ file = N /\ N > 1 /\ image[N] = <<>> /\ "write" \in fault
Progress ==
  pc \in {"all", "sample"} =>
    /\ pc' = pc /\ file' = file => GoesOnward
    /\ pc' = "hung" => NoRoom
HashProgress == [][Progress]_vars

\* func.c:8579, 8605, utils.c:3786: the placeholder that SaveZeroDataToFileEndFor-
\* CheckValue writes makes room for the check value behind the image.
ValueIsBehindImage ==
  pc = "calculated" /\ damaged = {} /\ fault = {} =>
    \A i \in 1..N : Slice(f[i].disk, 0, Len(image[i])) = image[i]
-----------------------------------------------------------------------------
(***************************************************************************)
(* The inductive strengthening of the properties.                          *)
(***************************************************************************)

\* The calculation, until it ends.
Calculating == mode = "calculate" /\ pc # "calculated"

\* The files are those of an image; on FAT the handles have no cache.
HandleInv ==
  /\ \E l \in Lengths : image = ImageOf(l)
  /\ f \in [1..N -> Handle] /\ \A i \in 1..N : Len(f[i].cache) <= CacheSize
  /\ ifntfs => N = 1
  /\ ~ifntfs => \A i \in 1..N : f[i].cache = <<>> /\ ~f[i].cachedirty
  /\ ctxSec \in Seq(Nat) /\ ctx \in Seq(Seq(Nat)) /\ salt \in Seq(Nat)

\* On FAT the last file has grown by the placeholder or, when that could not be
\* written and the file is empty, by the check value.
Grown ==
  /\ ~ifntfs
  /\ \/ pc \notin {"written", "placeholder"} /\ "write" \notin fault
     \/ image[N] = <<>> /\ seen # <<>>
SizeInv ==
  pc \notin Ended =>
    /\ \A i \in 1..(N - 1) : Size(i) = Len(image[i])
    /\ Size(N) = IF Grown THEN Len(image[N]) + Val ELSE Len(image[N])

\* Where the two passes and their loops are.
HashInv ==
  /\ pc \notin Ended => IF Calculating THEN seen = <<>> ELSE seen = <<seen[1]>>
  /\ pc \in {"written", "placeholder"} => fault = {}
  /\ pc \in {"written", "placeholder", "save", "calculated"} => mode = "calculate"
  /\ pc = "compare" => mode = "validate"
  /\ pc \in {"placeholder", "file", "all", "sample"} => file <= N
  /\ pc \in {"salt", "save", "compare"} => file = N + 1
  /\ pc = "all" => /\ llReadSize % Chunk = 0 /\ Len(ctxSec) = llReadSize % Section
                   /\ llReadSize # 0 => llReadSize < Size(file)
  /\ pc = "sample" => /\ Size(file) > SegNumber * Big
                      /\ iSegIndex <= SegNumber /\ llSectorDataReadSize < Limit
                      /\ llSectorDataReadSize % Chunk = 0
                      /\ llReadSize = SampleStart(iSegIndex) + llSectorDataReadSize
                      /\ Len(ctxSec) < Section /\ Len(ctxSec) % Chunk = 0

\* The cache has what the file has, or it is the placeholder behind the file.
Good(g) == Agrees(g) \/ g.cachedatapos >= Len(g.disk)

CacheInv ==
  /\ pc \in {"written", "placeholder", "calculated"} => f[N] = Opened(f[N].disk)
  /\ pc \in {"file", "all", "sample"} => \A i \in 1..N : Good(f[i])
  /\ pc = "sample" /\ ifntfs /\ llSectorDataReadSize # 0 => Inside(f[file], llReadSize)
  /\ pc = "salt" => Agrees(f[1]) \/ ~Inside(f[1], Size(1) \div 2)
  /\ pc \in {"save", "compare"} => \A i \in 1..N : Agrees(f[i])

IInv == TypeOK /\ HandleInv /\ SizeInv /\ HashInv /\ CacheInv

\* What the files hold without the check value is what Backup wrote, but for the
\* byte that rotted.
Kept(i) == Len(image[i]) - (IF i = N /\ (ifntfs \/ "write" \in fault) THEN Val ELSE 0)
DataInv ==
  pc \notin Ended =>
    /\ Calculating => damaged = {}
    /\ damaged = {} => \A i \in 1..N : \A j \in 1..Kept(i) : f[i].disk[j] = image[i][j]
    /\ \A x \in damaged : /\ x[1] \in 1..N /\ x[2] \in 0..(DataLen(x[1]) - 1)
                          /\ f[x[1]].disk[x[2] + 1] = 0

\* The check value is at the end of the image.
ValueInv ==
  pc \notin Ended /\ ~Calculating /\ fault = {} =>
    \A j \in 1..Val : f[N].disk[Size(N) - Val + j] = 10000 + j

\* The calculation meets no 0.
Zero(s) == \E i \in 1..Len(s) : s[i] = 0
ZeroIn(c) == \E i \in 1..Len(c) : Zero(c[i])
PureInv ==
  pc \notin Ended /\ fault = {} =>
    IF Calculating THEN ~ZeroIn(ctx) /\ ~Zero(ctxSec) ELSE ~ZeroIn(seen[1][1])

\* What of the file at hand the loop over its samples has passed.
Passed(x) ==
  \E k \in 0..iSegIndex : /\ SampleStart(k) <= x /\ x < SampleStart(k) + Limit
                          /\ k = iSegIndex => x < llReadSize

\* The validation has met the byte that rotted when it has passed it.
HitInv ==
  pc \notin Ended /\ fault = {} /\ mode = "validate" =>
    \A x \in damaged : x[2] \in Covered(x[1], DataLen(x[1])) \ LostTail(x[1], DataLen(x[1])) =>
      /\ x[1] < file => ZeroIn(ctx)
      /\ x[1] = file /\ pc = "all" /\ x[2] < llReadSize =>
           ZeroIn(ctx) \/ (Zero(ctxSec) /\ x[2] >= llReadSize - (llReadSize % Section))
      /\ x[1] = file /\ pc = "sample" /\ Passed(x[2]) => ZeroIn(ctx) \/ Zero(ctxSec)
=============================================================================
