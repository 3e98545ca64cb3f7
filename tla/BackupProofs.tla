---------------------------- MODULE BackupProofs ----------------------------
(***************************************************************************)
(* Proofs about Backup.  Every step of the engine, of the catalogue scan   *)
(* and of a power loss preserves IInv, hence TypeOK and                    *)
(* CompleteMeansDurable hold for any number of partitions, blocks and      *)
(* segments and under every fault.  Then the image a backup makes: the     *)
(* order of the records in its files, what a failed run leaves, what a     *)
(* successful one promises, what the scan of the catalogue deletes, and    *)
(* what a complete image holds, for any bitmaps and any unit size.  FInv   *)
(* and CInv are inductive relative to IInv.                                *)
(***************************************************************************)
EXTENDS Backup, RankTheorems

-----------------------------------------------------------------------------
(***************************************************************************)
(* The operators of the model.                                             *)
(***************************************************************************)

\* What is written of the cache is part of the cache.
LEMMA PrefixesSubset ==
  ASSUME NEW S, NEW F \in Prefixes(S)
  PROVE  F \subseteq S
BY DEF Prefixes

\* Filling a buffer leaves currentblock a natural number.
LEMMA AfterBlocksNat ==
  ASSUME NEW S \in SUBSET Blocks
  PROVE  AfterBlocks(S) \in Nat
<1> DEFINE Greatest(b) == \A d \in S : d <= b
<1>1. CASE Cardinality(S) = UnitBlocks /\ \E b \in S : Greatest(b)
  <2> DEFINE last == CHOOSE b \in S : Greatest(b)
  <2>1. last \in S
    BY <1>1
  <2>2. AfterBlocks(S) = 1 + last
    BY <1>1 DEF AfterBlocks
  <2> HIDE DEF last
  <2> QED BY <2>1, <2>2, NBlocksAssumption DEF Blocks
<1>2. CASE ~(Cardinality(S) = UnitBlocks /\ \E b \in S : Greatest(b))
  BY <1>2, NBlocksAssumption DEF AfterBlocks
<1> QED BY <1>1, <1>2

\* The number of records a partition wrote is a natural number.
LEMMA DataSizeNat ==
  ASSUME log \in Seq(Record), NEW p
  PROVE  DataSize(p) \in Nat
<1> DEFINE S == {k \in 1..Len(log) : log[k].part = p}
<1>1. IsFiniteSet(1..Len(log))
  BY FS_Interval
<1>2. IsFiniteSet(S)
  BY <1>1, FS_Subset
<1> QED BY <1>2, FS_CardinalityType DEF DataSize

\* A buffer holds blocks of the partition.
LEMMA NextBlocksType ==
  ASSUME TypeOK, part \in Parts
  PROVE  NextBlocks(part, cur) \in SUBSET Blocks
BY DEF TypeOK, NextBlocks

-----------------------------------------------------------------------------
(***************************************************************************)
(* What the file operations do to the destination.                         *)
(***************************************************************************)

\* An accepted record is in the file or in the cache, nothing is lost, and the
\* segments stay contiguous (utils.c, FileWrite).
LEMMA FileWriteEffect ==
  ASSUME IInv, pc \in Building, NEW k \in Nat, FileWrite(k)
  PROVE  /\ body \subseteq body' /\ body' \subseteq Nat \X Nat
         /\ head' \in {head, hdr}
         /\ cache' \subseteq cache \cup {k}
         /\ \A j \in cache \cup {k} : j \in cache' \/ <<seg, j>> \in body'
         /\ seg' \in Nat /\ seg <= seg' /\ size' \in Nat
         /\ exist' \subseteq Nat
         /\ bHandle => 0..seg' \subseteq exist'
         /\ ~bHandle => exist' = {}
         /\ ~ifntfs => bHandle /\ cache' = {}
         /\ UNCHANGED <<bHandle, bFileCreated, ifneedseg, check>>
<1>1. TypeOK /\ (bHandle => 0..seg \subseteq exist) /\ (~bHandle => exist = {})
      /\ (~ifntfs => bHandle /\ cache = {})
  BY DEF IInv, BuildingInv
<1>2. UNCHANGED <<bHandle, bFileCreated, ifneedseg, check>>
  BY DEF FileWrite
<1>3. CASE FatWrite(k)
  <2>1. /\ body' = body \cup {<<seg, k>>} /\ head' \in {head, hdr}
        /\ cache' = {} /\ cache = {} /\ ~ifntfs /\ bHandle
    BY <1>1, <1>3 DEF FatWrite, Store
  <2>2. body \subseteq body' /\ body' \subseteq Nat \X Nat /\ <<seg, k>> \in body'
    BY <1>1, <2>1 DEF TypeOK
  <2>3. seg' \in Nat /\ seg <= seg' /\ size' \in Nat /\ exist' \subseteq Nat
    <3>1. seg \in Nat /\ size \in Nat /\ exist \subseteq Nat
      BY <1>1 DEF TypeOK
    <3>2. \/ seg' = seg + 1 /\ size' = 0 /\ exist' = exist \cup {seg + 1}
          \/ seg' = seg /\ size' = size + 1 /\ exist' = exist
      BY <1>3 DEF FatWrite
    <3>3. seg' \in Nat /\ seg <= seg' /\ size' \in Nat
      BY <3>1, <3>2
    <3>4. exist' \subseteq Nat
      <4>1. seg + 1 \in Nat
        BY <3>1
      <4>2. \A x \in exist' : x \in exist \/ x = seg + 1
        BY <3>2
      <4> QED BY <3>1, <4>1, <4>2
    <3> QED BY <3>3, <3>4
  <2>4. 0..seg' \subseteq exist'
    BY <1>1, <1>3, <2>1 DEF FatWrite, TypeOK
  <2> QED BY <1>2, <2>1, <2>2, <2>3, <2>4
<1>4. CASE NtfsWrite(k)
  <2>1. PICK F \in Prefixes(cache \cup {k}) :
          /\ F # {} => bHandle
          /\ Store(F)
          /\ cache' = (cache \cup {k}) \ F
    BY <1>4 DEF NtfsWrite
  <2>2. F \subseteq cache \cup {k}
    BY PrefixesSubset
  <2>3. body' = body \cup {<<seg, j>> : j \in F} /\ head' \in {head, hdr}
    BY <2>1 DEF Store
  <2>4. F \subseteq Nat /\ body' \subseteq Nat \X Nat
    BY <1>1, <2>2, <2>3 DEF TypeOK
  <2> QED BY <1>1, <1>2, <1>4, <2>1, <2>2, <2>3, <2>4 DEF NtfsWrite, TypeOK
<1> QED BY <1>3, <1>4 DEF FileWrite

\* A refused record changes at most what the cache and the open file hold.
LEMMA FileWriteFailsEffect ==
  ASSUME TypeOK, NEW k \in Nat, FileWriteFails(k)
  PROVE  /\ body \subseteq body' /\ body' \subseteq Nat \X Nat
         /\ head' \in {head, hdr}
         /\ cache' \subseteq cache \cup {k}
         /\ seg' \in Nat /\ size' \in Nat /\ bHandle' \in BOOLEAN
         /\ UNCHANGED <<exist, check, bFileCreated, ifneedseg>>
<1>1. UNCHANGED <<exist, check, bFileCreated, ifneedseg>>
  BY DEF FileWriteFails
<1>2. ASSUME NEW F \in SUBSET (cache \cup {k}), Store(F)
      PROVE  body \subseteq body' /\ body' \subseteq Nat \X Nat /\ head' \in {head, hdr}
  <2>1. F \subseteq Nat
    BY DEF TypeOK
  <2> QED BY <1>2, <2>1 DEF Store, TypeOK
<1>3. CASE /\ \E F \in SUBSET ({k} \cap {0}) : (ifntfs => F = {}) /\ Store(F)
           /\ UNCHANGED <<seg, size, cache, bHandle>>
  BY <1>1, <1>2, <1>3 DEF TypeOK
<1>4. CASE /\ ~ifntfs /\ ifneedseg /\ size + 1 > SplitRecs
           /\ Store({k})
           /\ seg' = seg + 1 /\ size' = 0 /\ bHandle' = FALSE
           /\ UNCHANGED cache
  <2>1. body \subseteq body' /\ body' \subseteq Nat \X Nat /\ head' \in {head, hdr}
    BY <1>2, <1>4
  <2>2. seg' \in Nat /\ size' \in Nat
    BY <1>4 DEF TypeOK
  <2>3. bHandle' \in BOOLEAN /\ cache' \subseteq cache \cup {k}
    BY <1>4
  <2> QED BY <1>1, <2>1, <2>2, <2>3
<1>5. CASE /\ ifntfs /\ bHandle
           /\ \E F \in Prefixes(cache \cup {k}) \ {cache \cup {k}} :
                Store(F) /\ cache' = (cache \cup {k}) \ F
           /\ UNCHANGED <<seg, size, bHandle>>
  <2>1. PICK F \in Prefixes(cache \cup {k}) : Store(F) /\ cache' = (cache \cup {k}) \ F
    BY <1>5
  <2>2. F \subseteq cache \cup {k}
    BY PrefixesSubset
  <2>3. body \subseteq body' /\ body' \subseteq Nat \X Nat /\ head' \in {head, hdr}
    BY <1>2, <2>1, <2>2
  <2> QED BY <1>1, <1>5, <2>1, <2>3 DEF TypeOK
<1> QED BY <1>3, <1>4, <1>5 DEF FileWriteFails

\* Unless the "close" fault strikes, FileClose brings the cache of an open
\* handle to the disk.
LEMMA FileCloseEffect ==
  ASSUME TypeOK, FileClose
  PROVE  /\ body \subseteq body' /\ body' \subseteq Nat \X Nat
         /\ head' \in {head, hdr}
         /\ 0 \notin cache => head' = head
         /\ cache' = {} /\ bHandle' = FALSE
         /\ fault \subseteq fault' /\ fault' \subseteq FaultKinds
         /\ bHandle /\ "close" \notin fault' => \A j \in cache : <<seg, j>> \in body'
<1>1. ASSUME NEW F \in SUBSET cache, Store(F)
      PROVE  /\ body \subseteq body' /\ body' \subseteq Nat \X Nat
             /\ head' \in {head, hdr}
             /\ 0 \notin cache => head' = head
             /\ \A j \in F : <<seg, j>> \in body'
  <2>1. F \subseteq Nat
    BY DEF TypeOK
  <2> QED BY <1>1, <2>1 DEF Store, TypeOK
<1>2. CASE Store(IF bHandle THEN cache ELSE {}) /\ UNCHANGED fault
  <2> DEFINE F == IF bHandle THEN cache ELSE {}
  <2>1. F \in SUBSET cache /\ Store(F) /\ (bHandle => F = cache)
    BY <1>2
  <2> HIDE DEF F
  <2> QED BY <1>1, <1>2, <2>1 DEF FileClose, TypeOK
<1>3. CASE /\ "close" \in Faults /\ cache # {} /\ bHandle
           /\ \E F \in Prefixes(cache) \ {cache} : Store(F)
           /\ fault' = fault \cup {"close"}
  <2>1. PICK F \in Prefixes(cache) : Store(F)
    BY <1>3
  <2>2. F \in SUBSET cache
    BY PrefixesSubset
  <2> QED BY <1>1, <1>3, <2>1, <2>2 DEF FileClose, TypeOK, FaultKinds
<1> QED BY <1>2, <1>3 DEF FileClose

\* Unless the "delete" fault strikes, FileDelete removes the file.
LEMMA FileDeleteEffect ==
  ASSUME TypeOK, NEW n \in Nat, FileDelete(n)
  PROVE  /\ exist' \subseteq Nat /\ body' \subseteq body
         /\ fault \subseteq fault' /\ fault' \subseteq FaultKinds
         /\ "delete" \notin fault' => \A x \in body' : x[1] # n
         /\ UNCHANGED <<head, check>>
BY DEF FileDelete, TypeOK, FaultKinds

-----------------------------------------------------------------------------
(***************************************************************************)
(* Every step preserves IInv.                                              *)
(***************************************************************************)

\* Steps that leave the files and the handle as they are keep what is said of
\* them; what remains is their types and the phase they lead to.
LEMMA QuietStep ==
  ASSUME IInv, TypeOK', PartInv',
         UNCHANGED <<exist, body, head, log, ifntfs, seg>>,
         fault \subseteq fault',
         hdr' = hdr \/ (pc \in Building /\ hdr'.bComplete = hdr.bComplete),
         \/ pc' = pc /\ UNCHANGED <<cache, bHandle>> /\ pc # "delete"
         \/ pc \in Building /\ pc' \in Building \cup {"fail"} /\ UNCHANGED <<cache, bHandle>>
         \/ pc = "start" /\ pc' = "create" /\ UNCHANGED <<cache, bHandle>>
         \/ pc' \in {"done", "off", "listed"}
         \/ pc = "check" /\ pc' = "fail" /\ UNCHANGED <<cache, bHandle>>
  PROVE  IInv'
<1> USE DEF IInv
<1>1. FreshInv'
  BY DEF FreshInv, Building
<1>2. HeaderInv'
  BY DEF HeaderInv, Building, Closing
<1>3. BuildingInv'
  BY DEF BuildingInv, Building
<1>4. ClosingInv'
  BY DEF ClosingInv, HeaderInv, Closing, Building, Durable
<1>5. DeleteInv'
  BY DEF DeleteInv, Building
<1>6. CompleteMeansDurable'
  BY DEF CompleteMeansDurable, Complete, Durable
<1> QED BY <1>1, <1>2, <1>3, <1>4, <1>5, <1>6

\* Prepare: nothing is on the disk yet, and nothing is put there.
LEMMA PrepareStep == IInv /\ Prepare => IInv'
<1> SUFFICES ASSUME IInv, Prepare PROVE IInv'
  OBVIOUS
<1>1. TypeOK' /\ PartInv'
  BY DEF IInv, Prepare, Goto, TypeOK, PartInv, Phases, asked, engine, handle, store
<1> QED BY <1>1, QuietStep DEF Prepare, Goto, asked, engine, handle, store

\* SkipPart: a partition without data leaves the files alone.
LEMMA SkipPartStep == IInv /\ SkipPart => IInv'
<1> SUFFICES ASSUME IInv, SkipPart PROVE IInv'
  OBVIOUS
<1>1. hdr' \in Header /\ hdr'.bComplete = hdr.bComplete
  <2>1. part \in Parts /\ hdr \in Header
    BY DEF IInv, TypeOK, SkipPart
  <2>2. CASE hdr' = [hdr EXCEPT !.BackupDataSize[part] = 0]
    BY <2>1, <2>2 DEF Header
  <2> QED BY <2>1, <2>2 DEF SkipPart
<1>2. TypeOK' /\ PartInv'
  BY <1>1 DEF IInv, SkipPart, TypeOK, PartInv, asked, handle, store
<1> QED BY <1>1, <1>2, QuietStep DEF SkipPart, asked, handle, store, Building

\* ReadUnit: filling the buffer touches neither the files nor the handle.
LEMMA ReadUnitStep == IInv /\ ReadUnit => IInv'
<1> SUFFICES ASSUME IInv, ReadUnit PROVE IInv'
  OBVIOUS
<1>1. TypeOK /\ part \in Parts /\ part \in bIfBackup /\ pc = "read"
  BY DEF IInv, TypeOK, PartInv, ReadUnit
<1>2. buffer' \subseteq Blocks /\ cur' \in Nat
  BY <1>1, NextBlocksType, AfterBlocksNat DEF ReadUnit, TypeOK, Fail
<1>3. readok' \in BOOLEAN /\ lz4' \in {"data", "zero", "error"}
  BY <1>1 DEF ReadUnit, TypeOK
<1>4. fault \subseteq fault' /\ fault' \subseteq FaultKinds
  BY <1>1 DEF ReadUnit, TypeOK, FaultKinds
<1>5. pc' \in {"fail", "write"}
  BY DEF ReadUnit, Goto, Fail
<1>6. TypeOK' /\ PartInv'
  BY <1>1, <1>2, <1>3, <1>4, <1>5
     DEF ReadUnit, TypeOK, PartInv, Phases, asked, handle, store
<1> QED BY <1>1, <1>4, <1>5, <1>6, QuietStep DEF ReadUnit, asked, handle, store, Building

\* EndPart: the size of the partition goes to the header in memory only.
LEMMA EndPartStep == IInv /\ EndPart => IInv'
<1> SUFFICES ASSUME IInv, EndPart PROVE IInv'
  OBVIOUS
<1>1. TypeOK /\ part \in Parts /\ DataSize(part) \in Nat
  BY DataSizeNat DEF IInv, TypeOK, PartInv, EndPart
<1>2. hdr' \in Header /\ hdr'.bComplete = hdr.bComplete
  BY <1>1 DEF TypeOK, EndPart, Header
<1>3. TypeOK' /\ PartInv'
  BY <1>1, <1>2 DEF EndPart, Goto, TypeOK, PartInv, Phases, asked, handle, store
<1> QED BY <1>2, <1>3, QuietStep DEF EndPart, Goto, asked, handle, store, Building

\* BreakWrite: the user gives up before the unit is written.
LEMMA BreakWriteStep == IInv /\ BreakWrite => IInv'
<1> SUFFICES ASSUME IInv, BreakWrite PROVE IInv'
  OBVIOUS
<1>1. TypeOK' /\ PartInv'
  BY DEF IInv, BreakWrite, Fail, TypeOK, PartInv, Phases, asked, engine, handle, store
<1> QED BY <1>1, QuietStep DEF BreakWrite, Fail, Building, asked, engine, handle, store

\* CalculateFileCheckValue: neither the records nor the header change.
LEMMA CheckValueStep == IInv /\ CalculateFileCheckValue => IInv'
<1> SUFFICES ASSUME IInv, CalculateFileCheckValue PROVE IInv'
  OBVIOUS
<1>1. pc = "check" /\ pc' \in {"done", "fail"} /\ ret' \in {-1, 0}
  BY DEF CalculateFileCheckValue, Goto, Fail, IInv, TypeOK
<1>2. fault \subseteq fault' /\ fault' \subseteq FaultKinds
  BY DEF CalculateFileCheckValue, IInv, TypeOK, FaultKinds
<1>3. TypeOK' /\ PartInv'
  BY <1>1, <1>2 DEF IInv, CalculateFileCheckValue, TypeOK, PartInv, Phases, asked,
                    engine, handle
<1> QED BY <1>1, <1>2, <1>3, QuietStep DEF CalculateFileCheckValue, asked, engine, handle

\* PowerLoss: what is on the disk stays, the cache and the handle are gone.
LEMMA PowerLossStep == IInv /\ PowerLoss => IInv'
<1> SUFFICES ASSUME IInv, PowerLoss PROVE IInv'
  OBVIOUS
<1>1. TypeOK' /\ PartInv'
  BY DEF IInv, PowerLoss, Goto, TypeOK, PartInv, Phases, asked, engine, store
<1> QED BY <1>1, QuietStep DEF PowerLoss, Goto, asked, engine, store

\* A stuttering step keeps every part of the invariant.
LEMMA StutterStep == IInv /\ UNCHANGED vars => IInv'
BY DEF vars, asked, engine, handle, store, IInv, TypeOK, PartInv, FreshInv, HeaderInv,
       BuildingInv, ClosingInv, DeleteInv, CompleteMeansDurable, Complete, Durable

\* CreateFile: an empty file, or on NTFS perhaps none.
LEMMA CreateFileStep == IInv /\ CreateFile => IInv'
<1> SUFFICES ASSUME IInv, CreateFile PROVE IInv'
  OBVIOUS
<1>1. /\ pc = "create" /\ pc' \in {"header", "fail"} /\ exist = {} /\ body = {}
      /\ cache = {} /\ log = <<>> /\ seg = 0 /\ ~bHandle
      /\ UNCHANGED <<cache, body, head, hdr, log, seg, ifntfs, fault>>
  BY DEF IInv, FreshInv, CreateFile, Goto, Fail, asked
<1>2. bHandle' \in BOOLEAN /\ bFileCreated' \in BOOLEAN /\ ifneedseg' \in BOOLEAN
  BY DEF IInv, TypeOK, CreateFile
<1>3. TypeOK' /\ PartInv'
  BY <1>1, <1>2 DEF IInv, CreateFile, TypeOK, PartInv, Phases, asked, engine
<1>4. FreshInv' /\ DeleteInv'
  BY <1>1 DEF FreshInv, DeleteInv
<1>5. HeaderInv'
  BY <1>1 DEF IInv, HeaderInv, Building, Closing
<1>6. ClosingInv'
  BY <1>1 DEF ClosingInv, Closing
<1>7. BuildingInv'
  BY <1>1 DEF BuildingInv, Building, CreateFile, Goto, Fail
<1>8. CompleteMeansDurable'
  BY <1>1 DEF CompleteMeansDurable, Complete
<1> QED BY <1>3, <1>4, <1>5, <1>6, <1>7, <1>8 DEF IInv

\* A FileWrite that succeeds while the image is being built.
LEMMA WriteStep ==
  ASSUME IInv, TypeOK', PartInv', pc \in Building, pc' \in Building,
         UNCHANGED <<hdr, fault, ifntfs>>,
         NEW k \in Nat, FileWrite(k),
         \A j \in 1..Len(log') : j \in 1..Len(log) \/ j = k
  PROVE  IInv'
<1>1. /\ body \subseteq body' /\ head' \in {head, hdr} /\ seg' \in Nat /\ seg <= seg'
      /\ \A j \in cache \cup {k} : j \in cache' \/ <<seg, j>> \in body'
      /\ bHandle => 0..seg' \subseteq exist'
      /\ ~bHandle => exist' = {}
      /\ ~ifntfs => bHandle /\ cache' = {}
      /\ UNCHANGED bHandle
  BY FileWriteEffect
<1>2. seg \in Nat /\ ~hdr.bComplete /\ ~head'.bComplete
  BY <1>1 DEF IInv, HeaderInv, TypeOK
<1>3. FreshInv' /\ DeleteInv'
  BY DEF FreshInv, DeleteInv, Building
<1>4. HeaderInv'
  BY <1>2 DEF HeaderInv, Building, Closing
<1>5. ClosingInv'
  BY DEF ClosingInv, Building, Closing
<1>6. BuildingInv'
  <2>1. \A j \in 1..Len(log) : j \in cache \/ \E s \in 0..seg : <<s, j>> \in body
    BY DEF IInv, BuildingInv
  <2>2. seg \in 0..seg' /\ 0..seg \subseteq 0..seg'
    BY <1>1, <1>2
  <2>3. \A j \in 1..Len(log') : j \in cache' \/ \E s \in 0..seg' : <<s, j>> \in body'
    BY <1>1, <2>1, <2>2
  <2> QED BY <1>1, <2>3 DEF BuildingInv
<1>7. CompleteMeansDurable'
  BY <1>2 DEF CompleteMeansDurable, Complete
<1> QED BY <1>3, <1>4, <1>5, <1>6, <1>7 DEF IInv

\* A step that gives up while the image is being built: whatever it leaves on the
\* disk, the header there is not complete.
LEMMA GiveUpStep ==
  ASSUME IInv, TypeOK', pc \in Building, pc' = "fail", hdr' = hdr, head' \in {head, hdr}
  PROVE  IInv'
<1>1. ~hdr.bComplete /\ ~head'.bComplete
  BY DEF IInv, HeaderInv
<1> QED
  BY <1>1 DEF IInv, PartInv, FreshInv, HeaderInv, BuildingInv, ClosingInv, DeleteInv,
     CompleteMeansDurable, Complete, Building, Closing

\* The cache holds records that were accepted, or at most the next one.
LEMMA CacheBound ==
  ASSUME NEW m \in Nat, NEW n \in Nat, m <= n, NEW C \in SUBSET (0..(m + 1)),
         NEW k \in 0..(n + 1), NEW D \in SUBSET (C \cup {k})
  PROVE  D \subseteq 0..(n + 1)
<1>1. 0..(m + 1) \subseteq 0..(n + 1)
  OBVIOUS
<1> QED BY <1>1

\* WriteHeader: record 0 says that the image is not complete.
LEMMA WriteHeaderStep == IInv /\ WriteHeader => IInv'
<1> SUFFICES ASSUME IInv, WriteHeader PROVE IInv'
  OBVIOUS
<1>1. TypeOK /\ pc = "header" /\ pc \in Building /\ 0 \in Nat
      /\ UNCHANGED <<asked, cur, buffer, readok, lz4, hdr, ret, log, fault>>
  BY DEF IInv, WriteHeader, Building
<1>2. CASE FileWrite(0) /\ Goto("part") /\ part' = 1
  <2>1. pc' \in Building /\ UNCHANGED <<hdr, fault, ifntfs, log>>
    BY <1>1, <1>2 DEF Goto, Building, asked
  <2>2. /\ body' \subseteq Nat \X Nat /\ head' \in Header /\ exist' \subseteq Nat
        /\ seg' \in Nat /\ size' \in Nat
        /\ bHandle' \in BOOLEAN /\ bFileCreated' \in BOOLEAN /\ ifneedseg' \in BOOLEAN
    BY <1>1, <1>2, FileWriteEffect DEF TypeOK
  <2>3. cache' \subseteq 0..(Len(log') + 1)
    <3>1. cache' \subseteq cache \cup {0} /\ cache \subseteq 0..(Len(log) + 1) /\ Len(log) \in Nat
      BY <1>1, <1>2, FileWriteEffect DEF TypeOK
    <3> QED BY <2>1, <3>1, CacheBound
  <2>4. TypeOK' /\ PartInv'
    BY <1>1, <1>2, <2>2, <2>3 DEF Goto, TypeOK, PartInv, Phases, asked
  <2> QED BY <1>1, <1>2, <2>1, <2>4, WriteStep
<1>3. CASE FileWriteFails(0) /\ Fail /\ UNCHANGED part
  <2>1. head' \in {head, hdr} /\ pc' = "fail" /\ hdr' = hdr
    BY <1>1, <1>3, FileWriteFailsEffect DEF Fail
  <2>2. /\ body' \subseteq Nat \X Nat /\ head' \in Header /\ exist' \subseteq Nat
        /\ seg' \in Nat /\ size' \in Nat
        /\ bHandle' \in BOOLEAN /\ bFileCreated' \in BOOLEAN /\ ifneedseg' \in BOOLEAN
    BY <1>1, <1>3, FileWriteFailsEffect DEF TypeOK
  <2>3. cache' \subseteq 0..(Len(log') + 1)
    <3>1. cache' \subseteq cache \cup {0} /\ cache \subseteq 0..(Len(log) + 1) /\ Len(log) \in Nat
      BY <1>1, <1>3, FileWriteFailsEffect DEF TypeOK
    <3> QED BY <1>1, <3>1, CacheBound
  <2>4. TypeOK'
    BY <1>1, <1>3, <2>2, <2>3 DEF Fail, TypeOK, Phases, asked
  <2> QED BY <1>1, <2>1, <2>4, GiveUpStep
<1>4. CASE UNCHANGED <<handle, store, cache, part>> /\ Fail
  <2>1. TypeOK'
    BY <1>1, <1>4 DEF Fail, TypeOK, Phases, asked, handle, store
  <2> QED BY <1>1, <1>4, <2>1, GiveUpStep DEF Fail, store
<1> QED BY <1>2, <1>3, <1>4 DEF WriteHeader

\* The record a partition's bitmap or unit becomes is appended to log.
LEMMA AppendRecord ==
  ASSUME log \in Seq(Record), NEW r \in Record, log' = Append(log, r)
  PROVE  /\ log' \in Seq(Record)
         /\ Len(log) \in Nat /\ Len(log') = Len(log) + 1
         /\ \A j \in 1..Len(log') : j \in 1..Len(log) \/ j = Len(log) + 1
OBVIOUS

\* WriteBitmap: the bitmap is in a file or in the cache once it is in the log.
LEMMA WriteBitmapStep == IInv /\ WriteBitmap => IInv'
<1> SUFFICES ASSUME IInv, WriteBitmap PROVE IInv'
  OBVIOUS
<1> DEFINE k == Len(log) + 1
           r == [part |-> part, kind |-> "bitmap", blocks |-> marked[part], good |-> TRUE]
<1>1. /\ TypeOK /\ pc = "part" /\ pc \in Building /\ part \in bIfBackup /\ k \in Nat
      /\ UNCHANGED <<asked, part, buffer, readok, hdr, ret, fault>>
  BY DEF IInv, TypeOK, WriteBitmap, Building
<1>2. r \in Record
  BY <1>1 DEF TypeOK, Record
<1> HIDE DEF k, r
<1>3. CASE FileWrite(k) /\ log' = Append(log, r) /\ cur' = 0 /\ lz4' = "data" /\ Goto("read")
  <2>1. /\ log' \in Seq(Record) /\ Len(log) \in Nat /\ Len(log') = Len(log) + 1
        /\ \A j \in 1..Len(log') : j \in 1..Len(log) \/ j = k
    BY <1>1, <1>2, <1>3, AppendRecord DEF TypeOK, k
  <2>2. cache' \subseteq 0..(Len(log') + 1)
    <3>1. cache' \subseteq cache \cup {k} /\ cache \subseteq 0..(Len(log) + 1)
      BY <1>1, <1>3, FileWriteEffect DEF TypeOK
    <3>2. k \in 0..(Len(log') + 1) /\ Len(log) <= Len(log') /\ Len(log') \in Nat
      BY <2>1 DEF k
    <3> QED BY <2>1, <3>1, <3>2, CacheBound
  <2>3. /\ body' \subseteq Nat \X Nat /\ head' \in Header /\ exist' \subseteq Nat
        /\ seg' \in Nat /\ size' \in Nat
        /\ bHandle' \in BOOLEAN /\ bFileCreated' \in BOOLEAN /\ ifneedseg' \in BOOLEAN
    BY <1>1, <1>3, FileWriteEffect DEF TypeOK
  <2>4. TypeOK' /\ PartInv'
    BY <1>1, <1>3, <2>1, <2>2, <2>3 DEF Goto, TypeOK, PartInv, Phases, asked
  <2> QED BY <1>1, <1>3, <2>1, <2>4, WriteStep DEF Goto, Building, asked
<1>4. CASE FileWriteFails(k) /\ Fail /\ UNCHANGED <<log, cur, lz4>>
  <2>1. head' \in {head, hdr} /\ pc' = "fail" /\ hdr' = hdr
    BY <1>1, <1>4, FileWriteFailsEffect DEF Fail
  <2>2. cache' \subseteq 0..(Len(log') + 1)
    <3>1. cache' \subseteq cache \cup {k} /\ cache \subseteq 0..(Len(log) + 1) /\ Len(log) \in Nat
      BY <1>1, <1>4, FileWriteFailsEffect DEF TypeOK
    <3>2. k \in 0..(Len(log) + 1) /\ log' = log
      BY <1>4, <3>1 DEF k
    <3> QED BY <3>1, <3>2, CacheBound
  <2>3. /\ body' \subseteq Nat \X Nat /\ head' \in Header /\ exist' \subseteq Nat
        /\ seg' \in Nat /\ size' \in Nat
        /\ bHandle' \in BOOLEAN /\ bFileCreated' \in BOOLEAN /\ ifneedseg' \in BOOLEAN
    BY <1>1, <1>4, FileWriteFailsEffect DEF TypeOK
  <2>4. TypeOK'
    BY <1>1, <1>4, <2>2, <2>3 DEF Fail, TypeOK, Phases, asked
  <2> QED BY <1>1, <2>1, <2>4, GiveUpStep
<1> QED BY <1>3, <1>4 DEF WriteBitmap, k, r

\* WriteUnit: so is a unit.
LEMMA WriteUnitStep == IInv /\ WriteUnit => IInv'
<1> SUFFICES ASSUME IInv, WriteUnit PROVE IInv'
  OBVIOUS
<1> DEFINE k == Len(log) + 1
           r == [part |-> part, kind |-> "unit", blocks |-> buffer, good |-> readok]
<1>1. /\ TypeOK /\ pc = "write" /\ pc \in Building /\ part \in bIfBackup /\ k \in Nat
      /\ UNCHANGED <<asked, engine, hdr, ret, fault>>
  BY DEF IInv, TypeOK, PartInv, WriteUnit, Building
<1>2. r \in Record
  BY <1>1 DEF TypeOK, Record
<1> HIDE DEF k, r
<1>3. CASE FileWrite(k) /\ log' = Append(log, r) /\ Goto("read")
  <2>1. /\ log' \in Seq(Record) /\ Len(log) \in Nat /\ Len(log') = Len(log) + 1
        /\ \A j \in 1..Len(log') : j \in 1..Len(log) \/ j = k
    BY <1>1, <1>2, <1>3, AppendRecord DEF TypeOK, k
  <2>2. cache' \subseteq 0..(Len(log') + 1)
    <3>1. cache' \subseteq cache \cup {k} /\ cache \subseteq 0..(Len(log) + 1)
      BY <1>1, <1>3, FileWriteEffect DEF TypeOK
    <3>2. k \in 0..(Len(log') + 1) /\ Len(log) <= Len(log') /\ Len(log') \in Nat
      BY <2>1 DEF k
    <3> QED BY <2>1, <3>1, <3>2, CacheBound
  <2>3. /\ body' \subseteq Nat \X Nat /\ head' \in Header /\ exist' \subseteq Nat
        /\ seg' \in Nat /\ size' \in Nat
        /\ bHandle' \in BOOLEAN /\ bFileCreated' \in BOOLEAN /\ ifneedseg' \in BOOLEAN
    BY <1>1, <1>3, FileWriteEffect DEF TypeOK
  <2>4. TypeOK' /\ PartInv'
    BY <1>1, <1>3, <2>1, <2>2, <2>3 DEF Goto, TypeOK, PartInv, Phases, asked, engine
  <2> QED BY <1>1, <1>3, <2>1, <2>4, WriteStep DEF Goto, Building, asked
<1>4. CASE FileWriteFails(k) /\ Fail /\ UNCHANGED log
  <2>1. head' \in {head, hdr} /\ pc' = "fail" /\ hdr' = hdr
    BY <1>1, <1>4, FileWriteFailsEffect DEF Fail
  <2>2. cache' \subseteq 0..(Len(log') + 1)
    <3>1. cache' \subseteq cache \cup {k} /\ cache \subseteq 0..(Len(log) + 1) /\ Len(log) \in Nat
      BY <1>1, <1>4, FileWriteFailsEffect DEF TypeOK
    <3>2. k \in 0..(Len(log) + 1) /\ log' = log
      BY <1>4, <3>1 DEF k
    <3> QED BY <3>1, <3>2, CacheBound
  <2>3. /\ body' \subseteq Nat \X Nat /\ head' \in Header /\ exist' \subseteq Nat
        /\ seg' \in Nat /\ size' \in Nat
        /\ bHandle' \in BOOLEAN /\ bFileCreated' \in BOOLEAN /\ ifneedseg' \in BOOLEAN
    BY <1>1, <1>4, FileWriteFailsEffect DEF TypeOK
  <2>4. TypeOK'
    BY <1>1, <1>4, <2>2, <2>3 DEF Fail, TypeOK, Phases, asked, engine
  <2> QED BY <1>1, <2>1, <2>4, GiveUpStep
<1> QED BY <1>3, <1>4 DEF WriteUnit, k, r

\* FinishData: what the cache still holds reaches the file, or there is no file.
LEMMA FinishDataStep == IInv /\ FinishData => IInv'
<1> SUFFICES ASSUME IInv, FinishData PROVE IInv'
  OBVIOUS
<1>1. /\ TypeOK /\ pc \in Building /\ pc' = "update" /\ FileClose
      /\ hdr' = [hdr EXCEPT !.bComplete = TRUE, !.FileNumber = seg + 1]
      /\ UNCHANGED <<asked, engine, bFileCreated, ifneedseg, seg, size, exist, check, ret, log>>
  BY DEF IInv, FinishData, Goto, Building
<1>2. /\ body \subseteq body' /\ body' \subseteq Nat \X Nat /\ head' \in {head, hdr}
      /\ cache' = {} /\ bHandle' = FALSE /\ fault' \subseteq FaultKinds
      /\ bHandle /\ "close" \notin fault' => \A j \in cache : <<seg, j>> \in body'
  BY <1>1, FileCloseEffect
<1>3. hdr' \in Header /\ hdr'.bComplete /\ hdr'.FileNumber = seg + 1 /\ seg \in Nat
  <2>1. seg \in Nat /\ seg + 1 \in Nat /\ hdr \in Header
    BY <1>1 DEF TypeOK
  <2>2. /\ hdr'.BackupDataSize = hdr.BackupDataSize /\ hdr'.bComplete = TRUE
        /\ hdr'.FileNumber = seg + 1
    BY <1>1, <2>1 DEF Header
  <2> QED BY <1>1, <2>1, <2>2 DEF Header
<1>4. ~head'.bComplete /\ head' \in Header
  BY <1>1, <1>2 DEF IInv, HeaderInv, TypeOK
<1>5. TypeOK'
  BY <1>1, <1>2, <1>3, <1>4 DEF TypeOK, Phases, asked, engine
<1>6. PartInv' /\ FreshInv' /\ HeaderInv' /\ BuildingInv' /\ DeleteInv'
  BY <1>1, <1>3, <1>4 DEF PartInv, FreshInv, HeaderInv, BuildingInv, DeleteInv, Building, Closing
<1>7. 0 \in exist /\ "close" \notin fault' => Durable(hdr.FileNumber)'
  <2> SUFFICES ASSUME 0 \in exist, "close" \notin fault' PROVE Durable(hdr.FileNumber)'
    OBVIOUS
  <2>1. /\ \A k \in 1..Len(log) : k \in cache \/ \E s \in 0..seg : <<s, k>> \in body
        /\ bHandle /\ 0..seg \subseteq exist
    BY <1>1 DEF IInv, BuildingInv
  <2>2. hdr'.FileNumber - 1 = seg /\ seg \in 0..seg
    BY <1>3
  <2>3. \A k \in 1..Len(log) : \E s \in 0..seg : <<s, k>> \in body'
    BY <1>2, <2>1, <2>2
  <2> QED BY <1>1, <2>1, <2>2, <2>3 DEF Durable
<1>8. ClosingInv'
  BY <1>1, <1>2, <1>7 DEF ClosingInv, Closing
<1>9. CompleteMeansDurable'
  BY <1>4 DEF CompleteMeansDurable, Complete
<1> QED BY <1>5, <1>6, <1>8, <1>9 DEF IInv

\* UpdateHeader: the completed header may now reach the disk; the data is there.
LEMMA UpdateHeaderStep == IInv /\ UpdateHeader => IInv'
<1> SUFFICES ASSUME IInv, UpdateHeader PROVE IInv'
  OBVIOUS
<1>1. /\ TypeOK /\ pc = "update" /\ pc' \in {"close", "fail"} /\ pc \in Closing
      /\ seg' = 0 /\ size' = 1 /\ ifneedseg' = FALSE /\ hdr.bComplete
      /\ UNCHANGED <<asked, engine, bFileCreated, exist, check, hdr, ret, log, fault>>
  BY DEF IInv, HeaderInv, UpdateHeader, Goto, Fail, Closing
<1>2. /\ cache = {} /\ cache' \subseteq {0} /\ (pc' = "fail" => cache' = {})
      /\ (pc' = "close" => 0 \in exist)
  BY <1>1 DEF IInv, ClosingInv, UpdateHeader, Goto, Fail
<1>3. /\ body' \in {body, body \cup {<<0, 0>>}} /\ head' \in {head, hdr}
      /\ (0 \in exist \/ (body' = body /\ head' = head)) /\ bHandle' \in BOOLEAN
  BY DEF UpdateHeader
<1>4. body \subseteq body' /\ body' \subseteq Nat \X Nat /\ cache' \subseteq 0..(Len(log) + 1)
  BY <1>1, <1>2, <1>3 DEF TypeOK
<1>5. TypeOK'
  BY <1>1, <1>3, <1>4 DEF TypeOK, Phases, asked, engine
<1>6. PartInv' /\ FreshInv' /\ BuildingInv' /\ DeleteInv'
  BY <1>1 DEF PartInv, FreshInv, BuildingInv, DeleteInv, Building
<1>7. HeaderInv'
  BY <1>1, <1>3 DEF IInv, HeaderInv, Building, Closing
<1>8. 0 \in exist /\ "close" \notin fault => Durable(hdr.FileNumber)'
  BY <1>1, <1>4 DEF IInv, ClosingInv, Durable
<1>9. ClosingInv'
  BY <1>1, <1>2, <1>8 DEF ClosingInv, Closing
<1>10. CompleteMeansDurable'
  <2>1. CASE 0 \in exist
    BY <1>1, <1>7, <1>8, <2>1 DEF CompleteMeansDurable, Complete, HeaderInv
  <2>2. CASE 0 \notin exist
    BY <1>1, <1>3, <2>2 DEF IInv, CompleteMeansDurable, Complete, Durable
  <2> QED BY <2>1, <2>2
<1> QED BY <1>5, <1>6, <1>7, <1>9, <1>10 DEF IInv

\* CloseHeader: the completed header reaches a disk that has all records.
LEMMA CloseHeaderStep == IInv /\ CloseHeader => IInv'
<1> SUFFICES ASSUME IInv, CloseHeader PROVE IInv'
  OBVIOUS
<1>1. /\ TypeOK /\ pc = "close" /\ pc' = "check" /\ pc \in Closing /\ hdr.bComplete
      /\ 0 \in exist /\ FileClose
      /\ UNCHANGED <<asked, engine, bFileCreated, ifneedseg, seg, size, exist, check, hdr, ret, log>>
  BY DEF IInv, HeaderInv, ClosingInv, CloseHeader, Goto, Closing
<1>2. /\ body \subseteq body' /\ body' \subseteq Nat \X Nat /\ head' \in {head, hdr}
      /\ cache' = {} /\ bHandle' = FALSE /\ fault \subseteq fault' /\ fault' \subseteq FaultKinds
  BY <1>1, FileCloseEffect
<1>3. TypeOK'
  BY <1>1, <1>2 DEF TypeOK, Phases, asked, engine
<1>4. PartInv' /\ FreshInv' /\ BuildingInv' /\ DeleteInv'
  BY <1>1 DEF PartInv, FreshInv, BuildingInv, DeleteInv, Building
<1>5. HeaderInv'
  BY <1>1, <1>2 DEF IInv, HeaderInv, Building, Closing
<1>6. "close" \notin fault' => Durable(hdr.FileNumber)'
  BY <1>1, <1>2 DEF IInv, ClosingInv, Durable
<1>7. ClosingInv'
  BY <1>1, <1>2, <1>6 DEF ClosingInv, Closing
<1>8. CompleteMeansDurable'
  BY <1>1, <1>5, <1>6 DEF CompleteMeansDurable, Complete, HeaderInv
<1> QED BY <1>3, <1>4, <1>5, <1>7, <1>8 DEF IInv

\* FailClose: a complete header is never in the cache of a run that failed.
LEMMA FailCloseStep == IInv /\ FailClose => IInv'
<1> SUFFICES ASSUME IInv, FailClose PROVE IInv'
  OBVIOUS
<1>1. /\ TypeOK /\ pc = "fail" /\ pc' \in {"delete", "done"} /\ part' = 0 /\ FileClose
      /\ UNCHANGED <<asked, cur, buffer, readok, lz4, bFileCreated, ifneedseg, seg,
                     size, exist, check, hdr, ret, log>>
  BY DEF IInv, FailClose, Goto
<1>2. /\ body \subseteq body' /\ body' \subseteq Nat \X Nat /\ head' \in {head, hdr}
      /\ (0 \notin cache => head' = head)
      /\ cache' = {} /\ bHandle' = FALSE /\ fault \subseteq fault' /\ fault' \subseteq FaultKinds
  BY <1>1, FileCloseEffect
<1>3. TypeOK'
  BY <1>1, <1>2 DEF TypeOK, Phases, asked
<1>4. PartInv' /\ FreshInv' /\ BuildingInv' /\ DeleteInv' /\ ClosingInv'
  BY <1>1 DEF PartInv, FreshInv, BuildingInv, DeleteInv, ClosingInv, Building, Closing
<1>5. HeaderInv'
  BY <1>1, <1>2 DEF IInv, HeaderInv, Building, Closing
<1>6. hdr.bComplete => head' = head /\ body' = body
  BY <1>1, <1>2 DEF IInv, ClosingInv, FileClose, Store
<1>7. CompleteMeansDurable'
  <2>1. CASE hdr.bComplete
    BY <1>1, <1>2, <1>6, <2>1 DEF IInv, CompleteMeansDurable, Complete, Durable
  <2>2. CASE ~hdr.bComplete
    BY <1>1, <1>5, <2>2 DEF CompleteMeansDurable, Complete, HeaderInv
  <2> QED BY <2>1, <2>2
<1> QED BY <1>3, <1>4, <1>5, <1>7 DEF IInv

\* DeleteFiles: the header goes first.
LEMMA DeleteFilesStep == IInv /\ DeleteFiles => IInv'
<1> SUFFICES ASSUME IInv, DeleteFiles PROVE IInv'
  OBVIOUS
<1>1. /\ TypeOK /\ part \in Nat /\ pc = "delete" /\ pc' \in {"delete", "done"}
      /\ part' = part + 1 /\ FileDelete(part)
      /\ UNCHANGED <<asked, cur, buffer, readok, lz4, handle, hdr, ret, cache, log>>
  BY DEF IInv, TypeOK, DeleteFiles, DeleteOne, Goto
<1>2. /\ exist' \subseteq Nat /\ body' \subseteq body
      /\ fault \subseteq fault' /\ fault' \subseteq FaultKinds
      /\ "delete" \notin fault' => \A x \in body' : x[1] # part
      /\ UNCHANGED <<head, check>>
  BY <1>1, FileDeleteEffect
<1>3. "delete" \notin fault' => <<0, 0>> \notin body'
  BY <1>1, <1>2 DEF IInv, DeleteInv
<1>4. TypeOK'
  BY <1>1, <1>2 DEF TypeOK, Phases, asked, handle
<1>5. PartInv' /\ FreshInv' /\ BuildingInv' /\ DeleteInv' /\ ClosingInv'
  BY <1>1, <1>3 DEF PartInv, FreshInv, BuildingInv, DeleteInv, ClosingInv, Building, Closing
<1>6. HeaderInv'
  BY <1>1, <1>2 DEF IInv, HeaderInv, Building, Closing
<1>7. CompleteMeansDurable'
  BY <1>3 DEF CompleteMeansDurable, Complete
<1> QED BY <1>4, <1>5, <1>6, <1>7 DEF IInv

\* GetBackupFileList: a deletion is begun only for an image that is not complete.
LEMMA GetBackupFileListStep == IInv /\ GetBackupFileList => IInv'
<1> SUFFICES ASSUME IInv, GetBackupFileList PROVE IInv'
  OBVIOUS
<1>1. /\ TypeOK /\ pc \in {"done", "off"} /\ pc' \in {"listdelete", "listed"}
      /\ (pc' = "listdelete" => ~head.bComplete) /\ part' \in Nat
      /\ UNCHANGED <<asked, cur, buffer, readok, lz4, handle, store, hdr, ret, cache, log>>
  BY DEF IInv, TypeOK, GetBackupFileList, Goto
<1>2. fault \subseteq fault' /\ fault' \subseteq FaultKinds
  BY <1>1 DEF TypeOK, GetBackupFileList, FaultKinds
<1>3. TypeOK'
  BY <1>1, <1>2 DEF TypeOK, Phases, asked, handle, store
<1>4. PartInv' /\ FreshInv' /\ BuildingInv' /\ ClosingInv'
  BY <1>1 DEF PartInv, FreshInv, BuildingInv, ClosingInv, Building, Closing
<1>5. HeaderInv' /\ DeleteInv'
  BY <1>1 DEF IInv, HeaderInv, DeleteInv, Building, Closing, store
<1>6. CompleteMeansDurable'
  BY <1>1, <1>2 DEF IInv, CompleteMeansDurable, Complete, Durable, store
<1> QED BY <1>3, <1>4, <1>5, <1>6 DEF IInv

\* DeleteUnfinished: what is deleted has no complete header.
LEMMA DeleteUnfinishedStep == IInv /\ DeleteUnfinished => IInv'
<1> SUFFICES ASSUME IInv, DeleteUnfinished PROVE IInv'
  OBVIOUS
<1> DEFINE n == IF part <= MaxDele THEN part ELSE 0
<1>1. /\ TypeOK /\ n \in Nat /\ pc = "listdelete" /\ pc' \in {"listdelete", "listed"}
      /\ part' \in Nat /\ FileDelete(n) /\ ~head.bComplete
      /\ UNCHANGED <<asked, cur, buffer, readok, lz4, handle, hdr, ret, cache, log>>
  BY DEF IInv, TypeOK, DeleteInv, DeleteUnfinished, DeleteOne, Goto
<1> HIDE DEF n
<1>2. /\ exist' \subseteq Nat /\ body' \subseteq body /\ fault' \subseteq FaultKinds
      /\ UNCHANGED <<head, check>>
  BY <1>1, FileDeleteEffect
<1>3. TypeOK'
  BY <1>1, <1>2 DEF TypeOK, Phases, asked, handle
<1>4. PartInv' /\ FreshInv' /\ BuildingInv' /\ DeleteInv' /\ ClosingInv'
  BY <1>1, <1>2 DEF PartInv, FreshInv, BuildingInv, DeleteInv, ClosingInv, Building, Closing
<1>5. HeaderInv' /\ CompleteMeansDurable'
  BY <1>1, <1>2 DEF HeaderInv, CompleteMeansDurable, Complete, Building, Closing
<1> QED BY <1>3, <1>4, <1>5 DEF IInv

-----------------------------------------------------------------------------
(***************************************************************************)
(* The theorems.                                                           *)
(***************************************************************************)

\* IInv holds when Backup is entered: there is no file yet.
LEMMA InitIInv == Init => IInv
<1> SUFFICES ASSUME Init PROVE IInv
  OBVIOUS
<1>1. hdr \in Header /\ head \in Header /\ ~hdr.bComplete /\ ~head.bComplete
  BY DEF Init, CreateImageHeader, Header
<1>2. TypeOK
  <2>1. log \in Seq(Record) /\ cache \subseteq 0..(Len(log) + 1)
    BY DEF Init
  <2>2. ret \in {-1, 0} /\ part \in Nat /\ cur \in Nat /\ seg \in Nat /\ size \in Nat
    BY DEF Init
  <2>3. /\ readok \in BOOLEAN /\ bHandle \in BOOLEAN /\ bFileCreated \in BOOLEAN
        /\ ifneedseg \in BOOLEAN
    BY DEF Init
  <2> QED BY <1>1, <2>1, <2>2, <2>3 DEF Init, TypeOK, Phases
<1>3. PartInv /\ FreshInv /\ BuildingInv /\ ClosingInv /\ DeleteInv
  BY DEF Init, PartInv, FreshInv, BuildingInv, ClosingInv, DeleteInv, Building, Closing
<1>4. HeaderInv /\ CompleteMeansDurable
  BY <1>1 DEF Init, HeaderInv, CompleteMeansDurable, Complete, Closing
<1> QED BY <1>2, <1>3, <1>4 DEF IInv

\* Every step of the engine, of the scan and of the power supply keeps the
\* invariant.
LEMMA NextIInv == IInv /\ [Next]_vars => IInv'
<1> SUFFICES ASSUME IInv, [Next]_vars PROVE IInv'
  OBVIOUS
<1>1. CASE Engine
  BY <1>1, PrepareStep, CreateFileStep, WriteHeaderStep, SkipPartStep, WriteBitmapStep,
     ReadUnitStep, EndPartStep, WriteUnitStep, BreakWriteStep, FinishDataStep,
     UpdateHeaderStep, CloseHeaderStep, CheckValueStep, FailCloseStep, DeleteFilesStep
     DEF Engine
<1>2. CASE Scan
  BY <1>2, GetBackupFileListStep, DeleteUnfinishedStep DEF Scan
<1>3. CASE PowerLoss
  BY <1>3, PowerLossStep
<1>4. CASE Listed \/ UNCHANGED vars
  BY <1>4, StutterStep DEF Listed
<1> QED BY <1>1, <1>2, <1>3, <1>4 DEF Next

\* The inductive invariant holds in every state of every behaviour of Backup.
THEOREM BackupInductive == Spec => []IInv
<1>1. Init => IInv
  BY InitIInv
<1>2. IInv /\ [Next]_vars => IInv'
  BY NextIInv
<1> QED BY <1>1, <1>2, PTL DEF Spec

\* Backup is type correct for every number of partitions, blocks and segments:
\* the counters it keeps stay natural numbers and the write-behind cache only
\* ever holds records FileWrite was given.
THEOREM BackupTypeOK == Spec => []TypeOK
<1>1. IInv => TypeOK
  BY DEF IInv
<1> QED BY <1>1, BackupInductive, PTL

\* At every instant, power losses included, a file that says bComplete has all
\* its data on the disk (the order in which Backup closes, updates the header
\* and deletes), whatever the sizes are and whatever else fails.
THEOREM CompleteIsDurable == Spec => []CompleteMeansDurable
<1>1. IInv => CompleteMeansDurable
  BY DEF IInv
<1> QED BY <1>1, BackupInductive, PTL

-----------------------------------------------------------------------------
(***************************************************************************)
(* OrderInv: where the records are.                                        *)
(***************************************************************************)

\* Files in which the records are in order stay so when records of one file are
\* added that none of the others comes after.
LEMMA OrderKept ==
  ASSUME TypeOK, ReadsBackInOrder, NEW F \in SUBSET Nat,
         body' \subseteq body \cup {<<seg, k>> : k \in F},
         \/ F \subseteq {0}
         \/ \A x \in body : x[1] = seg
         \/ \E k \in Nat : F \subseteq {k} /\ \A x \in body : x[1] <= seg /\ x[2] < k
  PROVE  ReadsBackInOrder'
<1> SUFFICES ASSUME NEW x \in body', NEW y \in body', 0 < x[2], x[2] < y[2]
             PROVE  x[1] <= y[1]
  BY DEF ReadsBackInOrder
<1>1. body \subseteq Nat \X Nat /\ seg \in Nat
  BY DEF TypeOK
<1>2. x \in body \/ (x[1] = seg /\ x[2] \in F)
  OBVIOUS
<1>3. y \in body \/ (y[1] = seg /\ y[2] \in F)
  OBVIOUS
<1>4. x[1] \in Nat /\ x[2] \in Nat /\ y[1] \in Nat /\ y[2] \in Nat
  BY <1>1, <1>2, <1>3
<1>5. CASE x \in body /\ y \in body
  BY <1>5 DEF ReadsBackInOrder
<1>6. CASE ~(x \in body /\ y \in body)
  <2>1. CASE F \subseteq {0}
    BY <1>2, <1>3, <1>4, <1>6, <2>1
  <2>2. CASE \A z \in body : z[1] = seg
    BY <1>1, <1>2, <1>3, <2>2
  <2>3. ASSUME NEW k \in Nat, F \subseteq {k}, \A z \in body : z[1] <= seg /\ z[2] < k
        PROVE  x[1] <= y[1]
    BY <1>1, <1>2, <1>3, <1>4, <1>6, <2>3
  <2> QED BY <2>1, <2>2, <2>3
<1> QED BY <1>5, <1>6

\* What a FileWrite of the next record, or of record 0, adds to the files.
LEMMA FileWriteOrder ==
  ASSUME IInv, OrderInv, pc \in Building, NEW k \in Nat, FileWrite(k),
         k = Len(log) + 1 \/ k = 0, NEW n \in Nat, k <= n, Len(log) <= n
  PROVE  /\ ~ifntfs => cache' = {}
         /\ ifntfs => seg' = 0 /\ \A x \in body' : x[1] = 0
         /\ ~ifntfs => \A x \in body' : x[1] <= seg' /\ x[2] <= n
         /\ ReadsBackInOrder'
<1>1. TypeOK /\ seg \in Nat /\ Len(log) \in Nat /\ body \subseteq Nat \X Nat
      /\ cache \subseteq 0..(Len(log) + 1)
  BY DEF IInv, TypeOK
<1>2. ~ifntfs => \A x \in body :
                   x[1] \in Nat /\ x[2] \in Nat /\ x[1] <= seg /\ x[2] <= Len(log)
  BY <1>1 DEF OrderInv
<1>3. CASE FatWrite(k)
  <2>1. ~ifntfs /\ cache = {} /\ cache' = {} /\ body' = body \cup {<<seg, j>> : j \in {k}}
        /\ seg' \in {seg, seg + 1}
    BY <1>3 DEF FatWrite, Store, OrderInv
  <2>2. \A x \in body' : x[1] <= seg' /\ x[2] <= n
    BY <1>1, <1>2, <2>1
  <2>3. {k} \subseteq {0} \/ \A x \in body : x[1] <= seg /\ x[2] < k
    BY <1>1, <1>2, <2>1
  <2>4. ReadsBackInOrder'
    BY <1>1, <2>1, <2>3, OrderKept DEF OrderInv
  <2> QED BY <2>1, <2>2, <2>4
<1>4. CASE NtfsWrite(k)
  <2>1. PICK F \in Prefixes(cache \cup {k}) : Store(F)
    BY <1>4 DEF NtfsWrite
  <2>2. ifntfs /\ seg = 0 /\ seg' = 0 /\ F \subseteq cache \cup {k}
        /\ body' = body \cup {<<seg, j>> : j \in F} /\ \A x \in body : x[1] = 0
    BY <1>4, <2>1, PrefixesSubset DEF NtfsWrite, Store, OrderInv
  <2>3. \A j \in F : j \in Nat
    BY <1>1, <2>2
  <2>4. ReadsBackInOrder'
    BY <1>1, <2>2, <2>3, OrderKept DEF OrderInv
  <2> QED BY <2>2, <2>4
<1> QED BY <1>3, <1>4 DEF FileWrite

\* A FileWrite that failed: the record it may have added is the last one.
LEMMA FileWriteFailsOrder ==
  ASSUME IInv, OrderInv, pc \in Building, NEW k \in Nat, FileWriteFails(k),
         k = Len(log) + 1 \/ k = 0
  PROVE  /\ ~ifntfs => cache' = {}
         /\ ifntfs => seg' = 0 /\ \A x \in body' : x[1] = 0
         /\ ReadsBackInOrder'
<1>1. TypeOK /\ seg \in Nat /\ Len(log) \in Nat /\ body \subseteq Nat \X Nat
      /\ cache \subseteq 0..(Len(log) + 1)
  BY DEF IInv, TypeOK
<1>2. /\ ~ifntfs => cache = {}
      /\ ~ifntfs => \A x \in body : x[1] \in Nat /\ x[2] \in Nat /\ x[1] <= seg /\ x[2] <= Len(log)
      /\ ifntfs => seg = 0 /\ \A x \in body : x[1] = 0
      /\ ReadsBackInOrder
  BY <1>1 DEF OrderInv
<1>3. ASSUME NEW F, F \subseteq {0}, Store(F), (ifntfs => F = {}), UNCHANGED <<seg, cache>>
      PROVE  /\ ~ifntfs => cache' = {}
             /\ ifntfs => seg' = 0 /\ \A x \in body' : x[1] = 0
             /\ ReadsBackInOrder'
  <2>1. body' = body \cup {<<seg, j>> : j \in F} /\ F \in SUBSET Nat
    BY <1>3 DEF Store
  <2>2. ReadsBackInOrder'
    <3>1. TypeOK /\ ReadsBackInOrder /\ F \in SUBSET Nat /\ F \subseteq {0}
          /\ body' \subseteq body \cup {<<seg, j>> : j \in F}
      BY <1>1, <1>2, <1>3, <2>1
    <3> QED BY <3>1, OrderKept
  <2> QED BY <1>2, <1>3, <2>1, <2>2
<1>4. CASE ~ifntfs /\ Store({k}) /\ UNCHANGED cache
  <2>1. body' = body \cup {<<seg, j>> : j \in {k}}
    BY <1>4 DEF Store
  <2>2. {k} \subseteq {0} \/ \A x \in body : x[1] <= seg /\ x[2] < k
    BY <1>1, <1>2, <1>4
  <2>3. ReadsBackInOrder'
    <3>1. {k} \in SUBSET Nat /\ body' \subseteq body \cup {<<seg, j>> : j \in {k}}
      BY <2>1
    <3>2. \/ {k} \subseteq {0}
          \/ \E i \in Nat : {k} \subseteq {i} /\ \A x \in body : x[1] <= seg /\ x[2] < i
      BY <2>2
    <3> HIDE <2>1, <2>2
    <3> QED BY <1>1, <1>2, <3>1, <3>2, OrderKept
  <2> QED BY <1>2, <1>4, <2>3
<1>5. ASSUME ifntfs, NEW F \in Prefixes(cache \cup {k}), Store(F), UNCHANGED seg
      PROVE  seg' = 0 /\ (\A x \in body' : x[1] = 0) /\ ReadsBackInOrder'
  <2>1. body' = body \cup {<<seg, j>> : j \in F} /\ F \subseteq cache \cup {k}
    BY <1>5, PrefixesSubset DEF Store
  <2>2. F \in SUBSET Nat
    BY <1>1, <2>1
  <2>3. ReadsBackInOrder'
    BY <1>1, <1>2, <1>5, <2>1, <2>2, OrderKept
  <2> QED BY <1>2, <1>5, <2>1, <2>3
<1> QED BY <1>3, <1>4, <1>5 DEF FileWriteFails

\* FileClose writes what the cache holds, on NTFS into the only file.
LEMMA FileCloseOrder ==
  ASSUME IInv, OrderInv, FileClose
  PROVE  /\ cache' = {} /\ ReadsBackInOrder'
         /\ ifntfs => \A x \in body' : x[1] = 0
         /\ ~ifntfs => body' = body
<1>1. TypeOK /\ cache \subseteq 0..(Len(log) + 1) /\ Len(log) \in Nat
      /\ (~ifntfs => cache = {}) /\ (ifntfs => seg = 0 /\ \A x \in body : x[1] = 0)
      /\ ReadsBackInOrder
  BY DEF IInv, TypeOK, OrderInv
<1>2. PICK F \in SUBSET cache : Store(F)
  <2>1. CASE Store(IF bHandle THEN cache ELSE {})
    BY <2>1
  <2>2. CASE \E F \in Prefixes(cache) \ {cache} : Store(F)
    BY <2>2, PrefixesSubset
  <2> QED BY <2>1, <2>2 DEF FileClose
<1>3. body' = body \cup {<<seg, j>> : j \in F}
  BY <1>2 DEF Store
<1>4. F \in SUBSET Nat
  BY <1>1, <1>2
<1>5. (~ifntfs => F = {}) /\ (ifntfs => \A x \in body : x[1] = seg)
  BY <1>1, <1>2
<1>6. ReadsBackInOrder'
  BY <1>1, <1>3, <1>4, <1>5, OrderKept
<1> QED BY <1>1, <1>3, <1>5, <1>6 DEF FileClose

\* Every step keeps the records in order.
LEMMA OrderStep == IInv /\ IInv' /\ OrderInv /\ [Next]_vars => OrderInv'
<1> SUFFICES ASSUME IInv, IInv', OrderInv, [Next]_vars PROVE OrderInv'
  OBVIOUS
<1>1. /\ TypeOK /\ Len(log) \in Nat
      /\ (~ifntfs => cache = {}) /\ (ifntfs => seg = 0 /\ \A x \in body : x[1] = 0)
      /\ ReadsBackInOrder /\ body \subseteq Nat \X Nat /\ seg \in Nat
  BY DEF IInv, TypeOK, OrderInv
<1>2. ifntfs' = ifntfs
  BY DEF Next, Engine, Scan, Prepare, CreateFile, WriteHeader, SkipPart, WriteBitmap, ReadUnit,
         EndPart, WriteUnit, BreakWrite, FinishData, UpdateHeader, CloseHeader,
         CalculateFileCheckValue, FailClose, DeleteFiles, DeleteOne, GetBackupFileList,
         DeleteUnfinished, PowerLoss, Listed, vars, asked
<1>3. ASSUME body' \subseteq body, seg' = seg, cache' \subseteq cache,
             \/ pc' \notin Building
             \/ pc \in Building /\ log' = log
             \/ body' = {}
      PROVE  OrderInv'
  <2>1. ReadsBackInOrder'
    BY <1>1, <1>3 DEF ReadsBackInOrder
  <2> QED BY <1>1, <1>2, <1>3, <2>1 DEF OrderInv
<1>4. ASSUME FileClose, seg' = seg, pc' \notin Building
      PROVE  OrderInv'
  BY <1>1, <1>2, <1>4, FileCloseOrder DEF OrderInv
<1>5. CASE Prepare \/ SkipPart \/ ReadUnit \/ EndPart \/ BreakWrite \/ PowerLoss
           \/ CalculateFileCheckValue \/ GetBackupFileList
  <2>1. body' \subseteq body /\ seg' = seg /\ cache' \subseteq cache
    BY <1>5 DEF Prepare, SkipPart, ReadUnit, EndPart, BreakWrite, CalculateFileCheckValue,
                GetBackupFileList, PowerLoss, handle, store
  <2>2. pc' \notin Building \/ (pc \in Building /\ log' = log)
    BY <1>5 DEF Prepare, SkipPart, ReadUnit, EndPart, BreakWrite, CalculateFileCheckValue,
                GetBackupFileList, PowerLoss, Goto, Fail, Building
  <2> QED BY <1>3, <2>1, <2>2
<1>6. CASE CreateFile
  BY <1>3, <1>6 DEF CreateFile, IInv, FreshInv
<1>7. CASE WriteHeader
  <2>1. pc \in Building /\ log' = log
    BY <1>7 DEF WriteHeader, Building
  <2>2. CASE FileWrite(0)
    BY <1>1, <1>2, <2>1, <2>2, FileWriteOrder DEF OrderInv
  <2>3. CASE FileWriteFails(0) /\ Fail
    BY <1>2, <2>1, <2>3, FileWriteFailsOrder DEF OrderInv, Fail, Building
  <2>4. CASE UNCHANGED <<handle, store, cache, part>> /\ Fail
    BY <1>3, <2>4 DEF handle, store, Fail, Building
  <2> QED BY <1>7, <2>2, <2>3, <2>4 DEF WriteHeader
<1>8. CASE WriteBitmap \/ WriteUnit
  <2> DEFINE n == Len(log) + 1
  <2>1. pc \in Building /\ n \in Nat
    BY <1>1, <1>8 DEF WriteBitmap, WriteUnit, Building
  <2>2. CASE FileWrite(n) /\ \E r : log' = Append(log, r)
    <3>1. Len(log') = n
      <4>1. log \in Seq(Record)
        BY <1>1 DEF TypeOK
      <4> QED BY <2>2, <4>1
    <3> QED BY <1>1, <1>2, <2>1, <2>2, <3>1, FileWriteOrder DEF OrderInv
  <2>3. CASE FileWriteFails(n) /\ Fail
    BY <1>2, <2>1, <2>3, FileWriteFailsOrder DEF OrderInv, Fail, Building
  <2> QED BY <1>8, <2>2, <2>3 DEF WriteBitmap, WriteUnit
<1>9. CASE FinishData \/ CloseHeader \/ FailClose
  <2>1. FileClose /\ seg' = seg /\ pc' \notin Building
    BY <1>9 DEF FinishData, CloseHeader, FailClose, Goto, Building
  <2> QED BY <1>4, <2>1
<1>10. CASE UpdateHeader
  <2>1. /\ body' \subseteq body \cup {<<0, 0>>} /\ seg' = 0 /\ pc' \notin Building
        /\ (~ifntfs => cache' = cache)
    BY <1>10 DEF UpdateHeader, Goto, Fail, Building
  <2>2. ReadsBackInOrder'
    BY <1>1, <2>1 DEF ReadsBackInOrder
  <2> QED BY <1>1, <1>2, <2>1, <2>2 DEF OrderInv
<1>11. CASE DeleteFiles \/ DeleteUnfinished
  <2>1. body' \subseteq body /\ seg' = seg /\ cache' = cache /\ pc' \notin Building
    BY <1>11 DEF DeleteFiles, DeleteUnfinished, DeleteOne, FileDelete, handle, Goto, Building
  <2> QED BY <1>3, <2>1
<1>12. CASE Listed \/ UNCHANGED vars
  BY <1>3, <1>12 DEF Listed, vars, store, handle
<1> QED BY <1>5, <1>6, <1>7, <1>8, <1>9, <1>10, <1>11, <1>12 DEF Next, Engine, Scan

-----------------------------------------------------------------------------
(***************************************************************************)
(* FilesInv: which files there are.                                        *)
(***************************************************************************)

\* A write creates at most the next segment, and moves the handle to it.
LEMMA FileWriteFiles ==
  ASSUME TypeOK, exist \subseteq 0..seg, NEW k \in Nat, FileWrite(k) \/ FileWriteFails(k)
  PROVE  exist' \subseteq 0..seg' /\ bFileCreated' = bFileCreated
<1>1. seg \in Nat
  BY DEF TypeOK
<1>2. CASE FileWrite(k)
  <2>1. bFileCreated' = bFileCreated
    BY <1>2 DEF FileWrite
  <2>2. \/ seg' = seg + 1 /\ exist' = exist \cup {seg + 1}
        \/ seg' = seg /\ exist' = exist
    BY <1>2 DEF FileWrite, FatWrite, NtfsWrite
  <2>3. \A n \in exist \cup {seg + 1} : n \in 0..(seg + 1)
    BY <1>1
  <2>4. exist' \subseteq 0..seg'
    BY <2>2, <2>3
  <2> QED BY <2>1, <2>4
<1>3. CASE FileWriteFails(k)
  BY <1>1, <1>3 DEF FileWriteFails
<1> QED BY <1>2, <1>3

\* Every step keeps track of the files.
LEMMA FilesStep == IInv /\ IInv' /\ FilesInv /\ [Next]_vars => FilesInv'
<1> SUFFICES ASSUME IInv, IInv', FilesInv, [Next]_vars PROVE FilesInv'
  OBVIOUS
<1> USE DEF Building, Closing
<1>1. TypeOK /\ seg \in Nat /\ part \in Nat /\ ret \in {-1, 0} /\ Len(log) + 1 \in Nat
      /\ (pc \in {"start", "create"} => exist = {} /\ seg = 0)
      /\ (pc \in Building \cup {"start", "create"} => ~hdr.bComplete)
      /\ (pc \in Closing => hdr.bComplete)
  BY DEF IInv, TypeOK, FreshInv, HeaderInv
<1>2. ASSUME pc' \in {"start", "create", "off", "listed", "listdelete"}
      PROVE  FilesInv'
  BY <1>2 DEF FilesInv, AbortCleansUp
<1>3. ASSUME pc \in Building, pc' \in Building \cup {"fail", "update"},
             bFileCreated' = bFileCreated, exist' \subseteq 0..seg'
      PROVE  FilesInv'
  BY <1>3 DEF FilesInv, AbortCleansUp
<1>4. CASE Prepare
  BY <1>1, <1>4 DEF Prepare, Goto, store, handle, FilesInv, AbortCleansUp
<1>5. CASE CreateFile
  BY <1>1, <1>5 DEF CreateFile, Goto, Fail, FilesInv, AbortCleansUp
<1>6. CASE WriteHeader \/ WriteBitmap \/ WriteUnit
  <2>1. pc \in Building /\ pc' \in Building \cup {"fail"} /\ exist \subseteq 0..seg
    BY <1>6 DEF WriteHeader, WriteBitmap, WriteUnit, Goto, Fail, FilesInv
  <2>2. \/ \E k \in Nat : FileWrite(k) \/ FileWriteFails(k)
        \/ UNCHANGED <<exist, seg, bFileCreated>>
    BY <1>1, <1>6 DEF WriteHeader, WriteBitmap, WriteUnit, handle, store
  <2> QED BY <1>1, <1>3, <2>1, <2>2, FileWriteFiles
<1>7. CASE SkipPart \/ ReadUnit \/ EndPart \/ BreakWrite \/ FinishData
  <2>1. pc \in Building /\ pc' \in Building \cup {"fail", "update"}
        /\ UNCHANGED <<exist, seg, bFileCreated>>
    BY <1>7 DEF SkipPart, ReadUnit, EndPart, BreakWrite, FinishData, Goto, Fail, handle, store
  <2> QED BY <1>3, <2>1 DEF FilesInv
<1>8. CASE UpdateHeader \/ CloseHeader
  <2>1. pc \in Closing /\ pc' \in {"close", "check", "fail"} /\ hdr.bComplete /\ hdr' = hdr
        /\ bFileCreated /\ bFileCreated'
    BY <1>1, <1>8 DEF UpdateHeader, CloseHeader, Goto, Fail, FilesInv
  <2> QED BY <2>1 DEF FilesInv, AbortCleansUp
<1>9. CASE CalculateFileCheckValue
  <2>1. pc \in Closing /\ (pc' = "fail" \/ (pc' = "done" /\ ret' = 0)) /\ hdr.bComplete /\ hdr' = hdr
        /\ bFileCreated /\ bFileCreated'
    BY <1>1, <1>9 DEF CalculateFileCheckValue, Goto, Fail, FilesInv, handle
  <2> QED BY <2>1 DEF FilesInv, AbortCleansUp
<1>10. CASE FailClose
  <2>1. /\ pc = "fail" /\ pc' = (IF bFileCreated THEN "delete" ELSE "done") /\ part' = 0
        /\ UNCHANGED <<exist, seg, hdr, bFileCreated>>
    BY <1>10 DEF FailClose, Goto
  <2>2. ~hdr'.bComplete => exist' \subseteq 0..seg'
    BY <2>1 DEF FilesInv
  <2>3. ~bFileCreated => exist' = {}
    BY <2>1 DEF FilesInv
  <2>4. part' <= seg' /\ part'..seg' = 0..seg'
    BY <1>1, <2>1
  <2> QED BY <2>1, <2>2, <2>3, <2>4 DEF FilesInv, AbortCleansUp
<1>11. CASE DeleteFiles
  <2>1. /\ pc = "delete" /\ FileDelete(part) /\ part' = part + 1
        /\ pc' = (IF part < seg THEN "delete" ELSE "done") /\ UNCHANGED <<seg, hdr, ret>>
    BY <1>11 DEF DeleteFiles, DeleteOne, Goto, handle
  <2>2. "delete" \notin fault' => "delete" \notin fault /\ exist' = exist \ {part}
    BY <2>1 DEF FileDelete
  <2>3. ~hdr.bComplete /\ "delete" \notin fault' => part <= seg /\ exist' \subseteq (part + 1)..seg
    BY <1>1, <2>1, <2>2 DEF FilesInv
  <2>4. CASE part < seg
    <3>1. part + 1 <= seg
      BY <1>1, <2>4
    <3> QED BY <2>1, <2>3, <2>4, <3>1 DEF FilesInv, AbortCleansUp
  <2>5. CASE ~(part < seg)
    <3>1. (part + 1)..seg = {}
      BY <1>1, <2>5
    <3> QED BY <2>1, <2>3, <2>5, <3>1 DEF FilesInv, AbortCleansUp
  <2> QED BY <2>4, <2>5
<1>12. CASE GetBackupFileList \/ DeleteUnfinished \/ PowerLoss
  BY <1>2, <1>12 DEF GetBackupFileList, DeleteUnfinished, DeleteOne, PowerLoss, Goto
<1>13. CASE Listed \/ UNCHANGED vars
  BY <1>13 DEF Listed, vars, handle, store, engine, FilesInv, AbortCleansUp
<1> QED BY <1>4, <1>5, <1>6, <1>7, <1>8, <1>9, <1>10, <1>11, <1>12, <1>13 DEF Next, Engine, Scan

-----------------------------------------------------------------------------
(***************************************************************************)
(* ScanInv and SuccessInv.                                                 *)
(***************************************************************************)

\* What one round of the scan's deletion loop does.
LEMMA DeleteUnfinishedEffect ==
  ASSUME IInv, ScanInv, DeleteUnfinished
  PROVE  /\ pc = "listdelete" /\ part \in Nat /\ part' = part + 1
         /\ part <= MaxDele => pc' = "listdelete"
         /\ part > MaxDele => pc' = "listed"
         /\ "delete" \notin fault' =>
              /\ "delete" \notin fault
              /\ exist' = exist \ {IF part <= MaxDele THEN part ELSE 0}
              /\ body' = {x \in body : x[1] # IF part <= MaxDele THEN part ELSE 0}
         /\ head' = head
<1>1. part \in Nat /\ MaxDele \in Nat
  BY MaxDeleAssumption DEF IInv, TypeOK
<1>2. pc = "listdelete" /\ part' = part + 1
      /\ pc' = (IF part <= MaxDele THEN "listdelete" ELSE "listed")
      /\ FileDelete(IF part <= MaxDele THEN part ELSE 0)
  BY DEF DeleteUnfinished, DeleteOne, Goto
<1> QED BY <1>1, <1>2 DEF FileDelete

\* Every step keeps what the scan relies on.
LEMMA ScanStep == IInv /\ ScanInv /\ [Next]_vars => ScanInv'
<1> SUFFICES ASSUME IInv, ScanInv, [Next]_vars PROVE ScanInv'
  OBVIOUS
<1>1. CASE GetBackupFileList
  <2>1. /\ pc' \in {"listed", "listdelete"} /\ UNCHANGED <<exist, body, head>>
        /\ pc' = "listdelete" => part' = 1
        /\ pc' = "listed" /\ fault' = {} => (<<0, 0>> \in body => head.bComplete)
    BY <1>1 DEF GetBackupFileList, Goto, store
  <2>2. \A n \in exist' \cap (1..MaxDele) : n >= 1
    BY MaxDeleAssumption
  <2> QED BY <2>1, <2>2 DEF ScanInv, ScanLeavesNoUnfinished
<1>2. CASE DeleteUnfinished
  <2>1. CASE part <= MaxDele
    <3>1. /\ pc = "listdelete" /\ pc' = "listdelete" /\ part' = part + 1 /\ part \in Nat
          /\ "delete" \notin fault' => "delete" \notin fault /\ exist' = exist \ {part}
      BY <1>2, <2>1, DeleteUnfinishedEffect
    <3>2. "delete" \notin fault' => \A n \in exist' \cap (1..MaxDele) : n >= part + 1
      BY <3>1, MaxDeleAssumption DEF ScanInv
    <3> QED BY <3>1, <3>2 DEF ScanInv, ScanLeavesNoUnfinished
  <2>2. CASE ~(part <= MaxDele)
    <3>1. part > MaxDele
      BY <2>2, MaxDeleAssumption DEF IInv, TypeOK
    <3>2. pc' = "listed" /\ ("delete" \notin fault' => \A x \in body' : x[1] # 0)
      BY <1>2, <2>2, <3>1, DeleteUnfinishedEffect
    <3> QED BY <3>2 DEF ScanInv, ScanLeavesNoUnfinished
  <2> QED BY <2>1, <2>2
<1>3. CASE Engine \/ PowerLoss
  <2>1. pc' \notin {"listed", "listdelete"}
    BY <1>3 DEF Engine, Prepare, CreateFile, WriteHeader, SkipPart, WriteBitmap, ReadUnit,
         EndPart, WriteUnit, BreakWrite, FinishData, UpdateHeader, CloseHeader,
         CalculateFileCheckValue, FailClose, DeleteFiles, DeleteOne, PowerLoss, Goto, Fail
  <2> QED BY <2>1 DEF ScanInv, ScanLeavesNoUnfinished
<1>4. CASE Listed \/ UNCHANGED vars
  BY <1>4 DEF Listed, vars, store, engine, ScanInv, ScanLeavesNoUnfinished
<1> QED BY <1>1, <1>2, <1>3, <1>4 DEF Next, Scan

\* Every step keeps what success means.
LEMMA SuccessStep == IInv /\ SuccessInv /\ [Next]_vars => SuccessInv'
<1> SUFFICES ASSUME IInv, SuccessInv, [Next]_vars PROVE SuccessInv'
  OBVIOUS
<1> DEFINE Late == {"done", "off", "listdelete", "listed"}
<1>1. ASSUME pc' \notin {"close", "check", "done"}, ret' = ret, ret = 0 => pc' \in Late
      PROVE  SuccessInv'
  BY <1>1 DEF SuccessInv, SuccessMeansValid
<1>2. CASE Prepare \/ FailClose \/ DeleteFiles
  <2>1. pc' \notin {"close", "check"} /\ ret' = ret /\ ret # 0
    BY <1>2 DEF Prepare, FailClose, DeleteFiles, DeleteOne, Goto, SuccessInv
  <2> QED BY <2>1 DEF SuccessInv, SuccessMeansValid
<1>3. CASE CreateFile \/ WriteHeader \/ SkipPart \/ WriteBitmap \/ ReadUnit \/ EndPart
           \/ WriteUnit \/ BreakWrite \/ FinishData
  <2>1. pc' \notin {"close", "check", "done"} /\ ret' = ret /\ ret # 0
    BY <1>3 DEF CreateFile, WriteHeader, SkipPart, WriteBitmap, ReadUnit, EndPart, WriteUnit,
                BreakWrite, FinishData, Goto, Fail, SuccessInv
  <2> QED BY <1>1, <2>1
<1>4. CASE UpdateHeader
  <2>1. /\ pc' \in {"close", "fail"} /\ ret' = ret /\ ret # 0 /\ hdr' = hdr
        /\ pc' = "close" => /\ seg' = 0 /\ bHandle'
                            /\ 0 \in cache' \/ (<<0, 0>> \in body' /\ head' = hdr)
    BY <1>4 DEF UpdateHeader, Goto, Fail, SuccessInv
  <2> QED BY <2>1 DEF SuccessInv, SuccessMeansValid
<1>5. CASE CloseHeader
  <2>1. /\ pc = "close" /\ FileClose /\ pc' = "check" /\ ret' = ret /\ hdr' = hdr /\ ret # 0
        /\ seg = 0 /\ bHandle /\ (0 \in cache \/ (<<0, 0>> \in body /\ head = hdr))
    BY <1>5 DEF CloseHeader, Goto, SuccessInv
  <2>2. "close" \notin fault' => <<0, 0>> \in body' /\ head' = hdr
    BY <2>1 DEF FileClose, Store
  <2> QED BY <2>1, <2>2 DEF SuccessInv, SuccessMeansValid
<1>6. CASE CalculateFileCheckValue
  <2>1. /\ pc = "check" /\ ret # 0 /\ hdr.bComplete /\ UNCHANGED <<head, body, hdr>>
        /\ \/ pc' = "fail" /\ ret' = ret
           \/ pc' = "done" /\ (fault' = {} => /\ fault = {}
                                              /\ check' = [done |-> TRUE, head |-> head, body |-> body])
    BY <1>6 DEF CalculateFileCheckValue, Goto, Fail, SuccessInv, IInv, HeaderInv, Closing
  <2>2. CASE pc' = "fail" /\ ret' = ret
    BY <2>1, <2>2 DEF SuccessInv, SuccessMeansValid
  <2>3. CASE pc' = "done" /\ (fault' = {} => /\ fault = {}
                                             /\ check' = [done |-> TRUE, head |-> head, body |-> body])
    <3>1. fault' = {} => <<0, 0>> \in body /\ head = hdr
      BY <2>1, <2>3 DEF SuccessInv
    <3> QED BY <2>1, <2>3, <3>1 DEF SuccessInv, SuccessMeansValid, Complete
  <2> QED BY <2>1, <2>2, <2>3
<1>7. CASE GetBackupFileList \/ DeleteUnfinished \/ PowerLoss
  <2>1. pc' \in Late \ {"done"} /\ ret' = ret
    BY <1>7 DEF GetBackupFileList, DeleteUnfinished, DeleteOne, PowerLoss, Goto
  <2> QED BY <1>1, <2>1
<1>8. CASE Listed \/ UNCHANGED vars
  BY <1>8 DEF Listed, vars, store, engine, handle, SuccessInv, SuccessMeansValid, Complete
<1> QED BY <1>2, <1>3, <1>4, <1>5, <1>6, <1>7, <1>8 DEF Next, Engine, Scan

-----------------------------------------------------------------------------
(***************************************************************************)
(* The theorems.                                                           *)
(***************************************************************************)
LEMMA InitFInv == Init => FInv
BY DEF Init, FInv, OrderInv, ReadsBackInOrder, FilesInv, AbortCleansUp, ScanInv,
       ScanLeavesNoUnfinished, SuccessInv, SuccessMeansValid, Building, Closing

\* Every step keeps what is known of the files.
LEMMA NextFInv == IInv /\ IInv' /\ FInv /\ [Next]_vars => FInv'
BY OrderStep, FilesStep, ScanStep, SuccessStep DEF FInv

\* FInv holds in every state a backup and the scans after it reach.
THEOREM BackupFilesInductive == Spec => []FInv
<1> QED BY InitFInv, NextFInv, BackupInductive, PTL DEF Spec

\* The files of an image, read one after the other, give the records in the order
\* Backup wrote them, for any SPLIT_SIZE and any number of segments.
THEOREM FilesReadBackInOrder == Spec => []ReadsBackInOrder
<1>1. FInv => ReadsBackInOrder
  BY DEF FInv, OrderInv
<1> QED BY <1>1, BackupFilesInductive, PTL

\* A run that fails before the header is completed removes every file it made.
THEOREM AbortLeavesNoFile == Spec => []AbortCleansUp
<1>1. FInv => AbortCleansUp
  BY DEF FInv, FilesInv
<1> QED BY <1>1, BackupFilesInductive, PTL

\* No unfinished image survives a scan that could write.
THEOREM ScanRemovesUnfinished == Spec => []ScanLeavesNoUnfinished
<1>1. FInv => ScanLeavesNoUnfinished
  BY DEF FInv, ScanInv
<1> QED BY <1>1, BackupFilesInductive, PTL

\* Success is only reported for a complete image with the check value of what is
\* on the disk.
THEOREM SuccessIsValid == Spec => []SuccessMeansValid
<1>1. FInv => SuccessMeansValid
  BY DEF FInv, SuccessInv
<1> QED BY <1>1, BackupFilesInductive, PTL

\* The scan deletes "name" last, so that the next scan can go on with a deletion
\* that a power loss cut short.
THEOREM ScanResumes == Spec => ScanCanResume
<1> DEFINE A == (pc = "listdelete" /\ 0 \in exist /\ 0 \notin exist' /\ fault' = {}) =>
                  exist' \cap (1..MaxDele) = {}
<1>1. IInv /\ FInv /\ [Next]_vars => [A]_vars
  <2> SUFFICES ASSUME IInv, FInv, Next, pc = "listdelete", 0 \in exist, 0 \notin exist', fault' = {}
               PROVE  exist' \cap (1..MaxDele) = {}
    OBVIOUS
  <2>1. DeleteUnfinished \/ PowerLoss
    BY DEF Next, Engine, Scan, Prepare, CreateFile, WriteHeader, SkipPart, WriteBitmap, ReadUnit,
         EndPart, WriteUnit, BreakWrite, FinishData, UpdateHeader, CloseHeader,
         CalculateFileCheckValue, FailClose, DeleteFiles, GetBackupFileList, Listed
  <2>2. DeleteUnfinished /\ ScanInv
    BY <2>1 DEF PowerLoss, store, FInv
  <2>3. /\ part \in Nat /\ "delete" \notin fault
        /\ exist' = exist \ {IF part <= MaxDele THEN part ELSE 0}
    BY <2>2, DeleteUnfinishedEffect
  <2>4. part >= 1 /\ \A n \in exist \cap (1..MaxDele) : n >= part
    BY <2>2, <2>3 DEF ScanInv
  <2>5. ~(part <= MaxDele)
    BY <2>3, <2>4
  <2> QED BY <2>3, <2>4, <2>5, MaxDeleAssumption
<1> QED BY <1>1, BackupInductive, BackupFilesInductive, PTL DEF Spec, ScanCanResume

-----------------------------------------------------------------------------
(***************************************************************************)
(* Filling a buffer.                                                       *)
(***************************************************************************)

\* The blocks of a buffer are the marked ones from currentblock to where it is
\* afterwards, and an empty buffer means that none is left.
LEMMA BufferFill ==
  ASSUME NEW q, marked[q] \in SUBSET Blocks, NEW c \in Nat,
         NEW e, e = IF c < NBlocks THEN AfterBlocks(NextBlocks(q, c)) ELSE c
  PROVE  /\ NextBlocks(q, c) = {b \in marked[q] : c <= b /\ b < e} /\ c <= e /\ e \in Nat
         /\ NextBlocks(q, c) = {} => e >= NBlocks
<1> DEFINE M == marked[q]
           rest == {b \in M : b >= c}
           S == {b \in rest : Rank(rest, b) <= UnitBlocks}
<1> SUFFICES /\ S = {b \in M : c <= b /\ b < e} /\ c <= e /\ e \in Nat
             /\ S = {} => e >= NBlocks
  BY DEF NextBlocks
<1>0. M \in SUBSET Blocks /\ rest = {b \in M : b >= c}
      /\ S = {b \in rest : Rank(rest, b) <= UnitBlocks}
      /\ e = IF c < NBlocks THEN AfterBlocks(S) ELSE c
  BY DEF NextBlocks
<1> HIDE DEF M, rest, S
<1>1. /\ NBlocks \in Nat /\ UnitBlocks \in Nat \ {0} /\ M \in SUBSET Nat
      /\ \A b \in M : b < NBlocks /\ b \in Nat
  BY <1>0, NBlocksAssumption, UnitBlocksAssumption DEF Blocks
<1>2. rest \in SUBSET Nat /\ IsFiniteSet(rest) /\ Cardinality(rest) \in Nat
  <2>1. IsFiniteSet(Blocks)
    BY <1>1, FS_Interval DEF Blocks
  <2>2. rest \in SUBSET Blocks
    BY <1>0
  <2> QED BY <1>0, <1>1, <2>1, <2>2, FS_Subset, FS_CardinalityType
<1>3. CASE ~(c < NBlocks)
  <2>1. e = c /\ e >= NBlocks /\ \A b \in M : ~(b >= c) /\ ~(c <= b /\ b < e)
    BY <1>0, <1>1, <1>3
  <2>2. rest = {} /\ {b \in M : c <= b /\ b < e} = {}
    BY <1>0, <2>1
  <2>3. S = {}
    BY <1>0, <2>2
  <2> QED BY <2>1, <2>2, <2>3
<1>4. CASE c < NBlocks /\ Cardinality(rest) < UnitBlocks
  <2>1. \A b \in rest : Rank(rest, b) <= UnitBlocks
    <3> TAKE b \in rest
    <3>1. Rank(rest, b) \in 1..Cardinality(rest)
      BY <1>2, RankOfElement
    <3> QED BY <1>1, <1>2, <1>4, <3>1
  <2>2. S = rest
    BY <1>0, <2>1
  <2>3. Cardinality(S) # UnitBlocks
    BY <1>1, <1>2, <1>4, <2>2
  <2>4. e = NBlocks
    BY <1>0, <1>4, <2>3 DEF AfterBlocks
  <2>5. \A b \in M : b >= c <=> c <= b /\ b < e
    BY <1>1, <2>4
  <2>6. S = {b \in M : c <= b /\ b < e}
    BY <1>0, <2>2, <2>5
  <2> QED BY <1>1, <1>4, <2>4, <2>6
<1>5. CASE c < NBlocks /\ ~(Cardinality(rest) < UnitBlocks)
  <2>1. UnitBlocks \in 1..Cardinality(rest) /\ UnitBlocks \in 0..Cardinality(rest)
    BY <1>1, <1>2, <1>5
  <2>2. Cardinality(S) = UnitBlocks
    BY <1>0, <1>2, <2>1, LowestRanks
  <2>3. PICK last \in rest : Rank(rest, last) = UnitBlocks
    BY <1>2, <2>1, NthHasRank
  <2>4. \A b \in rest : Rank(rest, b) <= UnitBlocks <=> b <= last
    BY <1>2, <2>3, RankOrder
  <2>5. last \in S /\ last \in Nat /\ last >= c /\ \A d \in S : d <= last /\ d \in Nat
    BY <1>0, <1>2, <2>3, <2>4
  <2>6. e = last + 1
    <3>1. (CHOOSE b \in S : \A d \in S : d <= b) = last
      <4>1. \A b \in S : (\A d \in S : d <= b) => b = last
        BY <2>5
      <4> QED BY <2>5, <4>1
    <3>2. AfterBlocks(S) = 1 + last
      BY <2>2, <2>5, <3>1 DEF AfterBlocks
    <3> QED BY <1>0, <1>5, <2>5, <3>2
  <2>7. \A b \in M : (b >= c /\ b <= last) <=> (c <= b /\ b < e)
    BY <1>1, <2>5, <2>6
  <2>8. S = {b \in M : c <= b /\ b < e}
    BY <1>0, <2>4, <2>7
  <2> QED BY <2>5, <2>6, <2>8
<1> QED BY <1>3, <1>4, <1>5

-----------------------------------------------------------------------------
(***************************************************************************)
(* The log.                                                                *)
(***************************************************************************)

\* What a record has.
LEMMA LogTypes ==
  ASSUME TypeOK, NEW k \in 1..Len(log)
  PROVE  log[k].part \in Nat /\ log[k].part \in Parts /\ log[k].blocks \subseteq Blocks
<1>1. log \in Seq(Record)
  BY DEF TypeOK
<1>2. log[k] \in Record
  BY <1>1
<1> QED BY <1>2 DEF Record, Parts

\* A log that does not change keeps all that is said of it.
LEMMA LogKept ==
  ASSUME UNCHANGED log
  PROVE  /\ \A q : Entries(q)' = Entries(q) /\ UnitsOf(q)' = UnitsOf(q)
                   /\ ReadBlocks(q)' = ReadBlocks(q)
         /\ LogInv' = LogInv
BY DEF Entries, UnitsOf, ReadBlocks, LogInv

\* One record more.
LEMMA LogGrows ==
  ASSUME log \in Seq(Record), NEW r \in Record, log' = Append(log, r),
         NEW n, n = Len(log) + 1
  PROVE  /\ Len(log) \in Nat /\ Len(log') = n /\ log'[n] = r /\ n \in 1..n
         /\ 1..n = 1..Len(log) \cup {n} /\ n \notin 1..Len(log)
         /\ \A k \in 1..Len(log) : log'[k] = log[k]
         /\ \A q : /\ Entries(q)' = IF q = r.part THEN Entries(q) \cup {n} ELSE Entries(q)
                   /\ UnitsOf(q)' = IF q = r.part /\ r.kind = "unit"
                                      THEN UnitsOf(q) \cup {n} ELSE UnitsOf(q)
                   /\ ReadBlocks(q)' = IF q = r.part /\ r.kind = "unit"
                                         THEN ReadBlocks(q) \cup r.blocks ELSE ReadBlocks(q)
<1>1. /\ Len(log) \in Nat /\ Len(log') = n /\ log'[n] = r /\ n \in 1..n
      /\ \A k \in 1..Len(log) : log'[k] = log[k]
  OBVIOUS
<1>2. 1..n = 1..Len(log) \cup {n} /\ n \notin 1..Len(log)
  BY <1>1
<1> SUFFICES ASSUME NEW q
             PROVE  /\ Entries(q)' = IF q = r.part THEN Entries(q) \cup {n} ELSE Entries(q)
                    /\ UnitsOf(q)' = IF q = r.part /\ r.kind = "unit"
                                       THEN UnitsOf(q) \cup {n} ELSE UnitsOf(q)
                    /\ ReadBlocks(q)' = IF q = r.part /\ r.kind = "unit"
                                          THEN ReadBlocks(q) \cup r.blocks ELSE ReadBlocks(q)
  BY <1>1, <1>2
<1>3. Entries(q)' = IF q = r.part THEN Entries(q) \cup {n} ELSE Entries(q)
  BY <1>1, <1>2 DEF Entries
<1>4. UnitsOf(q)' = IF q = r.part /\ r.kind = "unit" THEN UnitsOf(q) \cup {n} ELSE UnitsOf(q)
  BY <1>1, <1>2 DEF UnitsOf
<1>5. \A k \in UnitsOf(q) : log'[k] = log[k]
  BY <1>1 DEF UnitsOf
<1>6. ReadBlocks(q)' = UNION {log'[k].blocks : k \in UnitsOf(q)'}
  BY DEF ReadBlocks
<1>7. UNION {log'[k].blocks : k \in UnitsOf(q)} = ReadBlocks(q)
  BY <1>5 DEF ReadBlocks
<1>8. UNION {log'[k].blocks : k \in UnitsOf(q) \cup {n}} = ReadBlocks(q) \cup r.blocks
  <2>1. UNION {log'[k].blocks : k \in UnitsOf(q) \cup {n}}
          = (UNION {log'[k].blocks : k \in UnitsOf(q)}) \cup log'[n].blocks
    OBVIOUS
  <2> QED BY <1>1, <1>7, <2>1
<1> QED BY <1>3, <1>4, <1>6, <1>7, <1>8

\* The records of a partition are its bitmap and its units.
LEMMA DataSizeCounts ==
  ASSUME TypeOK, LogInv, NEW q \in Parts, Entries(q) # {}
  PROVE  DataSize(q) = Cardinality(UnitsOf(q)) + 1
<1>1. PICK b \in Entries(q) :
        /\ log[b].kind = "bitmap"
        /\ \A k \in Entries(q) \ {b} : log[k].kind = "unit"
  BY DEF LogInv
<1>2. Entries(q) = UnitsOf(q) \cup {b} /\ b \notin UnitsOf(q)
  BY <1>1 DEF Entries, UnitsOf
<1>3. IsFiniteSet(UnitsOf(q))
  <2>1. IsFiniteSet(1..Len(log))
    BY FS_Interval DEF TypeOK
  <2>2. UnitsOf(q) \in SUBSET (1..Len(log))
    BY DEF UnitsOf
  <2> QED BY <2>1, <2>2, FS_Subset
<1>4. Cardinality(UnitsOf(q) \cup {b}) = Cardinality(UnitsOf(q)) + 1
  BY <1>2, <1>3, FS_AddElement
<1> QED BY <1>2, <1>4 DEF DataSize, Entries

\* A bitmap for a partition that has none yet, or a unit after the last record,
\* of blocks after all those before it.
LEMMA LogGrowsInv ==
  ASSUME TypeOK, LogInv, NEW r \in Record, log' = Append(log, r),
         \/ r.kind = "bitmap" /\ Entries(r.part) = {}
         \/ /\ r.kind = "unit" /\ Len(log) # 0 /\ log[Len(log)].part = r.part
            /\ r.blocks # {} /\ \A b \in ReadBlocks(r.part), c \in r.blocks : b < c
  PROVE  LogInv'
<1> DEFINE n == Len(log) + 1
<1>1. log \in Seq(Record)
  BY DEF TypeOK
<1>2. /\ Len(log) \in Nat /\ log'[n] = r /\ 1..n = 1..Len(log) \cup {n} /\ n \notin 1..Len(log)
      /\ Len(log') = n
      /\ \A k \in 1..Len(log) : log'[k] = log[k]
      /\ \A q : /\ Entries(q)' = IF q = r.part THEN Entries(q) \cup {n} ELSE Entries(q)
                /\ UnitsOf(q)' = IF q = r.part /\ r.kind = "unit"
                                   THEN UnitsOf(q) \cup {n} ELSE UnitsOf(q)
  BY <1>1, LogGrows
<1> SUFFICES ASSUME NEW q \in Parts
             PROVE  /\ Entries(q)' # {} =>
                         \E b \in Entries(q)' :
                           /\ log'[b].kind = "bitmap"
                           /\ \A k \in Entries(q)' \ {b} :
                                log'[k].kind = "unit" /\ b < k /\ \A j \in b..k : log'[j].part = q
                    /\ \A k \in UnitsOf(q)' : log'[k].blocks # {}
                    /\ \A j, k \in UnitsOf(q)' :
                         j < k => \A b \in log'[j].blocks, c \in log'[k].blocks : b < c
  BY DEF LogInv
<1>3. Entries(q) \subseteq 1..Len(log) /\ UnitsOf(q) \subseteq 1..Len(log)
      /\ \A k \in 1..Len(log) : k \in Nat /\ k < n
  BY <1>2 DEF Entries, UnitsOf
<1> HIDE DEF n
<1>4. ASSUME NEW b \in Entries(q), log[b].kind = "bitmap",
             \A k \in Entries(q) \ {b} :
               log[k].kind = "unit" /\ b < k /\ \A j \in b..k : log[j].part = q
      PROVE  /\ b \in Entries(q)' /\ log'[b].kind = "bitmap"
             /\ \A k \in Entries(q) \ {b} :
                  log'[k].kind = "unit" /\ b < k /\ \A j \in b..k : log'[j].part = q
  <2>1. b \in Entries(q)' /\ log'[b].kind = "bitmap"
    BY <1>2, <1>3, <1>4
  <2>2. ASSUME NEW k \in Entries(q) \ {b}
        PROVE  log'[k].kind = "unit" /\ b < k /\ \A j \in b..k : log'[j].part = q
    <3>1. \A j \in b..k : j \in 1..Len(log)
      BY <1>2, <1>3
    <3> QED BY <1>2, <1>3, <1>4, <3>1
  <2> QED BY <2>1, <2>2
<1>5. Entries(q)' # {} =>
        \E b \in Entries(q)' :
          /\ log'[b].kind = "bitmap"
          /\ \A k \in Entries(q)' \ {b} :
               log'[k].kind = "unit" /\ b < k /\ \A j \in b..k : log'[j].part = q
  <2>1. CASE q # r.part
    <3>1. Entries(q)' = Entries(q)
      BY <1>2, <2>1
    <3> SUFFICES ASSUME Entries(q) # {}
                 PROVE  \E b \in Entries(q) :
                          /\ log'[b].kind = "bitmap"
                          /\ \A k \in Entries(q) \ {b} :
                               log'[k].kind = "unit" /\ b < k /\ \A j \in b..k : log'[j].part = q
      BY <3>1
    <3>2. PICK b \in Entries(q) :
            /\ log[b].kind = "bitmap"
            /\ \A k \in Entries(q) \ {b} :
                 log[k].kind = "unit" /\ b < k /\ \A j \in b..k : log[j].part = q
      BY DEF LogInv
    <3> QED BY <1>4, <3>2
  <2>2. CASE q = r.part /\ r.kind = "bitmap" /\ Entries(r.part) = {}
    <3>1. Entries(q)' = {n} /\ log'[n].kind = "bitmap"
      BY <1>2, <2>2
    <3> QED BY <3>1
  <2>3. CASE q = r.part /\ r.kind = "unit" /\ Len(log) # 0 /\ log[Len(log)].part = r.part
    <3> DEFINE l == Len(log)
    <3>1. l \in 1..Len(log) /\ l \in Entries(q) /\ Entries(q)' = Entries(q) \cup {n}
      BY <1>2, <2>3 DEF Entries
    <3>2. PICK b \in Entries(q) :
            /\ log[b].kind = "bitmap"
            /\ \A k \in Entries(q) \ {b} :
                 log[k].kind = "unit" /\ b < k /\ \A j \in b..k : log[j].part = q
      BY <3>1 DEF LogInv
    <3>3. /\ b \in Entries(q)' /\ log'[b].kind = "bitmap" /\ b \in Nat /\ b < n
          /\ \A k \in Entries(q) \ {b} :
               log'[k].kind = "unit" /\ b < k /\ \A j \in b..k : log'[j].part = q
      BY <1>3, <1>4, <3>2
    <3>4. \A j \in b..l : log[j].part = q
      <4>1. CASE b = l
        BY <1>3, <2>3, <4>1
      <4>2. CASE b # l
        BY <3>1, <3>2, <4>2
      <4> QED BY <4>1, <4>2
    <3>5. \A j \in b..n : (j \in b..l /\ j \in 1..Len(log)) \/ j = n
      BY <1>2, <1>3, <3>3 DEF n
    <3>6. \A j \in b..n : log'[j].part = q
      BY <1>2, <2>3, <3>4, <3>5
    <3>7. \A k \in Entries(q)' \ {b} :
            log'[k].kind = "unit" /\ b < k /\ \A j \in b..k : log'[j].part = q
      BY <1>2, <2>3, <3>1, <3>3, <3>6
    <3> QED BY <3>3, <3>7
  <2> QED BY <2>1, <2>2, <2>3
<1>6. \A k \in UnitsOf(q)' : log'[k].blocks # {}
  BY <1>2, <1>3 DEF LogInv
<1>7. ASSUME NEW j \in UnitsOf(q)', NEW k \in UnitsOf(q)', j < k,
             NEW b \in log'[j].blocks, NEW c \in log'[k].blocks
      PROVE  b < c
  <2>1. CASE k \in UnitsOf(q)
    <3>1. j \in UnitsOf(q)
      BY <1>2, <1>3, <1>7, <2>1
    <3> QED BY <1>2, <1>3, <1>7, <2>1, <3>1 DEF LogInv
  <2>2. CASE k \notin UnitsOf(q)
    <3>1. q = r.part /\ r.kind = "unit" /\ k = n
      BY <1>2, <2>2
    <3>2. j \in UnitsOf(q) /\ j \in 1..Len(log)
      BY <1>2, <1>3, <1>7, <3>1
    <3>3. b \in ReadBlocks(q) /\ c \in r.blocks
      BY <1>2, <1>7, <3>1, <3>2 DEF ReadBlocks
    <3> QED BY <3>1, <3>3
  <2> QED BY <2>1, <2>2
<1> QED BY <1>5, <1>6, <1>7

-----------------------------------------------------------------------------
(***************************************************************************)
(* Every step preserves CInv.                                              *)
(***************************************************************************)

\* Outside the loop over the partitions the log and the sizes do not change.
LEMMA CalmStep ==
  ASSUME CInv, UNCHANGED <<log, marked>>, hdr'.BackupDataSize = hdr.BackupDataSize,
         fault \subseteq fault',
         \/ pc' \notin {"start", "create"} \cup Building
         \/ pc' = pc /\ UNCHANGED <<part, cur, buffer, lz4>>
         \/ /\ pc \in {"start", "create"} /\ pc' \in {"create", "header"} /\ part' = part
  PROVE  CInv'
<1>1. LogInv'
  BY LogKept DEF CInv
<1>2. SizeInv'
  <2> SUFFICES ASSUME NEW q \in Parts, hdr'.BackupDataSize[q] # 0
               PROVE  /\ pc' \in {"start", "create"} \cup Building => q < part'
                      /\ "compress" \notin fault' =>
                           /\ ReadBlocks(q)' = marked'[q]
                           /\ hdr'.BackupDataSize[q] = Cardinality(UnitsOf(q)') + 1
    BY DEF SizeInv
  <2>1. /\ pc \in {"start", "create"} \cup Building => q < part
        /\ "compress" \notin fault => /\ ReadBlocks(q) = marked[q]
                                      /\ hdr.BackupDataSize[q] = Cardinality(UnitsOf(q)) + 1
    BY DEF CInv, SizeInv
  <2>2. ReadBlocks(q)' = ReadBlocks(q) /\ UnitsOf(q)' = UnitsOf(q)
    BY LogKept
  <2>3. pc' \in {"start", "create"} \cup Building => q < part'
    BY <2>1 DEF Building
  <2> QED BY <2>1, <2>2, <2>3
<1>3. ReadingInv'
  <2>1. CASE pc' \notin {"start", "create"} \cup Building
    BY <2>1 DEF ReadingInv, Building
  <2>2. CASE pc' = pc /\ UNCHANGED <<part, cur, buffer, lz4>>
    <3>1. \A q : ReadBlocks(q)' = ReadBlocks(q)
      BY LogKept
    <3>2. ReadBlocks(part)' = ReadBlocks(part)
      BY <2>2 DEF ReadBlocks, UnitsOf
    <3> QED BY <2>2, <3>2 DEF CInv, ReadingInv
  <2>3. CASE pc \in {"start", "create"} /\ pc' \in {"create", "header"} /\ part' = part
    BY <2>3 DEF CInv, ReadingInv
  <2> QED BY <2>1, <2>2, <2>3
<1> QED BY <1>1, <1>2, <1>3 DEF CInv

\* SkipPart: no size, and no record in the log.
LEMMA SkipPartData == IInv /\ CInv /\ SkipPart => CInv'
<1> SUFFICES ASSUME IInv, CInv, SkipPart PROVE CInv'
  OBVIOUS
<1>1. /\ pc = "part" /\ pc' = "part" /\ part \in Nat /\ part' = part + 1
      /\ UNCHANGED <<log, marked, fault>> /\ part \in Parts
      /\ hdr \in Header /\ hdr' \in {hdr, [hdr EXCEPT !.BackupDataSize[part] = 0]}
  BY DEF IInv, TypeOK, SkipPart, asked
<1>2. LogInv'
  BY <1>1, LogKept DEF CInv
<1>3. ReadingInv'
  <2>1. \A k \in 1..Len(log) : log[k].part \in Nat
    BY LogTypes DEF IInv
  <2> QED BY <1>1, <2>1 DEF CInv, ReadingInv
<1>4. SizeInv'
  <2> SUFFICES ASSUME NEW q \in Parts, hdr'.BackupDataSize[q] # 0
               PROVE  /\ q < part'
                      /\ "compress" \notin fault' =>
                           /\ ReadBlocks(q)' = marked'[q]
                           /\ hdr'.BackupDataSize[q] = Cardinality(UnitsOf(q)') + 1
    BY DEF SizeInv
  <2>1. hdr'.BackupDataSize[q] = hdr.BackupDataSize[q]
    BY <1>1 DEF Header
  <2>2. q < part /\ q \in Nat
    BY <1>1, <2>1 DEF CInv, SizeInv, Building, Parts
  <2> QED BY <1>1, <2>1, <2>2, LogKept DEF CInv, SizeInv
<1> QED BY <1>2, <1>3, <1>4 DEF CInv

\* The records of the partitions before do not change when one is added.
LEMMA SizeKept ==
  ASSUME IInv, CInv, NEW r \in Record, log' = Append(log, r), r.part = part, part' = part,
         pc \in Building, pc' \in Building, UNCHANGED <<hdr, marked, fault>>
  PROVE  SizeInv'
<1> SUFFICES ASSUME NEW q \in Parts, hdr.BackupDataSize[q] # 0
             PROVE  /\ q < part
                    /\ "compress" \notin fault =>
                         /\ ReadBlocks(q)' = marked[q]
                         /\ hdr.BackupDataSize[q] = Cardinality(UnitsOf(q)') + 1
  BY DEF SizeInv
<1>1. q < part /\ q \in Nat /\ part \in Nat /\ log \in Seq(Record)
  BY DEF CInv, SizeInv, Parts, IInv, TypeOK
<1>2. q # r.part
  BY <1>1
<1>3. ReadBlocks(q)' = ReadBlocks(q) /\ UnitsOf(q)' = UnitsOf(q)
  BY <1>1, <1>2, LogGrows
<1> QED BY <1>1, <1>3 DEF CInv, SizeInv

\* WriteBitmap: the first record of its partition.
LEMMA WriteBitmapData == IInv /\ CInv /\ WriteBitmap => CInv'
<1> SUFFICES ASSUME IInv, CInv, WriteBitmap PROVE CInv'
  OBVIOUS
<1> DEFINE r == [part |-> part, kind |-> "bitmap", blocks |-> marked[part], good |-> TRUE]
<1>1. /\ pc = "part" /\ part \in Parts /\ part \in Nat /\ log \in Seq(Record)
      /\ UNCHANGED <<marked, part, hdr, fault>> /\ marked[part] \in SUBSET Blocks
      /\ \A k \in 1..Len(log) : log[k].part < part /\ log[k].part \in Nat
  <2>1. pc = "part" /\ part \in bIfBackup /\ UNCHANGED <<marked, part, hdr, fault>>
    BY DEF WriteBitmap, asked
  <2>2. part \in Parts /\ log \in Seq(Record) /\ marked[part] \in SUBSET Blocks
    BY <2>1 DEF IInv, TypeOK
  <2>3. \A k \in 1..Len(log) : log[k].part \in Nat
    BY LogTypes DEF IInv
  <2> QED BY <2>1, <2>2, <2>3 DEF CInv, ReadingInv, Parts
<1>2. r \in Record
  BY <1>1 DEF Record
<1>3. CASE pc' = "fail" /\ log' = log
  BY <1>1, <1>3, CalmStep DEF Building
<1>4. CASE log' = Append(log, r) /\ cur' = 0 /\ pc' = "read"
  <2>1. Entries(part) = {} /\ UnitsOf(part) = {} /\ ReadBlocks(part) = {}
    <3>1. \A k \in 1..Len(log) : log[k].part # part
      BY <1>1
    <3>2. Entries(part) = {} /\ UnitsOf(part) = {}
      BY <3>1 DEF Entries, UnitsOf
    <3> QED BY <3>2 DEF ReadBlocks
  <2> HIDE DEF r
  <2>2. r.part = part /\ r.kind = "bitmap"
    BY DEF r
  <2>3. LogInv'
    BY <1>2, <1>4, <2>1, <2>2, LogGrowsInv DEF IInv, CInv
  <2>4. SizeInv'
    BY <1>1, <1>2, <1>4, <2>2, SizeKept DEF Building
  <2>5. /\ Len(log) \in Nat /\ Len(log') = Len(log) + 1 /\ log'[Len(log) + 1] = r
        /\ 1..(Len(log) + 1) = 1..Len(log) \cup {Len(log) + 1}
        /\ \A k \in 1..Len(log) : log'[k] = log[k]
        /\ \A q : ReadBlocks(q)' = IF q = r.part /\ r.kind = "unit"
                                     THEN ReadBlocks(q) \cup r.blocks ELSE ReadBlocks(q)
    BY <1>1, <1>2, <1>4, LogGrows
  <2>6. \A k \in 1..Len(log') : log'[k].part <= part
    BY <1>1, <2>2, <2>5
  <2>7. ReadBlocks(part)' = {b \in marked[part] : b < cur'}
    <3>1. ReadBlocks(part)' = ReadBlocks(part)
      BY <1>1, <2>2, <2>5 DEF ReadBlocks, UnitsOf
    <3>2. \A b \in marked[part] : ~(b < 0)
      BY <1>1, NBlocksAssumption DEF Blocks
    <3> QED BY <1>4, <2>1, <3>1, <3>2
  <2>8. ReadingInv'
    BY <1>1, <1>4, <2>2, <2>5, <2>6, <2>7 DEF ReadingInv
  <2> QED BY <2>3, <2>4, <2>8 DEF CInv
<1> QED BY <1>3, <1>4 DEF WriteBitmap, Goto, Fail

\* ReadUnit: the buffer has the next marked blocks.
LEMMA ReadUnitData == IInv /\ CInv /\ ReadUnit => CInv'
<1> SUFFICES ASSUME IInv, CInv, ReadUnit PROVE CInv'
  OBVIOUS
<1>1. /\ pc = "read" /\ part \in Parts /\ cur \in Nat /\ marked[part] \in SUBSET Blocks
      /\ UNCHANGED <<log, marked, part, hdr>> /\ fault \subseteq fault'
      /\ ReadBlocks(part) = {b \in marked[part] : b < cur}
  <2>1. pc = "read" /\ UNCHANGED <<log, marked, part, hdr>> /\ fault \subseteq fault'
    BY DEF ReadUnit, asked
  <2>2. part \in Parts
    BY <2>1 DEF IInv, TypeOK, PartInv
  <2> QED BY <2>1, <2>2 DEF IInv, TypeOK, CInv, ReadingInv
<1>2. CASE pc' = "fail"
  BY <1>1, <1>2, CalmStep DEF Building
<1>3. CASE /\ pc' = "write" /\ buffer' = NextBlocks(part, cur)
           /\ cur' = (IF cur < NBlocks THEN AfterBlocks(buffer') ELSE cur)
           /\ lz4' = "data" => buffer' # {}
           /\ lz4' = "zero" => buffer' = {}
           /\ lz4' = "error" => "compress" \in fault'
  <2>1. buffer' = NextBlocks(part, cur)
        /\ cur' = IF cur < NBlocks THEN AfterBlocks(NextBlocks(part, cur)) ELSE cur
    BY <1>3
  <2>2. /\ buffer' = {b \in marked[part] : cur <= b /\ b < cur'} /\ cur <= cur' /\ cur' \in Nat
        /\ buffer' = {} => cur' >= NBlocks
    BY <1>1, <2>1, BufferFill
  <2>3. ReadBlocks(part)' = ReadBlocks(part)
    BY <1>1 DEF ReadBlocks, UnitsOf
  <2>4. \A b \in marked[part] : b \in Nat
    BY <1>1 DEF Blocks
  <2>5. ReadBlocks(part) \cup buffer' = {b \in marked[part] : b < cur'}
    <3>1. \A b \in marked[part] : b < cur \/ (cur <= b /\ b < cur') <=> b < cur'
      BY <1>1, <2>2, <2>4
    <3> QED BY <1>1, <2>2, <3>1
  <2>6. \A b \in ReadBlocks(part), c \in buffer' : b < c
    BY <1>1, <2>2, <2>4
  <2>7. ReadingInv'
    <3>1. /\ \A k \in 1..Len(log) : log[k].part <= part
          /\ Len(log) # 0 /\ log[Len(log)].part = part
      BY <1>1 DEF CInv, ReadingInv
    <3> QED BY <1>1, <1>3, <2>2, <2>3, <2>5, <2>6, <3>1 DEF ReadingInv
  <2>8. SizeInv'
    BY <1>1, <1>3, LogKept DEF CInv, SizeInv, Building
  <2> QED BY <1>1, <2>7, <2>8, LogKept DEF CInv
<1> QED BY <1>2, <1>3 DEF ReadUnit, Goto, Fail

\* EndPart: the partition is finished, unless LZ4 failed.
LEMMA EndPartData == IInv /\ CInv /\ EndPart => CInv'
<1> SUFFICES ASSUME IInv, CInv, EndPart PROVE CInv'
  OBVIOUS
<1>1. /\ pc = "write" /\ pc' = "part" /\ part \in Parts /\ part \in Nat /\ part' = part + 1
      /\ UNCHANGED <<log, marked, fault>> /\ marked[part] \in SUBSET Blocks
      /\ hdr \in Header /\ hdr' = [hdr EXCEPT !.BackupDataSize[part] = DataSize(part)]
      /\ lz4 \in {"zero", "error"}
  BY DEF EndPart, IInv, TypeOK, PartInv, Parts, Goto, asked
<1>2. LogInv'
  BY <1>1, LogKept DEF CInv
<1>3. ReadingInv'
  <2>1. \A k \in 1..Len(log) : log[k].part \in Nat /\ log[k].part <= part
    BY <1>1, LogTypes DEF IInv, CInv, ReadingInv
  <2> QED BY <1>1, <2>1 DEF ReadingInv
<1>4. SizeInv'
  <2> SUFFICES ASSUME NEW q \in Parts, hdr'.BackupDataSize[q] # 0
               PROVE  /\ q < part'
                      /\ "compress" \notin fault =>
                           /\ ReadBlocks(q) = marked[q]
                           /\ hdr'.BackupDataSize[q] = Cardinality(UnitsOf(q)) + 1
    BY <1>1, LogKept DEF SizeInv
  <2>1. CASE q # part
    <3>1. hdr'.BackupDataSize[q] = hdr.BackupDataSize[q]
      BY <1>1, <2>1 DEF Header
    <3>2. q < part /\ q \in Nat
      BY <1>1, <3>1 DEF CInv, SizeInv, Building, Parts
    <3> QED BY <1>1, <3>1, <3>2 DEF CInv, SizeInv
  <2>2. CASE q = part
    <3>1. hdr'.BackupDataSize[q] = DataSize(q)
      BY <1>1, <2>2 DEF Header
    <3>2. Entries(q) # {}
      <4>1. Len(log) # 0 /\ log[Len(log)].part = part /\ Len(log) \in Nat
        BY <1>1 DEF CInv, ReadingInv, IInv, TypeOK
      <4>2. Len(log) \in 1..Len(log)
        BY <4>1
      <4> QED BY <2>2, <4>1, <4>2 DEF Entries
    <3>3. DataSize(q) = Cardinality(UnitsOf(q)) + 1
      BY <3>2, DataSizeCounts DEF IInv, CInv
    <3>4. "compress" \notin fault => ReadBlocks(q) = marked[q]
      <4> SUFFICES ASSUME "compress" \notin fault PROVE ReadBlocks(q) = marked[q]
        OBVIOUS
      <4>1. buffer = {} /\ cur >= NBlocks /\ ReadBlocks(q) \cup buffer = {b \in marked[q] : b < cur}
        BY <1>1, <2>2 DEF CInv, ReadingInv
      <4>2. \A b \in marked[q] : b < cur
        BY <1>1, <2>2, <4>1, NBlocksAssumption DEF Blocks, IInv, TypeOK
      <4> QED BY <4>1, <4>2
    <3> QED BY <1>1, <2>2, <3>1, <3>3, <3>4
  <2> QED BY <2>1, <2>2
<1> QED BY <1>2, <1>3, <1>4 DEF CInv

\* WriteUnit: the buffer follows what the log has of the partition.
LEMMA WriteUnitData == IInv /\ CInv /\ WriteUnit => CInv'
<1> SUFFICES ASSUME IInv, CInv, WriteUnit PROVE CInv'
  OBVIOUS
<1> DEFINE r == [part |-> part, kind |-> "unit", blocks |-> buffer, good |-> readok]
<1>1. /\ pc = "write" /\ lz4 = "data" /\ part \in Parts /\ part \in Nat /\ log \in Seq(Record)
      /\ buffer \in SUBSET Blocks /\ readok \in BOOLEAN
      /\ UNCHANGED <<marked, part, hdr, fault, cur>>
  BY DEF WriteUnit, asked, engine, IInv, TypeOK, PartInv, Parts
<1>2. r \in Record
  BY <1>1 DEF Record
<1>3. /\ ReadBlocks(part) \cup buffer = {b \in marked[part] : b < cur}
      /\ \A b \in ReadBlocks(part), c \in buffer : b < c
      /\ buffer # {} /\ Len(log) # 0 /\ log[Len(log)].part = part
      /\ \A k \in 1..Len(log) : log[k].part <= part
  BY <1>1 DEF CInv, ReadingInv
<1>4. CASE pc' = "fail" /\ log' = log
  BY <1>1, <1>4, CalmStep DEF Building
<1>5. CASE log' = Append(log, r) /\ pc' = "read"
  <2> HIDE DEF r
  <2>1. r.part = part /\ r.kind = "unit" /\ r.blocks = buffer
    BY DEF r
  <2>2. LogInv'
    BY <1>2, <1>3, <1>5, <2>1, LogGrowsInv DEF IInv, CInv
  <2>3. SizeInv'
    BY <1>1, <1>2, <1>5, <2>1, SizeKept DEF Building
  <2>4. /\ Len(log) \in Nat /\ Len(log') = Len(log) + 1 /\ log'[Len(log) + 1] = r
        /\ 1..(Len(log) + 1) = 1..Len(log) \cup {Len(log) + 1}
        /\ \A k \in 1..Len(log) : log'[k] = log[k]
        /\ \A q : ReadBlocks(q)' = IF q = r.part /\ r.kind = "unit"
                                     THEN ReadBlocks(q) \cup r.blocks ELSE ReadBlocks(q)
    BY <1>1, <1>2, <1>5, LogGrows
  <2>5. \A k \in 1..Len(log') : log'[k].part <= part
    BY <1>1, <1>3, <2>1, <2>4
  <2>6. ReadBlocks(part)' = ReadBlocks(part) \cup buffer
    <3>1. PICK q : q = part
      OBVIOUS
    <3>2. ReadBlocks(q)' = ReadBlocks(q) \cup buffer
      BY <2>1, <2>4, <3>1
    <3>3. ReadBlocks(q)' = ReadBlocks(part)' /\ ReadBlocks(q) = ReadBlocks(part)
      BY <1>1, <3>1 DEF ReadBlocks, UnitsOf
    <3> QED BY <3>2, <3>3
  <2>7. ReadingInv'
    BY <1>1, <1>3, <1>5, <2>1, <2>4, <2>5, <2>6 DEF ReadingInv
  <2> QED BY <2>2, <2>3, <2>7 DEF CInv
<1> QED BY <1>4, <1>5 DEF WriteUnit, Goto, Fail

\* WriteHeader: the log is still empty.
LEMMA WriteHeaderData == IInv /\ CInv /\ WriteHeader => CInv'
<1> SUFFICES ASSUME IInv, CInv, WriteHeader PROVE CInv'
  OBVIOUS
<1>1. /\ pc = "header" /\ part = 0 /\ log = <<>> /\ UNCHANGED <<log, marked, hdr, fault>>
      /\ (pc' = "fail" \/ (pc' = "part" /\ part' = 1))
  BY DEF WriteHeader, CInv, ReadingInv, Goto, Fail, asked
<1>2. CASE pc' = "fail"
  BY <1>1, <1>2, CalmStep DEF Building
<1>3. CASE pc' = "part" /\ part' = 1
  <2>1. \A q \in Parts : ~(q < 0)
    BY DEF Parts
  <2>2. \A q \in Parts : hdr.BackupDataSize[q] = 0
    BY <1>1, <2>1 DEF CInv, SizeInv, Building
  <2>3. SizeInv' /\ ReadingInv'
    BY <1>1, <1>3, <2>2 DEF SizeInv, ReadingInv
  <2> QED BY <1>1, <2>3, LogKept DEF CInv
<1> QED BY <1>1, <1>2, <1>3

-----------------------------------------------------------------------------
(***************************************************************************)
(* The theorems.                                                           *)
(***************************************************************************)
LEMMA InitCInv == Init => CInv
<1> SUFFICES ASSUME Init PROVE CInv
  OBVIOUS
<1>1. log = <<>> /\ part = 0 /\ pc = "start" /\ \A q \in Parts : hdr.BackupDataSize[q] = 0
  BY DEF Init, CreateImageHeader
<1>2. \A q : Entries(q) = {} /\ UnitsOf(q) = {}
  BY <1>1 DEF Entries, UnitsOf
<1> QED BY <1>1, <1>2 DEF CInv, LogInv, ReadingInv, SizeInv

\* Every step keeps what is written of the partitions.
LEMMA NextCInv == IInv /\ CInv /\ [Next]_vars => CInv'
<1> SUFFICES ASSUME IInv, CInv, [Next]_vars PROVE CInv'
  OBVIOUS
<1>1. CASE WriteHeader \/ SkipPart \/ WriteBitmap \/ ReadUnit \/ EndPart \/ WriteUnit
  BY <1>1, WriteHeaderData, SkipPartData, WriteBitmapData, ReadUnitData, EndPartData, WriteUnitData
<1>2. CASE Prepare \/ CreateFile
  <2>1. /\ UNCHANGED <<log, marked, hdr, fault, part>>
        /\ \/ pc' \in {"done", "fail"}
           \/ pc \in {"start", "create"} /\ pc' \in {"create", "header"}
    BY <1>2 DEF Prepare, CreateFile, Goto, Fail, asked, engine
  <2> QED BY <2>1, CalmStep DEF Building
<1>3. CASE BreakWrite \/ FinishData \/ UpdateHeader \/ CloseHeader \/ CalculateFileCheckValue
           \/ FailClose \/ DeleteFiles \/ GetBackupFileList \/ DeleteUnfinished \/ PowerLoss
  <2>1. UNCHANGED <<log, marked>> /\ pc' \notin {"start", "create"} \cup Building
    BY <1>3 DEF BreakWrite, FinishData, UpdateHeader, CloseHeader, CalculateFileCheckValue,
                FailClose, DeleteFiles, GetBackupFileList, DeleteUnfinished, DeleteOne, PowerLoss,
                Goto, Fail, Building, asked
  <2>2. fault \subseteq fault'
    BY <1>3 DEF BreakWrite, FinishData, UpdateHeader, CloseHeader, CalculateFileCheckValue,
                FailClose, DeleteFiles, GetBackupFileList, DeleteUnfinished, DeleteOne, PowerLoss,
                FileClose, FileDelete
  <2>3. hdr'.BackupDataSize = hdr.BackupDataSize
    <3>1. hdr' = hdr \/ hdr' = [hdr EXCEPT !.bComplete = TRUE, !.FileNumber = seg + 1]
      BY <1>3 DEF BreakWrite, FinishData, UpdateHeader, CloseHeader, CalculateFileCheckValue,
                  FailClose, DeleteFiles, GetBackupFileList, DeleteUnfinished, DeleteOne, PowerLoss
    <3>2. hdr \in Header
      BY DEF IInv, TypeOK
    <3> QED BY <3>1, <3>2 DEF Header
  <2> QED BY <2>1, <2>2, <2>3, CalmStep
<1>4. CASE Listed \/ UNCHANGED vars
  BY <1>4, CalmStep DEF Listed, vars, asked, engine
<1> QED BY <1>1, <1>2, <1>3, <1>4 DEF Next, Engine, Scan

\* CInv holds in every state a backup and the scans after it reach.
THEOREM BackupDataInductive == Spec => []CInv
<1> QED BY InitCInv, NextCInv, BackupInductive, PTL DEF Spec

\* A complete image holds of every partition it has data of the bitmap and then
\* units that cover the marked blocks, each once and in ascending order, as many
\* as BackupDataSize says: for every bitmap, every unit size and every number of
\* partitions.
THEOREM CompleteIsCovered == Spec => []CompleteMeansCovered
<1>1. IInv /\ CInv => CompleteMeansCovered
  <2> SUFFICES ASSUME IInv, CInv, Complete, "compress" \notin fault,
                      NEW q \in Parts, head.BackupDataSize[q] # 0
               PROVE  /\ UNION {log[k].blocks : k \in UnitsOf(q)} = marked[q]
                      /\ head.BackupDataSize[q] = Cardinality(UnitsOf(q)) + 1
                      /\ \A k \in UnitsOf(q) :
                           /\ log[k].blocks # {}
                           /\ \E b \in 1..(k - 1) : log[b].part = q /\ log[b].kind = "bitmap"
                                                     /\ \A j \in b..k : log[j].part = q
                           /\ \A j \in UnitsOf(q) : j < k =>
                                \A b \in log[j].blocks, c \in log[k].blocks : b < c
    BY DEF CompleteMeansCovered
  <2>1. head = hdr
    BY DEF Complete, IInv, HeaderInv
  <2>2. ReadBlocks(q) = marked[q] /\ head.BackupDataSize[q] = Cardinality(UnitsOf(q)) + 1
    BY <2>1 DEF CInv, SizeInv
  <2>3. ASSUME NEW k \in UnitsOf(q)
        PROVE  \E b \in 1..(k - 1) : log[b].part = q /\ log[b].kind = "bitmap"
                                      /\ \A j \in b..k : log[j].part = q
    <3>1. k \in Entries(q) /\ log[k].kind = "unit"
      BY DEF Entries, UnitsOf
    <3>2. PICK b \in Entries(q) :
            /\ log[b].kind = "bitmap"
            /\ \A i \in Entries(q) \ {b} :
                 log[i].kind = "unit" /\ b < i /\ \A j \in b..i : log[j].part = q
      BY <3>1 DEF CInv, LogInv
    <3>3. b < k /\ \A j \in b..k : log[j].part = q
      BY <3>1, <3>2
    <3>4. b \in 1..(k - 1) /\ log[b].part = q
      BY <3>1, <3>3 DEF Entries
    <3> QED BY <3>2, <3>3, <3>4
  <2> QED BY <2>2, <2>3 DEF CInv, LogInv, ReadBlocks
<1> QED BY <1>1, BackupInductive, BackupDataInductive, PTL
=============================================================================
