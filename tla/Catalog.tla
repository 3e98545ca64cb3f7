------------------------------ MODULE Catalog -------------------------------
(***************************************************************************)
(* The list of backups (func.c): GetAllBackupFiles scans the partitions,   *)
(* deletes backups that were not finished, puts the factory backup first   *)
(* and sorts the others; CheckAllBackupFiles then looks for the files of   *)
(* each, drops the incomplete ones and closes the gaps.                    *)
(*                                                                         *)
(* A directory entry is what GetBackupFileList finds in the header of a    *)
(* file: an image, finished or not, or something else (a segment of an     *)
(* image, a foreign file).  A slot of g_data.images holds the number of an *)
(* entry, 0 when it has been cleared.                                      *)
(***************************************************************************)
EXTENDS Integers, Sequences, FiniteSets

CONSTANTS
  NParts,     \* partitions that may hold images: FAT32 or NTFS, 4 GB or more
  Lenovo,     \* the one of them IsLenovoPart names
  MaxNum,     \* HEADLISTBUFFER / OKR_HEADER_MIN_SIZE
  Times,      \* values of FileTime
  MaxEntries  \* bound on the files in the backup directories

\* FileTime 0 marks a cleared slot.
ASSUME TimesAssumption == Times \subseteq Nat \ {0}
\* The values of a WORD.
Word == 65536

\* HEADLISTBUFFER is 1 MB, so that ImageFilesNumber, a WORD, can count the headers.
ASSUME BoundsAssumption == MaxNum \in 1..(Word - 1) /\ MaxEntries \in Nat /\ NParts \in Nat

VARIABLES
  dir,        \* the entries in the order in which they are met
  present,    \* the entries that have not been deleted
  pc, part, k,
  bReadOnly, img_count, img_err, all_img_count,
  images, ImageFilesNumber,
  bHasFactoryImage, i, j,
  img_err_del, img_err_count,
  found, kept \* history: the images that were listed, and those of them the
              \* files of which CheckAllBackupFiles could not look for

scan == <<part, k, bReadOnly, img_count, img_err, all_img_count>>
sort == <<bHasFactoryImage, i, j>>
errs == <<img_err_del, img_err_count, found, kept>>
vars == <<dir, present, pc, scan, images, ImageFilesNumber, sort, errs>>

\* missing: a segment that FileNumber counts is not there.
Image == [kind : {"image"}, part : 1..NParts, bFactoryBackup : BOOLEAN,
          FileTime : Times, missing : BOOLEAN]
Others == [kind : {"unfinished", "other"}, part : 1..NParts, bFactoryBackup : {FALSE},
           FileTime : {0}, missing : {FALSE}]

Dirs(n) == {d \in [1..n -> Image \cup Others] :
              \A a, b \in 1..n : a < b => d[a].part <= d[b].part}

Init ==
  /\ \E n \in 0..MaxEntries : dir \in Dirs(n)
  /\ present = DOMAIN dir
  /\ pc = "part" /\ part = 1 /\ k = 1
  /\ bReadOnly = FALSE /\ img_count = 0 /\ img_err = 0 /\ all_img_count = 0
  /\ images = <<>> /\ ImageFilesNumber = 0
  /\ bHasFactoryImage = FALSE /\ i = 1 /\ j = 2
  /\ img_err_del = 0 /\ img_err_count = 0 /\ found = {} /\ kept = {}

-----------------------------------------------------------------------------
(***************************************************************************)
(* GetAllBackupFiles, and GetBackupFileList for each partition.            *)
(***************************************************************************)

\* FileSystemInit: for writing, only for reading, or not at all.
OpenPart ==
  /\ pc = "part" /\ part <= NParts
  /\ img_count' = 0 /\ img_err' = 0
  /\ \/ bReadOnly' \in BOOLEAN /\ pc' = "list" /\ UNCHANGED part
     \/ UNCHANGED <<bReadOnly, pc>> /\ part' = part + 1
  /\ UNCHANGED <<dir, present, k, all_img_count, images, ImageFilesNumber, sort, errs>>

InPart == k <= Len(dir) /\ dir[k].part = part

SkipFile ==
  /\ pc = "list" /\ k <= Len(dir)
  /\ dir[k].part < part \/ (InPart /\ dir[k].kind = "other")
  /\ k' = k + 1
  /\ UNCHANGED <<dir, present, pc, part, bReadOnly, img_count, img_err, all_img_count,
                 images, ImageFilesNumber, sort, errs>>

\* A finished image is listed; the list may be full with it.
ListFile ==
  /\ pc = "list" /\ InPart /\ dir[k].kind = "image"
  /\ images' = Append(images, k)
  /\ found' = found \cup {k}
  /\ k' = k + 1
  /\ pc' = IF Len(images') >= MaxNum THEN "listed" ELSE pc
  /\ UNCHANGED <<dir, present, part, bReadOnly, img_count, img_err, all_img_count,
                 ImageFilesNumber, sort, img_err_del, img_err_count, kept>>

\* One that is not finished is deleted, if it can be.
DeleteFile ==
  /\ pc = "list" /\ InPart /\ dir[k].kind = "unfinished"
  /\ img_count' = img_count + 1
  /\ IF bReadOnly
       THEN img_err' = img_count' /\ UNCHANGED present
       ELSE img_err' = img_count' - 1 /\ present' \in {present, present \ {k}}
  /\ k' = k + 1
  /\ UNCHANGED <<dir, pc, part, bReadOnly, all_img_count, images, ImageFilesNumber,
                 sort, errs>>

EndPart ==
  /\ pc = "list" /\ (k <= Len(dir) => dir[k].part > part)
  /\ pc' = "part" /\ part' = part + 1
  /\ all_img_count' = all_img_count + img_err
  /\ UNCHANGED <<dir, present, k, bReadOnly, img_count, img_err, images,
                 ImageFilesNumber, sort, errs>>

\* All partitions were scanned or the list is full.
EndScan ==
  /\ \/ pc = "part" /\ part > NParts /\ UNCHANGED all_img_count
     \/ pc = "listed" /\ all_img_count' = all_img_count + img_err
  /\ pc' = "top"
  /\ ImageFilesNumber' = Len(images)
  /\ UNCHANGED <<dir, present, part, k, bReadOnly, img_count, img_err, images, sort, errs>>

-----------------------------------------------------------------------------
\* The entry of slot x; a cleared one is all zero.
Slot(x) ==
  IF images[x] = 0 THEN [kind |-> "image", part |-> 0, bFactoryBackup |-> FALSE,
                         FileTime |-> 0, missing |-> FALSE]
  ELSE dir[images[x]]

Swapped(x, y) == [images EXCEPT ![x] = images[y], ![y] = images[x]]

IsTop(x) == Slot(x).bFactoryBackup /\ Slot(x).part = Lenovo
Tops == {x \in 1..Len(images) : IsTop(x)}

\* The first factory backup of the service partition changes places with the first.
FactoryFirst(next) ==
  /\ IF Tops = {} THEN bHasFactoryImage' = FALSE /\ UNCHANGED images
     ELSE /\ bHasFactoryImage' = TRUE
          /\ images' = Swapped(1, CHOOSE x \in Tops : \A y \in Tops : x <= y)
  /\ pc' = next
  /\ i' = 1 /\ j' = 2
  /\ UNCHANGED <<dir, present, scan, ImageFilesNumber, errs>>

TopOfList == pc = "top" /\ FactoryFirst("sort")

\* Mutants: the factory backup is sorted with the others; j stays.
SortWithFirst ==
  /\ pc = "sort" /\ i <= Len(images)
  /\ IF j <= Len(images)
       THEN /\ images' = IF Slot(i).FileTime > Slot(j).FileTime THEN Swapped(i, j) ELSE images
            /\ j' = j + 1 /\ UNCHANGED i
       ELSE i' = i + 1 /\ j' = i + 2 /\ UNCHANGED images
  /\ UNCHANGED <<dir, present, pc, scan, ImageFilesNumber, bHasFactoryImage, errs>>
SortStuck ==
  /\ pc = "sort" /\ i <= Len(images)
  /\ IF j <= Len(images) /\ ~(i = 1 /\ bHasFactoryImage)
       THEN /\ images' = IF Slot(i).FileTime > Slot(j).FileTime THEN Swapped(i, j) ELSE images
            /\ UNCHANGED <<i, j>>
       ELSE i' = i + 1 /\ j' = i + 2 /\ UNCHANGED images
  /\ UNCHANGED <<dir, present, pc, scan, ImageFilesNumber, bHasFactoryImage, errs>>

\* One round of the inner loop of the exchange sort, or the next of the outer.
Sort ==
  /\ pc = "sort" /\ i <= Len(images)
  /\ IF j <= Len(images) /\ ~(i = 1 /\ bHasFactoryImage)
       THEN /\ images' = IF Slot(i).FileTime > Slot(j).FileTime THEN Swapped(i, j) ELSE images
            /\ j' = j + 1 /\ UNCHANGED i
       ELSE i' = i + 1 /\ j' = i + 2 /\ UNCHANGED images
  /\ UNCHANGED <<dir, present, pc, scan, ImageFilesNumber, bHasFactoryImage, errs>>

EndSort ==
  /\ pc = "sort" /\ i > Len(images)
  /\ pc' = "check" /\ i' = 1
  /\ UNCHANGED <<dir, present, scan, images, ImageFilesNumber, bHasFactoryImage, j, errs>>

-----------------------------------------------------------------------------
(***************************************************************************)
(* CheckAllBackupFiles.                                                    *)
(***************************************************************************)

\* The partition does not open at all: the image stays in the list.
CheckSkips ==
  /\ pc = "check" /\ i <= Len(images)
  /\ i' = i + 1
  /\ kept' = kept \cup {images[i]}
  /\ UNCHANGED <<dir, present, pc, scan, images, ImageFilesNumber, bHasFactoryImage, j,
                 img_err_del, img_err_count, found>>

\* Mutant: a deleted image is not cleared.
CheckImageDeleted ==
  /\ pc = "check" /\ i <= Len(images)
  /\ \E readonly \in BOOLEAN :
       LET bad == Slot(i).missing
           del == bad /\ ~readonly /\ Slot(i).bFactoryBackup
       IN /\ present' \in IF del THEN {present, present \ {images[i]}} ELSE {present}
          /\ img_err_del' = IF del THEN img_err_del + 1 ELSE img_err_del
          /\ img_err_count' = IF bad THEN img_err_count + 1 ELSE img_err_count
          /\ images' = IF bad /\ ~del THEN [images EXCEPT ![i] = 0] ELSE images
  /\ i' = i + 1
  /\ UNCHANGED <<dir, pc, scan, ImageFilesNumber, bHasFactoryImage, j, found, kept>>

\* A file is missing: a factory backup is deleted, any backup leaves the list.
CheckImage ==
  /\ pc = "check" /\ i <= Len(images)
  /\ \E readonly \in BOOLEAN :
       LET bad == Slot(i).missing
           del == bad /\ ~readonly /\ Slot(i).bFactoryBackup
       IN /\ present' \in IF del THEN {present, present \ {images[i]}} ELSE {present}
          /\ img_err_del' = IF del THEN img_err_del + 1 ELSE img_err_del
          /\ img_err_count' = IF bad THEN img_err_count + 1 ELSE img_err_count
          /\ images' = IF bad THEN [images EXCEPT ![i] = 0] ELSE images
  /\ i' = i + 1
  /\ UNCHANGED <<dir, pc, scan, ImageFilesNumber, bHasFactoryImage, j, found, kept>>

EndCheck == pc = "check" /\ i > Len(images) /\ FactoryFirst("pack")

Later(x) == {y \in (x + 1)..Len(images) : Slot(y).FileTime # 0}

\* Mutant: the image that fills the gap is not cleared where it was.
PackCopy ==
  /\ pc = "pack" /\ i <= Len(images)
  /\ IF Slot(i).FileTime = 0 /\ Later(i) # {} /\ ~(i = 1 /\ bHasFactoryImage)
       THEN images' = [images EXCEPT ![i] = images[CHOOSE y \in Later(i) : \A z \in Later(i) : y <= z]]
       ELSE UNCHANGED images
  /\ i' = i + 1
  /\ UNCHANGED <<dir, present, pc, scan, ImageFilesNumber, bHasFactoryImage, j, errs>>

\* The next image that is left fills the gap.
Pack ==
  /\ pc = "pack" /\ i <= Len(images)
  /\ IF Slot(i).FileTime = 0 /\ Later(i) # {} /\ ~(i = 1 /\ bHasFactoryImage)
       THEN images' = Swapped(i, CHOOSE y \in Later(i) : \A z \in Later(i) : y <= z)
       ELSE UNCHANGED images
  /\ i' = i + 1
  /\ UNCHANGED <<dir, present, pc, scan, ImageFilesNumber, bHasFactoryImage, j, errs>>

\* Mutant: the images that were dropped are not subtracted.
FinishAll ==
  /\ pc = "pack" /\ i > Len(images)
  /\ pc' = "done"
  /\ ImageFilesNumber' = (ImageFilesNumber - img_err_del) % Word
  /\ UNCHANGED <<dir, present, scan, images, sort, errs>>

\* Mutant: the number is an int.
FinishInt ==
  /\ pc = "pack" /\ i > Len(images)
  /\ pc' = "done"
  /\ ImageFilesNumber' = ImageFilesNumber - img_err_del - img_err_count
  /\ UNCHANGED <<dir, present, scan, images, sort, errs>>

\* ImageFilesNumber is a WORD.
Finish ==
  /\ pc = "pack" /\ i > Len(images)
  /\ pc' = "done"
  /\ ImageFilesNumber' = (ImageFilesNumber - img_err_del - img_err_count) % Word
  /\ UNCHANGED <<dir, present, scan, images, sort, errs>>

Done == pc = "done" /\ UNCHANGED vars

Step ==
  \/ OpenPart \/ SkipFile \/ ListFile \/ DeleteFile \/ EndPart \/ EndScan
  \/ TopOfList \/ Sort \/ EndSort
  \/ CheckSkips \/ CheckImage \/ EndCheck \/ Pack \/ Finish
Next == Step \/ Done

Spec == Init /\ [][Next]_vars

\* One thread; every firmware call returns.
FairSpec == Spec /\ WF_vars(Step)

-----------------------------------------------------------------------------
\* Every variable keeps its type; the list never outgrows its buffer, and every
\* slot the loops touch is one of it (func.c, 2710-2985).
TypeOK ==
  /\ pc \in {"part", "list", "listed", "top", "sort", "check", "pack", "done"}
  /\ present \subseteq DOMAIN dir
  /\ images \in Seq(0..Len(dir)) /\ Len(images) <= MaxNum
  /\ part \in 1..(NParts + 1) /\ k \in 1..(Len(dir) + 1) /\ i \in 1..(Len(images) + 1)
  /\ ImageFilesNumber \in 0..(Word - 1) /\ img_err >= 0

Listed == {images[x] : x \in 1..Len(images)} \ {0}
Filled == {x \in 1..Len(images) : images[x] # 0}

Between(a, b, c) == (a <= b /\ b <= c) \/ (a >= b /\ b >= c)

\* The images are in the order of FileTime, up or down, the first of them aside if it
\* is the factory backup of the service partition, and that one is first.
InOrder ==
  /\ \A x, y, z \in Filled :
       x < y /\ y < z /\ ~(x = 1 /\ IsTop(1)) =>
         Between(Slot(x).FileTime, Slot(y).FileTime, Slot(z).FileTime)
  /\ (\E x \in Filled : IsTop(x)) => IsTop(1)

\* After the sort, and again after the gaps are closed, the list is in order:
\* putting the factory backup first only ever changes places with a cleared slot
\* the second time, and closing the gaps keeps the order.  (Which of the two orders
\* it should be is what NewestFirst is about.)
SortedList == pc = "done" \/ (pc = "check" /\ i = 1) => InOrder

\* No finished image the scan met is lost and none is listed twice, whatever is
\* exchanged, cleared and moved: in the end the list has exactly the images
\* all files of which are there, and those it could not look at.
NothingLost ==
  /\ \A x, y \in Filled : x # y => images[x] # images[y]
  /\ pc = "done" => Listed = {n \in found : dir[n].missing => n \in kept}

\* The gaps are closed: the images that are left come first, and unless a factory
\* backup was deleted there are ImageFilesNumber of them.
NoGaps ==
  pc = "done" =>
    /\ \A x \in Filled : \A y \in 1..x : y \in Filled
    /\ img_err_del = 0 => ImageFilesNumber = Cardinality(Filled)

\* What the list shows is there, whatever has been deleted meanwhile, and a finished
\* image that the user has made is never deleted, not even when a file of it is missing.
ListedIsPresent ==
  /\ pc = "done" => Listed \subseteq present
  /\ \A n \in DOMAIN dir : dir[n].kind = "image" /\ ~dir[n].bFactoryBackup => n \in present

\* Making the list comes to an end.
CatalogEnds == <>(pc = "done")

-----------------------------------------------------------------------------
(***************************************************************************)
(* What a comment of the code says.                                        *)
(***************************************************************************)

\* func.c:2765 and 2949 "sort by time, from now backwards": the newest image comes
\* first, after the factory backup.
NewestFirst ==
  pc = "done" =>
    \A x, y \in Filled : x < y /\ ~(x = 1 /\ IsTop(1)) => Slot(x).FileTime >= Slot(y).FileTime

-----------------------------------------------------------------------------
(***************************************************************************)
(* The inductive strengthening of the safety properties.                   *)
(***************************************************************************)
Scanning == {"part", "list", "listed"}

\* What is in the directories, and how far the scan is.
ScanInv ==
  /\ dir \in Seq(Image \cup Others)
  /\ img_count \in Nat /\ img_err \in Nat
  /\ pc \in {"list", "listed"} => part <= NParts
  /\ pc \in {"part", "list"} => Len(images) < MaxNum
  /\ pc \in Scanning => /\ \A x \in 1..Len(images) : images[x] \in 1..(k - 1)
                        /\ \A n \in k..Len(dir) : n \in present

\* What the list holds: nothing twice, only images that are there, all of them
\* but those a file is missing of.  While it is checked, a slot before i has
\* been looked at and one from i on has not.
ListInv ==
  /\ \A x, y \in Filled : x # y => images[x] # images[y]
  /\ found \subseteq 1..Len(dir) /\ \A n \in found : dir[n].kind = "image"
  /\ Listed \subseteq found \cap present /\ kept \subseteq Listed
  /\ \A n \in found : n \in Listed \/ (dir[n].missing /\ n \notin kept)
  /\ pc \in Scanning \cup {"top", "sort"} => kept = {} /\ Filled = 1..Len(images)
  /\ pc = "check" => /\ \A x \in 1..Len(images) : x >= i => images[x] # 0 /\ images[x] \notin kept
                     /\ \A x \in Filled : x < i /\ dir[images[x]].missing => images[x] \in kept
  /\ pc \in {"pack", "done"} => \A n \in Listed : dir[n].missing => n \in kept

\* img_err_count counts the slots that were cleared.
CountInv ==
  /\ img_err_count \in Nat /\ img_err_del \in Nat
  /\ pc \in Scanning \cup {"top", "sort"} => img_err_count = 0 /\ img_err_del = 0
  /\ Cardinality(Listed) = Len(images) - img_err_count
  /\ pc \in {"top", "sort", "check", "pack"} => ImageFilesNumber = Len(images)
  /\ pc = "done" /\ img_err_del = 0 => ImageFilesNumber = Len(images) - img_err_count

\* Where sorting starts: after the factory backup, if there is one.
First == IF bHasFactoryImage THEN 2 ELSE 1

\* The slots before i are sorted, and slot i is the least of those before j; once
\* the list is sorted it stays so.  bHasFactoryImage tells what is first.
SortInv ==
  /\ pc = "sort" =>
       /\ j \in Nat /\ i < j
       /\ \A x, y \in 1..Len(images) :
            First <= x /\ x < y /\ (x < i \/ (x = i /\ y < j)) => Slot(x).FileTime <= Slot(y).FileTime
  /\ pc \in {"check", "pack", "done"} =>
       \A x, y \in Filled : First <= x /\ x < y => Slot(x).FileTime <= Slot(y).FileTime
  /\ pc \in {"sort", "check", "pack", "done"} =>
       IF bHasFactoryImage THEN 1 \in Tops \/ (pc = "check" /\ 1 \in 1..Len(images) /\ images[1] = 0)
                           ELSE Tops = {}

\* A gap that was not closed has nothing behind it.
PackInv ==
  /\ pc = "pack" => \A x \in 1..Len(images) : x < i /\ x \notin Filled => \A y \in Filled : y < x
  /\ pc = "done" => \A x \in Filled : \A y \in 1..x : y \in Filled

\* No finished image is deleted but a factory backup of which a file is missing.
DeletedInv ==
  \A n \in DOMAIN dir \ present :
    dir[n].kind = "unfinished" \/ (dir[n].bFactoryBackup /\ dir[n].missing)

\* The inductive invariant.
IInv ==
  TypeOK /\ ScanInv /\ ListInv /\ CountInv /\ SortInv /\ PackInv /\ DeletedInv
=============================================================================
