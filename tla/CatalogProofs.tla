---------------------------- MODULE CatalogProofs ----------------------------
(***************************************************************************)
(* Proofs about Catalog: every step preserves IInv, hence the list is      *)
(* sorted, loses nothing, has no gaps and only names backups that are      *)
(* there, for any number of partitions and files and any size of the list. *)
(***************************************************************************)
EXTENDS Catalog, RankTheorems

-----------------------------------------------------------------------------
(***************************************************************************)
(* A WORD.                                                                 *)
(***************************************************************************)

\* The provers need no more of a WORD than that it is one.
LEMMA WordType == Word \in Nat \ {0}
BY DEF Word

-----------------------------------------------------------------------------
(***************************************************************************)
(* The slots of the list.                                                  *)
(***************************************************************************)

\* A listed entry is an image.
LEMMA FoundIsImage ==
  ASSUME ScanInv, ListInv, NEW n \in found
  PROVE  /\ n \in 1..Len(dir) /\ dir[n] \in Image
         /\ dir[n].FileTime \in Nat \ {0} /\ dir[n].missing \in BOOLEAN
<1>1. n \in 1..Len(dir) /\ dir[n].kind = "image" /\ dir \in Seq(Image \cup Others)
  BY DEF ScanInv, ListInv
<1>2. dir[n] \in Image \cup Others
  BY <1>1
<1>3. dir[n] \in Image
  BY <1>1, <1>2 DEF Others
<1> QED BY <1>1, <1>3, TimesAssumption DEF Image

\* A slot is cleared or has an image.
LEMMA SlotFacts ==
  ASSUME TypeOK, ScanInv, ListInv, NEW x \in 1..Len(images)
  PROVE  /\ x \in Filled <=> images[x] # 0
         /\ images[x] \in 0..Len(dir)
         /\ images[x] # 0 => /\ images[x] \in found /\ images[x] \in present
                             /\ images[x] \in Listed
                             /\ Slot(x) = dir[images[x]] /\ Slot(x).FileTime \in Nat \ {0}
         /\ images[x] = 0 => /\ Slot(x).FileTime = 0 /\ Slot(x).missing = FALSE
                             /\ Slot(x).bFactoryBackup = FALSE /\ ~IsTop(x)
         /\ Slot(x).FileTime \in Nat
<1>1. images[x] \in 0..Len(dir)
  BY DEF TypeOK
<1>2. x \in Filled <=> images[x] # 0
  BY DEF Filled
<1>3. CASE images[x] # 0
  <2>1. images[x] \in Listed /\ images[x] \in found /\ images[x] \in present
    BY <1>3 DEF Listed, ListInv
  <2>2. Slot(x) = dir[images[x]]
    BY <1>3 DEF Slot
  <2> QED BY <1>1, <1>2, <1>3, <2>1, <2>2, FoundIsImage
<1>4. CASE images[x] = 0
  BY <1>1, <1>2, <1>4 DEF Slot, IsTop
<1> QED BY <1>3, <1>4

\* The place a slot has after x and y changed places.
Place(x, y, z) == IF z = x THEN y ELSE IF z = y THEN x ELSE z

\* Two slots change places (or one stays): the list has what it had.
LEMMA SwapEffect ==
  ASSUME TypeOK, NEW x \in 1..Len(images), NEW y \in 1..Len(images),
         images' = Swapped(x, y), dir' = dir,
         \A a, b \in Filled : a # b => images[a] # images[b]
  PROVE  /\ Len(images') = Len(images) /\ images' \in Seq(0..Len(dir))
         /\ \A z \in 1..Len(images) :
              /\ Place(x, y, z) \in 1..Len(images)
              /\ images'[z] = images[Place(x, y, z)]
              /\ Slot(z)' = Slot(Place(x, y, z)) /\ IsTop(z)' = IsTop(Place(x, y, z))
              /\ z \in Filled' <=> Place(x, y, z) \in Filled
         /\ Filled' \subseteq 1..Len(images)
         /\ Listed' = Listed
         /\ \A a, b \in Filled' : a # b => images'[a] # images'[b]
<1>1. images \in Seq(0..Len(dir)) /\ Len(images) \in Nat
  <2>1. images \in Seq(0..Len(dir))
    BY DEF TypeOK
  <2> QED BY <2>1
<1>2. /\ Len(images') = Len(images) /\ images' \in Seq(0..Len(dir))
      /\ DOMAIN images' = 1..Len(images)
  BY <1>1 DEF Swapped
<1>3. \A z \in 1..Len(images) : images'[z] = images[Place(x, y, z)] /\ Place(x, y, z) \in 1..Len(images)
  BY <1>1 DEF Swapped, Place
<1>4. \A z \in 1..Len(images) :
        /\ Slot(z)' = Slot(Place(x, y, z)) /\ IsTop(z)' = IsTop(Place(x, y, z))
        /\ z \in Filled' <=> Place(x, y, z) \in Filled
  BY <1>2, <1>3 DEF Slot, IsTop, Filled
<1>5. Filled' \subseteq 1..Len(images)
  BY <1>2 DEF Filled
<1>6. \A z \in 1..Len(images) : Place(x, y, Place(x, y, z)) = z
  BY DEF Place
<1>7. Listed' = Listed
  <2>1. Listed' = {images'[z] : z \in 1..Len(images)} \ {0}
    BY <1>2 DEF Listed
  <2>2. \A z \in 1..Len(images) : \E w \in 1..Len(images) : images'[w] = images[z]
    BY <1>3, <1>6
  <2>3. \A z \in 1..Len(images) : \E w \in 1..Len(images) : images[w] = images'[z]
    BY <1>3
  <2>4. {images'[z] : z \in 1..Len(images)} = {images[z] : z \in 1..Len(images)}
    <3> DEFINE D == 1..Len(images)
    <3> HIDE DEF D
    <3>1. (\A z \in D : \E w \in D : images'[w] = images[z])
          /\ (\A z \in D : \E w \in D : images[w] = images'[z])
      BY <2>2, <2>3 DEF D
    <3>2. {images'[z] : z \in D} = {images[z] : z \in D}
      <4>1. ASSUME NEW v \in {images'[z] : z \in D} PROVE v \in {images[z] : z \in D}
        <5>1. PICK z \in D : v = images'[z]
          OBVIOUS
        <5>2. PICK w \in D : images[w] = images'[z]
          BY <3>1
        <5> QED BY <5>1, <5>2
      <4>2. ASSUME NEW v \in {images[z] : z \in D} PROVE v \in {images'[z] : z \in D}
        <5>1. PICK z \in D : v = images[z]
          OBVIOUS
        <5>2. PICK w \in D : images'[w] = images[z]
          BY <3>1
        <5> QED BY <5>1, <5>2
      <4> QED BY <4>1, <4>2
    <3> QED BY <3>2 DEF D
  <2> QED BY <2>1, <2>4 DEF Listed
<1>8. \A a, b \in Filled' : a # b => images'[a] # images'[b]
  <2> SUFFICES ASSUME NEW a \in Filled', NEW b \in Filled', a # b
               PROVE  images'[a] # images'[b]
    OBVIOUS
  <2>1. a \in 1..Len(images) /\ b \in 1..Len(images)
    BY <1>5
  <2>2. Place(x, y, a) \in Filled /\ Place(x, y, b) \in Filled
    BY <1>4, <2>1
  <2>3. Place(x, y, a) # Place(x, y, b)
    BY <1>6, <2>1
  <2> QED BY <1>3, <2>1, <2>2, <2>3
<1> QED BY <1>2, <1>3, <1>4, <1>5, <1>7, <1>8

\* A list that does not change.
LEMMA ListKept ==
  ASSUME UNCHANGED <<images, dir>>
  PROVE  /\ Filled' = Filled /\ Listed' = Listed /\ Tops' = Tops
         /\ \A x : Slot(x)' = Slot(x) /\ IsTop(x)' = IsTop(x)
BY DEF Filled, Listed, Tops, Slot, IsTop

-----------------------------------------------------------------------------
(***************************************************************************)
(* The scan.                                                               *)
(***************************************************************************)

\* Types of what the scan uses.
LEMMA ScanTypes ==
  ASSUME IInv
  PROVE  /\ k \in Nat /\ part \in Nat /\ Len(dir) \in Nat /\ Len(images) \in Nat /\ NParts \in Nat
         /\ part \in 1..(NParts + 1) /\ k \in 1..(Len(dir) + 1)
         /\ MaxNum \in 1..(Word - 1) /\ DOMAIN dir = 1..Len(dir) /\ img_err \in Nat /\ img_count \in Nat
         /\ images \in Seq(0..Len(dir)) /\ i \in 1..(Len(images) + 1) /\ Len(images) <= MaxNum
         /\ present \subseteq 1..Len(dir)
<1>1. TypeOK /\ ScanInv
  BY DEF IInv
<1>2. dir \in Seq(Image \cup Others) /\ img_err \in Nat /\ img_count \in Nat
  BY <1>1 DEF ScanInv
<1>3. images \in Seq(0..Len(dir))
  BY <1>1 DEF TypeOK
<1>4. Len(dir) \in Nat /\ Len(images) \in Nat /\ DOMAIN dir = 1..Len(dir)
  BY <1>2, <1>3
<1>5. present \subseteq 1..Len(dir)
  BY <1>1, <1>4 DEF TypeOK
<1>6. /\ part \in 1..(NParts + 1) /\ k \in 1..(Len(dir) + 1) /\ i \in 1..(Len(images) + 1)
      /\ Len(images) <= MaxNum
  BY <1>1 DEF TypeOK
<1>7. NParts \in Nat /\ MaxNum \in 1..(Word - 1)
  BY BoundsAssumption
<1> QED BY <1>2, <1>3, <1>4, <1>5, <1>6, <1>7, WordType

\* A step of the scan that lists nothing.
LEMMA QuietScan ==
  ASSUME IInv, pc \in Scanning, pc' \in Scanning \cup {"top"}, UNCHANGED <<dir, images, i, errs>>,
         part' \in 1..(NParts + 1), k' \in 1..(Len(dir) + 1), present' \subseteq 1..Len(dir),
         ImageFilesNumber' \in 0..(Word - 1), ScanInv', DeletedInv', Listed \subseteq present',
         pc' = "top" => ImageFilesNumber' = Len(images)
  PROVE  IInv'
<1>1. Filled' = Filled /\ Listed' = Listed
  BY ListKept
<1>2. UNCHANGED <<found, kept, img_err_del, img_err_count>>
  BY DEF errs
<1>3. ListInv'
  BY <1>1, <1>2 DEF IInv, ListInv, Scanning
<1>4. CountInv' /\ SortInv' /\ PackInv'
  BY <1>1, <1>2 DEF IInv, CountInv, SortInv, PackInv, Scanning
<1>5. TypeOK'
  <2>1. img_err' \in Nat
    BY DEF ScanInv
  <2>2. img_err' >= 0 /\ DOMAIN dir = 1..Len(dir)
    BY <2>1, ScanTypes
  <2>3. pc' \in {"part", "list", "listed", "top"}
    BY DEF Scanning
  <2>4. images \in Seq(0..Len(dir)) /\ Len(images) <= MaxNum /\ i \in 1..(Len(images) + 1)
    BY ScanTypes
  <2> QED BY <2>2, <2>3, <2>4 DEF TypeOK
<1> QED BY <1>3, <1>4, <1>5 DEF IInv

\* A partition is opened: nothing of it has been looked at.
LEMMA OpenPartStep == IInv /\ OpenPart => IInv'
<1> SUFFICES ASSUME IInv, OpenPart PROVE IInv'
  OBVIOUS
<1>1. /\ pc = "part" /\ part <= NParts /\ (pc' = "part" \/ pc' = "list")
      /\ (part' = part \/ part' = part + 1)
      /\ (pc' = "list" => part' = part) /\ img_count' = 0 /\ img_err' = 0
      /\ UNCHANGED <<dir, present, k, all_img_count, images, ImageFilesNumber, i, errs>>
  BY DEF OpenPart, sort
<1>2. /\ part' \in 1..(NParts + 1) /\ k' \in 1..(Len(dir) + 1) /\ present' \subseteq 1..Len(dir)
      /\ ImageFilesNumber' \in 0..(Word - 1)
  <2>1. part' \in 1..(NParts + 1)
    BY <1>1, ScanTypes
  <2> QED BY <1>1, <2>1, ScanTypes DEF IInv, TypeOK
<1>3. ScanInv' /\ DeletedInv'
  BY <1>1 DEF IInv, ScanInv, Scanning, DeletedInv
<1>4. Listed \subseteq present'
  BY <1>1 DEF IInv, ListInv
<1> QED BY <1>1, <1>2, <1>3, <1>4, QuietScan DEF Scanning

\* A file of another partition, or no image, is passed over.
LEMMA SkipFileStep == IInv /\ SkipFile => IInv'
<1> SUFFICES ASSUME IInv, SkipFile PROVE IInv'
  OBVIOUS
<1>1. /\ pc = "list" /\ pc' = "list" /\ k <= Len(dir) /\ k' = k + 1
      /\ UNCHANGED <<dir, present, part, img_count, img_err, images, ImageFilesNumber, i, errs>>
  BY DEF SkipFile, sort
<1>2. /\ part' \in 1..(NParts + 1) /\ k' \in 1..(Len(dir) + 1) /\ present' \subseteq 1..Len(dir)
      /\ ImageFilesNumber' \in 0..(Word - 1)
  <2>1. k' \in 1..(Len(dir) + 1)
    BY <1>1, ScanTypes
  <2> QED BY <1>1, <2>1, ScanTypes DEF IInv, TypeOK
<1>3. ScanInv'
  <2>1. \A x \in 1..Len(images) : images[x] \in 1..k
    <3>1. \A x \in 1..Len(images) : images[x] \in 1..(k - 1)
      BY <1>1 DEF IInv, ScanInv, Scanning
    <3>2. k \in Nat
      BY ScanTypes
    <3>3. \A y \in 1..(k - 1) : y \in 1..k
      BY <3>2
    <3> QED BY <3>1, <3>3
  <2>2. \A n \in (k + 1)..Len(dir) : n \in present
    BY <1>1, ScanTypes DEF IInv, ScanInv, Scanning
  <2>3. (k + 1) - 1 = k
    BY ScanTypes
  <2> QED BY <1>1, <2>1, <2>2, <2>3 DEF IInv, ScanInv
<1>4. DeletedInv' /\ Listed \subseteq present'
  BY <1>1 DEF IInv, ListInv, DeletedInv
<1> QED BY <1>1, <1>2, <1>3, <1>4, QuietScan DEF Scanning

\* An unfinished image goes, and only that.
LEMMA DeleteFileStep == IInv /\ DeleteFile => IInv'
<1> SUFFICES ASSUME IInv, DeleteFile PROVE IInv'
  OBVIOUS
<1>1. /\ pc = "list" /\ pc' = "list" /\ k <= Len(dir) /\ k' = k + 1 /\ dir[k].kind = "unfinished"
      /\ (present' = present \/ present' = present \ {k})
      /\ img_count' = img_count + 1 /\ (img_err' = img_count' \/ img_err' = img_count' - 1)
      /\ UNCHANGED <<dir, part, images, ImageFilesNumber, i, errs>>
  BY DEF DeleteFile, InPart, sort
<1>2. /\ part' \in 1..(NParts + 1) /\ k' \in 1..(Len(dir) + 1) /\ present' \subseteq 1..Len(dir)
      /\ ImageFilesNumber' \in 0..(Word - 1)
  <2>1. k' \in 1..(Len(dir) + 1)
    BY <1>1, ScanTypes
  <2>2. present' \subseteq present
    BY <1>1
  <2>3. present \subseteq 1..Len(dir) /\ part \in 1..(NParts + 1)
    BY ScanTypes
  <2>4. ImageFilesNumber' \in 0..(Word - 1)
    BY <1>1 DEF IInv, TypeOK
  <2> QED BY <1>1, <2>1, <2>2, <2>3, <2>4
<1>3. ScanInv'
  <2>1. \A x \in 1..Len(images) : images[x] \in 1..k
    <3>1. \A x \in 1..Len(images) : images[x] \in 1..(k - 1)
      BY <1>1 DEF IInv, ScanInv, Scanning
    <3>2. k \in Nat
      BY ScanTypes
    <3>3. \A y \in 1..(k - 1) : y \in 1..k
      BY <3>2
    <3> QED BY <3>1, <3>3
  <2>2. \A n \in (k + 1)..Len(dir) : n \in present'
    <3>1. \A n \in k..Len(dir) : n \in present
      BY <1>1 DEF IInv, ScanInv, Scanning
    <3>2. \A n \in (k + 1)..Len(dir) : n \in k..Len(dir) /\ n # k
      BY ScanTypes
    <3> QED BY <1>1, <3>1, <3>2
  <2>3. (k + 1) - 1 = k /\ img_count' \in Nat /\ img_err' \in Nat
    <3>1. img_count \in Nat /\ k \in Nat
      BY ScanTypes
    <3> QED BY <1>1, <3>1
  <2> QED BY <1>1, <2>1, <2>2, <2>3 DEF IInv, ScanInv
<1>4. DeletedInv'
  BY <1>1 DEF IInv, DeletedInv
<1>5. Listed \subseteq present'
  <2>1. k \notin Listed
    BY <1>1 DEF IInv, ListInv
  <2> QED BY <1>1, <2>1 DEF IInv, ListInv
<1> QED BY <1>1, <1>2, <1>3, <1>4, <1>5, QuietScan DEF Scanning

\* A partition is done with.
LEMMA EndPartStep == IInv /\ EndPart => IInv'
<1> SUFFICES ASSUME IInv, EndPart PROVE IInv'
  OBVIOUS
<1>1. /\ pc = "list" /\ pc' = "part" /\ part' = part + 1
      /\ UNCHANGED <<dir, present, k, img_count, img_err, images, ImageFilesNumber, i, errs>>
  BY DEF EndPart, sort
<1>2. /\ part' \in 1..(NParts + 1) /\ k' \in 1..(Len(dir) + 1) /\ present' \subseteq 1..Len(dir)
      /\ ImageFilesNumber' \in 0..(Word - 1)
  <2>1. part <= NParts
    BY <1>1 DEF IInv, ScanInv
  <2>2. part' \in 1..(NParts + 1)
    <3>1. part \in 1..(NParts + 1) /\ NParts \in Nat
      BY ScanTypes
    <3> QED BY <1>1, <2>1, <3>1
  <2> QED BY <1>1, <2>2, ScanTypes DEF IInv, TypeOK
<1>3. ScanInv' /\ DeletedInv'
  BY <1>1 DEF IInv, ScanInv, Scanning, DeletedInv
<1>4. Listed \subseteq present'
  BY <1>1 DEF IInv, ListInv
<1> QED BY <1>1, <1>2, <1>3, <1>4, QuietScan DEF Scanning

\* All partitions are done with, or the list is full.
LEMMA EndScanStep == IInv /\ EndScan => IInv'
<1> SUFFICES ASSUME IInv, EndScan PROVE IInv'
  OBVIOUS
<1>1. /\ (pc = "part" \/ pc = "listed") /\ pc' = "top" /\ ImageFilesNumber' = Len(images)
      /\ UNCHANGED <<dir, present, part, k, img_count, img_err, images, i, errs>>
  BY DEF EndScan, sort
<1>2. /\ part' \in 1..(NParts + 1) /\ k' \in 1..(Len(dir) + 1) /\ present' \subseteq 1..Len(dir)
      /\ ImageFilesNumber' \in 0..(Word - 1)
  <2>1. Len(images) \in 0..(Word - 1)
    BY ScanTypes, WordType
  <2> QED BY <1>1, <2>1, ScanTypes
<1>3. ScanInv' /\ DeletedInv'
  BY <1>1 DEF IInv, ScanInv, Scanning, DeletedInv
<1>4. Listed \subseteq present'
  BY <1>1 DEF IInv, ListInv
<1> QED BY <1>1, <1>2, <1>3, <1>4, QuietScan DEF Scanning

\* ListFile: the entry is new to the list.
LEMMA ListFileStep == IInv /\ ListFile => IInv'
<1> SUFFICES ASSUME IInv, ListFile PROVE IInv'
  OBVIOUS
<1> DEFINE n == Len(images) + 1
<1>1. /\ pc = "list" /\ k <= Len(dir) /\ k' = k + 1 /\ dir[k].kind = "image"
      /\ images' = Append(images, k) /\ found' = found \cup {k}
      /\ pc' = (IF Len(images') >= MaxNum THEN "listed" ELSE "list")
      /\ UNCHANGED <<dir, present, part, img_count, img_err, ImageFilesNumber, i,
                     img_err_del, img_err_count, kept>>
  BY DEF ListFile, InPart, sort
<1>2. /\ Len(images') = n /\ images'[n] = k /\ n \in 1..n /\ 1..n = 1..Len(images) \cup {n}
      /\ \A x \in 1..Len(images) : images'[x] = images[x]
      /\ n \notin 1..Len(images) /\ images' \in Seq(0..Len(dir)) /\ n \in Nat
  <2>1. images \in Seq(0..Len(dir)) /\ Len(images) \in Nat /\ k \in 0..Len(dir)
    BY <1>1, ScanTypes
  <2> QED BY <1>1, <2>1
<1>3. /\ k \in Nat /\ k # 0 /\ Len(images) < MaxNum /\ part <= NParts
      /\ \A x \in 1..Len(images) : images[x] \in 1..(k - 1)
      /\ k \in present
  <2>1. k \in k..Len(dir) /\ k \in 1..(Len(dir) + 1)
    BY <1>1, ScanTypes
  <2>2. Len(images) < MaxNum /\ part <= NParts
    BY <1>1 DEF IInv, ScanInv
  <2>3. (\A x \in 1..Len(images) : images[x] \in 1..(k - 1)) /\ k \in present
    BY <1>1, <2>1 DEF IInv, ScanInv, Scanning
  <2> QED BY <2>1, <2>2, <2>3
<1>4. TypeOK'
  <2>1. n <= MaxNum /\ i \in 1..(n + 1) /\ k + 1 \in 1..(Len(dir) + 1)
    BY <1>1, <1>2, <1>3, ScanTypes
  <2>2. pc' = "list" \/ pc' = "listed"
    BY <1>1
  <2>3. i' \in 1..(Len(images') + 1) /\ Len(images') <= MaxNum
    BY <1>1, <1>2, <2>1
  <2> HIDE DEF n
  <2> QED BY <1>1, <1>2, <2>1, <2>2, <2>3 DEF IInv, TypeOK
<1>5. ScanInv'
  <2>1. \A x \in 1..n : images'[x] \in 1..k
    <3>1. \A x \in 1..Len(images) : images'[x] \in 1..k
      BY <1>2, <1>3
    <3>2. images'[n] \in 1..k
      BY <1>2, <1>3
    <3> HIDE DEF n
    <3> QED BY <1>2, <3>1, <3>2
  <2>2. \A m \in (k + 1)..Len(dir) : m \in present
    BY <1>1, ScanTypes DEF IInv, ScanInv, Scanning
  <2>3. (k + 1) - 1 = k /\ (pc' = "list" => Len(images') < MaxNum)
    BY <1>1, <1>2, <1>3, ScanTypes
  <2> HIDE DEF n
  <2> QED BY <1>1, <1>2, <1>3, <2>1, <2>2, <2>3 DEF IInv, ScanInv
<1>6. Filled' = 1..n /\ Filled = 1..Len(images)
  <2>1. Filled' = {x \in 1..n : images'[x] # 0}
    BY <1>2 DEF Filled
  <2>2. \A x \in 1..n : images'[x] # 0
    <3>1. ASSUME NEW x \in 1..Len(images) PROVE images'[x] # 0
      <4>1. images[x] \in 1..(k - 1) /\ images'[x] = images[x]
        BY <1>2, <1>3
      <4> QED BY <4>1
    <3>2. images'[n] # 0 /\ \A x \in 1..n : x \in 1..Len(images) \/ x = n
      BY <1>2, <1>3
    <3> HIDE DEF n
    <3> QED BY <3>1, <3>2
  <2> HIDE DEF n
  <2> QED BY <1>1, <2>1, <2>2 DEF IInv, ListInv, Scanning
<1>7. Listed' = Listed \cup {k} /\ k \notin Listed
  <2> HIDE DEF n
  <2>1. \A x \in 1..Len(images) : images[x] # k
    BY <1>3
  <2>2. k \notin Listed
    BY <2>1 DEF Listed
  <2>3. {images'[x] : x \in 1..n} = {images[x] : x \in 1..Len(images)} \cup {k}
    <3>1. {images'[x] : x \in 1..n} = {images'[x] : x \in 1..Len(images)} \cup {images'[n]}
      BY <1>2
    <3>2. {images'[x] : x \in 1..Len(images)} = {images[x] : x \in 1..Len(images)}
      BY <1>2
    <3> QED BY <1>2, <3>1, <3>2
  <2> QED BY <1>2, <1>3, <2>2, <2>3 DEF Listed
<1>8. ListInv'
  <2> HIDE DEF n
  <2>1. \A x, y \in Filled' : x # y => images'[x] # images'[y]
    <3> SUFFICES ASSUME NEW x \in 1..n, NEW y \in 1..n, x # y
                 PROVE  images'[x] # images'[y]
      BY <1>6
    <3>1. \A z \in 1..Len(images) : images'[z] # k
      BY <1>2, <1>3
    <3> QED BY <1>2, <1>6, <3>1 DEF IInv, ListInv
  <2>2. found' \subseteq 1..Len(dir) /\ \A m \in found' : dir[m].kind = "image"
    BY <1>1, <1>3, ScanTypes DEF IInv, ListInv
  <2>3. kept = {} /\ kept' = {} /\ Listed' \subseteq found' \cap present
    BY <1>1, <1>3, <1>7 DEF IInv, ListInv, Scanning
  <2>4. \A m \in found' : m \in Listed' \/ (dir[m].missing /\ m \notin kept')
    BY <1>1, <1>7, <2>3 DEF IInv, ListInv
  <2> QED BY <1>1, <1>2, <1>6, <2>1, <2>2, <2>3, <2>4 DEF ListInv, Scanning
<1>9. CountInv'
  <2>1. IsFiniteSet(Listed) /\ Cardinality(Listed \cup {k}) = Cardinality(Listed) + 1
    <3>1. IsFiniteSet(1..Len(dir)) /\ Listed \in SUBSET (1..Len(dir))
      BY ScanTypes, FS_Interval DEF IInv, ListInv
    <3> QED BY <1>7, <3>1, FS_Subset, FS_AddElement
  <2>2. Cardinality(Listed) = Len(images) - img_err_count /\ img_err_count = 0 /\ img_err_del = 0
    BY <1>1 DEF IInv, CountInv, Scanning
  <2>3. Cardinality(Listed') = n
    BY <1>7, <2>1, <2>2, ScanTypes
  <2> HIDE DEF n
  <2>4. n - 0 = n
    BY <1>2
  <2> QED BY <1>1, <1>2, <2>2, <2>3, <2>4 DEF CountInv, Scanning
<1>10. SortInv' /\ PackInv' /\ DeletedInv'
  BY <1>1 DEF IInv, SortInv, PackInv, DeletedInv
<1> QED BY <1>4, <1>5, <1>8, <1>9, <1>10 DEF IInv

-----------------------------------------------------------------------------
(***************************************************************************)
(* The sort.                                                               *)
(***************************************************************************)

\* What IInv says of the list.
LEMMA ListFacts ==
  ASSUME IInv
  PROVE  /\ TypeOK /\ ScanInv /\ ListInv /\ Tops \subseteq 1..Len(images)
         /\ \A x, y \in Filled : x # y => images[x] # images[y]
         /\ \A x \in 1..Len(images) : IsTop(x) => x \in Filled
<1>1. TypeOK /\ ScanInv /\ ListInv
  BY DEF IInv
<1>2. \A x, y \in Filled : x # y => images[x] # images[y]
  BY <1>1 DEF ListInv
<1>3. \A x \in 1..Len(images) : IsTop(x) => x \in Filled
  BY <1>1, SlotFacts
<1> QED BY <1>1, <1>2, <1>3 DEF Tops

\* FactoryFirst keeps what is listed; if there is a factory backup it is first,
\* and the first slot has taken its place.
LEMMA FactoryFirstEffect ==
  ASSUME IInv, NEW next, FactoryFirst(next)
  PROVE  /\ Len(images') = Len(images) /\ images' \in Seq(0..Len(dir)) /\ Listed' = Listed
         /\ \A a, b \in Filled' : a # b => images'[a] # images'[b]
         /\ (Filled = 1..Len(images) => Filled' = 1..Len(images))
         /\ bHasFactoryImage' = (Tops # {})
         /\ IF Tops = {} THEN images' = images
            ELSE \E t \in Tops : images' = Swapped(1, t) /\ 1 \in 1..Len(images)
                                 /\ \A y \in Tops : t <= y
         /\ IF bHasFactoryImage' THEN 1 \in Tops' ELSE Tops' = {}
<1>1. dir' = dir
  BY DEF FactoryFirst
<1>2. images \in Seq(0..Len(dir)) /\ Len(images) \in Nat
  BY ScanTypes
<1>3. CASE Tops = {}
  <2>1. images' = images /\ bHasFactoryImage' = FALSE
    BY <1>3 DEF FactoryFirst
  <2>2. Filled' = Filled /\ Listed' = Listed /\ Tops' = Tops
    BY <1>1, <2>1, ListKept
  <2> QED BY <1>2, <1>3, <2>1, <2>2, ListFacts
<1>4. CASE Tops # {}
  <2> DEFINE t == CHOOSE x \in Tops : \A y \in Tops : x <= y
  <2>1. bHasFactoryImage' = TRUE /\ images' = Swapped(1, t)
    BY <1>4 DEF FactoryFirst
  <2>2. Tops \in SUBSET (1..Len(images)) /\ Tops \in SUBSET Nat
    BY <1>2, ListFacts
  <2>3. IsFiniteSet(Tops)
    <3>1. IsFiniteSet(1..Len(images))
      BY <1>2, FS_Interval
    <3> QED BY <2>2, <3>1, FS_Subset
  <2>4. t \in Tops /\ \A y \in Tops : t <= y
    BY <1>4, <2>2, <2>3, LeastNumber
  <2> HIDE DEF t
  <2>5. t \in 1..Len(images) /\ 1 \in 1..Len(images)
    BY <1>2, <2>2, <2>4
  <2>6. TypeOK /\ \A x, y \in Filled : x # y => images[x] # images[y]
    BY ListFacts
  <2> DEFINE E == /\ Len(images') = Len(images) /\ images' \in Seq(0..Len(dir))
                  /\ \A z \in 1..Len(images) :
                       /\ Place(1, t, z) \in 1..Len(images)
                       /\ IsTop(z)' = IsTop(Place(1, t, z))
                       /\ z \in Filled' <=> Place(1, t, z) \in Filled
                  /\ Filled' \subseteq 1..Len(images)
                  /\ Listed' = Listed
                  /\ \A a, b \in Filled' : a # b => images'[a] # images'[b]
  <2>7. E
    BY <1>1, <2>1, <2>5, <2>6, SwapEffect
  <2>8. 1 \in Tops'
    BY <2>4, <2>5, <2>7 DEF Tops, Place
  <2>9. Filled = 1..Len(images) => Filled' = 1..Len(images)
    BY <2>7
  <2> QED BY <1>4, <2>1, <2>4, <2>5, <2>7, <2>8, <2>9
<1> QED BY <1>3, <1>4

\* A step that only moves things in the list keeps all of IInv but the order.
LEMMA MovedList ==
  ASSUME IInv, UNCHANGED <<dir, present, scan, ImageFilesNumber, errs>>,
         \/ pc' = "sort" /\ pc \in {"top", "sort"} /\ Filled' = 1..Len(images)
         \/ pc' = "pack" /\ pc = "check" /\ i > Len(images)
         \/ pc' = "pack" /\ pc = "pack",
         Len(images') = Len(images), images' \in Seq(0..Len(dir)), Listed' = Listed,
         \A a, b \in Filled' : a # b => images'[a] # images'[b],
         i' \in 1..(Len(images) + 1)
  PROVE  TypeOK' /\ ScanInv' /\ ListInv' /\ CountInv' /\ DeletedInv'
<1>1. UNCHANGED <<part, k, img_count, img_err, found, kept, img_err_del, img_err_count>>
  BY DEF scan, errs
<1>2. pc' = "sort" \/ pc' = "pack"
  OBVIOUS
<1>3. TypeOK'
  BY <1>1, <1>2 DEF IInv, TypeOK
<1>4. ScanInv' /\ DeletedInv'
  BY <1>1, <1>2 DEF IInv, ScanInv, DeletedInv, Scanning
<1>5. CountInv'
  BY <1>1 DEF IInv, CountInv, Scanning
<1>6. ASSUME pc' = "pack", NEW n \in Listed, dir[n].missing
      PROVE  n \in kept
  <2>1. CASE pc = "pack"
    BY <1>6, <2>1 DEF IInv, ListInv
  <2>2. CASE pc = "check" /\ i > Len(images)
    <3>1. PICK x \in 1..Len(images) : n = images[x] /\ n # 0
      BY DEF Listed
    <3>2. x \in Filled /\ x < i
      BY <2>2, <3>1, ScanTypes DEF Filled
    <3> QED BY <1>6, <2>2, <3>1, <3>2 DEF IInv, ListInv
  <2> QED BY <1>6, <2>1, <2>2
<1>7. ListInv'
  <2>1. /\ found' \subseteq 1..Len(dir) /\ \A n \in found' : dir[n].kind = "image"
        /\ Listed' \subseteq found' \cap present /\ kept' \subseteq Listed'
        /\ \A n \in found' : n \in Listed' \/ (dir[n].missing /\ n \notin kept')
    BY <1>1 DEF IInv, ListInv
  <2>2. pc' = "sort" => kept' = {} /\ Filled' = 1..Len(images')
    BY <1>1 DEF IInv, ListInv, Scanning
  <2>3. pc' = "pack" => \A n \in Listed' : dir[n].missing => n \in kept'
    BY <1>1, <1>6
  <2> QED BY <1>1, <1>2, <2>1, <2>2, <2>3 DEF ListInv, Scanning
<1> QED BY <1>3, <1>4, <1>5, <1>7

\* The factory backup comes first in the list.
LEMMA TopOfListStep == IInv /\ TopOfList => IInv'
<1> SUFFICES ASSUME IInv, TopOfList PROVE IInv'
  OBVIOUS
<1>1. /\ pc = "top" /\ pc' = "sort" /\ i' = 1 /\ j' = 2 /\ FactoryFirst("sort")
      /\ UNCHANGED <<dir, present, scan, ImageFilesNumber, errs>>
  BY DEF TopOfList, FactoryFirst
<1>2. Filled = 1..Len(images) /\ Len(images) \in Nat
  BY <1>1, ScanTypes DEF IInv, ListInv
<1>3. /\ Len(images') = Len(images) /\ images' \in Seq(0..Len(dir)) /\ Listed' = Listed
      /\ \A a, b \in Filled' : a # b => images'[a] # images'[b]
      /\ Filled' = 1..Len(images)
      /\ IF bHasFactoryImage' THEN 1 \in Tops' ELSE Tops' = {}
  BY <1>1, <1>2, FactoryFirstEffect
<1>4. TypeOK' /\ ScanInv' /\ ListInv' /\ CountInv' /\ DeletedInv'
  <2>1. i' \in 1..(Len(images) + 1)
    BY <1>1, <1>2
  <2> QED BY <1>1, <1>3, <2>1, MovedList
<1>5. SortInv'
  <2>1. \A x, y \in 1..Len(images') : ~(x < y /\ (x < i' \/ (x = i' /\ y < j')))
    BY <1>1, <1>2, <1>3
  <2> QED BY <1>1, <1>3, <2>1 DEF SortInv
<1>6. PackInv'
  BY <1>1 DEF PackInv
<1> QED BY <1>4, <1>5, <1>6 DEF IInv

\* Sorting permutes the list.
LEMMA SortStep == IInv /\ Sort => IInv'
<1> SUFFICES ASSUME IInv, Sort PROVE IInv'
  OBVIOUS
<1> DEFINE T(x) == Slot(x).FileTime
           L == Len(images)
<1>1. /\ pc = "sort" /\ pc' = "sort" /\ i <= Len(images)
      /\ UNCHANGED <<dir, present, scan, ImageFilesNumber, bHasFactoryImage, errs>>
  BY DEF Sort
<1>2. /\ L \in Nat /\ i \in 1..L /\ Filled = 1..L /\ j \in Nat /\ i < j
      /\ \A x \in 1..L : T(x) \in Nat
  <2>1. L \in Nat /\ i \in 1..L
    BY <1>1, ScanTypes
  <2>2. Filled = 1..L /\ j \in Nat /\ i < j
    BY <1>1 DEF IInv, ListInv, SortInv
  <2>3. \A x \in 1..L : T(x) \in Nat
    BY ListFacts, SlotFacts
  <2> QED BY <2>1, <2>2, <2>3
<1>3. \A x, y \in 1..L : First <= x /\ x < y /\ (x < i \/ (x = i /\ y < j)) => T(x) <= T(y)
  BY <1>1 DEF IInv, SortInv
<1>4. IF bHasFactoryImage THEN 1 \in Tops ELSE Tops = {}
  BY <1>1 DEF IInv, SortInv
<1>5. First \in {1, 2} /\ First' = First /\ (bHasFactoryImage <=> First = 2)
  BY <1>1 DEF First
<1>6. PackInv'
  BY <1>1 DEF PackInv
<1>7. CASE ~(j <= L /\ ~(i = 1 /\ bHasFactoryImage) /\ T(i) > T(j))
  <2>1. images' = images
    BY <1>7 DEF Sort
  <2>2. /\ Filled' = Filled /\ Listed' = Listed /\ Tops' = Tops
        /\ \A x : Slot(x)' = Slot(x)
    BY <1>1, <2>1, ListKept
  <2>3. i' \in 1..(L + 1) /\ j' \in Nat /\ i' < j'
    BY <1>1, <1>2 DEF Sort
  <2>4. TypeOK' /\ ScanInv' /\ ListInv' /\ CountInv' /\ DeletedInv'
    BY <1>1, <1>2, <2>1, <2>2, <2>3, ListFacts, ScanTypes, MovedList
  <2>5. ASSUME NEW x \in 1..L, NEW y \in 1..L, First <= x, x < y, x < i' \/ (x = i' /\ y < j')
        PROVE  T(x) <= T(y)
    <3>1. CASE j <= L /\ ~(i = 1 /\ bHasFactoryImage)
      <4>1. i' = i /\ j' = j + 1 /\ ~(T(i) > T(j)) /\ j \in 1..L
        BY <1>2, <1>7, <3>1 DEF Sort
      <4> HIDE DEF T, L
      <4>2. x < i \/ (x = i /\ y < j) \/ (x = i /\ y = j)
        BY <1>2, <2>5, <4>1
      <4>3. CASE x = i /\ y = j
        BY <1>2, <4>1, <4>3
      <4> QED BY <1>3, <2>5, <4>2, <4>3
    <3>2. CASE ~(j <= L /\ ~(i = 1 /\ bHasFactoryImage))
      <4>1. i' = i + 1 /\ j' = i + 2
        BY <1>1, <3>2 DEF Sort
      <4> HIDE DEF T, L
      <4>2. x <= i
        BY <1>2, <2>5, <4>1
      <4>3. CASE x < i
        BY <1>3, <2>5, <4>3
      <4>4. CASE x = i
        <5>1. y < j
          BY <1>2, <1>5, <2>5, <3>2, <4>4
        <5> QED BY <1>3, <2>5, <4>4, <5>1
      <4> QED BY <1>2, <4>2, <4>3, <4>4
    <3> QED BY <3>1, <3>2
  <2>6. SortInv'
    BY <1>1, <1>4, <1>5, <2>1, <2>2, <2>3, <2>5 DEF SortInv, First
  <2> QED BY <1>6, <2>4, <2>6 DEF IInv
<1>8. CASE j <= L /\ ~(i = 1 /\ bHasFactoryImage) /\ T(i) > T(j)
  <2> DEFINE P(z) == Place(i, j, z)
  <2>1. images' = Swapped(i, j) /\ i' = i /\ j' = j + 1 /\ j \in 1..L
    BY <1>2, <1>8 DEF Sort
  <2>2. /\ Len(images') = Len(images) /\ images' \in Seq(0..Len(dir)) /\ Listed' = Listed
        /\ \A z \in 1..L : /\ P(z) \in 1..L /\ Slot(z)' = Slot(P(z)) /\ IsTop(z)' = IsTop(P(z))
                           /\ z \in Filled' <=> P(z) \in Filled
        /\ Filled' \subseteq 1..L
        /\ \A a, b \in Filled' : a # b => images'[a] # images'[b]
    BY <1>1, <1>2, <2>1, ListFacts, SwapEffect
  <2>3. TypeOK' /\ ScanInv' /\ ListInv' /\ CountInv' /\ DeletedInv'
    <3>1. i' \in 1..(L + 1)
      BY <1>2, <2>1
    <3>2. \A z \in 1..L : z \in Filled'
      BY <1>2, <2>2
    <3>3. Filled' = 1..L
      BY <2>2, <3>2
    <3> QED BY <1>1, <2>2, <3>1, <3>3, MovedList
  <2>4. ASSUME NEW x \in 1..L, NEW y \in 1..L, First <= x, x < y, x < i' \/ (x = i' /\ y < j')
        PROVE  T(P(x)) <= T(P(y))
    <3> HIDE DEF T, L
    <3>1. CASE x < i
      <4>1. P(x) = x /\ x < P(y) /\ P(y) \in 1..L
        BY <1>2, <2>1, <2>4, <3>1 DEF Place
      <4> QED BY <1>3, <2>4, <3>1, <4>1
    <3>2. CASE x = i /\ y = j
      BY <1>2, <1>8, <2>1, <3>2 DEF Place
    <3>3. CASE x = i /\ y < j
      <4>1. P(x) = j /\ P(y) = y
        BY <1>2, <2>1, <2>4, <3>3 DEF Place
      <4>2. T(i) <= T(y)
        BY <1>3, <2>4, <3>3
      <4> HIDE DEF P
      <4> QED BY <1>2, <1>8, <2>1, <4>1, <4>2
    <3> QED BY <1>2, <2>1, <2>4, <3>1, <3>2, <3>3
  <2>5. IF bHasFactoryImage' THEN 1 \in Tops' ELSE Tops' = {}
    <3>1. Tops' = {z \in 1..L : IsTop(P(z))}
      BY <2>2 DEF Tops
    <3>2. CASE bHasFactoryImage
      <4>1. P(1) = 1 /\ 1 \in 1..L
        BY <1>2, <1>8, <2>1, <3>2 DEF Place
      <4> QED BY <1>1, <1>4, <3>1, <3>2, <4>1 DEF Tops
    <3>3. CASE ~bHasFactoryImage
      <4>1. \A z \in 1..L : ~IsTop(P(z))
        BY <1>4, <2>2, <3>3 DEF Tops
      <4> QED BY <1>1, <3>1, <3>3, <4>1
    <3> QED BY <3>2, <3>3
  <2>6. SortInv'
    <3>1. \A x, y \in 1..L : First <= x /\ x < y /\ (x < i' \/ (x = i' /\ y < j')) => Slot(x).FileTime' <= Slot(y).FileTime'
      BY <2>2, <2>4
    <3>2. j' \in Nat /\ i' < j'
      BY <1>2, <2>1
    <3> QED BY <1>1, <1>5, <2>2, <2>5, <3>1, <3>2 DEF SortInv
  <2> QED BY <1>6, <2>3, <2>6 DEF IInv
<1> QED BY <1>7, <1>8

\* EndSort: now the whole list is sorted.
LEMMA EndSortStep == IInv /\ EndSort => IInv'
<1> SUFFICES ASSUME IInv, EndSort PROVE IInv'
  OBVIOUS
<1>1. /\ pc = "sort" /\ pc' = "check" /\ i > Len(images) /\ i' = 1
      /\ UNCHANGED <<dir, present, scan, images, ImageFilesNumber, bHasFactoryImage, errs>>
  BY DEF EndSort
<1>2. UNCHANGED <<part, k, img_count, img_err, found, kept, img_err_del, img_err_count>>
  BY <1>1 DEF scan, errs
<1>3. /\ Filled' = Filled /\ Listed' = Listed /\ Tops' = Tops
      /\ \A x : Slot(x)' = Slot(x) /\ IsTop(x)' = IsTop(x)
  BY <1>1, ListKept
<1>4. Len(images) \in Nat /\ Filled = 1..Len(images) /\ kept = {} /\ 1 \in 1..(Len(images) + 1)
  <2>1. Len(images) \in Nat
    BY ScanTypes
  <2> QED BY <1>1, <2>1 DEF IInv, ListInv
<1>5. TypeOK' /\ ScanInv' /\ DeletedInv'
  <2>1. TypeOK'
    BY <1>1, <1>2, <1>4 DEF IInv, TypeOK
  <2> QED BY <1>1, <1>2, <2>1 DEF IInv, ScanInv, DeletedInv, Scanning
<1>6. CountInv' /\ PackInv'
  BY <1>1, <1>2, <1>3 DEF IInv, CountInv, PackInv, Scanning
<1>7. ListInv'
  <2>1. \A x \in 1..Len(images) : images[x] # 0 /\ ~(x < 1)
    BY <1>4 DEF Filled
  <2> QED BY <1>1, <1>2, <1>3, <1>4, <2>1 DEF IInv, ListInv, Scanning
<1>8. SortInv'
  <2>1. \A x, y \in Filled : First <= x /\ x < y => Slot(x).FileTime <= Slot(y).FileTime
    <3> SUFFICES ASSUME NEW x \in 1..Len(images), NEW y \in 1..Len(images), First <= x, x < y
                 PROVE  Slot(x).FileTime <= Slot(y).FileTime
      BY <1>4
    <3>1. x < i
      BY <1>1, <1>4, ScanTypes
    <3> QED BY <1>1, <3>1 DEF IInv, SortInv
  <2>2. First' = First
    BY <1>1 DEF First
  <2> QED BY <1>1, <1>3, <2>1, <2>2 DEF IInv, SortInv
<1> QED BY <1>5, <1>6, <1>7, <1>8 DEF IInv

-----------------------------------------------------------------------------
(***************************************************************************)
(* The check of the files, and the gaps.                                   *)
(***************************************************************************)

\* A slot that was not looked at has an image, which is not kept.
LEMMA CheckFacts ==
  ASSUME IInv, pc = "check", i <= Len(images)
  PROVE  /\ i \in 1..Len(images) /\ i \in Nat /\ i + 1 \in 1..(Len(images) + 1)
         /\ images[i] # 0 /\ images[i] \notin kept /\ i \in Filled
         /\ images[i] \in Listed /\ images[i] \in found /\ Slot(i) = dir[images[i]]
         /\ \A x \in Filled : x # i => images[x] # images[i]
         /\ \A x \in 1..Len(images) : x >= i + 1 =>
              images[x] # 0 /\ images[x] \notin kept /\ images[x] # images[i] /\ x # i
         /\ \A x \in Filled : x < i + 1 /\ x # i /\ dir[images[x]].missing => images[x] \in kept
<1>1. Len(images) \in Nat /\ i \in 1..Len(images)
  BY ScanTypes
<1>2. \A x \in 1..Len(images) : x >= i => images[x] # 0 /\ images[x] \notin kept
  BY DEF IInv, ListInv
<1>3. images[i] # 0 /\ images[i] \notin kept
  BY <1>1, <1>2
<1>4. /\ i \in Filled /\ images[i] \in Listed /\ images[i] \in found
      /\ Slot(i) = dir[images[i]]
  BY <1>1, <1>3, ListFacts, SlotFacts
<1>5. \A x \in Filled : x # i => images[x] # images[i]
  BY <1>4, ListFacts
<1>6. ASSUME NEW x \in 1..Len(images), x >= i + 1
      PROVE  images[x] # 0 /\ images[x] \notin kept /\ images[x] # images[i] /\ x # i
  <2>1. x >= i /\ x # i
    BY <1>1, <1>6
  <2>2. images[x] # 0 /\ images[x] \notin kept
    BY <1>2, <2>1
  <2> QED BY <1>5, <2>1, <2>2 DEF Filled
<1>7. ASSUME NEW x \in Filled, x < i + 1, x # i, dir[images[x]].missing
      PROVE  images[x] \in kept
  <2>1. x < i
    BY <1>1, <1>7 DEF Filled
  <2> QED BY <1>7, <2>1 DEF IInv, ListInv
<1> QED BY <1>1, <1>3, <1>4, <1>5, <1>6, <1>7

\* An image whose partition does not open stays where it is.
LEMMA CheckSkipsStep == IInv /\ CheckSkips => IInv'
<1> SUFFICES ASSUME IInv, CheckSkips PROVE IInv'
  OBVIOUS
<1>1. /\ pc = "check" /\ pc' = "check" /\ i <= Len(images) /\ i' = i + 1
      /\ kept' = kept \cup {images[i]}
      /\ UNCHANGED <<dir, present, scan, images, ImageFilesNumber, bHasFactoryImage,
                     img_err_del, img_err_count, found>>
  BY DEF CheckSkips
<1>2. UNCHANGED <<part, k, img_count, img_err>>
  BY <1>1 DEF scan
<1>3. /\ Filled' = Filled /\ Listed' = Listed /\ Tops' = Tops
      /\ \A x : Slot(x)' = Slot(x) /\ IsTop(x)' = IsTop(x)
  BY <1>1, ListKept
<1>4. TypeOK' /\ ScanInv' /\ DeletedInv'
  <2>1. TypeOK'
    BY <1>1, <1>2, CheckFacts DEF IInv, TypeOK
  <2> QED BY <1>1, <1>2, <2>1 DEF IInv, ScanInv, DeletedInv, Scanning
<1>5. CountInv' /\ PackInv' /\ SortInv'
  <2>1. CountInv' /\ PackInv'
    BY <1>1, <1>3 DEF IInv, CountInv, PackInv, Scanning
  <2> QED BY <1>1, <1>3, <2>1 DEF IInv, SortInv, First
<1>6. ListInv'
  <2>1. /\ \A x \in 1..Len(images) : x >= i + 1 => images[x] # 0 /\ images[x] \notin kept'
        /\ \A x \in Filled : x < i + 1 /\ dir[images[x]].missing => images[x] \in kept'
    BY <1>1, CheckFacts
  <2>2. /\ kept' \subseteq Listed
        /\ \A n \in found : n \in Listed \/ (dir[n].missing /\ n \notin kept')
    BY <1>1, CheckFacts DEF IInv, ListInv
  <2> QED BY <1>1, <1>3, <2>1, <2>2 DEF IInv, ListInv, Scanning
<1> QED BY <1>4, <1>5, <1>6 DEF IInv

\* CheckImage: a slot that is cleared takes nothing else from the list.
LEMMA CheckImageStep == IInv /\ CheckImage => IInv'
<1> SUFFICES ASSUME IInv, CheckImage PROVE IInv'
  OBVIOUS
<1> DEFINE n == images[i]
<1>1. /\ pc = "check" /\ pc' = "check" /\ i <= Len(images) /\ i' = i + 1
      /\ UNCHANGED <<dir, scan, ImageFilesNumber, bHasFactoryImage, found, kept>>
  BY DEF CheckImage
<1>2. UNCHANGED <<part, k, img_count, img_err>>
  BY <1>1 DEF scan
<1>3. dir[n].missing \in BOOLEAN /\ n \in 1..Len(dir)
  BY <1>1, CheckFacts, ListFacts, FoundIsImage
<1>4. PackInv'
  BY <1>1 DEF PackInv
<1>5. CASE ~dir[n].missing
  <2>1. UNCHANGED <<present, images, img_err_del, img_err_count>>
    BY <1>1, <1>5, CheckFacts DEF CheckImage
  <2>2. /\ Filled' = Filled /\ Listed' = Listed /\ Tops' = Tops
        /\ \A x : Slot(x)' = Slot(x) /\ IsTop(x)' = IsTop(x)
    BY <1>1, <2>1, ListKept
  <2>3. TypeOK' /\ ScanInv' /\ DeletedInv'
    <3>1. TypeOK'
      BY <1>1, <1>2, <2>1, CheckFacts DEF IInv, TypeOK
    <3> QED BY <1>1, <1>2, <2>1, <3>1 DEF IInv, ScanInv, DeletedInv, Scanning
  <2>4. CountInv' /\ SortInv'
    <3>1. CountInv'
      BY <1>1, <2>1, <2>2 DEF IInv, CountInv, Scanning
    <3> QED BY <1>1, <2>1, <2>2, <3>1 DEF IInv, SortInv, First
  <2>5. ListInv'
    <3>1. /\ \A x \in 1..Len(images) : x >= i + 1 => images[x] # 0 /\ images[x] \notin kept
          /\ \A x \in Filled : x < i + 1 /\ dir[images[x]].missing => images[x] \in kept
      BY <1>1, <1>5, CheckFacts
    <3> QED BY <1>1, <2>1, <2>2, <3>1 DEF IInv, ListInv, Scanning
  <2> QED BY <1>4, <2>3, <2>4, <2>5 DEF IInv
<1>6. CASE dir[n].missing
  <2>1. /\ images' = [images EXCEPT ![i] = 0] /\ img_err_count' = img_err_count + 1
        /\ (img_err_del' = img_err_del \/ img_err_del' = img_err_del + 1)
        /\ (present' = present \/ (present' = present \ {n} /\ dir[n].bFactoryBackup))
    BY <1>1, <1>6, CheckFacts DEF CheckImage
  <2>2. /\ Len(images') = Len(images) /\ images' \in Seq(0..Len(dir)) /\ images'[i] = 0
        /\ \A x \in 1..Len(images) : x # i => images'[x] = images[x]
    <3>1. images \in Seq(0..Len(dir)) /\ i \in 1..Len(images) /\ Len(dir) \in Nat
      BY <1>1, ScanTypes, CheckFacts
    <3> QED BY <2>1, <3>1
  <2>3. /\ Filled' = Filled \ {i}
        /\ \A x \in 1..Len(images) : x # i => Slot(x)' = Slot(x) /\ IsTop(x)' = IsTop(x)
        /\ \A x \in 1..Len(images) : x = i => ~IsTop(x)'
    <3>1. Filled' = {x \in 1..Len(images) : images'[x] # 0}
      BY <2>2 DEF Filled
    <3>2. Filled' = Filled \ {i}
      BY <2>2, <3>1 DEF Filled
    <3>3. \A x \in 1..Len(images) : x # i => Slot(x)' = Slot(x) /\ IsTop(x)' = IsTop(x)
      BY <1>1, <2>2 DEF Slot, IsTop
    <3>4. \A x \in 1..Len(images) : x = i => ~IsTop(x)'
      BY <1>1, <2>2 DEF Slot, IsTop
    <3> QED BY <3>2, <3>3, <3>4
  <2>4. Listed' = Listed \ {n}
    <3>1. Listed' = {images'[x] : x \in 1..Len(images)} \ {0}
      BY <2>2 DEF Listed
    <3>2. ASSUME NEW m \in Listed' PROVE m \in Listed \ {n}
      <4>1. PICK x \in 1..Len(images) : m = images'[x] /\ m # 0
        BY <3>1
      <4>2. x # i /\ m = images[x] /\ x \in Filled
        BY <2>2, <4>1 DEF Filled
      <4> QED BY <1>1, <4>1, <4>2, CheckFacts DEF Listed
    <3>3. ASSUME NEW m \in Listed, m # n PROVE m \in Listed'
      <4>1. PICK x \in 1..Len(images) : m = images[x] /\ m # 0
        BY DEF Listed
      <4>2. m = images'[x]
        BY <2>2, <3>3, <4>1
      <4> QED BY <3>1, <4>1, <4>2
    <3> QED BY <3>2, <3>3
  <2>5. TypeOK' /\ ScanInv' /\ DeletedInv'
    <3>1. present' \subseteq DOMAIN dir
      BY <2>1 DEF IInv, TypeOK
    <3>2. TypeOK'
      BY <1>1, <1>2, <2>2, <3>1, CheckFacts DEF IInv, TypeOK
    <3>3. ScanInv'
      BY <1>1, <1>2 DEF IInv, ScanInv, Scanning
    <3>4. DeletedInv'
      BY <1>1, <1>6, <2>1 DEF IInv, DeletedInv
    <3> QED BY <3>2, <3>3, <3>4
  <2>6. CountInv'
    <3>1. Listed \in SUBSET (1..Len(dir)) /\ IsFiniteSet(1..Len(dir)) /\ n \in Listed
      <4>1. Len(dir) \in Nat /\ n \in Listed
        BY <1>1, ScanTypes, CheckFacts
      <4>2. IsFiniteSet(1..Len(dir))
        BY <4>1, FS_Interval
      <4>3. Listed \subseteq 1..Len(dir)
        BY DEF IInv, ListInv
      <4> QED BY <4>1, <4>2, <4>3
    <3>2. IsFiniteSet(Listed) /\ Cardinality(Listed) \in Nat
      BY <3>1, FS_Subset, FS_CardinalityType
    <3> HIDE DEF n
    <3>3. Cardinality(Listed \ {n}) = Cardinality(Listed) - 1
      BY <3>1, <3>2, FS_RemoveElement
    <3>4. /\ img_err_count \in Nat /\ img_err_del \in Nat
          /\ Cardinality(Listed) = Len(images) - img_err_count
          /\ ImageFilesNumber = Len(images) /\ Len(images) \in Nat
      BY <1>1, ScanTypes DEF IInv, CountInv
    <3>5. /\ img_err_count' \in Nat /\ img_err_del' \in Nat
          /\ Cardinality(Listed') = Len(images) - img_err_count'
      BY <2>1, <2>4, <3>2, <3>3, <3>4
    <3> QED BY <1>1, <2>2, <3>4, <3>5 DEF CountInv, Scanning
  <2>7. ListInv'
    <3>1. \A x, y \in Filled' : x # y => images'[x] # images'[y]
      <4>1. \A x \in Filled' : x \in Filled /\ images'[x] = images[x]
        BY <2>2, <2>3 DEF Filled
      <4>2. \A x, y \in Filled : x # y => images[x] # images[y]
        BY ListFacts
      <4> QED BY <4>1, <4>2
    <3>2. /\ Listed' \subseteq found \cap present' /\ kept \subseteq Listed'
          /\ \A m \in found : m \in Listed' \/ (dir[m].missing /\ m \notin kept)
      BY <1>1, <1>6, <2>1, <2>4, CheckFacts DEF IInv, ListInv
    <3>3. /\ \A x \in 1..Len(images) : x >= i + 1 => images'[x] # 0 /\ images'[x] \notin kept
          /\ \A x \in Filled' : x < i + 1 /\ dir[images'[x]].missing => images'[x] \in kept
      <4>1. \A x \in Filled' : x \in Filled /\ x # i /\ images'[x] = images[x]
        BY <2>2, <2>3 DEF Filled
      <4> QED BY <1>1, <2>2, <4>1, CheckFacts
    <3>4. found \subseteq 1..Len(dir) /\ \A m \in found : dir[m].kind = "image"
      BY DEF IInv, ListInv
    <3> QED BY <1>1, <2>2, <3>1, <3>2, <3>3, <3>4 DEF ListInv, Scanning
  <2>8. SortInv'
    <3>1. \A x, y \in Filled : First <= x /\ x < y => Slot(x).FileTime <= Slot(y).FileTime
      BY <1>1 DEF IInv, SortInv
    <3>2. \A x, y \in Filled' : First <= x /\ x < y => Slot(x).FileTime' <= Slot(y).FileTime'
      BY <2>3, <3>1 DEF Filled
    <3>3. IF bHasFactoryImage THEN 1 \in Tops \/ (1 \in 1..Len(images) /\ images[1] = 0)
                              ELSE Tops = {}
      BY <1>1 DEF IInv, SortInv
    <3>4. IF bHasFactoryImage THEN 1 \in Tops' \/ (1 \in 1..Len(images) /\ images'[1] = 0)
                              ELSE Tops' = {}
      <4>1. CASE bHasFactoryImage
        <5>1. 1 \in 1..Len(images)
          BY <3>3, <4>1 DEF Tops
        <5>2. CASE i = 1
          BY <2>2, <4>1, <5>1, <5>2
        <5>3. CASE i # 1
          <6>1. images'[1] = images[1] /\ IsTop(1)' = IsTop(1)
            BY <2>2, <2>3, <5>1, <5>3
          <6> QED BY <2>2, <3>3, <4>1, <5>1, <6>1 DEF Tops
        <5> QED BY <5>2, <5>3
      <4>2. CASE ~bHasFactoryImage
        <5>1. \A x \in 1..Len(images) : ~IsTop(x)'
          BY <2>3, <3>3, <4>2 DEF Tops
        <5> QED BY <2>2, <4>2, <5>1 DEF Tops
      <4> QED BY <4>1, <4>2
    <3>5. First' = First
      BY <1>1 DEF First
    <3> QED BY <1>1, <2>2, <3>2, <3>4, <3>5 DEF SortInv
  <2> QED BY <1>4, <2>5, <2>6, <2>7, <2>8 DEF IInv
<1> QED BY <1>3, <1>5, <1>6

\* EndCheck: the factory backup stays first, or a cleared slot takes its place.
LEMMA EndCheckStep == IInv /\ EndCheck => IInv'
<1> SUFFICES ASSUME IInv, EndCheck PROVE IInv'
  OBVIOUS
<1> DEFINE T(x) == Slot(x).FileTime
           L == Len(images)
<1>1. /\ pc = "check" /\ pc' = "pack" /\ i > Len(images) /\ i' = 1 /\ FactoryFirst("pack")
      /\ UNCHANGED <<dir, present, scan, ImageFilesNumber, errs>>
  BY DEF EndCheck, FactoryFirst
<1>2. L \in Nat
  BY ScanTypes
<1>3. /\ Len(images') = Len(images) /\ images' \in Seq(0..Len(dir)) /\ Listed' = Listed
      /\ \A a, b \in Filled' : a # b => images'[a] # images'[b]
      /\ bHasFactoryImage' = (Tops # {})
      /\ IF Tops = {} THEN images' = images
         ELSE \E t \in Tops : images' = Swapped(1, t) /\ 1 \in 1..Len(images)
                              /\ \A y \in Tops : t <= y
      /\ IF bHasFactoryImage' THEN 1 \in Tops' ELSE Tops' = {}
  BY <1>1, FactoryFirstEffect
<1>4. TypeOK' /\ ScanInv' /\ ListInv' /\ CountInv' /\ DeletedInv'
  <2>1. i' \in 1..(L + 1)
    BY <1>1, <1>2
  <2> QED BY <1>1, <1>3, <2>1, MovedList
<1>5. PackInv'
  <2>1. \A x \in 1..L : ~(x < i')
    BY <1>1, <1>2
  <2> QED BY <1>1, <1>3, <2>1 DEF PackInv
<1>6. \A x, y \in Filled : First <= x /\ x < y => T(x) <= T(y)
  BY <1>1 DEF IInv, SortInv
<1>7. IF bHasFactoryImage THEN 1 \in Tops \/ (1 \in 1..L /\ images[1] = 0) ELSE Tops = {}
  BY <1>1 DEF IInv, SortInv
<1>8. ASSUME NEW x \in Filled', NEW y \in Filled', First' <= x, x < y
      PROVE  Slot(x).FileTime' <= Slot(y).FileTime'
  <2>1. CASE Tops = {}
    <3>1. images' = images /\ First' = 1
      BY <1>3, <2>1 DEF First
    <3>2. Filled' = Filled /\ \A z : Slot(z)' = Slot(z)
      BY <1>1, <3>1, ListKept
    <3>3. First <= x
      <4>1. CASE bHasFactoryImage
        <5>1. images[1] = 0
          BY <1>7, <2>1, <4>1
        <5>2. x # 1 /\ x \in 1..L
          BY <3>2, <5>1 DEF Filled
        <5> QED BY <1>2, <4>1, <5>2 DEF First
      <4>2. CASE ~bHasFactoryImage
        BY <1>8, <3>1, <4>2 DEF First
      <4> QED BY <4>1, <4>2
    <3> QED BY <1>6, <1>8, <3>2, <3>3
  <2>2. CASE Tops # {}
    <3>1. PICK t \in Tops : images' = Swapped(1, t) /\ 1 \in 1..L /\ \A z \in Tops : t <= z
      BY <1>3, <2>2
    <3>2. t \in 1..L /\ First' = 2 /\ First = 2
      BY <1>3, <1>7, <2>2, <3>1 DEF First, Tops
    <3>3. /\ \A z \in 1..L : /\ Place(1, t, z) \in 1..L /\ Slot(z)' = Slot(Place(1, t, z))
                             /\ z \in Filled' <=> Place(1, t, z) \in Filled
          /\ Filled' \subseteq 1..L
      BY <1>1, <3>1, <3>2, ListFacts, SwapEffect
    <3>4. ASSUME NEW z \in Filled', z >= 2
          PROVE  Place(1, t, z) = z
      <4>1. z \in 1..L /\ z # 1
        BY <1>2, <3>3, <3>4
      <4>2. CASE 1 \in Tops
        <5>1. t = 1
          BY <1>2, <3>1, <3>2, <4>2
        <5> QED BY <5>1 DEF Place
      <4>3. CASE images[1] = 0
        <5>1. 1 \notin Filled
          BY <4>3 DEF Filled
        <5> QED BY <3>3, <4>1, <5>1 DEF Place
      <4> QED BY <1>7, <2>2, <4>2, <4>3
    <3>5. x \in 1..L /\ y \in 1..L /\ x >= 2 /\ y >= 2
      BY <1>2, <1>8, <3>2, <3>3
    <3>6. /\ Place(1, t, x) = x /\ Place(1, t, y) = y
      BY <3>4, <3>5
    <3>7. x \in Filled /\ y \in Filled /\ Slot(x)' = Slot(x) /\ Slot(y)' = Slot(y)
      BY <3>3, <3>5, <3>6
    <3> QED BY <1>6, <1>8, <3>2, <3>5, <3>7
  <2> QED BY <2>1, <2>2
<1>9. SortInv'
  BY <1>1, <1>3, <1>8 DEF SortInv
<1> QED BY <1>4, <1>5, <1>9 DEF IInv

\* Pack: the image that comes closes the gap; there is none between.
LEMMA PackStep == IInv /\ Pack => IInv'
<1> SUFFICES ASSUME IInv, Pack PROVE IInv'
  OBVIOUS
<1> DEFINE T(x) == Slot(x).FileTime
           L == Len(images)
<1>1. /\ pc = "pack" /\ pc' = "pack" /\ i <= Len(images) /\ i' = i + 1
      /\ UNCHANGED <<dir, present, scan, ImageFilesNumber, bHasFactoryImage, errs>>
  BY DEF Pack
<1>2. L \in Nat /\ i \in 1..L /\ i + 1 \in 1..(L + 1)
  BY <1>1, ScanTypes
<1>3. \A x, y \in Filled : First <= x /\ x < y => T(x) <= T(y)
  BY <1>1 DEF IInv, SortInv
<1>4. IF bHasFactoryImage THEN 1 \in Tops ELSE Tops = {}
  BY <1>1 DEF IInv, SortInv
<1>5. \A x \in 1..L : x < i /\ x \notin Filled => \A y \in Filled : y < x
  BY <1>1 DEF IInv, PackInv
<1>6. \A x \in 1..L : x \in Filled <=> T(x) # 0
  BY ListFacts, SlotFacts
<1>7. Filled \subseteq 1..L /\ Later(i) = {y \in Filled : i < y}
  <2>1. Filled \subseteq 1..L
    BY DEF Filled
  <2>2. \A y \in 1..L : y \in (i + 1)..L <=> i < y
    BY <1>2
  <2>3. \A y \in (i + 1)..L : y \in 1..L
    BY <1>2
  <2> HIDE DEF L
  <2> QED BY <1>6, <2>1, <2>2, <2>3 DEF Later, L
<1>8. First' = First /\ First \in Nat
  BY <1>1 DEF First
<1>9. bHasFactoryImage => 1 \in Filled
  BY <1>4, ListFacts DEF Tops
<1>10. CASE ~(T(i) = 0 /\ Later(i) # {} /\ ~(i = 1 /\ bHasFactoryImage))
  <2>1. images' = images
    BY <1>10 DEF Pack
  <2>2. /\ Filled' = Filled /\ Listed' = Listed /\ Tops' = Tops
        /\ \A x : Slot(x)' = Slot(x)
    BY <1>1, <2>1, ListKept
  <2>3. TypeOK' /\ ScanInv' /\ ListInv' /\ CountInv' /\ DeletedInv'
    BY <1>1, <1>2, <2>1, <2>2, ListFacts, ScanTypes, MovedList
  <2>4. SortInv'
    BY <1>1, <1>3, <1>4, <1>8, <2>1, <2>2 DEF SortInv
  <2>5. i \notin Filled => \A y \in Filled : y < i
    <3> SUFFICES ASSUME i \notin Filled, NEW y \in Filled PROVE y < i
      OBVIOUS
    <3>1. Later(i) = {}
      BY <1>2, <1>6, <1>9, <1>10
    <3>2. ~(i < y) /\ y # i /\ y \in 1..L
      BY <1>7, <3>1
    <3> QED BY <1>2, <3>2
  <2>6. \A x \in 1..L : x < i + 1 => x < i \/ x = i
    BY <1>2
  <2>7. PackInv'
    BY <1>1, <1>5, <2>1, <2>2, <2>5, <2>6 DEF PackInv
  <2> QED BY <2>3, <2>4, <2>7 DEF IInv
<1>11. CASE T(i) = 0 /\ Later(i) # {} /\ ~(i = 1 /\ bHasFactoryImage)
  <2> DEFINE t == CHOOSE y \in Later(i) : \A z \in Later(i) : y <= z
             P(z) == Place(i, t, z)
  <2>1. images' = Swapped(i, t)
    BY <1>11 DEF Pack
  <2>2. t \in Later(i) /\ \A z \in Later(i) : t <= z
    <3>1. IsFiniteSet(1..L) /\ Later(i) \in SUBSET (1..L) /\ Later(i) \in SUBSET Nat
      <4>1. IsFiniteSet(1..L)
        BY <1>2, FS_Interval
      <4>2. Later(i) \subseteq 1..L
        BY <1>7
      <4> QED BY <1>2, <4>1, <4>2
    <3>2. IsFiniteSet(Later(i))
      BY <3>1, FS_Subset
    <3> QED BY <1>11, <3>1, <3>2, LeastNumber
  <2> HIDE DEF t
  <2>3. t \in Filled /\ i < t /\ t \in 1..L /\ i \notin Filled
    BY <1>2, <1>6, <1>7, <1>11, <2>2
  <2>4. \A z \in Filled : i < z => t <= z
    BY <1>7, <2>2
  <2>5. /\ Len(images') = Len(images) /\ images' \in Seq(0..Len(dir)) /\ Listed' = Listed
        /\ \A z \in 1..L : /\ P(z) \in 1..L /\ Slot(z)' = Slot(P(z)) /\ IsTop(z)' = IsTop(P(z))
                           /\ z \in Filled' <=> P(z) \in Filled
        /\ Filled' \subseteq 1..L
        /\ \A a, b \in Filled' : a # b => images'[a] # images'[b]
    BY <1>1, <1>2, <2>1, <2>3, ListFacts, SwapEffect
  <2>6. TypeOK' /\ ScanInv' /\ ListInv' /\ CountInv' /\ DeletedInv'
    BY <1>1, <1>2, <2>5, MovedList
  <2>7. ASSUME NEW z \in 1..L
        PROVE  P(z) = IF z = i THEN t ELSE IF z = t THEN i ELSE z
    BY DEF Place
  <2> HIDE DEF P
  <2>8. ASSUME NEW x \in Filled', NEW y \in Filled', First <= x, x < y
        PROVE  Slot(x).FileTime' <= Slot(y).FileTime'
    <3> HIDE DEF T, L
    <3>1. x \in 1..L /\ y \in 1..L /\ P(x) \in Filled /\ P(y) \in Filled
      BY <2>5
    <3>2. x # t /\ y # t
      BY <2>3, <2>7, <3>1
    <3>3. First <= P(x) /\ P(x) < P(y)
      <4>1. CASE x = i
        <5>1. P(x) = t /\ P(y) = y /\ y \in Filled /\ i < y
          BY <2>7, <2>8, <3>1, <3>2, <4>1
        <5>2. t <= y
          BY <2>4, <5>1
        <5> QED BY <1>2, <1>8, <2>3, <2>8, <3>1, <3>2, <4>1, <5>1, <5>2
      <4>2. CASE y = i
        <5>1. P(x) = x /\ P(y) = t
          BY <1>2, <2>7, <2>8, <3>1, <3>2, <4>2
        <5> QED BY <1>2, <1>8, <2>3, <2>8, <3>1, <4>2, <5>1
      <4>3. CASE x # i /\ y # i
        BY <2>7, <2>8, <3>1, <3>2, <4>3
      <4> QED BY <4>1, <4>2, <4>3
    <3> QED BY <1>3, <2>5, <3>1, <3>3 DEF T
  <2>9. IF bHasFactoryImage' THEN 1 \in Tops' ELSE Tops' = {}
    <3>1. Tops' = {z \in 1..L : IsTop(P(z))}
      BY <2>5 DEF Tops
    <3>2. CASE bHasFactoryImage
      <4>1. P(1) = 1 /\ 1 \in 1..L
        BY <1>2, <1>11, <2>3, <2>7, <3>2
      <4> QED BY <1>1, <1>4, <3>1, <3>2, <4>1 DEF Tops
    <3>3. CASE ~bHasFactoryImage
      <4>1. \A z \in 1..L : ~IsTop(P(z))
        BY <1>4, <2>5, <3>3 DEF Tops
      <4> QED BY <1>1, <3>1, <3>3, <4>1
    <3> QED BY <3>2, <3>3
  <2>10. SortInv'
    BY <1>1, <1>8, <2>8, <2>9 DEF SortInv
  <2>11. ASSUME NEW x \in 1..L, x < i + 1
         PROVE  x \in Filled'
    <3>1. CASE x = i
      BY <2>3, <2>5, <2>7, <3>1
    <3>2. CASE x < i
      <4>1. P(x) = x
        BY <1>2, <2>3, <2>7, <3>2
      <4>2. x \in Filled
        <5>1. x \notin Filled => t < x
          BY <1>5, <2>3, <3>2
        <5> QED BY <1>2, <2>3, <3>2, <5>1
      <4> QED BY <2>5, <4>1, <4>2
    <3> QED BY <1>2, <2>11, <3>1, <3>2
  <2>12. PackInv'
    BY <1>1, <2>5, <2>11 DEF PackInv
  <2> QED BY <2>6, <2>10, <2>12 DEF IInv
<1> QED BY <1>10, <1>11

\* Finish: the number of images that are left fits in a WORD.
LEMMA FinishStep == IInv /\ Finish => IInv'
<1> SUFFICES ASSUME IInv, Finish PROVE IInv'
  OBVIOUS
<1>1. /\ pc = "pack" /\ pc' = "done" /\ i > Len(images)
      /\ ImageFilesNumber' = (ImageFilesNumber - img_err_del - img_err_count) % Word
      /\ UNCHANGED <<dir, present, scan, images, sort, errs>>
  BY DEF Finish
<1>2. /\ UNCHANGED <<part, k, img_count, img_err, found, kept, img_err_del, img_err_count>>
      /\ UNCHANGED <<i, j, bHasFactoryImage>>
  BY <1>1 DEF scan, errs, sort
<1>3. /\ Filled' = Filled /\ Listed' = Listed /\ Tops' = Tops
      /\ \A x : Slot(x)' = Slot(x)
  BY <1>1, ListKept
<1>4. /\ img_err_count \in Nat /\ img_err_del \in Nat /\ ImageFilesNumber = Len(images)
      /\ Cardinality(Listed) = Len(images) - img_err_count /\ Len(images) \in Nat
  BY <1>1, ScanTypes DEF IInv, CountInv
<1>5. Cardinality(Listed) \in Nat
  <2>1. Len(dir) \in Nat
    BY ScanTypes
  <2>2. IsFiniteSet(1..Len(dir))
    BY <2>1, FS_Interval
  <2>3. Listed \in SUBSET (1..Len(dir))
    BY DEF IInv, ListInv
  <2> QED BY <2>2, <2>3, FS_Subset, FS_CardinalityType
<1>6. ImageFilesNumber' \in 0..(Word - 1)
  <2>1. ImageFilesNumber - img_err_del - img_err_count \in Int /\ Word \in Nat \ {0}
    BY <1>4, WordType
  <2> QED BY <1>1, <2>1
<1>7. img_err_del = 0 => ImageFilesNumber' = Len(images) - img_err_count
  <2> HAVE img_err_del = 0
  <2>1. /\ ImageFilesNumber - img_err_del - img_err_count = Len(images) - img_err_count
        /\ Len(images) - img_err_count \in 0..(Word - 1) /\ Word \in Nat \ {0}
    <3>1. Len(images) <= MaxNum /\ MaxNum \in 1..(Word - 1) /\ Word \in Nat \ {0}
      BY ScanTypes, WordType
    <3> QED BY <1>4, <1>5, <3>1
  <2>2. \A v \in 0..(Word - 1) : v % Word = v
    BY <2>1
  <2> QED BY <1>1, <2>1, <2>2
<1>8. TypeOK'
  BY <1>1, <1>2, <1>6 DEF IInv, TypeOK
<1>9. ScanInv' /\ DeletedInv'
  BY <1>1, <1>2 DEF IInv, ScanInv, DeletedInv, Scanning
<1>10. ListInv'
  BY <1>1, <1>2, <1>3 DEF IInv, ListInv, Scanning
<1>11. CountInv'
  BY <1>1, <1>2, <1>3, <1>4, <1>7 DEF CountInv, Scanning
<1>12. SortInv'
  <2>1. First' = First
    BY <1>2 DEF First
  <2> QED BY <1>1, <1>2, <1>3, <2>1 DEF IInv, SortInv
<1>13. PackInv'
  <2>1. ASSUME NEW x \in Filled, NEW y \in 1..x PROVE y \in Filled
    <3>1. x \in 1..Len(images)
      BY DEF Filled
    <3>2. y \in 1..Len(images) /\ y < i /\ ~(x < y)
      <4>1. i \in Nat /\ Len(images) \in Nat /\ i > Len(images) /\ y \in Nat
        BY <1>1, ScanTypes
      <4> QED BY <3>1, <4>1
    <3> QED BY <1>1, <3>2 DEF IInv, PackInv
  <2> QED BY <1>1, <1>3, <2>1 DEF PackInv
<1> QED BY <1>8, <1>9, <1>10, <1>11, <1>12, <1>13 DEF IInv

-----------------------------------------------------------------------------
(***************************************************************************)
(* The inductive invariant, and what follows from it.                      *)
(***************************************************************************)

\* The invariant holds before the first scan.
LEMMA InitIInv == Init => IInv
<1> SUFFICES ASSUME Init PROVE IInv
  OBVIOUS
<1>1. PICK n \in 0..MaxEntries : dir \in Dirs(n)
  BY DEF Init
<1>2. n \in Nat /\ dir \in [1..n -> Image \cup Others]
  BY <1>1, BoundsAssumption DEF Dirs
<1>3. dir \in Seq(Image \cup Others) /\ DOMAIN dir = 1..n /\ Len(dir) = n
  BY <1>2
<1>4. images = <<>> /\ Len(images) = 0 /\ images \in Seq(0..Len(dir)) /\ present = 1..n
  BY <1>3 DEF Init
<1>5. Filled = {} /\ Listed = {} /\ 1..Len(images) = {}
  BY <1>4 DEF Filled, Listed
<1>6. TypeOK
  <2>1. NParts \in Nat /\ MaxNum \in Nat /\ 0 \in 0..(Word - 1)
    BY BoundsAssumption, WordType
  <2> QED BY <1>2, <1>3, <1>4, <2>1 DEF Init, TypeOK
<1>7. ScanInv
  <2>1. MaxNum > 0
    BY BoundsAssumption, WordType
  <2> QED BY <1>2, <1>3, <1>4, <2>1 DEF Init, ScanInv
<1>8. ListInv
  BY <1>5 DEF Init, ListInv
<1>9. CountInv
  <2>1. Cardinality(Listed) = 0
    BY <1>5, FS_EmptySet
  <2> QED BY <1>4, <2>1 DEF Init, CountInv
<1>10. SortInv /\ PackInv /\ DeletedInv
  BY <1>3, <1>4 DEF Init, SortInv, PackInv, DeletedInv
<1> QED BY <1>6, <1>7, <1>8, <1>9, <1>10 DEF IInv

\* A step that changes nothing.
LEMMA StutterIInv == IInv /\ UNCHANGED vars => IInv'
<1> SUFFICES ASSUME IInv, UNCHANGED vars PROVE IInv'
  OBVIOUS
<1>1. /\ UNCHANGED <<dir, present, pc, images, ImageFilesNumber>>
      /\ UNCHANGED <<part, k, img_count, img_err, found, kept, img_err_del, img_err_count>>
      /\ UNCHANGED <<i, j, bHasFactoryImage>>
  BY DEF vars, scan, errs, sort
<1>2. /\ Filled' = Filled /\ Listed' = Listed /\ Tops' = Tops
      /\ \A x : Slot(x)' = Slot(x)
  BY <1>1, ListKept
<1>3. First' = First
  BY <1>1 DEF First
<1>4. TypeOK'
  BY <1>1 DEF IInv, TypeOK
<1>5. ScanInv' /\ DeletedInv'
  BY <1>1 DEF IInv, ScanInv, DeletedInv
<1>6. ListInv'
  BY <1>1, <1>2 DEF IInv, ListInv
<1>7. CountInv' /\ PackInv'
  BY <1>1, <1>2 DEF IInv, CountInv, PackInv
<1>8. SortInv'
  BY <1>1, <1>2, <1>3 DEF IInv, SortInv
<1> QED BY <1>4, <1>5, <1>6, <1>7, <1>8 DEF IInv

\* Every step keeps the invariant.
LEMMA NextIInv == IInv /\ [Next]_vars => IInv'
<1> SUFFICES ASSUME IInv, [Next]_vars PROVE IInv'
  OBVIOUS
<1>1. CASE OpenPart \/ SkipFile \/ ListFile \/ DeleteFile \/ EndPart \/ EndScan
  BY <1>1, OpenPartStep, SkipFileStep, ListFileStep, DeleteFileStep, EndPartStep, EndScanStep
<1>2. CASE TopOfList \/ Sort \/ EndSort
  BY <1>2, TopOfListStep, SortStep, EndSortStep
<1>3. CASE CheckSkips \/ CheckImage \/ EndCheck
  BY <1>3, CheckSkipsStep, CheckImageStep, EndCheckStep
<1>4. CASE Pack \/ Finish
  BY <1>4, PackStep, FinishStep
<1>5. CASE Done \/ UNCHANGED vars
  BY <1>5, StutterIInv DEF Done
<1> QED BY <1>1, <1>2, <1>3, <1>4, <1>5 DEF Next, Step

\* IInv holds in every state of making the list, from the scan to the end.
THEOREM CatalogInductive == Spec => []IInv
BY InitIInv, NextIInv, PTL DEF Spec

\* Every variable keeps its type and the list never outgrows its buffer.
THEOREM CatalogTypeOK == Spec => []TypeOK
<1>1. IInv => TypeOK
  BY DEF IInv
<1> QED BY <1>1, CatalogInductive, PTL

\* The list is sorted when the sort ends and again when the gaps are closed, the
\* factory backup of the service partition aside, which is first.
THEOREM ListIsSorted == Spec => []SortedList
<1>1. IInv => SortedList
  <2> SUFFICES ASSUME IInv, pc = "done" \/ (pc = "check" /\ i = 1) PROVE InOrder
    BY DEF SortedList
  <2>1. \A x, y \in Filled : First <= x /\ x < y => Slot(x).FileTime <= Slot(y).FileTime
    BY DEF IInv, SortInv
  <2>2. IF bHasFactoryImage THEN 1 \in Tops ELSE Tops = {}
    <3>1. CASE pc = "done"
      BY <3>1 DEF IInv, SortInv
    <3>2. CASE pc = "check" /\ i = 1
      <4>1. 1 \in 1..Len(images) => images[1] # 0
        BY <3>2 DEF IInv, ListInv
      <4> QED BY <3>2, <4>1 DEF IInv, SortInv
    <3> QED BY <3>1, <3>2
  <2>3. Len(images) \in Nat /\ Filled \subseteq 1..Len(images)
    BY ScanTypes DEF Filled
  <2>4. ASSUME NEW x \in Filled, NEW y \in Filled, x < y, ~(x = 1 /\ IsTop(1))
        PROVE  Slot(x).FileTime <= Slot(y).FileTime
    <3>1. First <= x
      <4>1. CASE bHasFactoryImage
        <5>1. x # 1
          BY <2>2, <2>4, <4>1 DEF Tops
        <5> QED BY <2>3, <4>1, <5>1 DEF First
      <4>2. CASE ~bHasFactoryImage
        BY <2>3, <4>2 DEF First
      <4> QED BY <4>1, <4>2
    <3> QED BY <2>1, <2>4, <3>1
  <2>5. (\E x \in Filled : IsTop(x)) => IsTop(1)
    BY <2>2, <2>3 DEF Tops
  <2>6. ASSUME NEW x \in Filled, NEW y \in Filled, NEW z \in Filled,
               x < y, y < z, ~(x = 1 /\ IsTop(1))
        PROVE  Between(Slot(x).FileTime, Slot(y).FileTime, Slot(z).FileTime)
    <3>1. y # 1
      BY <2>6 DEF Filled
    <3>2. Slot(x).FileTime <= Slot(y).FileTime /\ Slot(y).FileTime <= Slot(z).FileTime
      BY <2>4, <2>6, <3>1
    <3> QED BY <3>2 DEF Between
  <2> QED BY <2>5, <2>6 DEF InOrder
<1> QED BY <1>1, CatalogInductive, PTL

\* No image the scan met is lost or listed twice.
THEOREM ListLosesNothing == Spec => []NothingLost
<1>1. IInv => NothingLost
  <2> SUFFICES ASSUME IInv PROVE NothingLost
    OBVIOUS
  <2>1. \A x, y \in Filled : x # y => images[x] # images[y]
    BY ListFacts
  <2>2. pc = "done" => Listed = {n \in found : dir[n].missing => n \in kept}
    <3> HAVE pc = "done"
    <3>1. /\ Listed \subseteq found /\ kept \subseteq Listed
          /\ \A n \in found : n \in Listed \/ (dir[n].missing /\ n \notin kept)
          /\ \A n \in Listed : dir[n].missing => n \in kept
      BY DEF IInv, ListInv
    <3> QED BY <3>1
  <2> QED BY <2>1, <2>2 DEF NothingLost
<1> QED BY <1>1, CatalogInductive, PTL

\* The images that are left come first, and ImageFilesNumber says how many there
\* are, unless a factory backup was deleted.
THEOREM ListHasNoGaps == Spec => []NoGaps
<1>1. IInv => NoGaps
  <2> SUFFICES ASSUME IInv, pc = "done" PROVE NoGaps
    BY DEF NoGaps
  <2>1. \A x \in Filled : \A y \in 1..x : y \in Filled
    BY DEF IInv, PackInv
  <2>2. Cardinality(Filled) = Cardinality(Listed)
    <3> DEFINE f == [x \in Filled |-> images[x]]
    <3>1. Len(images) \in Nat
      BY ScanTypes
    <3>2. IsFiniteSet(1..Len(images)) /\ Filled \in SUBSET (1..Len(images))
      BY <3>1, FS_Interval DEF Filled
    <3>3. IsFiniteSet(Filled)
      BY <3>2, FS_Subset
    <3>4. f \in [Filled -> Listed] /\ \A x, y \in Filled : f[x] = f[y] => x = y
      <4>1. \A x \in Filled : images[x] \in Listed
        BY DEF Filled, Listed
      <4> QED BY <4>1, ListFacts
    <3>5. \A n \in Listed : \E x \in Filled : f[x] = n
      BY DEF Filled, Listed
    <3> HIDE DEF f
    <3>6. f \in Bijection(Filled, Listed)
      BY <3>4, <3>5, Fun_IsBij
    <3> QED BY <3>3, <3>6, FS_Bijection DEF ExistsBijection
  <2>3. /\ Cardinality(Listed) = Len(images) - img_err_count
        /\ img_err_del = 0 => ImageFilesNumber = Len(images) - img_err_count
    BY DEF IInv, CountInv
  <2> QED BY <2>1, <2>2, <2>3 DEF NoGaps
<1> QED BY <1>1, CatalogInductive, PTL

\* Nothing that was deleted is in the list, and no finished image of the user is deleted.
THEOREM ListedArePresent == Spec => []ListedIsPresent
<1>1. IInv => ListedIsPresent
  BY DEF IInv, ListInv, DeletedInv, ListedIsPresent
<1> QED BY <1>1, CatalogInductive, PTL
=============================================================================
