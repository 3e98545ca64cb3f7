-------------------------- MODULE CheckValueProofs --------------------------
(***************************************************************************)
(* Proofs about CheckValue.  What a read and a write do to the handle of a *)
(* file on NTFS is taken from FileHandleProofs; its variables and bounds   *)
(* play no part in it.                                                     *)
(***************************************************************************)
EXTENDS CheckValue, SequenceTheorems, TLAPS

FH == INSTANCE FileHandleProofs
        WITH Sizes <- {}, FileLens <- {}, MaxOps <- 0, MaxSessions <- 0,
             ReadAfterWrite <- FALSE, h <- f, state <- pc, arg <- salt, out <- salt,
             wrote <- fault, lost <- fault, ops <- file, sessions <- file

\* What FileHandle assumes.
LEMMA Assumed ==
  /\ {} \cup {} \cup {0, 0} \subseteq Nat
  /\ CacheSize \in Nat \ {0} /\ CacheSize % Page = 0
  /\ {Sector, Page} \subseteq Nat \ {0} /\ Page % Sector = 0
BY CacheSizeAssumption, SectorAssumption

\* Both modules have CachedFile.
LEMMA SameBase ==
  /\ FH!Handle = Handle
  /\ \A s, p, n : FH!Slice(s, p, n) = Slice(s, p, n)
  /\ \A s, p, d : FH!Overwrite(s, p, d) = Overwrite(s, p, d)
  /\ \A g : FH!CacheEnd(g) = CacheEnd(g)
  /\ \A g : FH!Agrees(g) <=> Agrees(g)
  /\ \A g, p : FH!Inside(g, p) <=> Inside(g, p)
BY DEF FH!Handle, Handle, FH!Slice, Slice, FH!Overwrite, Overwrite, FH!CacheEnd, CacheEnd,
       FH!Agrees, Agrees, FH!Inside, Inside

\* A read is the one FileHandle has ...
LEMMA SameFetched == ASSUME NEW g, NEW n PROVE FH!Fetched(g, n) = Fetched(g, n)
<1>1. \A r, p : FH!Refill(r, p) = Refill(r, p)
  BY SameBase DEF FH!Refill, Refill
<1>2. \A r : FH!Align(r) = Align(r)
  BY SameBase, <1>1 DEF FH!Align, Align
<1>3. \A r, b : FH!Got(r, b) = Got(r, b)
  BY DEF FH!Got, Got
<1>4. \A r : FH!FromCache(r) = FromCache(r)
  BY SameBase, <1>3 DEF FH!FromCache, FromCache
<1>5. \A r : FH!FromFile(r) = FromFile(r)
  BY SameBase, <1>3 DEF FH!FromFile, FromFile
<1>6. \A r : FH!Round(r) = Round(r)
  BY <1>1, <1>2, <1>4, <1>5 DEF FH!Round, Round
<1> QED BY <1>6 DEF FH!Fetched, Fetched

\* ... and so is a write.
LEMMA SameWritten == ASSUME NEW g, NEW d PROVE FH!Written(g, d) = Written(g, d)
<1>1. \A x : FH!Flush(x) = Flush(x)
  BY SameBase DEF FH!Flush, Flush
<1>2. \A x : FH!WriteBack(x) = WriteBack(x)
  BY SameBase, <1>1 DEF FH!WriteBack, WriteBack
<1>3. \A x, y : FH!Room(x, y) = Room(x, y) /\ FH!Fill(x, y) = Fill(x, y)
  BY DEF FH!Room, Room, FH!Fill, Fill
<1>4. \A x : FH!FlushFull(x) = FlushFull(x)
  BY <1>1 DEF FH!FlushFull, FlushFull
<1>5. \A x, y, k : FH!Whole(y) = Whole(y) /\ FH!Direct(x, y, k) = Direct(x, y, k)
  BY SameBase DEF FH!Whole, Whole, FH!Direct, Direct
<1>6. ASSUME NEW x, NEW y PROVE FH!WriteRest(x, y) = WriteRest(x, y)
  <2>1. FH!Whole(y) = Whole(y)
    BY <1>5
  <2>2. FH!Direct(x, y, Whole(y)) = Direct(x, y, Whole(y))
    BY <1>5
  <2> QED BY <2>1, <2>2 DEF FH!WriteRest, WriteRest
<1>7. \A x, y : (FH!Fills(x, y) <=> Fills(x, y)) /\ FH!Left(x, y) = Left(x, y)
  BY <1>2, <1>3 DEF FH!Fills, Fills, FH!Left, Left
<1> QED BY <1>2, <1>3, <1>4, <1>6, <1>7 DEF FH!Written, Written

-----------------------------------------------------------------------------
(***************************************************************************)
(* Reads and writes.                                                       *)
(***************************************************************************)

\* The bytes of Slice; a size that is not positive reads nothing.
LEMMA SliceFacts ==
  ASSUME NEW s \in Seq(Nat), NEW p \in Nat, NEW n \in Int, NEW b, b = Slice(s, p, n)
  PROVE  /\ b \in Seq(Nat) /\ Len(b) \in Nat
         /\ Len(b) = IF p >= Len(s) \/ n <= 0 THEN 0 ELSE IF p + n < Len(s) THEN n ELSE Len(s) - p
<1>1. CASE n \in Nat
  <2>1. b = FH!Slice(s, p, n)
    BY SameBase
  <2>2. /\ b \in Seq(Nat) /\ Len(b) \in Nat
        /\ Len(b) = IF p >= Len(s) THEN 0 ELSE IF p + n < Len(s) THEN n ELSE Len(s) - p
        /\ \A i \in 1..Len(b) : b[i] = s[p + i]
    <3> DEFINE t == FH!Slice(s, p, n)
    <3>1. /\ t \in Seq(Nat) /\ Len(t) \in Nat
          /\ Len(t) = IF p >= Len(s) THEN 0 ELSE IF p + n < Len(s) THEN n ELSE Len(s) - p
          /\ \A i \in 1..Len(t) : t[i] = s[p + i]
      BY <1>1, Assumed, FH!SliceBytes
    <3> HIDE DEF t
    <3>2. b = t
      BY <2>1 DEF t
    <3> QED BY <3>1, <3>2
  <2>3. Len(s) \in Nat
    OBVIOUS
  <2>4. \A x \in Nat : (IF p >= x THEN 0 ELSE IF p + n < x THEN n ELSE x - p)
           = IF p >= x \/ n <= 0 THEN 0 ELSE IF p + n < x THEN n ELSE x - p
    BY <1>1
  <2> QED BY <2>2, <2>3, <2>4
<1>2. CASE n < 0
  <2> DEFINE e == IF p + n < Len(s) THEN p + n ELSE Len(s)
  <2>1. e \in Int /\ e < p + 1
    <3>1. Len(s) \in Nat
      OBVIOUS
    <3> QED BY <1>2, <3>1
  <2>2. b = SubSeq(s, p + 1, e)
    BY DEF Slice
  <2> HIDE DEF e
  <2>3. b = <<>>
    BY <2>1, <2>2
  <2> QED BY <1>2, <2>3
<1> QED BY <1>1, <1>2

\* A slice is no longer than was asked for ...
LEMMA SliceAtMost ==
  ASSUME NEW s \in Seq(Nat), NEW p \in Nat, NEW n \in Nat, NEW b, b = Slice(s, p, n)
  PROVE  b \in Seq(Nat) /\ Len(b) \in Nat /\ Len(b) <= n
<1>1. n \in Int
  OBVIOUS
<1>2. /\ b \in Seq(Nat) /\ Len(b) \in Nat
      /\ Len(b) = IF p >= Len(s) \/ n <= 0 THEN 0 ELSE IF p + n < Len(s) THEN n ELSE Len(s) - p
  BY <1>1, SliceFacts
<1>3. \A x \in Nat : (IF p >= x \/ n <= 0 THEN 0 ELSE IF p + n < x THEN n ELSE x - p) <= n
  OBVIOUS
<1>4. Len(s) \in Nat
  OBVIOUS
<1> QED BY <1>2, <1>3, <1>4

\* ... and has the bytes that are there.
LEMMA SliceAt ==
  ASSUME NEW s \in Seq(Nat), NEW p \in Nat, NEW n \in Int, NEW b, b = Slice(s, p, n),
         NEW i \in 1..Len(b)
  PROVE  b[i] = s[p + i]
<1> DEFINE e == IF p + n < Len(s) THEN p + n ELSE Len(s)
<1>1. e \in Int /\ e <= Len(s) /\ Len(s) \in Nat
  OBVIOUS
<1>2. b = SubSeq(s, p + 1, e)
  BY DEF Slice
<1> HIDE DEF e
<1>3. Len(b) = IF p + 1 <= e THEN e - p ELSE 0
  BY <1>1, <1>2
<1>4. p + 1 <= e /\ i \in 1..(e - p)
  BY <1>1, <1>3
<1>5. b[i] = s[(p + 1) + i - 1]
  BY <1>1, <1>2, <1>3, <1>4
<1>6. (p + 1) + i - 1 = p + i
  OBVIOUS
<1> QED BY <1>5, <1>6

\* The bytes of Overwrite.
LEMMA OverwriteBytes ==
  ASSUME NEW s \in Seq(Nat), NEW p \in Nat, NEW d \in Seq(Nat), NEW o, o = Overwrite(s, p, d)
  PROVE  /\ o \in Seq(Nat)
         /\ Len(o) = IF d # <<>> /\ p + Len(d) > Len(s) THEN p + Len(d) ELSE Len(s)
         /\ \A i \in 1..Len(o) : o[i] = FH!Byte(s, p, d, i)
<1> DEFINE t == FH!Overwrite(s, p, d)
<1>1. /\ t \in Seq(Nat)
      /\ Len(t) = IF d # <<>> /\ p + Len(d) > Len(s) THEN p + Len(d) ELSE Len(s)
      /\ \A i \in 1..Len(t) : t[i] = FH!Byte(s, p, d, i)
  BY Assumed, FH!OverwriteBytes
<1> HIDE DEF t
<1>2. o = t
  BY SameBase DEF t
<1> QED BY <1>1, <1>2

\* A file that is written to grows up to the last byte written, if at all;
LEMMA OverwriteFacts ==
  ASSUME NEW s \in Seq(Nat), NEW p \in Nat, NEW d \in Seq(Nat), NEW o, o = Overwrite(s, p, d)
  PROVE  /\ o \in Seq(Nat) /\ Len(o) \in Nat
         /\ Len(o) = IF d # <<>> /\ p + Len(d) > Len(s) THEN p + Len(d) ELSE Len(s)
<1>1. /\ o \in Seq(Nat)
      /\ Len(o) = IF d # <<>> /\ p + Len(d) > Len(s) THEN p + Len(d) ELSE Len(s)
      /\ \A i \in 1..Len(o) : o[i] = FH!Byte(s, p, d, i)
  BY OverwriteBytes
<1> QED BY <1>1

\* what is in front of that stays,
LEMMA OverwriteKeeps ==
  ASSUME NEW s \in Seq(Nat), NEW p \in Nat, NEW d \in Seq(Nat), NEW o, o = Overwrite(s, p, d),
         NEW i \in 1..p, i <= Len(s)
  PROVE  o[i] = s[i]
<1>1. \A j \in 1..Len(o) : o[j] = FH!Byte(s, p, d, j)
  BY OverwriteBytes
<1>4. Len(o) = IF d # <<>> /\ p + Len(d) > Len(s) THEN p + Len(d) ELSE Len(s)
  BY OverwriteFacts
<1>2. i \in 1..Len(o) /\ ~(p < i) /\ Len(s) \in Nat
  BY <1>4
<1>3. o[i] = FH!Byte(s, p, d, i)
  BY <1>1, <1>2
<1> QED BY <1>2, <1>3 DEF FH!Byte

\* and behind it are the bytes written.
LEMMA OverwriteAt ==
  ASSUME NEW s \in Seq(Nat), NEW p \in Nat, NEW d \in Seq(Nat),
         NEW i \in 1..Len(d), NEW j \in Int, j = p + i
  PROVE  Overwrite(s, p, d)[j] = d[i]
<1> DEFINE o == Overwrite(s, p, d)
<1>4. o = Overwrite(s, p, d)
  OBVIOUS
<1> HIDE DEF o
<1>1. /\ o \in Seq(Nat)
      /\ Len(o) = IF d # <<>> /\ p + Len(d) > Len(s) THEN p + Len(d) ELSE Len(s)
      /\ \A k \in 1..Len(o) : o[k] = FH!Byte(s, p, d, k)
  BY <1>4, OverwriteBytes
<1>2. d # <<>> /\ j \in 1..Len(o) /\ p < j /\ j <= p + Len(d) /\ j - p = i
  BY <1>1
<1>3. o[j] = FH!Byte(s, p, d, j)
  BY <1>1, <1>2
<1> QED BY <1>2, <1>3 DEF FH!Byte, o

\* A handle with an empty cache.
LEMMA OpenedFacts ==
  ASSUME NEW s \in Seq(Nat), NEW g, g = Opened(s)
  PROVE  /\ g \in Handle /\ g.disk = s /\ g.cache = <<>> /\ g.cachedatapos = 0
         /\ ~g.cachedirty /\ Len(g.cache) = 0 /\ Agrees(g) /\ g = Opened(g.disk)
<1>1. /\ g \in Handle /\ g.disk = s /\ g.cache = <<>> /\ g.cachedatapos = 0
      /\ ~g.cachedirty
  BY DEF Opened, Handle
<1>2. Len(g.cache) = 0
  BY <1>1
<1>3. Agrees(g)
  BY <1>2 DEF Agrees
<1> QED BY <1>1, <1>2, <1>3

\* A handle of CheckValue: on FAT it has no cache.
Tame(g) ==
  g \in Handle /\ Len(g.cache) <= CacheSize /\ (~ifntfs => g.cache = <<>> /\ ~g.cachedirty)

\* The fields of a handle that a read may be given.
LEMMA TameFields ==
  ASSUME NEW g, Tame(g)
  PROVE  /\ g \in Handle /\ g.disk \in Seq(Nat) /\ Len(g.disk) \in Nat /\ g.filepos \in Nat
         /\ g.cachedatapos \in Nat /\ g.cache \in Seq(Nat) /\ Len(g.cache) \in Nat
         /\ g.cachedirty \in BOOLEAN /\ CacheSize \in Nat \ {0}
         /\ CacheEnd(g) \in Nat
<1>1. /\ g \in Handle /\ g.disk \in Seq(Nat) /\ g.filepos \in Nat
      /\ g.cachedatapos \in Nat /\ g.cache \in Seq(Nat) /\ g.cachedirty \in BOOLEAN
  BY DEF Tame, Handle
<1>2. Len(g.disk) \in Nat /\ Len(g.cache) \in Nat
  BY <1>1
<1> QED BY <1>1, <1>2, CacheSizeAssumption DEF CacheEnd

\* A handle that has just been opened is one of them.
LEMMA OpenedTame == ASSUME NEW s \in Seq(Nat) PROVE Tame(Opened(s))
BY OpenedFacts, CacheSizeAssumption DEF Tame

\* A read returns what the file has at the position, and the cache can be trusted
\* afterwards, if it could before or does not have the position.
LEMMA ReadEffect ==
  ASSUME ifntfs \in BOOLEAN, NEW g, Tame(g), NEW p \in Nat, NEW n \in Int,
         ifntfs => n \in 1..(CacheSize - 1) /\ p < Len(g.disk),
         Agrees(g) \/ p < g.cachedatapos \/ CacheEnd(g) <= p,
         NEW r, r = NormalFileRead(g, p, n)
  PROVE  /\ Tame(r.f) /\ r.f.disk = g.disk /\ r.out = Slice(g.disk, p, n)
         /\ Agrees(r.f) /\ (ifntfs => Inside(r.f, p + Len(r.out)))
<1>1. /\ g \in Handle /\ g.disk \in Seq(Nat) /\ Len(g.cache) <= CacheSize /\ CacheSize \in Nat \ {0}
  BY TameFields DEF Tame
<1>2. CASE ifntfs
  <2> DEFINE e == [g EXCEPT !.filepos = p]
  <2>1. /\ e \in Handle /\ e.filepos = p /\ e.disk = g.disk /\ e.cache = g.cache
        /\ e.cachedatapos = g.cachedatapos /\ CacheEnd(e) = CacheEnd(g)
        /\ (Agrees(g) <=> Agrees(e)) /\ e.cachedirty = g.cachedirty
    BY <1>1 DEF Handle, CacheEnd, Agrees
  <2>2. r = Fetched(e, n)
    BY <1>2 DEF NormalFileRead
  <2> HIDE DEF e
  <2>3. e \in FH!Handle /\ r = FH!Fetched(e, n) /\ n \in Nat /\ Len(e.cache) <= CacheSize
        /\ n \in 1..(CacheSize - 1) /\ e.filepos < Len(e.disk)
        /\ (FH!Agrees(e) \/ e.filepos < e.cachedatapos \/ FH!CacheEnd(e) <= e.filepos)
    BY <1>1, <1>2, <2>1, <2>2, SameBase, SameFetched
  <2>4. /\ r.f \in Handle /\ Len(r.f.cache) <= CacheSize /\ r.f.disk = g.disk
        /\ r.f.filepos = p + Len(r.out)
    <3>1. e \in FH!Handle /\ Len(e.cache) <= CacheSize /\ n \in Nat /\ r = FH!Fetched(e, n)
      BY <2>3
    <3>2. /\ r.f \in FH!Handle /\ Len(r.f.cache) <= CacheSize /\ r.f.disk = e.disk
          /\ r.f.filepos = e.filepos + Len(r.out)
      BY <3>1, Assumed, FH!FetchedEffect
    <3> QED BY <2>1, <3>2, SameBase
  <2>5. /\ FH!Agrees(r.f) /\ r.out = FH!Slice(e.disk, e.filepos, n) /\ FH!Inside(r.f, r.f.filepos)
    BY <2>3, Assumed, FH!FetchedShort
  <2>6. Agrees(r.f) /\ r.out = Slice(g.disk, p, n) /\ Inside(r.f, p + Len(r.out))
    BY <2>1, <2>4, <2>5, SameBase
  <2> QED BY <1>2, <2>4, <2>6 DEF Tame
<1>3. CASE ~ifntfs
  <2> DEFINE b == Slice(g.disk, p, n)
             e == [g EXCEPT !.filepos = p + Len(b)]
  <2>1. r = [f |-> e, out |-> b]
    BY <1>3 DEF NormalFileRead
  <2>2. b \in Seq(Nat) /\ Len(b) \in Nat
    BY <1>1, SliceFacts
  <2> HIDE DEF b
  <2>3. p + Len(b) \in Nat
    BY <2>2
  <2>4. e \in Handle /\ e.disk = g.disk /\ e.cache = g.cache /\ e.cachedirty = g.cachedirty
    BY <1>1, <2>3 DEF Handle
  <2> HIDE DEF e
  <2>5. g.cache = <<>> /\ ~g.cachedirty
    BY <1>3 DEF Tame
  <2>6. Agrees(e) /\ Tame(e)
    <3>1. Len(e.cache) = 0 /\ Len(e.cache) <= CacheSize
      BY <1>1, <2>4, <2>5
    <3> QED BY <2>4, <2>5, <3>1 DEF Agrees, Tame
  <2>7. r.f = e /\ r.out = b
    BY <2>1
  <2> QED BY <1>3, <2>4, <2>6, <2>7 DEF b
<1> QED BY <1>2, <1>3

\* A write on FAT goes to the file.
LEMMA FatWrite ==
  ASSUME ~ifntfs, NEW g, Tame(g), NEW p \in Nat, NEW d \in Seq(Nat),
         NEW w, w = NormalFileWrite(g, p, d)
  PROVE  w.disk = Overwrite(g.disk, p, d)
<1>1. w = [g EXCEPT !.disk = Overwrite(g.disk, p, d), !.filepos = p + Len(d)]
  BY DEF NormalFileWrite
<1> QED BY <1>1 DEF Tame, Handle

\* A write on NTFS with an empty cache goes to the cache.
LEMMA EmptyWrite ==
  ASSUME ifntfs, NEW g, Tame(g), g.cache = <<>>, NEW p \in Nat, NEW d \in Seq(Nat), d # <<>>,
         Len(d) < CacheSize, NEW w, w = NormalFileWrite(g, p, d)
  PROVE  w.disk = g.disk /\ w.cachedatapos = p
<1> DEFINE e == [g EXCEPT !.filepos = p]
<1>1. e \in Handle /\ e.filepos = p /\ e.disk = g.disk /\ e.cache = <<>>
  BY DEF Tame, Handle
<1>2. w = Written(e, d)
  BY DEF NormalFileWrite
<1> HIDE DEF e
<1>3. w = FH!Written(e, d) /\ e \in FH!Handle
  BY <1>1, <1>2, SameBase, SameWritten
<1>4. FH!Written(e, d) = FH!WriteRest(e, d)
  BY <1>1 DEF FH!Written, FH!Fills
<1>5. w.disk = e.disk /\ w.cachedatapos = e.filepos
  BY <1>1, <1>3, <1>4, Assumed, FH!WriteRestShort
<1> QED BY <1>1, <1>5

\* A write with a cache that can be trusted.
LEMMA WriteEffect ==
  ASSUME ifntfs \in BOOLEAN, NEW g, Tame(g), Agrees(g), NEW p \in Nat, NEW d \in Seq(Nat),
         Len(d) < CacheSize, NEW w, w = NormalFileWrite(g, p, d)
  PROVE  Tame(w) /\ Closed(w) = Opened(Overwrite(g.disk, p, d))
<1>1. /\ g \in Handle /\ g.disk \in Seq(Nat) /\ Len(g.cache) <= CacheSize /\ CacheSize \in Nat \ {0}
      /\ g.cachedirty \in BOOLEAN /\ g.cachedatapos \in Nat /\ g.cache \in Seq(Nat)
  BY TameFields DEF Tame
<1>2. CASE ifntfs
  <2> DEFINE e == [g EXCEPT !.filepos = p]
  <2>1. /\ e \in Handle /\ e.filepos = p /\ e.disk = g.disk /\ e.cache = g.cache
        /\ e.cachedatapos = g.cachedatapos /\ Agrees(e) /\ e.cachedirty = g.cachedirty
    BY <1>1 DEF Handle, Agrees
  <2>2. w = Written(e, d)
    BY <1>2 DEF NormalFileWrite
  <2> HIDE DEF e
  <2>3. w = FH!Written(e, d) /\ e \in FH!Handle /\ FH!Agrees(e) /\ Len(e.cache) <= CacheSize
    BY <1>1, <2>1, <2>2, SameBase, SameWritten
  <2>4. FH!Sound(e)
    BY <2>3 DEF FH!Sound
  <2>5. FH!Sound(w) /\ FH!Visible(w) = FH!Overwrite(FH!Visible(e), e.filepos, d)
    BY <2>3, <2>4, Assumed, FH!WrittenEffect
  <2>6. FH!Visible(e) = g.disk
    <3>1. FH!Visible(e) = FH!Overwrite(e.disk, e.cachedatapos, e.cache)
      BY <2>4, Assumed, FH!SoundVisible
    <3>2. \A i \in 1..Len(e.cache) : /\ e.cachedatapos + i <= Len(e.disk)
                                     /\ e.cache[i] = e.disk[e.cachedatapos + i]
      BY <2>1 DEF Agrees
    <3>3. e.disk \in Seq(Nat) /\ e.cachedatapos \in Nat /\ e.cache \in Seq(Nat)
      BY <1>1, <2>1
    <3>4. FH!Overwrite(e.disk, e.cachedatapos, e.cache) = e.disk
      BY <3>2, <3>3, Assumed, FH!OverwriteSame
    <3> QED BY <2>1, <3>1, <3>4
  <2>7. w \in Handle /\ Len(w.cache) <= CacheSize
    BY <2>5, SameBase DEF FH!Sound
  <2>8. Closed(w) = Opened(Overwrite(g.disk, p, d))
    <3>1. FH!Visible(w) = Overwrite(g.disk, p, d)
      BY <2>1, <2>5, <2>6, SameBase
    <3>2. Flush(w).disk = Overwrite(w.disk, w.cachedatapos, w.cache)
      BY <2>7 DEF Flush, Handle
    <3>3. FH!Visible(w) = IF w.cachedirty THEN Flush(w).disk ELSE w.disk
      BY <3>2, SameBase DEF FH!Visible
    <3> QED BY <3>1, <3>3 DEF Closed
  <2> QED BY <1>2, <2>7, <2>8 DEF Tame
<1>3. CASE ~ifntfs
  <2> DEFINE o == Overwrite(g.disk, p, d)
  <2>1. w = [g EXCEPT !.disk = o, !.filepos = p + Len(d)]
    BY <1>3 DEF NormalFileWrite
  <2>9. o = Overwrite(g.disk, p, d)
    OBVIOUS
  <2> HIDE DEF o
  <2>10. o \in Seq(Nat)
    BY <1>1, <2>9, OverwriteFacts
  <2>2. o \in Seq(Nat) /\ p + Len(d) \in Nat
    BY <2>10
  <2>3. w \in Handle /\ w.disk = o /\ w.cache = g.cache /\ w.cachedirty = g.cachedirty
    BY <1>1, <2>1, <2>2 DEF Handle
  <2>4. g.cache = <<>> /\ ~g.cachedirty
    BY <1>3 DEF Tame
  <2>8. w \in Handle /\ w.cache = <<>> /\ ~w.cachedirty /\ Len(w.cache) <= CacheSize
    BY <1>1, <2>3, <2>4
  <2>5. Tame(w)
    BY <2>8 DEF Tame
  <2>6. Closed(w) = Opened(o)
    BY <2>3, <2>4 DEF Closed
  <2> QED BY <1>3, <2>5, <2>6 DEF o
<1> QED BY <1>2, <1>3

\* So far, the file has a leading part of the data.
LEMMA WriteDisk ==
  ASSUME ifntfs \in BOOLEAN, NEW g, Tame(g), Agrees(g), NEW p \in Nat, NEW d \in Seq(Nat),
         Len(d) < CacheSize
  PROVE  \E k \in 0..Len(d) : NormalFileWrite(g, p, d).disk = Overwrite(g.disk, p, SubSeq(d, 1, k))
<1> DEFINE w == NormalFileWrite(g, p, d)
<1>4. w = NormalFileWrite(g, p, d)
  OBVIOUS
<1> HIDE DEF w
<1>1. g \in Handle /\ Len(g.cache) <= CacheSize
  BY TameFields DEF Tame
<1>2. CASE ifntfs
  <2> DEFINE e == [g EXCEPT !.filepos = p]
  <2>1. e \in Handle /\ e.filepos = p /\ e.disk = g.disk /\ e.cache = g.cache /\ Agrees(e)
    BY <1>1 DEF Handle, Agrees
  <2>2. w = Written(e, d)
    BY <1>2, <1>4 DEF NormalFileWrite
  <2> HIDE DEF e
  <2>3. w = FH!Written(e, d) /\ e \in FH!Handle /\ FH!Agrees(e) /\ Len(e.cache) <= CacheSize
    BY <1>1, <2>1, <2>2, SameBase, SameWritten
  <2>4. \E k \in 0..Len(d) : w.disk = FH!Overwrite(e.disk, e.filepos, SubSeq(d, 1, k))
    BY <2>3, Assumed, FH!WrittenDisk
  <2> QED BY <2>1, <2>4, SameBase DEF w
<1>3. CASE ~ifntfs
  <2>1. w.disk = Overwrite(g.disk, p, d)
    BY <1>3, <1>4, FatWrite
  <2>2. Len(d) \in 0..Len(d) /\ SubSeq(d, 1, Len(d)) = d
    OBVIOUS
  <2> QED BY <2>1, <2>2 DEF w
<1> QED BY <1>2, <1>3

\* So is one that has been closed, with its cache written.
LEMMA ClosedTame == ASSUME NEW g, Tame(g) PROVE Tame(Closed(g))
<1>1. /\ g \in Handle /\ g.disk \in Seq(Nat) /\ g.cachedatapos \in Nat /\ g.cache \in Seq(Nat)
  BY TameFields
<1>2. Flush(g).disk = Overwrite(g.disk, g.cachedatapos, g.cache)
  BY <1>1 DEF Flush, Handle
<1>3. Flush(g).disk \in Seq(Nat)
  BY <1>1, <1>2, OverwriteFacts
<1>4. (IF g.cachedirty THEN Flush(g).disk ELSE g.disk) \in Seq(Nat)
  BY <1>1, <1>3
<1> QED BY <1>4, OpenedTame DEF Closed

-----------------------------------------------------------------------------
(***************************************************************************)
(* Sizes.                                                                  *)
(***************************************************************************)

\* Multiples.
LEMMA Remainder ==
  ASSUME NEW c \in Nat \ {0}, NEW q \in Nat, NEW t \in 0..(c - 1)
  PROVE  (q * c + t) % c = t /\ (q * c + t) \div c = q
OBVIOUS

\* Multiples of c: what they are,
LEMMA Multiple ==
  ASSUME NEW c \in Nat \ {0}, NEW a \in Nat, a % c = 0
  PROVE  \E q \in Nat : a = q * c
<1>1. a \div c \in Nat /\ a = (a \div c) * c
  OBVIOUS
<1> QED BY <1>1

\* that c times a number is one,
LEMMA MultipleIs ==
  ASSUME NEW c \in Nat \ {0}, NEW q \in Nat
  PROVE  (q * c) % c = 0 /\ q * c \in Nat
<1>1. 0 \in 0..(c - 1) /\ q * c \in Nat
  OBVIOUS
<1>2. (q * c + 0) % c = 0
  BY <1>1, Remainder
<1>3. q * c + 0 = q * c
  BY <1>1
<1> QED BY <1>1, <1>2, <1>3

\* that their sum is one,
LEMMA MultipleSum ==
  ASSUME NEW c \in Nat \ {0}, NEW a \in Nat, NEW b \in Nat, a % c = 0, b % c = 0
  PROVE  (a + b) % c = 0
<1>1. PICK q \in Nat : a = q * c
  BY Multiple
<1>2. PICK k \in Nat : b = k * c
  BY Multiple
<1>3. a + b = (q + k) * c /\ q + k \in Nat
  BY <1>1, <1>2
<1> QED BY <1>3, MultipleIs

\* that two of them are at least c apart,
LEMMA MultipleGap ==
  ASSUME NEW c \in Nat \ {0}, NEW a \in Nat, NEW b \in Nat, a % c = 0, b % c = 0, b < a
  PROVE  a - b >= c /\ (a - b) % c = 0
<1>1. PICK q \in Nat : a = q * c
  BY Multiple
<1>2. PICK k \in Nat : b = k * c
  BY Multiple
<1>3. k < q
  BY <1>1, <1>2
<1>4. q - k \in Nat /\ q - k >= 1
  BY <1>3
<1>5. a - b = (q - k) * c
  BY <1>1, <1>2
<1>6. \A i \in Nat : i >= 1 => i * c >= c
  OBVIOUS
<1> QED BY <1>4, <1>5, <1>6, MultipleIs

\* and that they are multiples of what c is a multiple of.
LEMMA MultipleOf ==
  ASSUME NEW c \in Nat \ {0}, NEW d \in Nat \ {0}, NEW a \in Nat, a % c = 0, c % d = 0
  PROVE  a % d = 0
<1>1. PICK q \in Nat : a = q * c
  BY Multiple
<1>2. PICK k \in Nat : c = k * d
  BY Multiple
<1>3. \A x, y, z \in Int : x * (y * z) = (x * y) * z
  OBVIOUS
<1>4. q * (k * d) = (q * k) * d
  BY <1>1, <1>2, <1>3
<1>5. q * k \in Nat
  OBVIOUS
<1>6. a = (q * k) * d
  BY <1>1, <1>2, <1>4
<1> QED BY <1>5, <1>6, MultipleIs

\* The constants.
LEMMA ConstantFacts ==
  /\ Sector \in Nat \ {0} /\ Page \in Nat \ {0} /\ CacheSize \in Nat \ {0} /\ Val \in Nat \ {0}
  /\ Chunk \in Nat \ {0} /\ Section \in Nat \ {0} /\ SegNumber \in Nat \ {0} /\ Big \in Nat \ {0}
  /\ Limit \in Nat \ {0} /\ Limit % Chunk = 0 /\ Limit + Val <= Big
  /\ Page <= Chunk /\ Chunk <= Limit /\ Chunk <= Section /\ Chunk < CacheSize
  /\ Val < Page /\ 4 * Val <= Page /\ Val < Chunk /\ Val < CacheSize
  /\ Page % Sector = 0 /\ Chunk % Page = 0 /\ Section % Chunk = 0 /\ Chunk % Sector = 0
<1>1. /\ Sector \in Nat \ {0} /\ Page \in Nat \ {0} /\ CacheSize \in Nat \ {0} /\ Val \in Nat \ {0}
      /\ Chunk \in Nat \ {0} /\ Section \in Nat \ {0} /\ SegNumber \in Nat \ {0} /\ Big \in Nat \ {0}
      /\ Page % Sector = 0 /\ Chunk % Page = 0 /\ Section % Chunk = 0 /\ Chunk < CacheSize
      /\ 4 * Val <= Page
  BY SectorAssumption, CacheSizeAssumption, ValAssumption, HashAssumption
<1>2. Limit \in Nat \ {0} /\ Limit % Chunk = 0 /\ Limit + Val <= Big
  BY HashAssumption DEF Limit
<1>3. \A a \in Nat \ {0} : \A c \in Nat \ {0} : a % c = 0 => c <= a
  OBVIOUS
<1>4. Page <= Chunk /\ Chunk <= Limit /\ Chunk <= Section
  BY <1>1, <1>2, <1>3
<1>5. Val < Page /\ Val < Chunk /\ Val < CacheSize
  BY <1>1, <1>4
<1>6. Chunk % Sector = 0
  BY <1>1, MultipleOf
<1> QED BY <1>1, <1>2, <1>4, <1>5, <1>6

\* A chunk more, and what it makes of the section.
LEMMA ChunkMore ==
  ASSUME NEW a \in Nat, a % Chunk = 0
  PROVE  /\ (a + Chunk) % Chunk = 0 /\ a % Section \in 0..(Section - 1) /\ (a % Section) % Chunk = 0
         /\ (a % Section) + Chunk <= Section
         /\ (a + Chunk) % Section = IF (a % Section) + Chunk >= Section THEN 0 ELSE (a % Section) + Chunk
<1>1. Chunk \in Nat \ {0} /\ Section \in Nat \ {0} /\ Section % Chunk = 0
  BY ConstantFacts
<1> DEFINE q == a \div Section
           s == a % Section
<1>2. q \in Nat /\ s \in 0..(Section - 1) /\ a = q * Section + s
  BY <1>1
<1> HIDE DEF q, s
<1>3. Chunk % Chunk = 0
  BY <1>1
<1>4. (a + Chunk) % Chunk = 0
  BY <1>1, <1>3, MultipleSum
<1>5. (q * Section) % Chunk = 0 /\ q * Section \in Nat
  BY <1>1, <1>2, MultipleIs, MultipleOf
<1>6. s % Chunk = 0
  <2>1. CASE s = 0
    BY <1>1, <2>1
  <2>2. CASE s # 0
    <3>1. q * Section < a /\ a - q * Section = s
      BY <1>2, <1>5, <2>2
    <3>2. (a - q * Section) % Chunk = 0
      BY <1>1, <1>5, <3>1, MultipleGap
    <3> QED BY <3>1, <3>2
  <2> QED BY <2>1, <2>2
<1>7. s + Chunk <= Section
  <2>1. Section - s >= Chunk
    <3>1. Section \in Nat /\ s \in Nat /\ s < Section
      BY <1>1, <1>2
    <3> QED BY <1>1, <1>6, <3>1, MultipleGap
  <2> QED BY <1>1, <1>2, <2>1
<1>8. (a + Chunk) % Section = IF s + Chunk >= Section THEN 0 ELSE s + Chunk
  <2>1. CASE s + Chunk >= Section
    <3>1. s + Chunk = Section
      BY <1>1, <1>2, <1>7, <2>1
    <3>2. a + Chunk = (q + 1) * Section /\ q + 1 \in Nat
      BY <1>1, <1>2, <3>1
    <3>3. ((q + 1) * Section) % Section = 0
      BY <1>1, <3>2, MultipleIs
    <3> QED BY <2>1, <3>2, <3>3
  <2>2. CASE ~(s + Chunk >= Section)
    <3> DEFINE t == s + Chunk
    <3>1. t \in 0..(Section - 1)
      BY <1>1, <1>2, <2>2
    <3>2. a + Chunk = q * Section + t
      BY <1>1, <1>2, <1>5
    <3> HIDE DEF t
    <3>3. (q * Section + t) % Section = t
      BY <1>1, <1>2, <3>1, Remainder
    <3> QED BY <2>2, <3>2, <3>3 DEF t
  <2> QED BY <2>1, <2>2
<1> QED BY <1>2, <1>4, <1>6, <1>7, <1>8 DEF s

\* The samples: gap is Size \div SegNumber.
LEMMA GapFacts ==
  ASSUME NEW z \in Nat, z > SegNumber * Big, NEW g, g = z \div SegNumber
  PROVE  /\ g \in Nat /\ g >= Big /\ SegNumber * g <= z /\ z < SegNumber * g + SegNumber
         /\ \A k \in 0..(SegNumber - 1) : k * g \in Nat /\ k * g + g <= z
<1>1. SegNumber \in Nat \ {0} /\ Big \in Nat \ {0}
  BY ConstantFacts
<1> DEFINE t == z % SegNumber
<1>2. g \in Nat /\ t \in 0..(SegNumber - 1) /\ z = g * SegNumber + t
  BY <1>1
<1> HIDE DEF t
<1>3. g * SegNumber = SegNumber * g
  BY <1>1, <1>2
<1>4. g >= Big
  <2>1. SUFFICES ASSUME g + 1 <= Big PROVE FALSE
    BY <1>1, <1>2
  <2>2. SegNumber * (g + 1) <= SegNumber * Big
    <3>1. \A x \in Nat : \A a, b \in Nat : a <= b => x * a <= x * b
      OBVIOUS
    <3> QED BY <1>1, <1>2, <2>1, <3>1
  <2>3. SegNumber * (g + 1) = SegNumber * g + SegNumber
    BY <1>1, <1>2
  <2> QED BY <1>1, <1>2, <1>3, <2>2, <2>3
<1>5. ASSUME NEW k \in 0..(SegNumber - 1) PROVE k * g \in Nat /\ k * g + g <= z
  <2>1. (k + 1) * g <= SegNumber * g /\ k + 1 \in Nat
    <3>1. \A x \in Nat : \A a, b \in Nat : a <= b => a * x <= b * x
      OBVIOUS
    <3> QED BY <1>1, <1>2, <3>1
  <2>2. (k + 1) * g = k * g + g /\ k * g \in Nat /\ SegNumber * g \in Nat
    BY <1>1, <1>2
  <2> QED BY <1>2, <1>3, <2>1, <2>2
<1> QED BY <1>1, <1>2, <1>3, <1>4, <1>5

-----------------------------------------------------------------------------
(***************************************************************************)
(* The inductive invariant.                                                *)
(***************************************************************************)

\* The files of an image.
LEMMA IsImage ==
  ASSUME NEW l \in Lengths, image = ImageOf(l)
  PROVE  /\ N \in Nat \ {0} /\ 1 \in 1..N /\ N \in 1..N
         /\ \A i \in 1..N : /\ image[i] \in Seq(Nat) /\ Len(image[i]) \in Nat
                            /\ Len(image[i]) % Page = 0
                            /\ \A j \in 1..Len(image[i]) : image[i][j] = 100 * i + j
         /\ Len(image[1]) > 0
<1>2. /\ l \in Seq(Nat) /\ l # <<>> /\ l[1] > 0 /\ \A i \in 1..Len(l) : l[i] % Page = 0
  BY LengthsAssumption
<1>3. Len(l) \in Nat \ {0} /\ \A i \in 1..Len(l) : l[i] \in Nat
  BY <1>2
<1>4. image = [i \in 1..Len(l) |-> [j \in 1..l[i] |-> 100 * i + j]]
  BY DEF ImageOf
<1>5. Len(image) = Len(l)
  BY <1>3, <1>4
<1>6. ASSUME NEW i \in 1..N
      PROVE  /\ image[i] \in Seq(Nat) /\ Len(image[i]) = l[i]
             /\ \A j \in 1..Len(image[i]) : image[i][j] = 100 * i + j
  <2>1. image[i] = [j \in 1..l[i] |-> 100 * i + j] /\ l[i] \in Nat /\ i \in Nat
    BY <1>3, <1>4, <1>5 DEF N
  <2>2. \A j \in 1..l[i] : 100 * i + j \in Nat
    BY <2>1
  <2>3. image[i] \in Seq(Nat) /\ Len(image[i]) = l[i]
    BY <2>1, <2>2
  <2> QED BY <2>1, <2>3
<1>7. 1 \in 1..N /\ N \in 1..N /\ N \in Nat \ {0}
  BY <1>3, <1>5 DEF N
<1>8. ASSUME NEW i \in 1..N PROVE Len(image[i]) \in Nat /\ Len(image[i]) % Page = 0
  BY <1>2, <1>3, <1>5, <1>6 DEF N
<1>9. Len(image[1]) > 0
  BY <1>2, <1>6, <1>7
<1> QED BY <1>6, <1>7, <1>8, <1>9

\* The files of an image: pages of bytes, none of them 0.
LEMMA ImageFacts ==
  ASSUME HandleInv
  PROVE  /\ N \in Nat \ {0} /\ 1 \in 1..N /\ N \in 1..N
         /\ \A i \in 1..N : /\ image[i] \in Seq(Nat) /\ Len(image[i]) \in Nat
                            /\ Len(image[i]) % Page = 0
                            /\ \A j \in 1..Len(image[i]) : image[i][j] = 100 * i + j
         /\ Len(image[1]) > 0
<1>1. PICK l \in Lengths : image = ImageOf(l)
  BY DEF HandleInv
<1> QED BY <1>1, IsImage

\* The handle of every file may be read from.
LEMMA HandleAt ==
  ASSUME HandleInv, ifntfs \in BOOLEAN, NEW i \in 1..N
  PROVE  Tame(f[i])
BY DEF HandleInv, Tame

\* The handle of one file is another one.
LEMMA HandleStep ==
  ASSUME HandleInv, ifntfs \in BOOLEAN, UNCHANGED <<ifntfs, image>>, NEW i \in 1..N, NEW g, Tame(g),
         f' = [f EXCEPT ![i] = g],
         ctxSec' \in Seq(Nat), ctx' \in Seq(Seq(Nat)), salt' \in Seq(Nat)
  PROVE  /\ HandleInv' /\ N' = N /\ Limit' = Limit /\ f'[i] = g
         /\ \A j \in 1..N : Len(f'[j].cache) <= CacheSize
         /\ \A j \in 1..N : j # i => f'[j] = f[j]
<1>1. N' = N
  BY DEF N
<1>2. f \in [1..N -> Handle] /\ g \in Handle
  BY DEF HandleInv, Tame
<1>3. f' \in [1..N -> Handle] /\ f'[i] = g /\ \A j \in 1..N : j # i => f'[j] = f[j]
  BY <1>2
<1>4. ASSUME NEW j \in 1..N
      PROVE  Len(f'[j].cache) <= CacheSize /\ (~ifntfs => f'[j].cache = <<>> /\ ~f'[j].cachedirty)
  <2>1. CASE j = i
    BY <1>3, <2>1 DEF Tame
  <2>2. CASE j # i
    BY <1>3, <2>2 DEF HandleInv
  <2> QED BY <2>1, <2>2
<1>5. HandleInv'
  BY <1>1, <1>3, <1>4 DEF HandleInv
<1> QED BY <1>1, <1>3, <1>4, <1>5 DEF Limit

\* No handle changes.
LEMMA HandleSame ==
  ASSUME HandleInv, UNCHANGED <<ifntfs, image, f>>,
         ctxSec' \in Seq(Nat), ctx' \in Seq(Seq(Nat)), salt' \in Seq(Nat)
  PROVE  HandleInv' /\ N' = N /\ Limit' = Limit
BY DEF HandleInv, N, Limit

\* What has been hashed so far is bytes.
LEMMA HandleTypes ==
  ASSUME HandleInv
  PROVE  ctxSec \in Seq(Nat) /\ ctx \in Seq(Seq(Nat)) /\ salt \in Seq(Nat)
BY DEF HandleInv

\* The sizes of the files: whole pages, the check value aside.
LEMMA SizeFacts ==
  ASSUME IInv, pc \notin Ended, NEW i \in 1..N
  PROVE  /\ Size(i) \in Nat
         /\ Size(i) = Len(image[i]) \/ (i = N /\ ~ifntfs /\ Size(i) = Len(image[i]) + Val)
         /\ ifntfs => /\ N = 1 /\ i = 1 /\ Size(i) = Len(image[i]) /\ Size(i) % Page = 0
                      /\ Size(i) >= Page
         /\ N > 1 => Size(1) = Len(image[1])
         /\ Size(1) >= Page
<1>1. HandleInv /\ SizeInv /\ ifntfs \in BOOLEAN
  BY DEF IInv, TypeOK
<1>2. /\ N \in Nat \ {0} /\ 1 \in 1..N /\ N \in 1..N
      /\ \A k \in 1..N : Len(image[k]) \in Nat /\ Len(image[k]) % Page = 0
      /\ Len(image[1]) > 0
  BY <1>1, ImageFacts
<1>3. /\ \A k \in 1..(N - 1) : Size(k) = Len(image[k])
      /\ Size(N) = IF Grown THEN Len(image[N]) + Val ELSE Len(image[N])
  BY <1>1 DEF SizeInv
<1>4. Page \in Nat \ {0} /\ Val \in Nat
  BY ConstantFacts
<1>5. Len(image[1]) >= Page
  <2>1. \A a \in Nat \ {0} : \A c \in Nat \ {0} : a % c = 0 => c <= a
    OBVIOUS
  <2>2. Len(image[1]) \in Nat \ {0} /\ Len(image[1]) % Page = 0
    BY <1>2
  <2> QED BY <1>4, <2>1, <2>2
<1>6. Grown => ~ifntfs
  BY DEF Grown
<1>7. \A k \in 1..N : /\ Size(k) = Len(image[k]) \/ (k = N /\ ~ifntfs /\ Size(k) = Len(image[k]) + Val)
                      /\ ifntfs => Size(k) = Len(image[k])
  BY <1>2, <1>3, <1>6
<1>8. ifntfs => N = 1
  BY <1>1 DEF HandleInv
<1>9. N > 1 => Size(1) = Len(image[1])
  BY <1>2, <1>3
<1>10. Size(i) \in Nat /\ Size(1) >= Page
  BY <1>2, <1>4, <1>5, <1>7
<1>11. ifntfs => /\ N = 1 /\ i = 1 /\ Size(i) = Len(image[i]) /\ Size(i) % Page = 0 /\ Size(i) >= Page
  BY <1>2, <1>5, <1>7, <1>8
<1> QED BY <1>7, <1>9, <1>10, <1>11

\* The image has been written and nothing opened.
LEMMA InitIInv == Init => IInv
<1> SUFFICES ASSUME Init PROVE IInv
  OBVIOUS
<1>1. PICK l \in Lengths : (ifntfs => Len(l) = 1) /\ image = ImageOf(l)
  BY DEF Init
<1>2. /\ N \in Nat \ {0} /\ 1 \in 1..N /\ N \in 1..N
      /\ \A i \in 1..N : image[i] \in Seq(Nat) /\ Len(image[i]) \in Nat
  BY <1>1, IsImage
<1>3. N = Len(l)
  BY <1>1, LengthsAssumption DEF N, ImageOf
<1>4. f = [i \in 1..N |-> Opened(image[i])]
  BY DEF Init
<1>5. ASSUME NEW i \in 1..N PROVE Tame(f[i]) /\ f[i].disk = image[i] /\ f[i] = Opened(f[i].disk)
  <2>1. f[i] = Opened(image[i]) /\ image[i] \in Seq(Nat)
    BY <1>2, <1>4
  <2> QED BY <2>1, OpenedFacts, OpenedTame
<1>6. f \in [1..N -> Handle]
  BY <1>4, <1>5 DEF Tame
<1>7. /\ ifntfs \in BOOLEAN /\ pc = "written" /\ mode = "calculate" /\ file = 1 /\ llReadSize = 0
      /\ iSegIndex = 0 /\ llSectorDataReadSize = 0 /\ ctxSec = <<>> /\ ctx = <<>> /\ salt = <<>>
      /\ seen = <<>> /\ fault = {}
  BY DEF Init
<1>8. HandleInv
  <2>1. ctxSec \in Seq(Nat) /\ ctx \in Seq(Seq(Nat)) /\ salt \in Seq(Nat)
    BY <1>7
  <2>2. \A i \in 1..N : /\ Len(f[i].cache) <= CacheSize
                        /\ ~ifntfs => f[i].cache = <<>> /\ ~f[i].cachedirty
    BY <1>5 DEF Tame
  <2> QED BY <1>1, <1>3, <1>6, <2>1, <2>2 DEF HandleInv
<1>9. TypeOK
  <2>1. /\ Section \in Nat \ {0} /\ Chunk \in Nat \ {0} /\ Limit \in Nat /\ SegNumber \in Nat
        /\ Val \in Nat
    BY ConstantFacts
  <2>2. Len(ctxSec) < Section + Chunk /\ Len(salt) <= Val + 1
    BY <1>7, <2>1
  <2>3. /\ file \in 1..(N + 1) /\ iSegIndex \in 0..(SegNumber + 1)
        /\ llReadSize \in Nat /\ llSectorDataReadSize \in 0..Limit
    BY <1>2, <1>7, <2>1
  <2>4. \A i \in 1..N : Len(f[i].cache) <= CacheSize
    BY <1>8 DEF HandleInv
  <2> QED BY <1>7, <2>2, <2>3, <2>4 DEF TypeOK
<1>10. SizeInv
  <2>1. ~Grown
    BY <1>7 DEF Grown
  <2>2. \A i \in 1..N : Size(i) = Len(image[i])
    BY <1>5 DEF Size
  <2> QED BY <1>2, <2>1, <2>2 DEF SizeInv
<1>11. HashInv
  BY <1>7 DEF HashInv, Calculating
<1>12. CacheInv
  BY <1>2, <1>5, <1>7 DEF CacheInv
<1> QED BY <1>8, <1>9, <1>10, <1>11, <1>12 DEF IInv

\* The calculation or the validation ends without a result.
LEMMA RefuseIInv ==
  ASSUME IInv, Refuse, UNCHANGED <<ifntfs, image, mode, file, ctx, salt, fault>>,
         llReadSize' \in Nat, iSegIndex' \in 0..(SegNumber + 1), llSectorDataReadSize' \in 0..Limit,
         ctxSec' \in Seq(Nat), Len(ctxSec') < Section + Chunk
  PROVE  IInv'
<1>1. /\ HandleInv /\ ifntfs \in BOOLEAN /\ mode \in {"calculate", "validate"}
      /\ file \in 1..(N + 1) /\ Len(salt) <= Val + 1 /\ fault \subseteq {"read", "write", "close"}
  BY DEF IInv, TypeOK
<1>2. N \in 1..N
  BY <1>1, ImageFacts
<1>3. f' = [f EXCEPT ![N] = Closed(f[N])] /\ pc' \in {"failed", "refused"}
  BY DEF Refuse
<1>4. Tame(f[N])
  BY <1>1, <1>2, HandleAt
<1>5. Tame(Closed(f[N]))
  BY <1>4, ClosedTame
<1>6. ctx' \in Seq(Seq(Nat)) /\ salt' \in Seq(Nat)
  BY <1>1, HandleTypes
<1>7. /\ HandleInv' /\ N' = N /\ Limit' = Limit /\ \A j \in 1..N : Len(f'[j].cache) <= CacheSize
  BY <1>1, <1>2, <1>3, <1>5, <1>6, HandleStep
<1>8. pc' \in Ended
  BY <1>3 DEF Ended
<1>9. TypeOK'
  BY <1>1, <1>7, <1>8 DEF TypeOK
<1>10. SizeInv'
  BY <1>8 DEF SizeInv
<1>11. HashInv' /\ CacheInv'
  BY <1>3, <1>8 DEF HashInv, CacheInv
<1> QED BY <1>7, <1>9, <1>10, <1>11 DEF IInv

\* On FAT there is no cache to be wrong.
LEMMA FatAgrees == ASSUME NEW g, Tame(g), ~ifntfs PROVE Agrees(g)
<1>1. Len(g.cache) = 0
  BY DEF Tame
<1> QED BY <1>1 DEF Agrees

\* The sizes stay.
LEMMA SizeStep ==
  ASSUME HandleInv, SizeInv, pc \notin Ended, UNCHANGED image,
         \A j \in 1..N : Len(f'[j].disk) = Len(f[j].disk), Grown' <=> Grown
  PROVE  SizeInv' /\ \A j \in 1..N : Size(j)' = Size(j)
<1>1. N' = N /\ N \in Nat \ {0} /\ N \in 1..N
  BY ImageFacts DEF N
<1>2. \A j \in 1..N : Size(j)' = Size(j)
  BY DEF Size
<1>3. /\ \A k \in 1..(N - 1) : Size(k) = Len(image[k])
      /\ Size(N) = IF Grown THEN Len(image[N]) + Val ELSE Len(image[N])
  BY DEF SizeInv
<1>4. \A k \in 1..(N - 1) : Len(f'[k].disk) = Len(image[k])
  <2>1. \A k \in 1..(N - 1) : k \in 1..N
    BY <1>1
  <2> QED BY <1>3, <2>1 DEF Size
<1>5. Len(f'[N].disk) = IF Grown' THEN Len(image[N]) + Val ELSE Len(image[N])
  BY <1>1, <1>3 DEF Size
<1>6. /\ \A k \in 1..(N' - 1) : Len(f'[k].disk) = Len(image'[k])
      /\ Len(f'[N'].disk) = IF Grown' THEN Len(image'[N']) + Val ELSE Len(image'[N'])
  BY <1>1, <1>4, <1>5
<1>7. SizeInv'
  BY <1>6 DEF SizeInv, Size
<1> QED BY <1>2, <1>7

\* Begin: the last file is opened, and the others keep their handles.
LEMMA BeginFacts ==
  ASSUME IInv, pc \notin Ended, NEW m, Begin(m)
  PROVE  /\ HandleInv' /\ N' = N /\ Limit' = Limit /\ f'[N] = Opened(f'[N].disk)
         /\ \A j \in 1..N : Len(f'[j].cache) <= CacheSize
         /\ \A j \in 1..N : Len(f'[j].disk) = Len(f[j].disk) /\ Agrees(f'[j])
<1>1. /\ HandleInv /\ ifntfs \in BOOLEAN
  BY DEF IInv, TypeOK
<1>2. N \in Nat \ {0} /\ N \in 1..N
  BY <1>1, ImageFacts
<1> DEFINE g == Opened(f[N].disk)
<1>3. /\ f' = [f EXCEPT ![N] = g] /\ UNCHANGED <<ifntfs, image, ctxSec, salt>> /\ ctx' = <<>>
  BY DEF Begin
<1>4. Tame(f[N]) /\ f[N].disk \in Seq(Nat)
  BY <1>1, <1>2, HandleAt, TameFields
<1>5. Tame(g) /\ g.disk = f[N].disk /\ Agrees(g) /\ g = Opened(g.disk)
  BY <1>4, OpenedFacts, OpenedTame
<1> HIDE DEF g
<1>6. ctxSec' \in Seq(Nat) /\ ctx' \in Seq(Seq(Nat)) /\ salt' \in Seq(Nat)
  BY <1>1, <1>3, HandleTypes
<1>7. /\ HandleInv' /\ N' = N /\ Limit' = Limit /\ f'[N] = g
      /\ \A j \in 1..N : Len(f'[j].cache) <= CacheSize
      /\ \A j \in 1..N : j # N => f'[j] = f[j]
  BY <1>1, <1>2, <1>3, <1>5, <1>6, HandleStep
<1>8. ASSUME NEW j \in 1..N PROVE Len(f'[j].disk) = Len(f[j].disk) /\ Agrees(f'[j])
  <2>1. CASE j = N
    BY <1>5, <1>7, <2>1
  <2>2. CASE j # N
    <3>1. f'[j] = f[j] /\ ~ifntfs
      BY <1>1, <1>2, <1>7, <2>2 DEF HandleInv
    <3>2. Tame(f[j])
      BY <1>1, HandleAt
    <3> QED BY <3>1, <3>2, FatAgrees
  <2> QED BY <2>1, <2>2
<1> QED BY <1>5, <1>7, <1>8

\* CalculateFileCheckValue opens the last file.
LEMMA CalculateIInv == IInv /\ CalculateFileCheckValue => IInv'
<1> SUFFICES ASSUME IInv, CalculateFileCheckValue PROVE IInv'
  OBVIOUS
<1>1. /\ pc = "written" /\ Begin("calculate") /\ pc' \in {"placeholder", "failed"} /\ pc \notin Ended
  BY DEF CalculateFileCheckValue, Ended
<1>2. /\ HandleInv' /\ N' = N /\ Limit' = Limit /\ f'[N] = Opened(f'[N].disk)
      /\ \A j \in 1..N : Len(f'[j].cache) <= CacheSize
      /\ \A j \in 1..N : Len(f'[j].disk) = Len(f[j].disk) /\ Agrees(f'[j])
  BY <1>1, BeginFacts
<1>3. /\ UNCHANGED <<ifntfs, image, llReadSize, iSegIndex, llSectorDataReadSize, ctxSec, salt, seen,
                     fault>>
      /\ file' = 1 /\ mode' = "calculate" /\ ctx' = <<>>
  BY <1>1 DEF Begin
<1>4. HandleInv /\ SizeInv /\ HashInv /\ TypeOK
  BY DEF IInv
<1>5. N \in Nat \ {0} /\ 1 <= N
  BY <1>4, ImageFacts
<1>6. seen = <<>> /\ fault = {} /\ mode = "calculate"
  BY <1>1, <1>4 DEF HashInv, Calculating, Ended
<1>7. TypeOK'
  <2>1. pc' \in Ended \cup {"placeholder"} /\ file' \in 1..(N + 1)
    BY <1>1, <1>3, <1>5 DEF Ended
  <2> QED BY <1>2, <1>3, <1>4, <2>1 DEF TypeOK
<1>8. SizeInv'
  <2>1. ~Grown /\ (pc' \notin Ended => ~Grown')
    BY <1>1, <1>3, <1>6 DEF Grown, Ended
  <2>2. CASE pc' \in Ended
    BY <2>2 DEF SizeInv
  <2>3. CASE pc' \notin Ended
    BY <1>1, <1>2, <1>3, <1>4, <2>1, <2>3, SizeStep
  <2> QED BY <2>2, <2>3
<1>9. HashInv'
  <2>1. file' <= N'
    BY <1>2, <1>3, <1>5
  <2> QED BY <1>1, <1>3, <1>6, <2>1 DEF HashInv, Calculating, Ended
<1>10. CacheInv'
  BY <1>1, <1>2 DEF CacheInv
<1> QED BY <1>2, <1>7, <1>8, <1>9, <1>10 DEF IInv

\* ValidImageCheckValue opens it again.
LEMMA ValidIInv == IInv /\ ValidImageCheckValue => IInv'
<1> SUFFICES ASSUME IInv, ValidImageCheckValue PROVE IInv'
  OBVIOUS
<1>1. /\ pc = "calculated" /\ Begin("validate") /\ pc' \in {"file", "refused"} /\ pc \notin Ended
  BY DEF ValidImageCheckValue, Ended
<1>2. /\ HandleInv' /\ N' = N /\ Limit' = Limit /\ f'[N] = Opened(f'[N].disk)
      /\ \A j \in 1..N : Len(f'[j].cache) <= CacheSize
      /\ \A j \in 1..N : Len(f'[j].disk) = Len(f[j].disk) /\ Agrees(f'[j])
  BY <1>1, BeginFacts
<1>3. /\ UNCHANGED <<ifntfs, image, llReadSize, iSegIndex, llSectorDataReadSize, ctxSec, salt, seen,
                     fault>>
      /\ file' = 1 /\ mode' = "validate" /\ ctx' = <<>>
  BY <1>1 DEF Begin
<1>4. HandleInv /\ SizeInv /\ HashInv /\ TypeOK
  BY DEF IInv
<1>5. N \in Nat \ {0} /\ 1 <= N
  BY <1>4, ImageFacts
<1>6. seen = <<seen[1]>>
  BY <1>1, <1>4 DEF HashInv, Calculating
<1>7. TypeOK'
  <2>1. pc' \in Ended \cup {"file"} /\ file' \in 1..(N + 1)
    BY <1>1, <1>3, <1>5 DEF Ended
  <2> QED BY <1>2, <1>3, <1>4, <2>1 DEF TypeOK
<1>8. SizeInv'
  <2>1. pc' \notin Ended => (Grown' <=> Grown)
    BY <1>1, <1>2, <1>3 DEF Grown, Ended
  <2>2. CASE pc' \in Ended
    BY <2>2 DEF SizeInv
  <2>3. CASE pc' \notin Ended
    BY <1>1, <1>2, <1>3, <1>4, <2>1, <2>3, SizeStep
  <2> QED BY <2>2, <2>3
<1>9. HashInv'
  <2>1. ~Calculating' /\ seen' = <<seen'[1]>>
    BY <1>3, <1>6 DEF Calculating
  <2>2. file' <= N'
    BY <1>2, <1>3, <1>5
  <2> QED BY <1>1, <2>1, <2>2 DEF HashInv, Ended
<1>10. CacheInv'
  <2>1. \A j \in 1..N' : Good(f[j])'
    BY <1>2 DEF Good
  <2> QED BY <1>1, <2>1 DEF CacheInv
<1> QED BY <1>2, <1>7, <1>8, <1>9, <1>10 DEF IInv

\* Good is what the cache of every file is on FAT.
LEMMA OtherGood ==
  ASSUME HandleInv, ifntfs \in BOOLEAN, NEW j \in 1..N, j # N \/ ~ifntfs
  PROVE  ~ifntfs /\ Agrees(f[j])
<1>1. ~ifntfs
  BY ImageFacts DEF HandleInv
<1>2. Tame(f[j])
  BY HandleAt
<1> QED BY <1>1, <1>2, FatAgrees

\* The placeholder is written behind the file, or into the cache.
LEMMA PlaceholderIInv == IInv /\ SaveZeroDataToFileEndForCheckValue => IInv'
<1> SUFFICES ASSUME IInv, SaveZeroDataToFileEndForCheckValue PROVE IInv'
  OBVIOUS
<1> DEFINE d == [i \in 1..Val |-> 0]
<1>1. /\ pc = "placeholder" /\ pc' = "file" /\ pc \notin Ended /\ pc' \notin Ended
      /\ UNCHANGED <<ifntfs, image, mode, file, llReadSize, iSegIndex, llSectorDataReadSize, ctxSec,
                     ctx, salt, seen>>
  BY DEF SaveZeroDataToFileEndForCheckValue, Ended, hash
<1>2. HandleInv /\ SizeInv /\ HashInv /\ TypeOK /\ CacheInv /\ ifntfs \in BOOLEAN
  BY DEF IInv, TypeOK
<1>3. N \in Nat \ {0} /\ N \in 1..N
  BY <1>2, ImageFacts
<1>4. /\ seen = <<>> /\ fault = {} /\ mode = "calculate" /\ file <= N /\ ~Grown
  BY <1>1, <1>2 DEF HashInv, Calculating, Grown
<1>5. /\ ctxSec' \in Seq(Nat) /\ ctx' \in Seq(Seq(Nat)) /\ salt' \in Seq(Nat)
  BY <1>1, <1>2, HandleTypes
<1>6. HashInv' <=> file <= N'
  BY <1>1, <1>4 DEF HashInv, Calculating
<1>7. CASE /\ f' = [f EXCEPT ![N] = NormalFileWrite(f[N], Size(N), d)] /\ UNCHANGED fault
  <2> DEFINE g == NormalFileWrite(f[N], Size(N), d)
  <2>1. d \in Seq(Nat) /\ Len(d) = Val /\ d # <<>> /\ Len(d) < CacheSize
    <3>1. Val \in Nat \ {0} /\ Val < CacheSize
      BY ConstantFacts
    <3>2. d \in Seq(Nat) /\ Len(d) = Val
      BY <3>1
    <3> QED BY <3>1, <3>2
  <2>2. Tame(f[N]) /\ Size(N) \in Nat /\ f[N].disk \in Seq(Nat)
    BY <1>2, <1>3, HandleAt, TameFields DEF Size
  <2>3. Agrees(f[N]) /\ f[N].cache = <<>>
    <3>1. f[N] = Opened(f[N].disk)
      BY <1>1, <1>2 DEF CacheInv
    <3> QED BY <2>2, <3>1, OpenedFacts
  <2>10. g = NormalFileWrite(f[N], Size(N), d)
    OBVIOUS
  <2>5. f' = [f EXCEPT ![N] = g]
    BY <1>7
  <2> HIDE DEF d, g
  <2>4. /\ Tame(g) /\ (~ifntfs => g.disk = Overwrite(f[N].disk, Size(N), d))
        /\ ifntfs => g.disk = f[N].disk /\ g.cachedatapos = Size(N)
    <3>1. ifntfs \in BOOLEAN
      BY <1>2
    <3>2. Tame(g)
      BY <2>1, <2>2, <2>3, <2>10, <3>1, WriteEffect
    <3>3. ~ifntfs => g.disk = Overwrite(f[N].disk, Size(N), d)
      BY <2>1, <2>2, <2>10, FatWrite
    <3>4. ifntfs => g.disk = f[N].disk /\ g.cachedatapos = Size(N)
      BY <2>1, <2>2, <2>3, <2>10, EmptyWrite
    <3> QED BY <3>2, <3>3, <3>4
  <2>6. /\ HandleInv' /\ N' = N /\ Limit' = Limit /\ f'[N] = g
        /\ \A j \in 1..N : Len(f'[j].cache) <= CacheSize
        /\ \A j \in 1..N : j # N => f'[j] = f[j]
    BY <1>1, <1>2, <1>3, <1>5, <2>4, <2>5, HandleStep
  <2>7. TypeOK'
    BY <1>1, <1>2, <1>7, <2>6 DEF TypeOK
  <2>8. SizeInv'
    <3>1. \A j \in 1..N : j # N => Len(f'[j].disk) = Len(f[j].disk)
      BY <2>6
    <3>2. CASE ifntfs
      <4>1. \A j \in 1..N : Len(f'[j].disk) = Len(f[j].disk)
        BY <2>4, <2>6, <3>1, <3>2
      <4>2. ~Grown'
        BY <1>1, <3>2 DEF Grown
      <4> QED BY <1>1, <1>2, <1>4, <4>1, <4>2, SizeStep
    <3>3. CASE ~ifntfs
      <4>1. Grown'
        BY <1>1, <1>4, <1>7, <3>3 DEF Grown
      <4>2. Len(f'[N].disk) = Size(N) + Val
        <5>1. g.disk = Overwrite(f[N].disk, Size(N), d)
          BY <2>4, <3>3
        <5>2. Len(g.disk) = IF d # <<>> /\ Size(N) + Len(d) > Len(f[N].disk) THEN Size(N) + Len(d)
                            ELSE Len(f[N].disk)
          BY <2>1, <2>2, <5>1, OverwriteFacts
        <5>3. Size(N) + Len(d) > Len(f[N].disk)
          BY <2>1, <2>2, ConstantFacts DEF Size
        <5> QED BY <2>1, <2>6, <5>2, <5>3
      <4>3. /\ \A k \in 1..(N - 1) : Len(f'[k].disk) = Len(image[k])
            /\ Size(N) = Len(image[N])
        <5>1. \A k \in 1..(N - 1) : k \in 1..N /\ k # N
          BY <1>3
        <5> QED BY <1>1, <1>2, <1>4, <3>1, <5>1 DEF SizeInv, Size
      <4>4. /\ \A k \in 1..(N' - 1) : Len(f'[k].disk) = Len(image'[k])
            /\ Len(f'[N'].disk) = IF Grown' THEN Len(image'[N']) + Val ELSE Len(image'[N'])
        BY <1>1, <2>6, <4>1, <4>2, <4>3
      <4> QED BY <4>4 DEF SizeInv, Size
    <3> QED BY <3>2, <3>3
  <2>9. CacheInv'
    <3>1. ASSUME NEW j \in 1..N PROVE Good(f'[j])
      <4>1. CASE j = N /\ ifntfs
        <5>1. f'[j] = g /\ g.cachedatapos = Len(g.disk) /\ Len(g.disk) \in Nat
          BY <2>2, <2>4, <2>6, <4>1 DEF Size
        <5> QED BY <5>1 DEF Good
      <4>2. CASE j # N \/ ~ifntfs
        <5>1. ifntfs' \in BOOLEAN /\ j \in 1..N' /\ (j # N' \/ ~ifntfs')
          BY <1>1, <1>2, <2>6, <4>2
        <5>2. ~ifntfs
          BY <1>2, <4>2, OtherGood
        <5>3. f'[j] = g \/ f'[j] = f[j]
          BY <2>6
        <5>4. Agrees(f[j]) /\ Agrees(g)
          BY <1>2, <2>4, <5>2, HandleAt, FatAgrees
        <5> QED BY <5>3, <5>4 DEF Good
      <4> QED BY <4>1, <4>2
    <3> QED BY <1>1, <2>6, <3>1 DEF CacheInv
  <2> QED BY <1>4, <1>6, <2>6, <2>7, <2>8, <2>9 DEF IInv
<1>8. CASE ~ifntfs /\ fault' = fault \cup {"write"} /\ UNCHANGED f
  <2>1. HandleInv' /\ N' = N /\ Limit' = Limit
    BY <1>1, <1>2, <1>5, <1>8, HandleSame
  <2>2. TypeOK'
    BY <1>1, <1>2, <1>8, <2>1 DEF TypeOK
  <2>3. SizeInv'
    <3>1. ~Grown'
      BY <1>1, <1>4, <1>8 DEF Grown
    <3> QED BY <1>1, <1>2, <1>4, <1>8, <3>1, SizeStep
  <2>4. CacheInv'
    <3>1. \A j \in 1..N : Good(f[j])
      BY <1>2, <1>8, OtherGood DEF Good
    <3> QED BY <1>1, <1>8, <2>1, <3>1 DEF CacheInv
  <2> QED BY <1>4, <1>6, <2>1, <2>2, <2>3, <2>4 DEF IInv
<1> QED BY <1>7, <1>8 DEF SaveZeroDataToFileEndForCheckValue

-----------------------------------------------------------------------------
(***************************************************************************)
(* The loops over a file.                                                  *)
(***************************************************************************)

\* The handle of the file at hand is another one with the same bytes.
LEMMA LoopStep ==
  ASSUME IInv, pc \in {"file", "all", "sample"}, UNCHANGED <<ifntfs, image, seen>>,
         fault' \in {fault, fault \cup {"read"}},
         NEW g, Tame(g), g.disk = f[file].disk, f' = [f EXCEPT ![file] = g],
         pc' \in {"file", "all", "sample", "salt"},
         ctxSec' \in Seq(Nat), ctx' \in Seq(Seq(Nat)), salt' \in Seq(Nat)
  PROVE  /\ file \in 1..N /\ HandleInv' /\ SizeInv' /\ N' = N /\ Limit' = Limit /\ f'[file] = g
         /\ \A j \in 1..N : Len(f'[j].cache) <= CacheSize
         /\ Good(g) => \A j \in 1..N : Good(f'[j])
         /\ \A j \in 1..N : Size(j)' = Size(j) /\ f'[j].disk = f[j].disk
         /\ \A j \in 1..N : ~ifntfs => Agrees(f'[j])
<1>1. HandleInv /\ SizeInv /\ HashInv /\ TypeOK /\ CacheInv /\ ifntfs \in BOOLEAN
  BY DEF IInv, TypeOK
<1>2. N \in Nat \ {0}
  BY <1>1, ImageFacts
<1>3. file \in 1..N
  <2>1. file \in 1..(N + 1) /\ file <= N
    BY <1>1 DEF TypeOK, HashInv
  <2> QED BY <1>2, <2>1
<1>4. /\ HandleInv' /\ N' = N /\ Limit' = Limit /\ f'[file] = g
      /\ \A j \in 1..N : Len(f'[j].cache) <= CacheSize
      /\ \A j \in 1..N : j # file => f'[j] = f[j]
  BY <1>1, <1>3, HandleStep
<1>5. /\ Good(g) => \A j \in 1..N : Good(f'[j])
      /\ \A j \in 1..N : f'[j].disk = f[j].disk
  BY <1>1, <1>4 DEF CacheInv
<1>6. \A j \in 1..N : Len(f'[j].disk) = Len(f[j].disk)
  BY <1>5
<1>7. Grown' <=> Grown
  BY <1>4 DEF Grown
<1>8. pc \notin Ended
  BY DEF Ended
<1>9. SizeInv' /\ \A j \in 1..N : Size(j)' = Size(j)
  BY <1>1, <1>6, <1>7, <1>8, SizeStep
<1>10. ASSUME NEW j \in 1..N, ~ifntfs PROVE Agrees(f'[j])
  <2>1. Tame(f[j])
    BY <1>1, HandleAt
  <2> QED BY <1>4, <1>10, <2>1, FatAgrees
<1> QED BY <1>3, <1>4, <1>5, <1>9, <1>10

\* What a read of the loops returns.
LEMMA LoopRead ==
  ASSUME IInv, pc \in {"all", "sample"}, NEW n \in Int,
         ifntfs => n \in 1..(CacheSize - 1) /\ llReadSize < Size(file),
         NEW r, r = NormalFileRead(f[file], llReadSize, n)
  PROVE  /\ file \in 1..N /\ f[file].disk \in Seq(Nat)
         /\ Tame(r.f) /\ r.f.disk = f[file].disk /\ r.out = Slice(f[file].disk, llReadSize, n)
         /\ Agrees(r.f) /\ (ifntfs => Inside(r.f, llReadSize + Len(r.out)))
<1>1. HandleInv /\ HashInv /\ TypeOK /\ CacheInv /\ ifntfs \in BOOLEAN /\ llReadSize \in Nat
  BY DEF IInv, TypeOK
<1>2. N \in Nat \ {0}
  BY <1>1, ImageFacts
<1>3. file \in 1..N
  <2>1. file \in 1..(N + 1) /\ file <= N
    BY <1>1 DEF TypeOK, HashInv
  <2> QED BY <1>2, <2>1
<1>4. Tame(f[file]) /\ Good(f[file])
  BY <1>1, <1>3, HandleAt DEF CacheInv
<1>5. f[file].disk \in Seq(Nat) /\ Len(f[file].disk) \in Nat /\ f[file].cachedatapos \in Nat
  BY <1>4, TameFields
<1>6. Agrees(f[file]) \/ llReadSize < f[file].cachedatapos
  <2>1. CASE ~ifntfs
    BY <1>4, <2>1, FatAgrees
  <2>2. CASE ifntfs
    BY <1>1, <1>4, <1>5, <2>2 DEF Good, Size
  <2> QED BY <1>1, <2>1, <2>2
<1>7. ifntfs => n \in 1..(CacheSize - 1) /\ llReadSize < Len(f[file].disk)
  BY DEF Size
<1> DEFINE g == f[file]
<1>8. /\ ifntfs \in BOOLEAN /\ Tame(g) /\ llReadSize \in Nat /\ r = NormalFileRead(g, llReadSize, n)
      /\ Agrees(g) \/ llReadSize < g.cachedatapos \/ CacheEnd(g) <= llReadSize
      /\ ifntfs => n \in 1..(CacheSize - 1) /\ llReadSize < Len(g.disk)
  BY <1>1, <1>4, <1>6, <1>7
<1>9. g.disk = f[file].disk
  OBVIOUS
<1> HIDE DEF g
<1>10. /\ Tame(r.f) /\ r.f.disk = g.disk /\ r.out = Slice(g.disk, llReadSize, n)
       /\ Agrees(r.f) /\ (ifntfs => Inside(r.f, llReadSize + Len(r.out)))
  BY <1>8, ReadEffect
<1> QED BY <1>3, <1>5, <1>9, <1>10

\* The loop over a file ends.
LEMMA LoopEnds ==
  ASSUME IInv, pc \in {"all", "sample"}, UNCHANGED <<ifntfs, image, mode, salt, seen>>,
         fault' \in {fault, fault \cup {"read"}}, NextFile, NEW g, Tame(g), g.disk = f[file].disk, f' = [f EXCEPT ![file] = g],
         ifntfs => Agrees(g) \/ ~Inside(g, Size(1) \div 2),
         ctxSec' \in Seq(Nat), ctx' \in Seq(Seq(Nat)), Len(ctxSec') < Section + Chunk,
         llReadSize' \in Nat, iSegIndex' \in 0..(SegNumber + 1), llSectorDataReadSize' \in 0..Limit
  PROVE  IInv'
<1>1. HandleInv /\ HashInv /\ TypeOK /\ CacheInv /\ ifntfs \in BOOLEAN
  BY DEF IInv, TypeOK
<1>2. file' = file + 1 /\ pc' = IF file = N THEN "salt" ELSE "file"
  BY DEF NextFile
<1>3. salt' \in Seq(Nat) /\ pc' \in {"file", "all", "sample", "salt"}
  BY <1>1, <1>2, HandleTypes
<1>4. /\ file \in 1..N /\ HandleInv' /\ SizeInv' /\ N' = N /\ Limit' = Limit /\ f'[file] = g
      /\ \A j \in 1..N : Len(f'[j].cache) <= CacheSize
      /\ \A j \in 1..N : Size(j)' = Size(j)
      /\ \A j \in 1..N : ~ifntfs => Agrees(f'[j])
  BY <1>3, LoopStep
<1>5. N \in Nat \ {0} /\ 1 \in 1..N
  BY <1>1, ImageFacts
<1>6. file' \in 1..(N + 1) /\ (file # N => file' <= N)
  BY <1>2, <1>4, <1>5
<1>7. TypeOK'
  <2>1. fault' \subseteq {"read", "write", "close"}
    BY <1>1 DEF TypeOK
  <2> QED BY <1>1, <1>2, <1>4, <1>6, <2>1 DEF TypeOK
<1>8. HashInv'
  <2>1. pc' \notin Ended => IF Calculating' THEN seen' = <<>> ELSE seen' = <<seen'[1]>>
    <3>1. pc \notin Ended /\ (Calculating' <=> Calculating)
      BY <1>2 DEF Ended, Calculating
    <3> QED BY <1>1, <3>1 DEF HashInv
  <2>2. /\ pc' \in {"placeholder", "file", "all", "sample"} => file' <= N'
        /\ pc' \in {"salt", "save", "compare"} => file' = N' + 1
    BY <1>2, <1>4, <1>6
  <2> QED BY <1>2, <2>1, <2>2 DEF HashInv
<1>9. CacheInv'
  <2>1. CASE ifntfs
    <3>1. N = 1 /\ file = 1
      BY <1>1, <1>4, <2>1 DEF HandleInv
    <3>2. Size(1)' = Size(1) /\ f'[1] = g /\ pc' = "salt"
      BY <1>2, <1>4, <3>1
    <3> QED BY <2>1, <3>2 DEF CacheInv
  <2>2. CASE ~ifntfs
    <3>1. Agrees(f'[1]) /\ \A j \in 1..N' : Good(f'[j])
      BY <1>4, <1>5, <2>2 DEF Good
    <3> QED BY <1>2, <2>2, <3>1 DEF CacheInv
  <2> QED BY <1>1, <2>1, <2>2
<1> QED BY <1>4, <1>7, <1>8, <1>9 DEF IInv

\* The next file begins, and its length decides how it is hashed.
LEMMA FileIInv == IInv /\ CalculateFileSHA256Value => IInv'
<1> SUFFICES ASSUME IInv, CalculateFileSHA256Value PROVE IInv'
  OBVIOUS
<1>1. /\ pc = "file" /\ llReadSize' = 0 /\ iSegIndex' = 0 /\ llSectorDataReadSize' = 0
      /\ ctxSec' = <<>> /\ UNCHANGED <<ifntfs, image, mode, file, ctx, salt, seen, damaged, fault>>
  BY DEF CalculateFileSHA256Value
<1>2. HandleInv /\ HashInv /\ TypeOK /\ CacheInv /\ ifntfs \in BOOLEAN /\ SizeInv
  BY DEF IInv, TypeOK
<1>3. /\ Section \in Nat \ {0} /\ Chunk \in Nat \ {0} /\ Limit \in Nat \ {0} /\ SegNumber \in Nat \ {0}
  BY ConstantFacts
<1>4. /\ ctxSec' \in Seq(Nat) /\ ctx' \in Seq(Seq(Nat)) /\ salt' \in Seq(Nat)
      /\ Len(ctxSec') = 0 /\ Len(ctxSec') < Section + Chunk
      /\ llReadSize' \in Nat /\ iSegIndex' \in 0..(SegNumber + 1) /\ llSectorDataReadSize' \in 0..Limit
  BY <1>1, <1>2, <1>3, HandleTypes
<1>5. CASE /\ f' = IF file < N THEN [f EXCEPT ![file] = Opened(f[file].disk)] ELSE f
           /\ pc' = IF Size(file) > SegNumber * Big THEN "sample" ELSE "all"
  <2>1. N \in Nat \ {0} /\ file \in 1..N
    <3>1. N \in Nat \ {0} /\ file \in 1..(N + 1) /\ file <= N
      BY <1>1, <1>2, ImageFacts DEF TypeOK, HashInv
    <3> QED BY <3>1
  <2> DEFINE g == IF file < N THEN Opened(f[file].disk) ELSE f[file]
  <2>2. Tame(f[file]) /\ Good(f[file]) /\ f[file].disk \in Seq(Nat)
    BY <1>1, <1>2, <2>1, HandleAt, TameFields DEF CacheInv
  <2>3. Tame(g) /\ Good(g) /\ g.disk = f[file].disk
    <3>1. CASE file < N
      BY <2>2, <3>1, OpenedFacts, OpenedTame DEF Good
    <3>2. CASE ~(file < N)
      BY <2>2, <3>2
    <3> QED BY <3>1, <3>2
  <2>4. f' = [f EXCEPT ![file] = g]
    <3>1. f \in [1..N -> Handle]
      BY <1>2 DEF HandleInv
    <3>2. CASE file < N
      BY <1>5, <3>2
    <3>3. CASE ~(file < N)
      BY <1>5, <2>1, <3>1, <3>3
    <3> QED BY <3>2, <3>3
  <2> HIDE DEF g
  <2>5. pc' \in {"all", "sample"} /\ (pc' = "sample" => Size(file) > SegNumber * Big)
    BY <1>5
  <2>6. /\ HandleInv' /\ SizeInv' /\ N' = N /\ Limit' = Limit
        /\ \A j \in 1..N : Len(f'[j].cache) <= CacheSize
        /\ \A j \in 1..N : Good(f'[j]) /\ Size(j)' = Size(j)
    BY <1>1, <1>4, <2>3, <2>4, <2>5, LoopStep
  <2>7. TypeOK'
    BY <1>1, <1>2, <1>4, <2>5, <2>6 DEF TypeOK
  <2>8. HashInv'
    <3>1. IF Calculating' THEN seen' = <<>> ELSE seen' = <<seen'[1]>>
      <4>1. pc \notin Ended /\ (Calculating' <=> Calculating)
        BY <1>1, <2>5 DEF Ended, Calculating
      <4> QED BY <1>1, <1>2, <4>1 DEF HashInv
    <3>2. file' <= N'
      BY <1>1, <2>1, <2>6
    <3>3. /\ 0 % Chunk = 0 /\ 0 % Section = 0
      BY <1>3
    <3>4. ASSUME pc' = "sample" PROVE Size(file)' > SegNumber * Big /\ SampleStart(0)' = 0
      <4>1. Size(file)' = Size(file)
        BY <1>1, <2>1, <2>6 DEF Size
      <4>2. Size(file) \in Nat
        BY <2>2 DEF Size
      <4>3. Size(file) \div SegNumber \in Nat
        BY <1>3, <4>2
      <4>4. 0 * (Size(file) \div SegNumber) = 0 /\ 0 < SegNumber
        BY <1>3, <4>3
      <4>5. SampleStart(0)' = 0 * (Size(file)' \div SegNumber)
        BY <4>4 DEF SampleStart
      <4> QED BY <2>5, <3>4, <4>1, <4>4, <4>5
    <3>5. 0 = 0 + 0 /\ 0 <= SegNumber /\ 0 < Limit' /\ 0 < Section
      BY <1>3, <2>6
    <3>6. pc' = "all" => /\ llReadSize' % Chunk = 0 /\ Len(ctxSec') = llReadSize' % Section
                         /\ llReadSize' # 0 => llReadSize' < Size(file)'
      BY <1>1, <1>4, <3>3
    <3>7. pc' = "sample" => /\ Size(file)' > SegNumber * Big
                            /\ iSegIndex' <= SegNumber /\ llSectorDataReadSize' < Limit'
                            /\ llSectorDataReadSize' % Chunk = 0
                            /\ llReadSize' = SampleStart(iSegIndex)' + llSectorDataReadSize'
                            /\ Len(ctxSec') < Section /\ Len(ctxSec') % Chunk = 0
      <4>1. SampleStart(iSegIndex)' = SampleStart(0)'
        BY <1>1 DEF SampleStart
      <4> QED BY <1>1, <1>4, <3>3, <3>4, <3>5, <4>1
    <3> QED BY <2>5, <3>1, <3>2, <3>6, <3>7 DEF HashInv
  <2>9. CacheInv'
    BY <1>1, <2>5, <2>6 DEF CacheInv
  <2> QED BY <2>6, <2>7, <2>8, <2>9 DEF IInv
<1>6. CASE file < N /\ Refuse
  BY <1>1, <1>4, <1>6, RefuseIInv
<1> QED BY <1>5, <1>6 DEF CalculateFileSHA256Value

\* Where a loop stands.
LEMMA LoopFacts ==
  ASSUME IInv, pc \in {"all", "sample"}
  PROVE  /\ HandleInv /\ SizeInv /\ HashInv /\ TypeOK /\ CacheInv /\ ifntfs \in BOOLEAN
         /\ pc \notin Ended /\ N \in Nat \ {0} /\ file \in 1..N /\ llReadSize \in Nat
         /\ Size(file) \in Nat /\ Size(file) = Len(f[file].disk) /\ f[file].disk \in Seq(Nat)
         /\ Len(ctxSec) \in Nat
<1>1. /\ HandleInv /\ SizeInv /\ HashInv /\ TypeOK /\ CacheInv /\ ifntfs \in BOOLEAN
      /\ pc \notin Ended /\ llReadSize \in Nat
  BY DEF IInv, TypeOK, Ended
<1>2. N \in Nat \ {0}
  BY <1>1, ImageFacts
<1>3. file \in 1..N
  <2>1. file \in 1..(N + 1) /\ file <= N
    BY <1>1 DEF TypeOK, HashInv
  <2> QED BY <1>2, <2>1
<1>4. f[file].disk \in Seq(Nat) /\ Len(f[file].disk) \in Nat
  BY <1>1, <1>3, HandleAt, TameFields
<1>5. ctxSec \in Seq(Nat)
  BY <1>1, HandleTypes
<1> QED BY <1>1, <1>2, <1>3, <1>4, <1>5 DEF Size

\* _CalFileSHA256Value stands inside the file and reads a chunk or what is left.
LEMMA AllFacts ==
  ASSUME IInv, pc = "all"
  PROVE  /\ llReadSize <= Size(file) /\ ReadSize \in Int /\ ReadSize <= Chunk
         /\ llReadSize + ReadSize <= Size(file)
         /\ llReadSize % Chunk = 0 /\ Len(ctxSec) = llReadSize % Section
         /\ ifntfs => ReadSize \in 1..(CacheSize - 1) /\ llReadSize < Size(file)
<1>1. /\ HandleInv /\ HashInv /\ ifntfs \in BOOLEAN /\ pc \notin Ended /\ N \in Nat \ {0}
      /\ file \in 1..N /\ llReadSize \in Nat /\ Size(file) \in Nat
  BY LoopFacts
<1>2. /\ llReadSize % Chunk = 0 /\ Len(ctxSec) = llReadSize % Section
      /\ llReadSize # 0 => llReadSize < Size(file)
  BY <1>1 DEF HashInv
<1>3. /\ Page \in Nat \ {0} /\ Chunk \in Nat \ {0} /\ Val \in Nat \ {0} /\ CacheSize \in Nat
      /\ Chunk % Page = 0 /\ Chunk < CacheSize /\ Val < Page
  BY ConstantFacts
<1>4. llReadSize <= Size(file) /\ ReadSize \in Int /\ ReadSize <= Chunk
      /\ llReadSize + ReadSize <= Size(file)
  BY <1>1, <1>2, <1>3 DEF ReadSize
<1>5. ASSUME ifntfs PROVE ReadSize \in 1..(CacheSize - 1) /\ llReadSize < Size(file)
  <2>1. file = 1 /\ Size(file) % Page = 0 /\ Size(file) >= Page
    BY <1>1, <1>5, SizeFacts
  <2>2. llReadSize < Size(file)
    BY <1>1, <1>2, <1>3, <2>1
  <2>3. llReadSize % Page = 0
    BY <1>1, <1>2, <1>3, MultipleOf
  <2>4. Size(file) - llReadSize >= Page
    BY <1>1, <1>3, <2>1, <2>2, <2>3, MultipleGap
  <2> QED BY <1>1, <1>3, <2>2, <2>4 DEF ReadSize
<1> QED BY <1>2, <1>4, <1>5

\* A read of the loop over the whole file ends where the file or the check value does.
LEMMA AllRead ==
  ASSUME IInv, pc = "all", NEW r, r = NormalFileRead(f[file], llReadSize, ReadSize)
  PROVE  /\ Tame(r.f) /\ r.f.disk = f[file].disk /\ Agrees(r.f)
         /\ r.out \in Seq(Nat) /\ Len(r.out) = IF ReadSize > 0 THEN ReadSize ELSE 0
         /\ Len(r.out) \in 0..Chunk
         /\ \A i \in 1..Len(r.out) : r.out[i] = f[file].disk[llReadSize + i]
<1>1. /\ llReadSize \in Nat /\ Size(file) \in Nat /\ Size(file) = Len(f[file].disk)
      /\ f[file].disk \in Seq(Nat)
  BY LoopFacts
<1>2. /\ llReadSize <= Size(file) /\ ReadSize \in Int /\ ReadSize <= Chunk
      /\ llReadSize + ReadSize <= Size(file)
      /\ ifntfs => ReadSize \in 1..(CacheSize - 1) /\ llReadSize < Size(file)
  BY AllFacts
<1>3. /\ Tame(r.f) /\ r.f.disk = f[file].disk /\ r.out = Slice(f[file].disk, llReadSize, ReadSize)
      /\ Agrees(r.f)
  BY <1>2, LoopRead
<1>4. /\ r.out \in Seq(Nat) /\ Len(r.out) \in Nat
      /\ Len(r.out) = IF llReadSize >= Size(file) \/ ReadSize <= 0 THEN 0
                      ELSE IF llReadSize + ReadSize < Size(file) THEN ReadSize
                      ELSE Size(file) - llReadSize
      /\ \A i \in 1..Len(r.out) : r.out[i] = f[file].disk[llReadSize + i]
  <2> DEFINE s == f[file].disk
             b == r.out
             k == ReadSize
  <2>1. /\ s \in Seq(Nat) /\ llReadSize \in Nat /\ k \in Int
        /\ b = Slice(s, llReadSize, k) /\ Size(file) = Len(s) /\ k = ReadSize
    BY <1>1, <1>2, <1>3
  <2> HIDE DEF s, b, k
  <2>2. b \in Seq(Nat) /\ Len(b) \in Nat
    BY <2>1, SliceFacts
  <2>3. Len(b) = IF llReadSize >= Len(s) \/ k <= 0 THEN 0
                 ELSE IF llReadSize + k < Len(s) THEN k ELSE Len(s) - llReadSize
    BY <2>1, SliceFacts
  <2>4. ASSUME NEW i \in 1..Len(b) PROVE b[i] = s[llReadSize + i]
    BY <2>1, <2>2, SliceAt
  <2> QED BY <2>1, <2>2, <2>3, <2>4 DEF s, b
<1>5. Chunk \in Nat
  BY ConstantFacts
<1>6. Len(r.out) = IF ReadSize > 0 THEN ReadSize ELSE 0
  BY <1>1, <1>2, <1>4
<1>7. Len(r.out) \in 0..Chunk
  BY <1>2, <1>4, <1>5, <1>6
<1> QED BY <1>3, <1>4, <1>6, <1>7

\* What the section and the sections are made of stays bytes.
LEMMA SectionTypes ==
  ASSUME HandleInv, NEW b \in Seq(Nat)
  PROVE  /\ ctxSec \o b \in Seq(Nat) /\ Len(ctxSec \o b) = Len(ctxSec) + Len(b)
         /\ Append(ctx, ctxSec \o b) \in Seq(Seq(Nat)) /\ <<>> \in Seq(Nat)
         /\ ctx \in Seq(Seq(Nat)) /\ Append(ctx, ctxSec \o b) \o <<<<>>>> \in Seq(Seq(Nat))
<1>1. ctxSec \in Seq(Nat) /\ ctx \in Seq(Seq(Nat))
  BY HandleTypes
<1>2. ctxSec \o b \in Seq(Nat) /\ Len(ctxSec \o b) = Len(ctxSec) + Len(b)
  BY <1>1
<1>3. Append(ctx, ctxSec \o b) \in Seq(Seq(Nat))
  BY <1>1, <1>2
<1>4. <<>> \in Seq(Nat)
  OBVIOUS
<1>5. <<<<>>>> \in Seq(Seq(Nat))
  BY <1>4
<1> QED BY <1>1, <1>2, <1>3, <1>4, <1>5

\* A round of the loop over the whole file.
LEMMA AllIInv == IInv /\ _CalFileSHA256Value => IInv'
<1> SUFFICES ASSUME IInv, _CalFileSHA256Value PROVE IInv'
  OBVIOUS
<1> DEFINE r == NormalFileRead(f[file], llReadSize, ReadSize)
           n == Len(r.out)
           sec == ctxSec \o r.out
<1>1. /\ pc = "all" /\ f' = [f EXCEPT ![file] = r.f] /\ llReadSize' = llReadSize + n
      /\ IF n # 0 /\ Hashed(n, llReadSize + n) THEN ctx' = Append(ctx, sec) /\ ctxSec' = <<>>
         ELSE ctx' = ctx /\ ctxSec' = sec
      /\ IF GoesOn(n, llReadSize + n) THEN UNCHANGED <<file, pc>> ELSE NextFile
      /\ UNCHANGED <<ifntfs, image, mode, iSegIndex, llSectorDataReadSize, salt, seen, fault>>
  BY DEF _CalFileSHA256Value
<1>2. r = NormalFileRead(f[file], llReadSize, ReadSize) /\ n = Len(r.out)
  OBVIOUS
<1> HIDE DEF r
<1>3. /\ Tame(r.f) /\ r.f.disk = f[file].disk /\ Agrees(r.f) /\ r.out \in Seq(Nat) /\ n \in 0..Chunk
  BY <1>1, <1>2, AllRead
<1>4. /\ HandleInv /\ HashInv /\ TypeOK /\ CacheInv /\ ifntfs \in BOOLEAN /\ pc \notin Ended
      /\ N \in Nat \ {0} /\ file \in 1..N /\ llReadSize \in Nat /\ Size(file) \in Nat
      /\ Len(ctxSec) \in Nat
  BY <1>1, LoopFacts
<1>5. llReadSize % Chunk = 0 /\ Len(ctxSec) = llReadSize % Section
  BY <1>1, AllFacts
<1>6. /\ sec \in Seq(Nat) /\ Len(sec) = Len(ctxSec) + n /\ Append(ctx, sec) \in Seq(Seq(Nat))
      /\ ctx \in Seq(Seq(Nat)) /\ <<>> \in Seq(Nat)
  BY <1>3, <1>4, SectionTypes
<1>7. /\ Chunk \in Nat \ {0} /\ Section \in Nat \ {0}
      /\ Len(ctxSec) \in 0..(Section - 1) /\ Len(ctxSec) + Chunk <= Section
      /\ (llReadSize + Chunk) % Chunk = 0
      /\ (llReadSize + Chunk) % Section = IF Len(ctxSec) + Chunk >= Section THEN 0 ELSE Len(ctxSec) + Chunk
  BY <1>4, <1>5, ChunkMore, ConstantFacts
<1> HIDE DEF n, sec
<1>8. /\ ctxSec' \in Seq(Nat) /\ ctx' \in Seq(Seq(Nat))
  BY <1>1, <1>6
<1>9. Len(ctxSec') < Section + Chunk
  <2>1. ctxSec' = <<>> \/ ctxSec' = sec
    BY <1>1
  <2>2. Len(sec) < Section + Chunk
    BY <1>3, <1>6, <1>7
  <2> QED BY <1>7, <2>1, <2>2
<1>10. /\ llReadSize' \in Nat /\ iSegIndex' \in 0..(SegNumber + 1) /\ llSectorDataReadSize' \in 0..Limit
  <2>1. llReadSize' \in Nat
    BY <1>1, <1>3, <1>4
  <2> QED BY <1>1, <1>4, <2>1 DEF TypeOK
<1>11. CASE GoesOn(n, llReadSize + n)
  <2>1. n = Chunk /\ llReadSize + n < Size(file) /\ UNCHANGED <<file, pc>>
    BY <1>1, <1>11 DEF GoesOn
  <2>2. Good(r.f) /\ salt' \in Seq(Nat) /\ pc' \in {"file", "all", "sample", "salt"}
    BY <1>1, <1>3, <1>4, <2>1, HandleTypes DEF Good
  <2>3. /\ HandleInv' /\ SizeInv' /\ N' = N /\ Limit' = Limit
        /\ \A j \in 1..N : Len(f'[j].cache) <= CacheSize
        /\ \A j \in 1..N : Good(f'[j]) /\ Size(j)' = Size(j)
    BY <1>1, <1>3, <1>8, <2>2, LoopStep
  <2>4. TypeOK'
    BY <1>1, <1>4, <1>9, <1>10, <2>1, <2>3 DEF TypeOK
  <2>5. Len(ctxSec') = llReadSize' % Section
    <3>1. Hashed(n, llReadSize + n) <=> Len(ctxSec) + Chunk >= Section
      BY <1>11, <2>1 DEF Hashed
    <3>2. n # 0
      BY <1>7, <2>1
    <3>3. CASE Len(ctxSec) + Chunk >= Section
      BY <1>1, <1>7, <2>1, <3>1, <3>2, <3>3
    <3>4. CASE ~(Len(ctxSec) + Chunk >= Section)
      BY <1>1, <1>6, <1>7, <2>1, <3>1, <3>4
    <3> QED BY <3>3, <3>4
  <2>6. llReadSize' % Chunk = 0 /\ llReadSize' < Size(file)
    BY <1>1, <1>7, <2>1
  <2>7. HashInv'
    <3>1. IF Calculating' THEN seen' = <<>> ELSE seen' = <<seen'[1]>>
      <4>1. Calculating' <=> Calculating
        BY <1>1, <2>1 DEF Calculating
      <4> QED BY <1>1, <1>4, <4>1 DEF HashInv
    <3>2. file' <= N' /\ Size(file)' = Size(file)
      BY <1>4, <2>1, <2>3 DEF Size
    <3> QED BY <1>1, <2>1, <2>5, <2>6, <3>1, <3>2 DEF HashInv
  <2>8. CacheInv'
    BY <1>1, <2>1, <2>3 DEF CacheInv
  <2> QED BY <2>3, <2>4, <2>7, <2>8 DEF IInv
<1>12. CASE ~GoesOn(n, llReadSize + n)
  BY <1>1, <1>3, <1>8, <1>9, <1>10, <1>12, LoopEnds
<1> QED BY <1>11, <1>12

\* Every sample is in the file and in front of the check value.
LEMMA SampleBounds ==
  ASSUME NEW z \in Nat, z > SegNumber * Big, Size(file) = z, NEW k \in 0..(SegNumber + 1)
  PROVE  /\ SampleStart(k) \in Nat
         /\ SampleStart(k) + Limit + (IF IsLast THEN Val ELSE 0) <= z
<1>1. /\ SegNumber \in Nat \ {0} /\ Big \in Nat \ {0} /\ Limit \in Nat \ {0} /\ Val \in Nat
      /\ Limit + Val <= Big
  BY ConstantFacts
<1> DEFINE g == z \div SegNumber
<1>2. /\ g \in Nat /\ g >= Big /\ SegNumber * g <= z /\ z < SegNumber * g + SegNumber
      /\ \A j \in 0..(SegNumber - 1) : j * g \in Nat /\ j * g + g <= z
  BY GapFacts
<1> HIDE DEF g
<1>3. CASE k < SegNumber
  <2>1. SampleStart(k) = k * g
    BY <1>3 DEF SampleStart, g
  <2>2. k * g \in Nat /\ k * g + g <= z
    BY <1>1, <1>2, <1>3
  <2> QED BY <1>1, <1>2, <2>1, <2>2
<1>4. CASE ~(k < SegNumber)
  <2>1. SampleStart(k) = z - Limit - (IF IsLast THEN Val ELSE 0)
    BY <1>4 DEF SampleStart
  <2>2. 0 * g + g <= z
    BY <1>1, <1>2
  <2>3. Big <= z
    BY <1>1, <1>2, <2>2
  <2> QED BY <1>1, <2>1, <2>3
<1> QED BY <1>1, <1>3, <1>4

\* Sums in another order.
LEMMA AddAssociates == \A s, x, c \in Nat : (s + x) + c = s + (x + c)
OBVIOUS

\* The samples stay where they are.
LEMMA SampleStartStep ==
  ASSUME UNCHANGED file, N' = N, Size(file)' = Size(file), NEW k
  PROVE  SampleStart(k)' = SampleStart(k)
<1>1. Limit' = Limit /\ (IsLast' <=> IsLast)
  BY DEF Limit, IsLast
<1> QED BY <1>1 DEF SampleStart

\* Every read of a sample is a chunk.
LEMMA SampleRead ==
  ASSUME IInv, pc = "sample", NEW r, r = NormalFileRead(f[file], llReadSize, Chunk)
  PROVE  /\ Tame(r.f) /\ r.f.disk = f[file].disk /\ Agrees(r.f)
         /\ r.out \in Seq(Nat) /\ Len(r.out) = Chunk
         /\ \A i \in 1..Chunk : r.out[i] = f[file].disk[llReadSize + i]
         /\ (ifntfs => Inside(r.f, llReadSize + Chunk))
         /\ llSectorDataReadSize \in Nat /\ llSectorDataReadSize + Chunk <= Limit
         /\ (llSectorDataReadSize + Chunk) % Chunk = 0
         /\ llReadSize + Chunk <= Size(file)
         /\ iSegIndex \in 0..SegNumber
         /\ iSegIndex # SegNumber => SampleStart(iSegIndex + 1) \in Nat
                                     /\ SampleStart(iSegIndex + 1) < Size(file)
         /\ llSectorDataReadSize + Chunk # Limit => llReadSize + Chunk < Size(file)
<1>1. /\ llReadSize \in Nat /\ Size(file) \in Nat /\ Size(file) = Len(f[file].disk)
      /\ f[file].disk \in Seq(Nat) /\ HashInv /\ TypeOK /\ ifntfs \in BOOLEAN
  BY LoopFacts
<1>2. /\ Size(file) > SegNumber * Big /\ iSegIndex <= SegNumber /\ llSectorDataReadSize < Limit
      /\ llSectorDataReadSize % Chunk = 0
      /\ llReadSize = SampleStart(iSegIndex) + llSectorDataReadSize
  BY <1>1 DEF HashInv
<1>3. iSegIndex \in 0..SegNumber /\ llSectorDataReadSize \in Nat
  BY <1>1, <1>2, ConstantFacts DEF TypeOK
<1>4. /\ Chunk \in Nat \ {0} /\ Limit \in Nat \ {0} /\ Val \in Nat /\ CacheSize \in Nat /\ SegNumber \in Nat
      /\ Limit % Chunk = 0 /\ Chunk < CacheSize
  BY ConstantFacts
<1>5. llSectorDataReadSize + Chunk <= Limit
  <2>1. Limit - llSectorDataReadSize >= Chunk
    BY <1>2, <1>3, <1>4, MultipleGap
  <2> QED BY <1>3, <1>4, <2>1
<1>6. (llSectorDataReadSize + Chunk) % Chunk = 0
  <2>1. Chunk % Chunk = 0
    BY <1>4
  <2> QED BY <1>2, <1>3, <1>4, <2>1, MultipleSum
<1>7. /\ SampleStart(iSegIndex) \in Nat
      /\ SampleStart(iSegIndex) + Limit + (IF IsLast THEN Val ELSE 0) <= Size(file)
  BY <1>1, <1>2, <1>3, <1>4, SampleBounds
<1>8. /\ llReadSize + Chunk <= Size(file) /\ llReadSize < Size(file)
      /\ llSectorDataReadSize + Chunk # Limit => llReadSize + Chunk < Size(file)
  <2>1. \A s, v, z, d \in Nat : s + Limit + v <= z /\ d + Chunk <= Limit =>
           /\ (s + d) + Chunk <= z /\ s + d < z
           /\ d + Chunk # Limit => (s + d) + Chunk < z
    BY <1>4
  <2>2. (IF IsLast THEN Val ELSE 0) \in Nat
    BY <1>4
  <2> QED BY <1>1, <1>2, <1>3, <1>5, <1>7, <2>1, <2>2
<1>9. ASSUME iSegIndex # SegNumber
      PROVE  SampleStart(iSegIndex + 1) \in Nat /\ SampleStart(iSegIndex + 1) < Size(file)
  <2> DEFINE k == iSegIndex + 1
  <2>1. k \in 0..(SegNumber + 1)
    BY <1>3, <1>4
  <2> HIDE DEF k
  <2>2. /\ SampleStart(k) \in Nat
        /\ SampleStart(k) + Limit + (IF IsLast THEN Val ELSE 0) <= Size(file)
    BY <1>1, <1>2, <2>1, SampleBounds
  <2>3. SampleStart(k) \in Nat /\ SampleStart(k) < Size(file)
    BY <1>1, <1>4, <2>2
  <2> QED BY <2>3 DEF k
<1>10. /\ Tame(r.f) /\ r.f.disk = f[file].disk /\ r.out = Slice(f[file].disk, llReadSize, Chunk)
       /\ Agrees(r.f) /\ (ifntfs => Inside(r.f, llReadSize + Len(r.out)))
  <2>1. /\ Chunk \in Int /\ pc \in {"all", "sample"}
        /\ ifntfs => Chunk \in 1..(CacheSize - 1) /\ llReadSize < Size(file)
    BY <1>4, <1>8
  <2> QED BY <2>1, LoopRead
<1>11. r.out \in Seq(Nat) /\ Len(r.out) = Chunk
  <2> DEFINE s == f[file].disk
             b == r.out
  <2>1. /\ s \in Seq(Nat) /\ b = Slice(s, llReadSize, Chunk) /\ Len(s) = Size(file)
        /\ llReadSize \in Nat /\ Chunk \in Int
    BY <1>1, <1>4, <1>10
  <2> HIDE DEF s, b
  <2>2. b \in Seq(Nat)
    BY <2>1, SliceFacts
  <2>3. Len(b) = IF llReadSize >= Len(s) \/ Chunk <= 0 THEN 0
                 ELSE IF llReadSize + Chunk < Len(s) THEN Chunk ELSE Len(s) - llReadSize
    BY <2>1, SliceFacts
  <2>4. Len(b) = Chunk
    BY <1>1, <1>4, <1>8, <2>1, <2>3
  <2> QED BY <2>2, <2>4 DEF b
<1>12. \A i \in 1..Chunk : r.out[i] = f[file].disk[llReadSize + i]
  BY <1>1, <1>4, <1>10, <1>11, SliceAt
<1>13. Tame(r.f) /\ r.f.disk = f[file].disk /\ Agrees(r.f)
  BY <1>10
<1>14. ifntfs => Inside(r.f, llReadSize + Chunk)
  BY <1>10, <1>11
<1>15. /\ iSegIndex # SegNumber => SampleStart(iSegIndex + 1) \in Nat
                                  /\ SampleStart(iSegIndex + 1) < Size(file)
       /\ llSectorDataReadSize + Chunk # Limit => llReadSize + Chunk < Size(file)
  BY <1>8, <1>9
<1> QED BY <1>3, <1>5, <1>6, <1>8, <1>11, <1>12, <1>13, <1>14, <1>15

\* A round of the loop over the samples.
LEMMA SampleIInv == IInv /\ _CalculateFileSHA256ValueBySegData => IInv'
<1> SUFFICES ASSUME IInv, _CalculateFileSHA256ValueBySegData PROVE IInv'
  OBVIOUS
<1> DEFINE r == NormalFileRead(f[file], llReadSize, Chunk)
           n == Len(r.out)
           sec == ctxSec \o r.out
           full == Len(sec) >= Section
           data == llSectorDataReadSize + n
           done == data >= Limit
           end == done /\ iSegIndex + 1 > SegNumber
           next == IF done THEN SampleStart(iSegIndex + 1) ELSE llReadSize + n
<1>1. /\ pc = "sample" /\ f' = [f EXCEPT ![file] = r.f]
      /\ ctx' = IF full THEN Append(ctx, sec) \o (IF end THEN <<<<>>>> ELSE <<>>)
                ELSE IF end THEN Append(ctx, sec) ELSE ctx
      /\ ctxSec' = IF full \/ end THEN <<>> ELSE sec
      /\ iSegIndex' = IF done THEN iSegIndex + 1 ELSE iSegIndex
      /\ llSectorDataReadSize' = IF done THEN 0 ELSE data
      /\ llReadSize' = IF end THEN llReadSize + n ELSE next
      /\ IF ~end /\ GoesOn(n, next) THEN UNCHANGED <<file, pc>> ELSE NextFile
      /\ UNCHANGED <<ifntfs, image, mode, salt, seen, fault>>
  BY DEF _CalculateFileSHA256ValueBySegData
<1>2. r = NormalFileRead(f[file], llReadSize, Chunk)
  OBVIOUS
<1> HIDE DEF r
<1>3. /\ Tame(r.f) /\ r.f.disk = f[file].disk /\ Agrees(r.f)
      /\ r.out \in Seq(Nat) /\ n = Chunk
      /\ (ifntfs => Inside(r.f, llReadSize + Chunk))
      /\ llSectorDataReadSize \in Nat /\ llSectorDataReadSize + Chunk <= Limit
      /\ (llSectorDataReadSize + Chunk) % Chunk = 0
      /\ llReadSize + Chunk <= Size(file)
      /\ iSegIndex \in 0..SegNumber
      /\ iSegIndex # SegNumber => SampleStart(iSegIndex + 1) \in Nat
                                  /\ SampleStart(iSegIndex + 1) < Size(file)
      /\ llSectorDataReadSize + Chunk # Limit => llReadSize + Chunk < Size(file)
  BY <1>1, <1>2, SampleRead
<1>4. /\ HandleInv /\ HashInv /\ TypeOK /\ CacheInv /\ ifntfs \in BOOLEAN /\ pc \notin Ended
      /\ N \in Nat \ {0} /\ file \in 1..N /\ llReadSize \in Nat /\ Size(file) \in Nat
      /\ Len(ctxSec) \in Nat
  BY <1>1, LoopFacts
<1>5. /\ sec \in Seq(Nat) /\ Len(sec) = Len(ctxSec) + n /\ Append(ctx, sec) \in Seq(Seq(Nat))
      /\ ctx \in Seq(Seq(Nat)) /\ <<>> \in Seq(Nat) /\ Append(ctx, sec) \o <<<<>>>> \in Seq(Seq(Nat))
  BY <1>3, <1>4, SectionTypes
<1>6. /\ Chunk \in Nat \ {0} /\ Section \in Nat \ {0} /\ SegNumber \in Nat \ {0} /\ Limit \in Nat \ {0}
  BY ConstantFacts
<1>7. Len(ctxSec) < Section /\ Len(ctxSec) % Chunk = 0
  BY <1>1, <1>4 DEF HashInv
<1> DEFINE d == llSectorDataReadSize + Chunk
<1>8. /\ done <=> (d = Limit)
      /\ end <=> (d = Limit /\ iSegIndex = SegNumber)
      /\ data = d
  <2>1. /\ data = d /\ d \in Nat /\ d <= Limit
        /\ iSegIndex \in 0..SegNumber
    BY <1>3, <1>6
  <2> HIDE DEF data, d
  <2> QED BY <2>1, <1>6
<1> HIDE DEF n, sec, full, done, end, next, data
<1>9. ctxSec' \in Seq(Nat) /\ ctx' \in Seq(Seq(Nat)) /\ salt' \in Seq(Nat)
  <2>1. ctxSec' \in Seq(Nat)
    BY <1>1, <1>5
  <2>2. Append(ctx, sec) \o <<>> = Append(ctx, sec)
    BY <1>5
  <2>3. ctx' \in Seq(Seq(Nat))
    BY <1>1, <1>5, <2>2
  <2> QED BY <1>1, <1>4, <2>1, <2>3, HandleTypes
<1>10. /\ iSegIndex' \in 0..(SegNumber + 1) /\ llSectorDataReadSize' \in 0..Limit
  BY <1>1, <1>3, <1>6, <1>8
<1>11. CASE ~end
  <2>1. next \in Nat /\ next < Size(file) /\ llReadSize' = next
    <3>1. CASE done
      <4>1. iSegIndex # SegNumber /\ next = SampleStart(iSegIndex + 1)
        BY <1>8, <1>11, <3>1 DEF next
      <4> QED BY <1>1, <1>3, <1>11, <4>1
    <3>2. CASE ~done
      <4>1. next = llReadSize + Chunk
        BY <1>3, <3>2 DEF next
      <4> QED BY <1>1, <1>3, <1>4, <1>6, <1>8, <1>11, <3>2, <4>1
    <3> QED BY <3>1, <3>2
  <2>2. UNCHANGED <<file, pc>>
    BY <1>1, <1>3, <1>11, <2>1 DEF GoesOn
  <2>3. Good(r.f) /\ pc' \in {"file", "all", "sample", "salt"}
    BY <1>1, <1>3, <2>2 DEF Good
  <2>4. /\ HandleInv' /\ SizeInv' /\ N' = N /\ Limit' = Limit /\ f'[file] = r.f
        /\ \A j \in 1..N : Len(f'[j].cache) <= CacheSize
        /\ \A j \in 1..N : Good(f'[j]) /\ Size(j)' = Size(j)
    BY <1>1, <1>3, <1>9, <2>3, LoopStep
  <2>5. Size(file)' = Size(file)
    BY <1>4, <2>2, <2>4 DEF Size
  <2>6. Len(ctxSec') < Section /\ Len(ctxSec') % Chunk = 0
    <3>1. CASE full
      <4>1. Len(ctxSec') = 0
        BY <1>1, <3>1
      <4> QED BY <1>6, <4>1
    <3>2. CASE ~full
      <4>1. ctxSec' = sec /\ Len(sec) < Section
        BY <1>1, <1>3, <1>4, <1>5, <1>6, <1>11, <3>2 DEF full
      <4>2. (Len(ctxSec) + Chunk) % Chunk = 0
        <5>1. Chunk % Chunk = 0
          BY <1>6
        <5> QED BY <1>4, <1>6, <1>7, <5>1, MultipleSum
      <4> QED BY <1>3, <1>5, <4>1, <4>2
    <3> QED BY <3>1, <3>2
  <2>7. TypeOK'
    <3>1. llReadSize' \in Nat /\ Len(ctxSec') < Section + Chunk
      <4>1. Len(ctxSec') \in Nat
        BY <1>9
      <4> QED BY <1>6, <2>1, <2>6, <4>1
    <3> QED BY <1>1, <1>4, <1>10, <2>2, <2>4, <3>1 DEF TypeOK
  <2>8. /\ iSegIndex' <= SegNumber /\ llSectorDataReadSize' < Limit /\ llSectorDataReadSize' % Chunk = 0
        /\ llReadSize' = SampleStart(iSegIndex') + llSectorDataReadSize'
    <3>1. CASE done
      <4>1. /\ iSegIndex' = iSegIndex + 1 /\ llSectorDataReadSize' = 0 /\ iSegIndex # SegNumber
            /\ llReadSize' = SampleStart(iSegIndex + 1)
        BY <1>1, <1>8, <1>11, <3>1 DEF next
      <4>2. 0 % Chunk = 0 /\ SampleStart(iSegIndex + 1) \in Nat
        BY <1>3, <1>6, <4>1
      <4>3. iSegIndex + 1 <= SegNumber /\ 0 < Limit
        BY <1>3, <1>6, <4>1
      <4>4. \A s \in Nat : s = s + 0
        OBVIOUS
      <4> QED BY <4>1, <4>2, <4>3, <4>4
    <3>2. CASE ~done
      <4>1. /\ iSegIndex' = iSegIndex /\ llSectorDataReadSize' = d /\ d # Limit
            /\ llReadSize' = llReadSize + Chunk
        BY <1>1, <1>3, <1>8, <1>11, <3>2 DEF next
      <4>2. llReadSize = SampleStart(iSegIndex) + llSectorDataReadSize
        BY <1>1, <1>4 DEF HashInv
      <4>3. SampleStart(iSegIndex) \in Nat
        <5>1. Size(file) > SegNumber * Big /\ iSegIndex \in 0..(SegNumber + 1)
          BY <1>1, <1>3, <1>4, <1>6 DEF HashInv
        <5> QED BY <1>4, <5>1, SampleBounds
      <4>4. iSegIndex <= SegNumber /\ d < Limit /\ d % Chunk = 0
        <5>1. iSegIndex <= SegNumber /\ d % Chunk = 0
          BY <1>3, <1>6
        <5>2. d \in Nat /\ Limit \in Nat /\ d <= Limit /\ d # Limit
          BY <1>3, <1>6, <4>1
        <5>3. \A a, b \in Nat : a <= b /\ a # b => a < b
          OBVIOUS
        <5> QED BY <5>1, <5>2, <5>3
      <4>7. llSectorDataReadSize \in Nat /\ Chunk \in Nat
        BY <1>3, <1>6
      <4>8. llReadSize + Chunk = (SampleStart(iSegIndex) + llSectorDataReadSize) + Chunk
        BY <4>2
      <4>6. llReadSize + Chunk = SampleStart(iSegIndex) + d
        BY <4>3, <4>7, <4>8, AddAssociates DEF d
      <4> QED BY <4>1, <4>4, <4>6
    <3> QED BY <3>1, <3>2
  <2>9. HashInv'
    <3>1. IF Calculating' THEN seen' = <<>> ELSE seen' = <<seen'[1]>>
      <4>1. Calculating' <=> Calculating
        BY <1>1, <2>2 DEF Calculating
      <4> QED BY <1>1, <1>4, <4>1 DEF HashInv
    <3>2. file' <= N' /\ pc' = "sample" /\ fault' = fault
      BY <1>1, <1>4, <2>2, <2>4
    <3>3. Size(file)' > SegNumber * Big
      BY <1>1, <1>4, <2>5 DEF HashInv
    <3>4. SampleStart(iSegIndex)' = SampleStart(iSegIndex')
      BY <1>1, <2>2, <2>4, <2>5 DEF SampleStart, IsLast
    <3> QED BY <2>4, <2>6, <2>8, <3>1, <3>2, <3>3, <3>4 DEF HashInv
  <2>10. CacheInv'
    <3>1. ASSUME ifntfs', llSectorDataReadSize' # 0 PROVE Inside(f'[file'], llReadSize')
      <4>1. ~done
        BY <1>1, <3>1
      <4>2. llReadSize' = llReadSize + Chunk
        BY <1>3, <2>1, <4>1 DEF next
      <4> QED BY <1>1, <1>3, <2>2, <2>4, <3>1, <4>2
    <3> QED BY <1>1, <2>2, <2>4, <3>1 DEF CacheInv
  <2> QED BY <2>4, <2>7, <2>9, <2>10 DEF IInv
<1>12. CASE end
  <2>1. NextFile /\ llReadSize' = llReadSize + n /\ ctxSec' = <<>>
    BY <1>1, <1>12
  <2>2. llReadSize' \in Nat /\ Len(ctxSec') < Section + Chunk
    BY <1>3, <1>4, <1>6, <2>1
  <2> QED BY <1>1, <1>3, <1>9, <1>10, <2>1, <2>2, LoopEnds
<1> QED BY <1>11, <1>12

\* The middle of a big file, where the salt comes from, is away from every sample
\* but the last: the cache does not reach it.
LEMMA MiddleFar ==
  ASSUME NEW z \in Nat, z > SegNumber * Big, NEW g, g = z \div SegNumber,
         NEW h, h = z \div 2, NEW k \in 0..(SegNumber - 1)
  PROVE  k * g + CacheSize <= h \/ k * g >= h + Page
<1>1. /\ SegNumber \in Nat \ {0} /\ Big \in Nat \ {0} /\ Page \in Nat \ {0} /\ CacheSize \in Nat
  BY ConstantFacts
<1>2. /\ SegNumber % 2 = 1 /\ SegNumber > 1 /\ 2 * CacheSize <= Big /\ SegNumber + 2 * Page <= Big
  BY SampleAssumption
<1>3. /\ g \in Nat /\ g >= Big /\ SegNumber * g <= z /\ z < SegNumber * g + SegNumber
  BY GapFacts
<1> DEFINE m == SegNumber \div 2
<1>4. m \in Nat /\ SegNumber = 2 * m + 1
  BY <1>1, <1>2
<1>5. h \in Nat /\ 2 * h <= z /\ z <= 2 * h + 1
  OBVIOUS
<1> HIDE DEF m
<1> DEFINE a == m * g
           b == k * g
<1>6. a \in Nat /\ b \in Nat /\ SegNumber * g = 2 * a + g
  <2>1. (2 * m + 1) * g = 2 * (m * g) + g
    <3>1. \A x, y \in Nat : (2 * x + 1) * y = 2 * (x * y) + y
      OBVIOUS
    <3> QED BY <1>3, <1>4, <3>1
  <2> QED BY <1>3, <1>4, <2>1
<1>7. CASE k <= m
  <2>1. b <= a
    <3>1. \A x \in Nat : \A i, j \in Nat : i <= j => i * x <= j * x
      OBVIOUS
    <3> QED BY <1>3, <1>4, <1>7, <3>1
  <2> HIDE DEF a, b
  <2>2. 2 * a + g <= z
    BY <1>3, <1>6
  <2>3. b + CacheSize <= h
    BY <1>1, <1>2, <1>3, <1>5, <1>6, <2>1, <2>2
  <2> QED BY <2>3 DEF b
<1>8. CASE ~(k <= m)
  <2>1. a + g <= b
    <3>1. \A x \in Nat : \A i, j \in Nat : i + 1 <= j => i * x + x <= j * x
      <4>1. ASSUME NEW x \in Nat, NEW i \in Nat, NEW j \in Nat, i + 1 <= j PROVE i * x + x <= j * x
        <5>1. i * x + x = (i + 1) * x
          OBVIOUS
        <5>2. \A y, w \in Nat : y <= w => y * x <= w * x
          OBVIOUS
        <5> QED BY <4>1, <5>1, <5>2
      <4> QED BY <4>1
    <3> QED BY <1>3, <1>4, <1>8, <3>1
  <2> HIDE DEF a, b
  <2>2. z < 2 * a + g + SegNumber
    BY <1>1, <1>3, <1>6
  <2>3. b >= h + Page
    BY <1>1, <1>2, <1>3, <1>5, <1>6, <2>1, <2>2
  <2> QED BY <2>3 DEF b
<1> QED BY <1>7, <1>8

\* A cache that was moved to the page at which a sample begins is away from the
\* middle of the file.
LEMMA MovedAway ==
  ASSUME NEW z \in Nat, z > SegNumber * Big, Size(file) = z, IsLast,
         NEW k \in 0..SegNumber, NEW p, p = SampleStart(k), p % Page # 0,
         NEW c, c = p - (p % Page), NEW w \in 0..CacheSize
  PROVE  c \in Nat /\ (c + w < z \div 2 \/ c > z \div 2)
<1>1. /\ SegNumber \in Nat \ {0} /\ Big \in Nat \ {0} /\ Page \in Nat \ {0} /\ CacheSize \in Nat \ {0}
      /\ Limit \in Nat /\ Val \in Nat /\ Limit + Val <= Big /\ Page <= CacheSize
  <2>1. \A x \in Nat \ {0} : \A y \in Nat \ {0} : x % y = 0 => y <= x
    OBVIOUS
  <2> QED BY <2>1, ConstantFacts, CacheSizeAssumption
<1>2. /\ SegNumber % 2 = 1 /\ SegNumber > 1 /\ 2 * CacheSize <= Big /\ SegNumber + 2 * Page <= Big
  BY SampleAssumption
<1>3. p \in Nat
  <2>1. k \in 0..(SegNumber + 1)
    BY <1>1
  <2> QED BY <2>1, SampleBounds
<1> DEFINE h == z \div 2
           e == p % Page
<1>4. h \in Nat /\ 2 * h <= z
  OBVIOUS
<1>5. e \in 1..(Page - 1) /\ c = p - e /\ c \in Nat
  BY <1>1, <1>3
<1> HIDE DEF h, e
<1>6. CASE k < SegNumber
  <2> DEFINE g == z \div SegNumber
  <2>1. p = k * g
    BY <1>6 DEF SampleStart
  <2>2. k * g + CacheSize <= h \/ k * g >= h + Page
    <3>1. g = z \div SegNumber /\ h = z \div 2 /\ k \in 0..(SegNumber - 1)
      BY <1>1, <1>6 DEF h
    <3> HIDE DEF g
    <3> QED BY <3>1, MiddleFar
  <2> HIDE DEF g
  <2>3. p + CacheSize <= h \/ p >= h + Page
    BY <2>1, <2>2
  <2>4. c + w < h \/ c > h
    BY <1>1, <1>3, <1>4, <1>5, <2>3
  <2> QED BY <1>5, <2>4 DEF h
<1>7. CASE ~(k < SegNumber)
  <2>1. p = z - Limit - Val
    BY <1>7 DEF SampleStart
  <2>2. SegNumber * Big >= 3 * Big
    <3>1. SegNumber >= 3
      BY <1>1, <1>2
    <3>2. \A x \in Nat : \A i, j \in Nat : i <= j => i * x <= j * x
      OBVIOUS
    <3> QED BY <1>1, <3>1, <3>2
  <2>3. z > 3 * Big
    BY <1>1, <2>2
  <2>4. c > h
    BY <1>1, <1>2, <1>3, <1>4, <1>5, <2>1, <2>3
  <2> QED BY <1>5, <2>4 DEF h
<1> QED BY <1>1, <1>6, <1>7

\* What a read that fails leaves of the handle.
LEMMA FailedRead ==
  ASSUME IInv, pc \in {"all", "sample"}, ifntfs,
         NEW e, e = [f[file] EXCEPT !.filepos = llReadSize],
         NEW r, r = Align([f |-> e, out |-> <<>>, n |-> Chunk, stop |-> FALSE]),
         NEW g, g = [f[file] EXCEPT !.cachedatapos = r.f.cachedatapos]
  PROVE  /\ Tame(g) /\ g.disk = f[file].disk
         /\ Agrees(g) \/ ~Inside(g, Size(1) \div 2)
<1>1. /\ HandleInv /\ HashInv /\ CacheInv /\ ifntfs \in BOOLEAN /\ pc \notin Ended
      /\ N \in Nat \ {0} /\ file \in 1..N /\ llReadSize \in Nat /\ Size(file) \in Nat
      /\ Size(file) = Len(f[file].disk)
  BY LoopFacts
<1>2. N = 1 /\ file = 1 /\ IsLast
  BY <1>1 DEF HandleInv, IsLast
<1>3. Tame(f[file]) /\ Good(f[file])
  BY <1>1, HandleAt DEF CacheInv
<1>4. /\ f[file] \in Handle /\ f[file].cachedatapos \in Nat /\ f[file].cache \in Seq(Nat)
      /\ Len(f[file].cache) \in 0..CacheSize /\ CacheEnd(f[file]) \in Nat
  BY <1>3, TameFields DEF Tame
<1>5. /\ e.filepos = llReadSize /\ e.cachedatapos = f[file].cachedatapos
      /\ CacheEnd(e) = CacheEnd(f[file])
  BY <1>4 DEF Handle, CacheEnd
<1>6. Size(file) >= Page /\ Page \in Nat \ {0} /\ Sector \in Nat \ {0}
  BY <1>1, <1>2, SizeFacts, ConstantFacts
<1> DEFINE moves == llReadSize % Sector # 0
                    /\ (f[file].cachedatapos > llReadSize \/ CacheEnd(f[file]) < llReadSize)
<1>7. r.f.cachedatapos = IF moves THEN llReadSize - (llReadSize % Page) ELSE f[file].cachedatapos
  <2> DEFINE q == [f |-> e, out |-> <<>>, n |-> Chunk, stop |-> FALSE]
  <2>1. q.f = e
    OBVIOUS
  <2>2. r = IF moves THEN Refill(q, llReadSize - (llReadSize % Page)) ELSE q
    <3>1. q.f.filepos = llReadSize /\ q.f.cachedatapos = f[file].cachedatapos
          /\ CacheEnd(q.f) = CacheEnd(f[file])
      BY <1>5, <2>1
    <3>2. r = Align(q)
      OBVIOUS
    <3> HIDE DEF q
    <3> QED BY <3>1, <3>2 DEF Align
  <2>3. \A p : Refill(q, p).f.cachedatapos = p
    <3>1. e \in Handle
      BY <1>1, <1>4 DEF Handle
    <3> QED BY <3>1 DEF Refill, Handle
  <2> HIDE DEF q, moves
  <2> QED BY <1>5, <2>1, <2>2, <2>3
<1>8. CASE ~moves
  <2>1. g = f[file]
    BY <1>4, <1>7, <1>8 DEF Handle
  <2>2. Agrees(g) \/ ~Inside(g, Size(1) \div 2)
    <3>1. Size(1) \div 2 < Size(1)
      <4>1. \A x, y \in Nat : x >= y /\ y # 0 => x \div 2 < x
        OBVIOUS
      <4> QED BY <1>1, <1>2, <1>6, <4>1
    <3>2. g.cachedatapos \in Nat /\ Size(1) \div 2 \in Nat /\ Size(1) \in Nat
      <4>1. Size(1) \in Nat /\ Size(1) \div 2 \in Nat
        BY <1>1, <1>2
      <4>2. g.cachedatapos = f[file].cachedatapos
        BY <2>1
      <4> QED BY <1>4, <4>1, <4>2
    <3>3. g.cachedatapos >= Size(1) => ~Inside(g, Size(1) \div 2)
      <4> DEFINE h == Size(1) \div 2
      <4>1. h \in Nat /\ h < Size(1)
        BY <3>1, <3>2
      <4> HIDE DEF h
      <4>2. g.cachedatapos >= Size(1) => ~Inside(g, h)
        BY <3>2, <4>1 DEF Inside
      <4> QED BY <4>2 DEF h
    <3>4. Agrees(g) \/ g.cachedatapos >= Size(1)
      BY <1>1, <1>2, <1>3, <2>1 DEF Good
    <3> QED BY <3>3, <3>4
  <2> QED BY <1>3, <2>1, <2>2
<1>9. CASE moves
  <2>1. pc = "sample" /\ llSectorDataReadSize = 0
    <3>1. CASE pc = "all"
      <4>1. llReadSize % Sector = 0
        BY <1>1, <1>6, <3>1, AllFacts, ConstantFacts, MultipleOf
      <4> QED BY <1>9, <4>1
    <3>2. CASE pc = "sample" /\ llSectorDataReadSize # 0
      <4>1. Inside(f[file], llReadSize)
        BY <1>1, <3>2 DEF CacheInv
      <4> QED BY <1>1, <1>4, <1>9, <4>1 DEF Inside
    <3> QED BY <3>1, <3>2
  <2>2. /\ Size(file) > SegNumber * Big /\ iSegIndex \in 0..SegNumber
        /\ llReadSize = SampleStart(iSegIndex)
    <3>1. /\ Size(file) > SegNumber * Big /\ iSegIndex <= SegNumber
          /\ llReadSize = SampleStart(iSegIndex) + 0 /\ iSegIndex \in 0..(SegNumber + 1)
      BY <1>1, <2>1 DEF HashInv, IInv, TypeOK
    <3>2. SampleStart(iSegIndex) \in Nat
      BY <1>1, <3>1, SampleBounds
    <3> QED BY <3>1, <3>2, ConstantFacts
  <2>3. llReadSize % Page # 0
    <3>1. llReadSize % Page = 0 => llReadSize % Sector = 0
      BY <1>1, <1>6, MultipleOf, ConstantFacts
    <3> QED BY <1>9, <3>1
  <2> DEFINE c == llReadSize - (llReadSize % Page)
             h == Size(1) \div 2
             w == Len(f[file].cache)
  <2>4. c \in Nat /\ (c + w < h \/ c > h)
    <3>1. w \in 0..CacheSize /\ Size(file) = Size(1)
      BY <1>2, <1>4
    <3> QED BY <1>1, <1>2, <2>2, <2>3, <3>1, MovedAway
  <2>5. g = [f[file] EXCEPT !.cachedatapos = c]
    BY <1>7, <1>9
  <2>6. w \in Nat /\ w <= CacheSize /\ h \in Nat
    BY <1>1, <1>2, <1>4, <1>6
  <2>7. w = Len(f[file].cache)
    OBVIOUS
  <2> HIDE DEF c, h, w
  <2>8. /\ g \in Handle /\ g.cachedatapos = c /\ Len(g.cache) = w /\ g.disk = f[file].disk
    BY <1>4, <2>4, <2>5, <2>7 DEF Handle
  <2>9. Tame(g)
    BY <1>3, <2>5, <2>6, <2>8 DEF Tame
  <2>10. ~Inside(g, h)
    BY <2>4, <2>6, <2>8 DEF Inside, CacheEnd
  <2> QED BY <2>8, <2>9, <2>10 DEF h
<1> QED BY <1>8, <1>9

\* A read error ends the loop with cachedatapos moved under the old cache.
LEMMA ReadFailsIInv == IInv /\ HashReadFails => IInv'
<1> SUFFICES ASSUME IInv, HashReadFails PROVE IInv'
  OBVIOUS
<1> DEFINE r == Align([f |-> [f[file] EXCEPT !.filepos = llReadSize],
                       out |-> <<>>, n |-> Chunk, stop |-> FALSE])
           h == [f[file] EXCEPT !.cachedatapos = r.f.cachedatapos]
           g == IF ifntfs THEN h ELSE f[file]
<1>1. /\ pc \in {"all", "sample"} /\ NextFile /\ fault' = fault \cup {"read"}
      /\ f' = IF ifntfs THEN [f EXCEPT ![file].cachedatapos = r.f.cachedatapos] ELSE f
      /\ UNCHANGED <<ifntfs, image, mode, llReadSize, iSegIndex, llSectorDataReadSize,
                     ctxSec, ctx, salt, seen>>
  BY DEF HashReadFails
<1>2. /\ HandleInv /\ HashInv /\ TypeOK /\ CacheInv /\ ifntfs \in BOOLEAN
      /\ N \in Nat \ {0} /\ file \in 1..N /\ f \in [1..N -> Handle]
  BY <1>1, LoopFacts DEF HandleInv
<1>3. f' = [f EXCEPT ![file] = g]
  BY <1>1, <1>2
<1>4. /\ Tame(g) /\ g.disk = f[file].disk
      /\ ifntfs => Agrees(g) \/ ~Inside(g, Size(1) \div 2)
  <2>1. CASE ifntfs
    <3>1. g = h
      BY <2>1
    <3> QED BY <1>1, <2>1, <3>1, FailedRead
  <2>2. CASE ~ifntfs
    BY <1>2, <2>2, HandleAt
  <2> QED BY <1>2, <2>1, <2>2
<1> HIDE DEF g, r, h
<1>5. /\ ctxSec' \in Seq(Nat) /\ ctx' \in Seq(Seq(Nat)) /\ Len(ctxSec') < Section + Chunk
      /\ llReadSize' \in Nat /\ iSegIndex' \in 0..(SegNumber + 1) /\ llSectorDataReadSize' \in 0..Limit
  BY <1>1, <1>2, HandleTypes DEF TypeOK
<1> QED BY <1>1, <1>3, <1>4, <1>5, LoopEnds

\* The user breaks off.
LEMMA BreakIInv == IInv /\ UserBreak => IInv'
<1> SUFFICES ASSUME IInv, UserBreak PROVE IInv'
  OBVIOUS
<1>1. Refuse /\ UNCHANGED <<ifntfs, image, mode, file, llReadSize, iSegIndex, llSectorDataReadSize,
                            ctxSec, ctx, salt, seen, fault>>
  BY DEF UserBreak, hash
<1>2. TypeOK /\ HandleInv
  BY DEF IInv
<1> QED BY <1>1, <1>2, RefuseIInv, HandleTypes DEF TypeOK

\* FileRead does not return.
LEMMA StaysIInv == IInv /\ FileReadStays => IInv'
<1> SUFFICES ASSUME IInv, FileReadStays PROVE IInv'
  OBVIOUS
<1>1. /\ pc' = "hung"
      /\ UNCHANGED <<ifntfs, image, f, mode, file, llReadSize, iSegIndex, llSectorDataReadSize,
                     ctxSec, ctx, salt, seen, fault>>
  BY DEF FileReadStays, hash
<1>2. pc' \in Ended /\ N' = N
  BY <1>1 DEF Ended, N
<1>3. TypeOK'
  BY <1>1, <1>2 DEF IInv, TypeOK, Limit
<1>4. HandleInv'
  BY <1>1, <1>2 DEF IInv, HandleInv
<1>5. SizeInv'
  BY <1>2 DEF SizeInv
<1>6. HashInv'
  BY <1>1, <1>2 DEF HashInv, Ended
<1>7. CacheInv'
  BY <1>1 DEF CacheInv
<1> QED BY <1>3, <1>4, <1>5, <1>6, <1>7 DEF IInv

-----------------------------------------------------------------------------
(***************************************************************************)
(* The salt, the check value and what may rot.                             *)
(***************************************************************************)

\* The two reads of GetSaltValue.
LEMMA SaltRead ==
  ASSUME IInv, pc = "salt",
         NEW a, a = NormalFileRead(IF N > 1 THEN Opened(f[1].disk) ELSE f[1], Size(1) \div 2, Val),
         NEW b, b = NormalFileRead(a.f, Size(1) \div 3, 1)
  PROVE  /\ Tame(b.f) /\ Agrees(b.f) /\ b.f.disk = f[1].disk /\ f[1].disk \in Seq(Nat)
         /\ Size(1) \in Nat /\ Size(1) = Len(f[1].disk) /\ Size(1) >= Page
         /\ a.out = Slice(f[1].disk, Size(1) \div 2, Val) /\ b.out = Slice(f[1].disk, Size(1) \div 3, 1)
<1>1. /\ HandleInv /\ HashInv /\ TypeOK /\ CacheInv /\ ifntfs \in BOOLEAN /\ pc \notin Ended
  BY DEF IInv, TypeOK, Ended
<1>2. N \in Nat \ {0} /\ 1 \in 1..N
  BY <1>1, ImageFacts
<1>3. /\ Tame(f[1]) /\ f[1].disk \in Seq(Nat) /\ Len(f[1].disk) \in Nat
      /\ f[1].cachedatapos \in Nat /\ CacheEnd(f[1]) \in Nat
  BY <1>1, <1>2, HandleAt, TameFields
<1>4. Size(1) \in Nat /\ Size(1) = Len(f[1].disk) /\ Size(1) >= Page
  BY <1>1, <1>2, <1>3, SizeFacts DEF Size
<1>5. /\ Val \in 1..(CacheSize - 1) /\ 1 \in 1..(CacheSize - 1) /\ Page \in Nat \ {0} /\ CacheSize \in Nat
  BY ConstantFacts
<1> DEFINE h == Size(1) \div 2
           t == Size(1) \div 3
           g == IF N > 1 THEN Opened(f[1].disk) ELSE f[1]
<1>6. h \in Nat /\ t \in Nat /\ h < Size(1) /\ t < Size(1)
  <2>1. \A x, y \in Nat : x >= y /\ y # 0 => x \div 2 < x /\ x \div 3 < x /\ x \div 2 \in Nat /\ x \div 3 \in Nat
    OBVIOUS
  <2> QED BY <1>4, <1>5, <2>1
<1>7. Tame(g) /\ g.disk = f[1].disk /\ (Agrees(g) \/ ~Inside(g, h))
  <2>1. CASE N > 1
    BY <1>3, <2>1, OpenedFacts, OpenedTame
  <2>2. CASE ~(N > 1)
    BY <1>1, <1>3, <2>2 DEF CacheInv
  <2> QED BY <2>1, <2>2
<1>8. g.cachedatapos \in Nat /\ CacheEnd(g) \in Nat
  BY <1>7, TameFields
<1>9. a = NormalFileRead(g, h, Val) /\ b = NormalFileRead(a.f, t, 1)
      /\ Slice(f[1].disk, h, Val) = Slice(f[1].disk, Size(1) \div 2, Val)
      /\ Slice(f[1].disk, t, 1) = Slice(f[1].disk, Size(1) \div 3, 1)
  OBVIOUS
<1> HIDE DEF g, h, t
<1>10. Agrees(g) \/ h < g.cachedatapos \/ CacheEnd(g) <= h
  BY <1>6, <1>7, <1>8 DEF Inside
<1>11. ifntfs => Val \in 1..(CacheSize - 1) /\ h < Len(g.disk)
  BY <1>4, <1>5, <1>6, <1>7
<1>12. /\ Tame(a.f) /\ a.f.disk = g.disk /\ a.out = Slice(g.disk, h, Val) /\ Agrees(a.f)
  <2>1. /\ ifntfs \in BOOLEAN /\ Tame(g) /\ h \in Nat /\ Val \in Int /\ a = NormalFileRead(g, h, Val)
        /\ Agrees(g) \/ h < g.cachedatapos \/ CacheEnd(g) <= h
        /\ ifntfs => Val \in 1..(CacheSize - 1) /\ h < Len(g.disk)
    BY <1>1, <1>5, <1>6, <1>7, <1>9, <1>10, <1>11
  <2>2. /\ Tame(a.f) /\ a.f.disk = g.disk /\ a.out = Slice(g.disk, h, Val)
        /\ Agrees(a.f) /\ (ifntfs => Inside(a.f, h + Len(a.out)))
    BY <2>1, ReadEffect
  <2> QED BY <2>2
<1>13. ifntfs => 1 \in 1..(CacheSize - 1) /\ t < Len(a.f.disk)
  BY <1>4, <1>5, <1>6, <1>7, <1>12
<1>14. /\ Tame(b.f) /\ b.f.disk = a.f.disk /\ b.out = Slice(a.f.disk, t, 1) /\ Agrees(b.f)
  <2> DEFINE e == a.f
  <2>1. /\ ifntfs \in BOOLEAN /\ Tame(e) /\ Agrees(e) /\ b = NormalFileRead(e, t, 1)
        /\ (ifntfs => 1 \in 1..(CacheSize - 1) /\ t < Len(e.disk)) /\ t \in Nat /\ 1 \in Int
    BY <1>1, <1>6, <1>9, <1>12, <1>13
  <2> HIDE DEF e
  <2>2. /\ Tame(b.f) /\ b.f.disk = e.disk /\ b.out = Slice(e.disk, t, 1)
        /\ Agrees(b.f) /\ (ifntfs => Inside(b.f, t + Len(b.out)))
    BY <2>1, ReadEffect
  <2> QED BY <2>2 DEF e
<1> QED BY <1>3, <1>4, <1>7, <1>9, <1>12, <1>14

\* The salt is read from the first file.
LEMMA SaltIInv == IInv /\ GetSaltValue => IInv'
<1> SUFFICES ASSUME IInv, GetSaltValue PROVE IInv'
  OBVIOUS
<1> DEFINE a == NormalFileRead(IF N > 1 THEN Opened(f[1].disk) ELSE f[1], Size(1) \div 2, Val)
           b == NormalFileRead(a.f, Size(1) \div 3, 1)
<1>1. /\ pc = "salt" /\ UNCHANGED <<ifntfs, image, mode, file, llReadSize, iSegIndex,
                                    llSectorDataReadSize, ctxSec, ctx, seen, fault>>
  BY DEF GetSaltValue, hash
<1>2. /\ HandleInv /\ HashInv /\ SizeInv /\ TypeOK /\ CacheInv /\ ifntfs \in BOOLEAN /\ pc \notin Ended
  BY <1>1 DEF IInv, TypeOK, Ended
<1>3. CASE /\ f' = [f EXCEPT ![1] = b.f] /\ salt' = a.out \o b.out
           /\ pc' = IF mode = "calculate" THEN "save" ELSE "compare"
  <2>1. /\ Tame(b.f) /\ Agrees(b.f) /\ b.f.disk = f[1].disk /\ f[1].disk \in Seq(Nat)
        /\ Size(1) \in Nat
        /\ a.out = Slice(f[1].disk, Size(1) \div 2, Val) /\ b.out = Slice(f[1].disk, Size(1) \div 3, 1)
    BY <1>1, SaltRead
  <2> HIDE DEF a, b
  <2>2. Len(a.out) <= Val /\ a.out \in Seq(Nat) /\ Len(a.out) \in Nat
    <3>1. \A x \in Nat : x \div 2 \in Nat
      OBVIOUS
    <3>2. Val \in Nat
      BY ConstantFacts
    <3> QED BY <2>1, <3>1, <3>2, SliceAtMost
  <2>3. Len(b.out) <= 1 /\ b.out \in Seq(Nat) /\ Len(b.out) \in Nat
    <3>1. \A x \in Nat : x \div 3 \in Nat
      OBVIOUS
    <3> QED BY <2>1, <3>1, SliceAtMost
  <2>4. salt' \in Seq(Nat) /\ Len(salt') <= Val + 1
    <3>1. \A s, t \in Seq(Nat) : s \o t \in Seq(Nat) /\ Len(s \o t) = Len(s) + Len(t)
      OBVIOUS
    <3>2. salt' \in Seq(Nat) /\ Len(salt') = Len(a.out) + Len(b.out)
      BY <1>3, <2>2, <2>3, <3>1
    <3>3. Val \in Nat
      BY ConstantFacts
    <3>4. \A x, y, v \in Nat : x <= v /\ y <= 1 => x + y <= v + 1
      OBVIOUS
    <3> QED BY <2>2, <2>3, <3>2, <3>3, <3>4
  <2>5. ctxSec' \in Seq(Nat) /\ ctx' \in Seq(Seq(Nat)) /\ 1 \in 1..N
    BY <1>1, <1>2, HandleTypes, ImageFacts
  <2>6. /\ HandleInv' /\ N' = N /\ Limit' = Limit /\ f'[1] = b.f
        /\ \A j \in 1..N : Len(f'[j].cache) <= CacheSize
        /\ \A j \in 1..N : j # 1 => f'[j] = f[j]
    BY <1>1, <1>2, <1>3, <2>1, <2>4, <2>5, HandleStep
  <2>7. pc' \in {"save", "compare"} /\ pc' \notin Ended
        /\ (pc' = "save" <=> mode = "calculate") /\ (pc' = "compare" <=> mode = "validate")
    BY <1>2, <1>3 DEF TypeOK, Ended
  <2>8. TypeOK'
    BY <1>1, <1>2, <2>4, <2>6, <2>7 DEF TypeOK
  <2>9. SizeInv'
    <3>1. \A j \in 1..N : Len(f'[j].disk) = Len(f[j].disk)
      BY <2>1, <2>6
    <3>2. Grown' <=> Grown
      BY <1>1, <2>6, <2>7 DEF Grown
    <3> QED BY <1>1, <1>2, <3>1, <3>2, SizeStep
  <2>10. HashInv'
    <3>1. Calculating' <=> Calculating
      BY <1>1, <2>7 DEF Calculating
    <3>2. file = N + 1
      BY <1>1, <1>2 DEF HashInv
    <3>3. IF Calculating' THEN seen' = <<>> ELSE seen' = <<seen'[1]>>
      BY <1>1, <1>2, <3>1 DEF HashInv
    <3> QED BY <1>1, <2>6, <2>7, <3>2, <3>3 DEF HashInv
  <2>11. CacheInv'
    <3>1. ASSUME NEW j \in 1..N PROVE Agrees(f'[j])
      <4>1. CASE j = 1
        BY <2>1, <2>6, <4>1
      <4>2. CASE j # 1
        <5>1. ~ifntfs
          BY <1>2, <4>2 DEF HandleInv
        <5>2. Agrees(f[j])
          BY <1>2, <5>1, HandleAt, FatAgrees
        <5> QED BY <2>6, <4>2, <5>2
      <4> QED BY <4>1, <4>2
    <3> QED BY <2>6, <2>7, <3>1 DEF CacheInv
  <2> QED BY <2>6, <2>8, <2>9, <2>10, <2>11 DEF IInv
<1>4. CASE Refuse /\ UNCHANGED salt
  <2>1. /\ llReadSize' \in Nat /\ iSegIndex' \in 0..(SegNumber + 1) /\ llSectorDataReadSize' \in 0..Limit
        /\ ctxSec' \in Seq(Nat) /\ Len(ctxSec') < Section + Chunk
    BY <1>1, <1>2, HandleTypes DEF TypeOK
  <2> QED BY <1>1, <1>4, <2>1, RefuseIInv
<1> QED BY <1>3, <1>4 DEF GetSaltValue

\* The check value of the first and only digest.
Bytes == [j \in 1..Val |-> 10000 + j]

\* The check value of a digest: as many bytes as its place has, and none of them 0.
LEMMA BytesFacts == Bytes \in Seq(Nat) /\ Len(Bytes) = Val /\ \A j \in 1..Val : Bytes[j] = 10000 + j
<1>1. Val \in Nat
  BY ConstantFacts
<1> QED BY <1>1 DEF Bytes

\* The only digest there is gets that one.
LEMMA OneDigest ==
  ASSUME NEW s, s = <<Digest>>
  PROVE  CheckBytes(s) = Bytes
<1> DEFINE k == CHOOSE i \in 1..Len(s) : s[i] = Digest
<1>1. Len(s) = 1 /\ s[1] = Digest
  OBVIOUS
<1>2. \E i \in 1..Len(s) : s[i] = Digest
  BY <1>1
<1>3. k \in 1..Len(s)
  BY <1>2
<1>4. k = 1
  BY <1>1, <1>3
<1>5. CheckBytes(s) = [j \in 1..Val |-> 10000 * k + j]
  BY DEF CheckBytes
<1> HIDE DEF k
<1>6. \A j \in 1..Val : 10000 * 1 + j = 10000 + j
  BY ConstantFacts
<1> QED BY <1>4, <1>5, <1>6 DEF Bytes

\* Where the check value goes.
LEMMA PosFacts ==
  ASSUME IInv, pc \in {"save", "compare"}
  PROVE  /\ N \in 1..N /\ Tame(f[N]) /\ Agrees(f[N]) /\ f[N].disk \in Seq(Nat)
         /\ Size(N) \in Nat /\ Size(N) = Len(f[N].disk)
         /\ ValuePos \in Nat /\ ifntfs \in BOOLEAN
         /\ Size(N) # 0 => ValuePos + Val = Size(N)
         /\ Size(N) = 0 => ValuePos = 0 /\ ~ifntfs /\ image[N] = <<>>
<1>1. /\ HandleInv /\ CacheInv /\ ifntfs \in BOOLEAN /\ pc \notin Ended
  BY DEF IInv, TypeOK, Ended
<1>2. N \in 1..N /\ image[N] \in Seq(Nat) /\ Len(image[N]) \in Nat /\ Len(image[N]) % Page = 0
  BY <1>1, ImageFacts
<1>3. /\ Tame(f[N]) /\ f[N].disk \in Seq(Nat) /\ Len(f[N].disk) \in Nat /\ Agrees(f[N])
  BY <1>1, <1>2, HandleAt, TameFields DEF CacheInv
<1>4. Size(N) \in Nat /\ Size(N) = Len(f[N].disk)
  BY <1>3 DEF Size
<1>5. Page \in Nat \ {0} /\ Val \in Nat \ {0} /\ Val < Page
  BY ConstantFacts
<1>6. /\ Size(N) = Len(image[N]) \/ (~ifntfs /\ Size(N) = Len(image[N]) + Val)
      /\ ifntfs => Size(N) >= Page
  BY <1>1, <1>2, SizeFacts
<1>7. \A x, y \in Nat : y # 0 /\ x % y = 0 /\ x # 0 => x >= y
  OBVIOUS
<1>8. Size(N) # 0 => Size(N) >= Val
  <2>1. \A x, y, v \in Nat : v < y /\ y # 0 /\ x % y = 0 => x = 0 \/ x >= v
    BY <1>7
  <2> DEFINE x == Len(image[N])
  <2>2. x = 0 \/ x >= Val
    BY <1>2, <1>5, <2>1
  <2>3. x \in Nat /\ Val \in Nat
    BY <1>2, <1>5
  <2>4. Size(N) = x \/ Size(N) = x + Val
    BY <1>6
  <2> HIDE DEF x
  <2> QED BY <2>2, <2>3, <2>4
<1>9. ValuePos \in Nat /\ (Size(N) # 0 => ValuePos + Val = Size(N)) /\ (Size(N) = 0 => ValuePos = 0)
  BY <1>4, <1>5, <1>8 DEF ValuePos
<1>10. Size(N) = 0 => ~ifntfs /\ image[N] = <<>>
  BY <1>1, <1>2, <1>5, <1>6
<1> QED BY <1>1, <1>2, <1>3, <1>4, <1>9, <1>10

\* The file gets the check value, or a leading part of it when its last bytes are
\* lost at the close.
LEMMA SaveEffect ==
  ASSUME IInv, SaveFileCheckValue, pc' = "calculated"
  PROVE  /\ pc = "save" /\ seen = <<>> /\ seen' = <<Digest>> /\ mode = "calculate" /\ file = N + 1
         /\ fault' \in {fault, fault \cup {"close"}}
         /\ UNCHANGED <<ifntfs, image, mode, file, llReadSize, iSegIndex, llSectorDataReadSize,
                        ctxSec, ctx, salt, damaged>>
         /\ \E m \in 0..Val :
              /\ ~ifntfs \/ fault' = {} => m = Val
              /\ f' = [f EXCEPT ![N] = Opened(Overwrite(f[N].disk, ValuePos, SubSeq(Bytes, 1, m)))]
<1> DEFINE g == NormalFileWrite(f[N], ValuePos, CheckBytes(seen'))
<1>1. /\ pc = "save" /\ ~Refuse
      /\ UNCHANGED <<ifntfs, image, mode, file, llReadSize, iSegIndex, llSectorDataReadSize,
                     ctxSec, ctx, salt, damaged>>
  BY DEF SaveFileCheckValue, Refuse, hash
<1>2. /\ seen' = Append(seen, Digest)
      /\ \/ f' = [f EXCEPT ![N] = Closed(g)] /\ UNCHANGED fault
         \/ g.cachedirty /\ f' = [f EXCEPT ![N] = Opened(g.disk)] /\ fault' = fault \cup {"close"}
  BY <1>1 DEF SaveFileCheckValue
<1>3. seen = <<>> /\ mode = "calculate" /\ file = N + 1
  BY <1>1 DEF IInv, HashInv, Calculating, Ended
<1>4. seen' = <<Digest>>
  BY <1>2, <1>3
<1>5. CheckBytes(seen') = Bytes
  BY <1>4, OneDigest
<1>6. /\ Tame(f[N]) /\ Agrees(f[N]) /\ ValuePos \in Nat /\ ifntfs \in BOOLEAN
  BY <1>1, PosFacts
<1>7. /\ Bytes \in Seq(Nat) /\ Len(Bytes) = Val /\ Val \in Nat \ {0} /\ Val < CacheSize
  BY BytesFacts, ConstantFacts
<1>8. g = NormalFileWrite(f[N], ValuePos, Bytes)
  BY <1>5
<1> HIDE DEF g
<1>9. Tame(g) /\ Closed(g) = Opened(Overwrite(f[N].disk, ValuePos, Bytes))
  <2> DEFINE e == f[N]
  <2>1. /\ Tame(e) /\ Agrees(e) /\ g = NormalFileWrite(e, ValuePos, Bytes) /\ Len(Bytes) < CacheSize
    BY <1>6, <1>7, <1>8
  <2> HIDE DEF e
  <2>2. Tame(g) /\ Closed(g) = Opened(Overwrite(e.disk, ValuePos, Bytes))
    BY <1>6, <1>7, <2>1, WriteEffect
  <2> QED BY <2>2 DEF e
<1>12. \E k \in 0..Len(Bytes) : g.disk = Overwrite(f[N].disk, ValuePos, SubSeq(Bytes, 1, k))
  <2> DEFINE e == f[N]
             v == ValuePos
             b == Bytes
  <2>1. /\ Tame(e) /\ Agrees(e) /\ g = NormalFileWrite(e, v, b) /\ Len(b) < CacheSize
        /\ v \in Nat /\ b \in Seq(Nat) /\ ifntfs \in BOOLEAN
    BY <1>6, <1>7, <1>8
  <2> HIDE DEF e, v, b
  <2>2. \E k \in 0..Len(b) : NormalFileWrite(e, v, b).disk = Overwrite(e.disk, v, SubSeq(b, 1, k))
    BY <2>1, WriteDisk
  <2> QED BY <2>1, <2>2 DEF e, v, b
<1> DEFINE P(m) == /\ ~ifntfs \/ fault' = {} => m = Val
                   /\ f' = [f EXCEPT ![N] = Opened(Overwrite(f[N].disk, ValuePos, SubSeq(Bytes, 1, m)))]
<1>10. \E m \in 0..Val : P(m)
  <2>1. CASE f' = [f EXCEPT ![N] = Closed(g)]
    <3>1. SubSeq(Bytes, 1, Val) = Bytes /\ Val \in 0..Val
      BY <1>7
    <3>2. P(Val)
      BY <1>9, <2>1, <3>1
    <3> QED BY <3>1, <3>2
  <2>2. CASE g.cachedirty /\ f' = [f EXCEPT ![N] = Opened(g.disk)] /\ fault' = fault \cup {"close"}
    <3>1. PICK k \in 0..Val : g.disk = Overwrite(f[N].disk, ValuePos, SubSeq(Bytes, 1, k))
      BY <1>7, <1>12
    <3>2. ifntfs /\ fault' # {}
      BY <1>6, <1>9, <2>2 DEF Tame
    <3>3. P(k)
      BY <2>2, <3>1, <3>2
    <3> QED BY <3>3
  <2> QED BY <1>2, <2>1, <2>2
<1>11. fault' \in {fault, fault \cup {"close"}}
  BY <1>2
<1> QED BY <1>1, <1>3, <1>4, <1>10, <1>11

\* What a leading part of the check value makes of the size.
LEMMA SaveSize ==
  ASSUME IInv, pc = "save", NEW m \in 0..Val, ~ifntfs => m = Val,
         NEW s, s = Overwrite(f[N].disk, ValuePos, SubSeq(Bytes, 1, m))
  PROVE  /\ s \in Seq(Nat) /\ Len(s) = IF Size(N) = 0 THEN Val ELSE Size(N)
         /\ \A i \in 1..ValuePos : i <= Size(N) => s[i] = f[N].disk[i]
         /\ \A j \in 1..m : s[ValuePos + j] = 10000 + j
<1> DEFINE d == SubSeq(Bytes, 1, m)
           o == f[N].disk
           v == ValuePos
<1>1. /\ f[N].disk \in Seq(Nat) /\ Size(N) \in Nat /\ Size(N) = Len(f[N].disk)
      /\ ValuePos \in Nat /\ ifntfs \in BOOLEAN
      /\ Size(N) # 0 => ValuePos + Val = Size(N)
      /\ Size(N) = 0 => ValuePos = 0 /\ ~ifntfs
  BY PosFacts
<1>2. /\ Bytes \in Seq(Nat) /\ Len(Bytes) = Val /\ Val \in Nat \ {0}
  BY BytesFacts, ConstantFacts
<1>3. d \in Seq(Nat) /\ Len(d) = m /\ \A j \in 1..m : d[j] = 10000 + j
  <2>1. d \in Seq(Nat) /\ Len(d) = m /\ \A j \in 1..m : d[j] = Bytes[j]
    BY <1>2
  <2>2. \A j \in 1..m : j \in 1..Val
    BY <1>2
  <2> QED BY <2>1, <2>2, BytesFacts
<1>4. /\ s = Overwrite(o, v, d) /\ o \in Seq(Nat) /\ Len(o) = Size(N) /\ o = f[N].disk
      /\ v \in Nat /\ v = ValuePos
  BY <1>1
<1> HIDE DEF d, o, v
<1>5. /\ s \in Seq(Nat) /\ Len(s) \in Nat
      /\ Len(s) = IF d # <<>> /\ v + Len(d) > Len(o) THEN v + Len(d) ELSE Len(o)
  <2>1. s = Overwrite(o, v, d) /\ o \in Seq(Nat) /\ v \in Nat /\ d \in Seq(Nat)
    BY <1>3, <1>4
  <2>2. s \in Seq(Nat)
    BY <2>1, OverwriteFacts
  <2>3. Len(s) \in Nat
    BY <2>2
  <2>4. Len(s) = IF d # <<>> /\ v + Len(d) > Len(o) THEN v + Len(d) ELSE Len(o)
    BY <2>1, OverwriteFacts
  <2> QED BY <2>2, <2>3, <2>4
<1>6. Len(s) = IF Size(N) = 0 THEN Val ELSE Size(N)
  <2>1. CASE Size(N) = 0
    <3>1. m = Val /\ ValuePos = 0 /\ d # <<>>
      BY <1>1, <1>2, <1>3, <2>1
    <3>2. v + Len(d) > Len(o)
      BY <1>2, <1>3, <1>4, <2>1, <3>1
    <3> QED BY <1>2, <1>3, <1>4, <1>5, <2>1, <3>1, <3>2
  <2>2. CASE Size(N) # 0
    <3>1. ~(v + Len(d) > Len(o))
      BY <1>1, <1>2, <1>3, <1>4, <2>2
    <3> QED BY <1>4, <1>5, <2>2, <3>1
  <2> QED BY <2>1, <2>2
<1>7. \A i \in 1..ValuePos : i <= Size(N) => s[i] = f[N].disk[i]
  <2>1. ASSUME NEW i \in 1..v, i <= Len(o) PROVE s[i] = o[i]
    BY <1>3, <1>4, <2>1, OverwriteKeeps
  <2> QED BY <1>4, <2>1
<1>8. \A j \in 1..m : s[ValuePos + j] = 10000 + j
  <2>1. ASSUME NEW i \in 1..Len(d) PROVE s[v + i] = d[i]
    <3>1. s = Overwrite(o, v, d) /\ o \in Seq(Nat) /\ v \in Nat /\ d \in Seq(Nat)
          /\ i \in 1..Len(d) /\ v + i \in Int
      BY <1>3, <1>4
    <3> DEFINE j == v + i
    <3>2. j \in Int /\ j = v + i
      BY <3>1
    <3> HIDE DEF j
    <3>3. Overwrite(o, v, d)[j] = d[i]
      BY <3>1, <3>2, OverwriteAt
    <3> QED BY <3>1, <3>3 DEF j
  <2>2. ASSUME NEW i \in 1..m PROVE s[v + i] = 10000 + i
    <3>1. s[v + i] = d[i]
      BY <1>3, <2>1
    <3> QED BY <1>3, <3>1
  <2> QED BY <2>2 DEF v
<1> QED BY <1>5, <1>6, <1>7, <1>8

\* SaveFileCheckValue writes at the end of the last file.
LEMMA SaveIInv == IInv /\ SaveFileCheckValue => IInv'
<1> SUFFICES ASSUME IInv, SaveFileCheckValue PROVE IInv'
  OBVIOUS
<1>1. /\ pc = "save" /\ UNCHANGED <<ifntfs, image, mode, file, llReadSize, iSegIndex,
                                    llSectorDataReadSize, ctxSec, ctx, salt>>
  BY DEF SaveFileCheckValue, hash
<1>2. /\ HandleInv /\ HashInv /\ SizeInv /\ TypeOK /\ CacheInv /\ ifntfs \in BOOLEAN /\ pc \notin Ended
  BY <1>1 DEF IInv, TypeOK, Ended
<1>3. ctxSec' \in Seq(Nat) /\ ctx' \in Seq(Seq(Nat)) /\ salt' \in Seq(Nat)
  BY <1>1, <1>2, HandleTypes
<1>4. CASE pc' = "calculated"
  <2>1. /\ seen = <<>> /\ seen' = <<Digest>> /\ mode = "calculate" /\ file = N + 1
        /\ fault' \in {fault, fault \cup {"close"}}
    BY <1>4, SaveEffect
  <2>2. \E m \in 0..Val :
          /\ ~ifntfs \/ fault' = {} => m = Val
          /\ f' = [f EXCEPT ![N] = Opened(Overwrite(f[N].disk, ValuePos, SubSeq(Bytes, 1, m)))]
    BY <1>4, SaveEffect
  <2>3. PICK m \in 0..Val :
          /\ ~ifntfs \/ fault' = {} => m = Val
          /\ f' = [f EXCEPT ![N] = Opened(Overwrite(f[N].disk, ValuePos, SubSeq(Bytes, 1, m)))]
    BY <2>2
  <2> DEFINE s == Overwrite(f[N].disk, ValuePos, SubSeq(Bytes, 1, m))
             g == Opened(s)
  <2>4. s = Overwrite(f[N].disk, ValuePos, SubSeq(Bytes, 1, m)) /\ f' = [f EXCEPT ![N] = g]
    BY <2>3
  <2>5. g = Opened(s)
    OBVIOUS
  <2> HIDE DEF g, s
  <2>6. s \in Seq(Nat) /\ Len(s) = IF Size(N) = 0 THEN Val ELSE Size(N)
    BY <1>1, <2>3, <2>4, SaveSize
  <2>7. Tame(g) /\ g.disk = s /\ g = Opened(g.disk)
    BY <2>5, <2>6, OpenedFacts, OpenedTame
  <2>8. N \in 1..N /\ N \in Nat \ {0} /\ image[N] \in Seq(Nat)
    BY <1>2, ImageFacts
  <2>9. /\ HandleInv' /\ N' = N /\ Limit' = Limit /\ f'[N] = g
        /\ \A j \in 1..N : Len(f'[j].cache) <= CacheSize
        /\ \A j \in 1..N : j # N => f'[j] = f[j]
    BY <1>1, <1>2, <1>3, <2>4, <2>7, <2>8, HandleStep
  <2>10. pc' \notin Ended /\ ~Calculating' /\ Calculating
    BY <1>1, <1>4, <2>1 DEF Ended, Calculating
  <2>11. TypeOK'
    <3>1. fault' \subseteq {"read", "write", "close"}
      BY <1>2, <2>1 DEF TypeOK
    <3> QED BY <1>1, <1>2, <1>4, <2>9, <3>1 DEF TypeOK
  <2>12. SizeInv'
    <3>1. CASE Size(N) # 0
      <4>1. ASSUME NEW j \in 1..N PROVE Len(f'[j].disk) = Len(f[j].disk)
        <5>1. CASE j = N
          BY <2>6, <2>7, <2>9, <3>1, <5>1 DEF Size
        <5>2. CASE j # N
          BY <2>9, <5>2
        <5> QED BY <5>1, <5>2
      <4>2. Grown' <=> Grown
        <5>1. CASE ifntfs
          BY <1>1, <5>1 DEF Grown
        <5>2. CASE "write" \notin fault
          BY <1>1, <1>4, <2>1, <2>9, <5>2 DEF Grown
        <5>3. CASE ~ifntfs /\ "write" \in fault
          <6>1. ~Grown
            BY <2>1, <5>3 DEF Grown
          <6>2. image[N] # <<>>
            <7>1. Size(N) = Len(image[N])
              BY <1>2, <6>1 DEF SizeInv
            <7> QED BY <3>1, <7>1
          <6>3. ~Grown'
            BY <1>1, <2>1, <2>9, <5>3, <6>2 DEF Grown
          <6> QED BY <6>1, <6>3
        <5> QED BY <1>2, <5>1, <5>2, <5>3
      <4> QED BY <1>1, <1>2, <4>1, <4>2, SizeStep
    <3>2. CASE Size(N) = 0
      <4>1. ~ifntfs /\ image[N] = <<>>
        BY <1>1, <3>2, PosFacts
      <4>2. Grown'
        <5>1. seen' # <<>>
          BY <2>1
        <5> QED BY <1>1, <2>9, <4>1, <5>1 DEF Grown
      <4>3. Len(image[N]) + Val = Val
        BY <4>1, ConstantFacts
      <4>4. \A k \in 1..(N - 1) : Len(f'[k].disk) = Len(image[k])
        <5>1. \A k \in 1..(N - 1) : k \in 1..N /\ k # N
          BY <2>8
        <5> QED BY <1>2, <2>9, <5>1 DEF SizeInv, Size
      <4>5. Len(f'[N].disk) = Len(image[N]) + Val
        BY <2>6, <2>7, <2>9, <3>2, <4>3
      <4>6. /\ \A k \in 1..(N' - 1) : Len(f'[k].disk) = Len(image'[k])
            /\ Len(f'[N'].disk) = IF Grown' THEN Len(image'[N']) + Val ELSE Len(image'[N'])
        BY <1>1, <2>9, <4>2, <4>4, <4>5
      <4> QED BY <4>6 DEF SizeInv, Size
    <3> QED BY <3>1, <3>2
  <2>13. HashInv'
    <3>1. seen' = <<seen'[1]>>
      BY <2>1
    <3> QED BY <1>1, <1>4, <2>1, <2>10, <3>1 DEF HashInv
  <2>14. CacheInv'
    BY <1>4, <2>7, <2>9 DEF CacheInv
  <2> QED BY <2>9, <2>11, <2>12, <2>13, <2>14 DEF IInv
<1>5. CASE pc' # "calculated"
  <2>1. Refuse /\ UNCHANGED fault
    BY <1>5 DEF SaveFileCheckValue
  <2>2. /\ llReadSize' \in Nat /\ iSegIndex' \in 0..(SegNumber + 1) /\ llSectorDataReadSize' \in 0..Limit
        /\ ctxSec' \in Seq(Nat) /\ Len(ctxSec') < Section + Chunk
    BY <1>1, <1>2, <1>3 DEF TypeOK
  <2> QED BY <1>1, <2>1, <2>2, RefuseIInv
<1> QED BY <1>4, <1>5

\* The check value of the file.
LEMMA CompareRead ==
  ASSUME IInv, pc = "compare", NEW r, r = NormalFileRead(f[N], ValuePos, Val)
  PROVE  /\ Tame(r.f) /\ r.f.disk = f[N].disk /\ f[N].disk \in Seq(Nat)
         /\ r.out = Slice(f[N].disk, ValuePos, Val)
<1>1. /\ Tame(f[N]) /\ Agrees(f[N]) /\ Size(N) = Len(f[N].disk) /\ Size(N) \in Nat
      /\ ValuePos \in Nat /\ ifntfs \in BOOLEAN /\ f[N].disk \in Seq(Nat)
      /\ Size(N) # 0 => ValuePos + Val = Size(N)
      /\ Size(N) = 0 => ~ifntfs
  BY PosFacts
<1>2. Val \in 1..(CacheSize - 1) /\ Val \in Int
  BY ConstantFacts
<1> DEFINE g == f[N]
           v == ValuePos
<1>3. /\ Tame(g) /\ Agrees(g) /\ v \in Nat /\ r = NormalFileRead(g, v, Val) /\ ifntfs \in BOOLEAN
      /\ ifntfs => Val \in 1..(CacheSize - 1) /\ v < Len(g.disk)
  BY <1>1, <1>2
<1> HIDE DEF g, v
<1>4. /\ Tame(r.f) /\ r.f.disk = g.disk /\ r.out = Slice(g.disk, v, Val)
      /\ Agrees(r.f) /\ (ifntfs => Inside(r.f, v + Len(r.out)))
  BY <1>2, <1>3, ReadEffect
<1> QED BY <1>1, <1>4 DEF g, v

\* GetFileCheckValue reads there.
LEMMA CompareIInv == IInv /\ GetFileCheckValue => IInv'
<1> SUFFICES ASSUME IInv, GetFileCheckValue PROVE IInv'
  OBVIOUS
<1> DEFINE r == NormalFileRead(f[N], ValuePos, Val)
<1>1. /\ pc = "compare" /\ UNCHANGED <<ifntfs, image, mode, file, llReadSize, iSegIndex,
                                       llSectorDataReadSize, ctxSec, ctx, salt, fault>>
      /\ \/ pc' \in {"valid", "invalid"} /\ f' = [f EXCEPT ![N] = Opened(r.f.disk)]
         \/ Refuse
  BY DEF GetFileCheckValue, hash
<1>2. /\ HandleInv /\ TypeOK /\ ifntfs \in BOOLEAN
  BY DEF IInv, TypeOK
<1>3. ctxSec' \in Seq(Nat) /\ ctx' \in Seq(Seq(Nat)) /\ salt' \in Seq(Nat)
  BY <1>1, <1>2, HandleTypes
<1>4. CASE pc' \in {"valid", "invalid"} /\ f' = [f EXCEPT ![N] = Opened(r.f.disk)]
  <2>1. r.f.disk \in Seq(Nat)
    BY <1>1, CompareRead
  <2> DEFINE g == Opened(r.f.disk)
  <2>2. Tame(g) /\ f' = [f EXCEPT ![N] = g] /\ N \in 1..N
    BY <1>2, <1>4, <2>1, OpenedTame, ImageFacts
  <2> HIDE DEF g, r
  <2>3. /\ HandleInv' /\ N' = N /\ Limit' = Limit /\ \A j \in 1..N : Len(f'[j].cache) <= CacheSize
    BY <1>1, <1>2, <1>3, <2>2, HandleStep
  <2>4. pc' \in Ended
    BY <1>4 DEF Ended
  <2>5. TypeOK'
    BY <1>1, <1>2, <2>3, <2>4 DEF TypeOK
  <2>6. SizeInv' /\ HashInv' /\ CacheInv'
    BY <1>4, <2>4 DEF SizeInv, HashInv, CacheInv
  <2> QED BY <2>3, <2>5, <2>6 DEF IInv
<1>5. CASE Refuse
  <2>1. /\ llReadSize' \in Nat /\ iSegIndex' \in 0..(SegNumber + 1) /\ llSectorDataReadSize' \in 0..Limit
        /\ ctxSec' \in Seq(Nat) /\ Len(ctxSec') < Section + Chunk
    BY <1>1, <1>2, <1>3 DEF TypeOK
  <2> QED BY <1>1, <1>5, <2>1, RefuseIInv
<1> QED BY <1>1, <1>4, <1>5

\* A byte of a sequence becomes 0.
LEMMA SetAt ==
  ASSUME NEW d \in Seq(Nat), NEW j \in 1..Len(d)
  PROVE  LET s == [d EXCEPT ![j] = 0]
         IN s \in Seq(Nat) /\ Len(s) = Len(d) /\ s[j] = 0
BY 0 \in Nat, ExceptSeq

\* A byte of the image becomes 0.
LEMMA DamageEffect ==
  ASSUME IInv, Damage
  PROVE  \E i \in 1..N : \E j \in 1..DataLen(i) :
           /\ j \in Nat /\ j <= Size(i) /\ damaged' = {<<i, j - 1>>}
           /\ f' = [f EXCEPT ![i] = [f[i] EXCEPT !.disk = [f[i].disk EXCEPT ![j] = 0]]]
<1>1. /\ pc = "calculated" /\ damaged = {} /\ HandleInv /\ ifntfs \in BOOLEAN /\ pc \notin Ended
  BY DEF Damage, IInv, TypeOK, Ended
<1>2. PICK i \in 1..N : \E j \in 1..DataLen(i) :
         /\ f' = [f EXCEPT ![i] = [f[i] EXCEPT !.disk = [f[i].disk EXCEPT ![j] = 0]]]
         /\ damaged' = {<<i, j - 1>>}
  BY DEF Damage, DataLen
<1>3. PICK j \in 1..DataLen(i) :
         /\ f' = [f EXCEPT ![i] = [f[i] EXCEPT !.disk = [f[i].disk EXCEPT ![j] = 0]]]
         /\ damaged' = {<<i, j - 1>>}
  BY <1>2
<1>4. Size(i) \in Nat
  BY <1>1, SizeFacts
<1>5. DataLen(i) \in Int /\ DataLen(i) <= Size(i)
  BY <1>4, ConstantFacts DEF DataLen
<1>6. j \in Nat /\ j <= Size(i)
  BY <1>4, <1>5
<1> QED BY <1>3, <1>6

\* A byte that rots changes no length.
LEMMA DamageIInv == IInv /\ Damage => IInv'
<1> SUFFICES ASSUME IInv, Damage PROVE IInv'
  OBVIOUS
<1>1. /\ pc = "calculated"
      /\ UNCHANGED <<ifntfs, image, pc, mode, file, llReadSize, iSegIndex, llSectorDataReadSize,
                     ctxSec, ctx, salt, seen, fault>>
  BY DEF Damage, hash
<1>2. /\ HandleInv /\ HashInv /\ SizeInv /\ TypeOK /\ CacheInv /\ ifntfs \in BOOLEAN /\ pc \notin Ended
  BY <1>1 DEF IInv, TypeOK, Ended
<1>3. PICK i \in 1..N : \E j \in 1..DataLen(i) :
         /\ j \in Nat /\ j <= Size(i) /\ damaged' = {<<i, j - 1>>}
         /\ f' = [f EXCEPT ![i] = [f[i] EXCEPT !.disk = [f[i].disk EXCEPT ![j] = 0]]]
  BY DamageEffect
<1>0. PICK j \in 1..DataLen(i) :
         /\ j \in Nat /\ j <= Size(i) /\ damaged' = {<<i, j - 1>>}
         /\ f' = [f EXCEPT ![i] = [f[i] EXCEPT !.disk = [f[i].disk EXCEPT ![j] = 0]]]
  BY <1>3
<1> DEFINE o == f[i]
           s == [o.disk EXCEPT ![j] = 0]
           g == [o EXCEPT !.disk = s]
<1>4. Tame(o) /\ o \in Handle /\ o.disk \in Seq(Nat) /\ o = f[i]
  BY <1>2, HandleAt, TameFields
<1>5. s \in Seq(Nat) /\ Len(s) = Len(o.disk)
  <2>1. j \in 1..Len(o.disk)
    BY <1>0, <1>4 DEF Size
  <2> QED BY <1>4, <2>1, SetAt
<1>6. f' = [f EXCEPT ![i] = g] /\ g = [o EXCEPT !.disk = s]
  BY <1>0
<1> HIDE DEF o, s, g
<1>7. /\ g \in Handle /\ g.disk = s /\ g.cache = o.cache /\ g.cachedirty = o.cachedirty
  BY <1>4, <1>5, <1>6 DEF Handle
<1>8. Tame(g)
  BY <1>4, <1>7 DEF Tame
<1>9. o = Opened(o.disk) => g = Opened(g.disk)
  <2> SUFFICES ASSUME o = Opened(o.disk) PROVE g = Opened(g.disk)
    OBVIOUS
  <2>1. o.filepos = 0 /\ o.cachedatapos = 0 /\ o.cache = <<>> /\ o.cachedirty = FALSE
    BY DEF Opened
  <2>2. g.filepos = o.filepos /\ g.cachedatapos = o.cachedatapos
    BY <1>4, <1>6 DEF Handle
  <2> QED BY <1>7, <2>1, <2>2 DEF Opened, Handle
<1>10. ctxSec' \in Seq(Nat) /\ ctx' \in Seq(Seq(Nat)) /\ salt' \in Seq(Nat) /\ N \in 1..N
  BY <1>1, <1>2, HandleTypes, ImageFacts
<1>11. /\ HandleInv' /\ N' = N /\ Limit' = Limit /\ f'[i] = g
       /\ \A k \in 1..N : Len(f'[k].cache) <= CacheSize
       /\ \A k \in 1..N : k # i => f'[k] = f[k]
  BY <1>1, <1>2, <1>6, <1>8, <1>10, HandleStep
<1>12. TypeOK'
  BY <1>1, <1>2, <1>11 DEF TypeOK
<1>13. SizeInv'
  <2>1. ASSUME NEW k \in 1..N PROVE Len(f'[k].disk) = Len(f[k].disk)
    BY <1>4, <1>5, <1>7, <1>11
  <2>2. Grown' <=> Grown
    BY <1>1, <1>11 DEF Grown
  <2> QED BY <1>1, <1>2, <2>1, <2>2, SizeStep
<1>14. HashInv'
  <2>1. Calculating' <=> Calculating
    BY <1>1 DEF Calculating
  <2> QED BY <1>1, <1>2, <2>1 DEF HashInv
<1>15. CacheInv'
  <2>1. f[N] = Opened(f[N].disk)
    BY <1>1, <1>2 DEF CacheInv
  <2>2. f'[N] = Opened(f'[N].disk)
    BY <1>4, <1>9, <1>10, <1>11, <2>1
  <2> QED BY <1>1, <1>11, <2>2 DEF CacheInv
<1> QED BY <1>11, <1>12, <1>13, <1>14, <1>15 DEF IInv

\* A step that changes nothing.
LEMMA StutterIInv == IInv /\ UNCHANGED vars => IInv'
<1> SUFFICES ASSUME IInv, UNCHANGED vars PROVE IInv'
  OBVIOUS
<1>1. UNCHANGED <<ifntfs, image, f, pc, mode, file, llReadSize, iSegIndex, llSectorDataReadSize, ctxSec,
                  ctx, salt, seen, damaged, fault>>
  BY DEF vars, hash
<1>2. TypeOK'
  BY <1>1 DEF IInv, TypeOK, N, Limit
<1>3. HandleInv'
  BY <1>1 DEF IInv, HandleInv, N
<1>4. SizeInv'
  BY <1>1 DEF IInv, SizeInv, Size, Grown, N
<1>5. HashInv'
  BY <1>1 DEF IInv, HashInv, Size, N, Limit, SampleStart, IsLast, Calculating
<1>6. CacheInv'
  BY <1>1 DEF IInv, CacheInv, Size, N
<1> QED BY <1>2, <1>3, <1>4, <1>5, <1>6 DEF IInv

\* Every step keeps the invariant.
LEMMA NextIInv == IInv /\ [Next]_vars => IInv'
BY CalculateIInv, PlaceholderIInv, ValidIInv, FileIInv, AllIInv, StaysIInv, SampleIInv, ReadFailsIInv,
   BreakIInv, SaltIInv, SaveIInv, CompareIInv, DamageIInv, StutterIInv DEF Next, Step, Done

\* The inductive invariant of ValidImageCheckValue and CalculateFileCheckValue holds in
\* every state: types, the files and the cache of the handle, where each loop stands.
THEOREM CheckValueInductive == Spec => []IInv
<1>1. Init => IInv
  BY InitIInv
<1>2. IInv /\ [Next]_vars => IInv'
  BY NextIInv
<1> QED BY <1>1, <1>2, PTL DEF Spec

\* The variables keep their types; what CalculateFileSHA256Value has read of a section
\* and what GetSaltValue has put together never outgrow their buffers.
THEOREM TypeCorrect == Spec => []TypeOK
<1>1. IInv => TypeOK
  BY DEF IInv
<1> QED BY <1>1, CheckValueInductive, PTL

\* A round of the loop over a small file that is not its last one has read a chunk.
LEMMA AllProgress ==
  ASSUME IInv, _CalFileSHA256Value, file' = file
  PROVE  llReadSize' > llReadSize /\ llReadSize' < Size(file)
<1> DEFINE r == NormalFileRead(f[file], llReadSize, ReadSize)
           n == Len(r.out)
<1>1. /\ pc = "all" /\ llReadSize' = llReadSize + n
      /\ IF GoesOn(n, llReadSize + n) THEN UNCHANGED <<file, pc>> ELSE NextFile
  BY DEF _CalFileSHA256Value
<1> HIDE DEF n
<1>2. file \in Nat /\ llReadSize \in Nat /\ N \in Nat \ {0}
  <2>1. file \in 1..N /\ llReadSize \in Nat /\ N \in Nat \ {0}
    BY <1>1, LoopFacts
  <2> QED BY <2>1
<1>3. GoesOn(n, llReadSize + n)
  BY <1>1, <1>2 DEF NextFile
<1>4. n = Chunk /\ llReadSize + n < Size(file)
  BY <1>3 DEF GoesOn
<1>5. Chunk \in Nat \ {0}
  BY ConstantFacts
<1> QED BY <1>1, <1>2, <1>4, <1>5

\* A round of the loop over the samples has read a chunk or is the last of a sample.
LEMMA SampleProgress ==
  ASSUME IInv, _CalculateFileSHA256ValueBySegData
  PROVE  iSegIndex' > iSegIndex \/ (llReadSize' > llReadSize /\ llReadSize' < Size(file))
<1> DEFINE r == NormalFileRead(f[file], llReadSize, Chunk)
           n == Len(r.out)
           done == llSectorDataReadSize + n >= Limit
<1>1. /\ pc = "sample" /\ iSegIndex' = IF done THEN iSegIndex + 1 ELSE iSegIndex
      /\ ~done => llReadSize' = llReadSize + n
  BY DEF _CalculateFileSHA256ValueBySegData
<1>2. r = NormalFileRead(f[file], llReadSize, Chunk)
  OBVIOUS
<1> HIDE DEF r
<1>3. /\ Tame(r.f) /\ r.f.disk = f[file].disk /\ Agrees(r.f)
      /\ r.out \in Seq(Nat) /\ n = Chunk
      /\ \A i \in 1..Chunk : r.out[i] = f[file].disk[llReadSize + i]
      /\ (ifntfs => Inside(r.f, llReadSize + Chunk))
      /\ llSectorDataReadSize \in Nat /\ llSectorDataReadSize + Chunk <= Limit
      /\ (llSectorDataReadSize + Chunk) % Chunk = 0
      /\ llReadSize + Chunk <= Size(file)
      /\ iSegIndex \in 0..SegNumber
      /\ iSegIndex # SegNumber => SampleStart(iSegIndex + 1) \in Nat
                                  /\ SampleStart(iSegIndex + 1) < Size(file)
      /\ llSectorDataReadSize + Chunk # Limit => llReadSize + Chunk < Size(file)
  BY <1>1, <1>2, SampleRead
<1>4. llReadSize \in Nat /\ Chunk \in Nat \ {0} /\ Limit \in Nat
  BY <1>1, LoopFacts, ConstantFacts
<1> HIDE DEF n
<1>5. CASE done
  BY <1>1, <1>3, <1>5
<1>6. CASE ~done
  <2>1. llSectorDataReadSize + Chunk # Limit
    BY <1>3, <1>4, <1>6
  <2>2. llReadSize' = llReadSize + Chunk
    BY <1>1, <1>3, <1>6
  <2> QED BY <1>3, <1>4, <2>1, <2>2
<1> QED BY <1>5, <1>6

\* Less than a check value is left only in an empty last file without placeholder.
LEMMA OnlyEmptyWraps ==
  ASSUME IInv, pc = "all", Wraps
  PROVE  NoRoom
<1>1. /\ HandleInv /\ HashInv /\ ifntfs \in BOOLEAN /\ pc \notin Ended /\ N \in Nat \ {0}
      /\ file \in 1..N /\ llReadSize \in Nat /\ Size(file) \in Nat
  BY LoopFacts
<1>2. /\ llReadSize % Chunk = 0 /\ (llReadSize # 0 => llReadSize < Size(file))
      /\ llReadSize <= Size(file) /\ (ifntfs => ReadSize >= 1)
  BY <1>1, AllFacts DEF HashInv
<1>3. /\ Page \in Nat \ {0} /\ Chunk \in Nat \ {0} /\ Val \in Nat \ {0}
      /\ Chunk % Page = 0 /\ Val < Page
  BY ConstantFacts
<1>4. ~ifntfs /\ file = N /\ Size(N) - llReadSize < Val
  BY <1>1, <1>2, <1>3 DEF Wraps, ReadSize, IsLast
<1>5. llReadSize % Page = 0
  BY <1>1, <1>2, <1>3, MultipleOf
<1> DEFINE n == Len(image[N])
<1>6. n \in Nat /\ n % Page = 0 /\ image[N] \in Seq(Nat) /\ (N = 1 => n > 0)
  BY <1>1, ImageFacts
<1>7. Size(N) = IF Grown THEN n + Val ELSE n
  BY <1>1 DEF IInv, SizeInv
<1> HIDE DEF n
<1>8. ASSUME llReadSize < n PROVE n - llReadSize >= Page
  BY <1>1, <1>3, <1>5, <1>6, <1>8, MultipleGap
<1>9. n <= llReadSize
  BY <1>1, <1>3, <1>4, <1>6, <1>7, <1>8
<1>10. ASSUME n < llReadSize PROVE FALSE
  <2>1. llReadSize - n >= Page
    BY <1>1, <1>3, <1>5, <1>6, <1>10, MultipleGap
  <2> QED BY <1>1, <1>2, <1>3, <1>4, <1>6, <1>7, <2>1
<1>11. ~Grown /\ n = 0
  BY <1>1, <1>2, <1>3, <1>4, <1>6, <1>7, <1>9, <1>10
<1>12. image[N] = <<>> /\ N # 1
  BY <1>6, <1>11 DEF n
<1>13. "write" \in fault
  BY <1>4, <1>11 DEF Grown
<1> QED BY <1>1, <1>4, <1>12, <1>13 DEF NoRoom

\* Only FileRead stays.
LEMMA OnlyReadStays ==
  ASSUME IInv, Next, pc \in {"all", "sample"}, pc' = "hung"
  PROVE  NoRoom
<1>1. FileReadStays
  <2>1. /\ ~_CalFileSHA256Value /\ ~_CalculateFileSHA256ValueBySegData /\ ~HashReadFails
        /\ ~UserBreak /\ ~Done
    BY DEF _CalFileSHA256Value, _CalculateFileSHA256ValueBySegData, HashReadFails, UserBreak,
           Refuse, NextFile, Done, Ended
  <2>2. /\ ~CalculateFileCheckValue /\ ~SaveZeroDataToFileEndForCheckValue /\ ~ValidImageCheckValue
        /\ ~CalculateFileSHA256Value /\ ~GetSaltValue /\ ~SaveFileCheckValue /\ ~GetFileCheckValue
        /\ ~Damage
    BY DEF CalculateFileCheckValue, SaveZeroDataToFileEndForCheckValue, ValidImageCheckValue,
           CalculateFileSHA256Value, GetSaltValue, SaveFileCheckValue, GetFileCheckValue, Damage
  <2> QED BY <2>1, <2>2 DEF Next, Step
<1> QED BY <1>1, OnlyEmptyWraps DEF FileReadStays

\* Every round that is followed by another one has gone on.
LEMMA NextGoesOn ==
  ASSUME IInv, Next, pc \in {"all", "sample"}, pc' = pc, file' = file
  PROVE  iSegIndex' > iSegIndex \/ (llReadSize' > llReadSize /\ llReadSize' < Size(file))
<1>1. CASE _CalFileSHA256Value
  BY <1>1, AllProgress
<1>2. CASE _CalculateFileSHA256ValueBySegData
  BY <1>2, SampleProgress
<1>3. CASE HashReadFails
  <2>1. file' = file + 1
    BY <1>3 DEF HashReadFails, NextFile
  <2>2. file \in 1..N /\ N \in Nat \ {0}
    BY LoopFacts
  <2> QED BY <2>1, <2>2
<1>4. ~UserBreak /\ ~FileReadStays
  BY DEF UserBreak, FileReadStays, Refuse
<1>5. ~Done
  BY DEF Done, Ended
<1>6. /\ ~CalculateFileCheckValue /\ ~SaveZeroDataToFileEndForCheckValue /\ ~ValidImageCheckValue
      /\ ~CalculateFileSHA256Value /\ ~GetSaltValue /\ ~SaveFileCheckValue /\ ~GetFileCheckValue /\ ~Damage
  BY DEF CalculateFileCheckValue, SaveZeroDataToFileEndForCheckValue, ValidImageCheckValue,
         CalculateFileSHA256Value, GetSaltValue, SaveFileCheckValue, GetFileCheckValue, Damage
<1> QED BY <1>1, <1>2, <1>3, <1>4, <1>5, <1>6 DEF Next, Step

\* _CalFileSHA256Value and _CalculateFileSHA256ValueBySegData end: a round that is
\* followed by another one of the same file has gone on in the file or to the next
\* of SegNumber + 1 samples; and each round ends, but for the one over an empty last
\* file on FAT that has no room for the check value.
THEOREM LoopsAdvance == Spec => HashProgress
<1>1. IInv /\ [Next]_vars => [Progress]_vars
  BY NextGoesOn, OnlyReadStays DEF Progress, GoesOnward
<1> QED BY <1>1, CheckValueInductive, PTL DEF Spec, HashProgress

-----------------------------------------------------------------------------
(***************************************************************************)
(* What the files hold.                                                    *)
(***************************************************************************)

\* A handle whose file is the same.
LEMMA DiskSet ==
  ASSUME HandleInv, NEW i \in 1..N, NEW g, g.disk = f[i].disk, f' = [f EXCEPT ![i] = g]
  PROVE  \A j \in 1..N : f'[j].disk = f[j].disk
<1>1. f \in [1..N -> Handle]
  BY DEF HandleInv
<1>2. f'[i] = g /\ \A j \in 1..N : j # i => f'[j] = f[j]
  BY <1>1
<1> QED BY <1>2

\* The steps that leave the files alone: opening the last one,
LEMMA BeginDisks ==
  ASSUME IInv, NEW m, Begin(m)
  PROVE  \A j \in 1..N : f'[j].disk = f[j].disk
<1>1. HandleInv /\ N \in 1..N
  BY ImageFacts DEF IInv
<1> DEFINE g == Opened(f[N].disk)
<1>2. f' = [f EXCEPT ![N] = g] /\ g.disk = f[N].disk
  BY DEF Begin, Opened
<1> HIDE DEF g
<1> QED BY <1>1, <1>2, DiskSet

\* beginning the next one,
LEMMA FileDisks ==
  ASSUME IInv, CalculateFileSHA256Value, pc' \notin Ended
  PROVE  \A j \in 1..N : f'[j].disk = f[j].disk
<1>1. ~Refuse
  BY DEF Refuse, Ended
<1>2. HandleInv /\ file \in 1..N
  <2>1. HandleInv /\ N \in Nat \ {0} /\ file \in 1..(N + 1) /\ file <= N
    BY ImageFacts DEF IInv, TypeOK, HashInv, CalculateFileSHA256Value
  <2> QED BY <2>1
<1> DEFINE g == Opened(f[file].disk)
<1>3. f' = [f EXCEPT ![file] = g] \/ f' = f
  BY <1>1 DEF CalculateFileSHA256Value
<1>4. g.disk = f[file].disk
  BY DEF Opened
<1> HIDE DEF g
<1> QED BY <1>2, <1>3, <1>4, DiskSet

\* a round over the whole file,
LEMMA AllDisks ==
  ASSUME IInv, _CalFileSHA256Value
  PROVE  \A j \in 1..N : f'[j].disk = f[j].disk
<1> DEFINE r == NormalFileRead(f[file], llReadSize, ReadSize)
<1>1. pc = "all" /\ f' = [f EXCEPT ![file] = r.f] /\ r = NormalFileRead(f[file], llReadSize, ReadSize)
  BY DEF _CalFileSHA256Value
<1> HIDE DEF r
<1>2. /\ Tame(r.f) /\ r.f.disk = f[file].disk /\ Agrees(r.f)
      /\ r.out \in Seq(Nat) /\ Len(r.out) = IF ReadSize > 0 THEN ReadSize ELSE 0
      /\ Len(r.out) \in 0..Chunk
      /\ \A i \in 1..Len(r.out) : r.out[i] = f[file].disk[llReadSize + i]
  BY <1>1, AllRead
<1>3. HandleInv /\ file \in 1..N
  BY <1>1, LoopFacts
<1> QED BY <1>1, <1>2, <1>3, DiskSet

\* a round over the samples,
LEMMA SampleDisks ==
  ASSUME IInv, _CalculateFileSHA256ValueBySegData
  PROVE  \A j \in 1..N : f'[j].disk = f[j].disk
<1> DEFINE r == NormalFileRead(f[file], llReadSize, Chunk)
<1>1. pc = "sample" /\ f' = [f EXCEPT ![file] = r.f] /\ r = NormalFileRead(f[file], llReadSize, Chunk)
  BY DEF _CalculateFileSHA256ValueBySegData
<1> HIDE DEF r
<1>2. /\ Tame(r.f) /\ r.f.disk = f[file].disk /\ Agrees(r.f)
      /\ r.out \in Seq(Nat) /\ Len(r.out) = Chunk
      /\ \A i \in 1..Chunk : r.out[i] = f[file].disk[llReadSize + i]
      /\ (ifntfs => Inside(r.f, llReadSize + Chunk))
      /\ llSectorDataReadSize \in Nat /\ llSectorDataReadSize + Chunk <= Limit
      /\ (llSectorDataReadSize + Chunk) % Chunk = 0
      /\ llReadSize + Chunk <= Size(file)
      /\ iSegIndex \in 0..SegNumber
      /\ iSegIndex # SegNumber => SampleStart(iSegIndex + 1) \in Nat
                                  /\ SampleStart(iSegIndex + 1) < Size(file)
      /\ llSectorDataReadSize + Chunk # Limit => llReadSize + Chunk < Size(file)
  BY <1>1, SampleRead
<1>3. HandleInv /\ file \in 1..N
  BY <1>1, LoopFacts
<1> QED BY <1>1, <1>2, <1>3, DiskSet

\* a read error,
LEMMA FailsDisks ==
  ASSUME IInv, HashReadFails
  PROVE  \A j \in 1..N : f'[j].disk = f[j].disk
<1> DEFINE r == Align([f |-> [f[file] EXCEPT !.filepos = llReadSize],
                       out |-> <<>>, n |-> Chunk, stop |-> FALSE])
           c == r.f.cachedatapos
           g == [f[file] EXCEPT !.cachedatapos = c]
<1>1. /\ pc \in {"all", "sample"}
      /\ f' = [f EXCEPT ![file] = g] \/ f' = f
  BY DEF HashReadFails
<1> HIDE DEF c
<1>2. HandleInv /\ file \in 1..N
  BY <1>1, LoopFacts
<1>3. f[file] \in Handle
  BY <1>2 DEF HandleInv
<1>4. g.disk = f[file].disk
  BY <1>3 DEF Handle
<1> HIDE DEF g
<1> QED BY <1>1, <1>2, <1>4, DiskSet

\* and reading the salt.
LEMMA SaltDisks ==
  ASSUME IInv, GetSaltValue, pc' \notin Ended
  PROVE  \A j \in 1..N : f'[j].disk = f[j].disk
<1> DEFINE a == NormalFileRead(IF N > 1 THEN Opened(f[1].disk) ELSE f[1], Size(1) \div 2, Val)
           b == NormalFileRead(a.f, Size(1) \div 3, 1)
<1>1. pc = "salt" /\ f' = [f EXCEPT ![1] = b.f]
  BY DEF GetSaltValue, Refuse, Ended
<1>2. /\ a = NormalFileRead(IF N > 1 THEN Opened(f[1].disk) ELSE f[1], Size(1) \div 2, Val)
      /\ b = NormalFileRead(a.f, Size(1) \div 3, 1)
  OBVIOUS
<1> HIDE DEF a, b
<1>3. /\ Tame(b.f) /\ Agrees(b.f) /\ b.f.disk = f[1].disk /\ f[1].disk \in Seq(Nat)
      /\ Size(1) \in Nat /\ Size(1) = Len(f[1].disk) /\ Size(1) >= Page
      /\ a.out = Slice(f[1].disk, Size(1) \div 2, Val) /\ b.out = Slice(f[1].disk, Size(1) \div 3, 1)
  BY <1>1, <1>2, SaltRead
<1>4. HandleInv /\ 1 \in 1..N
  BY ImageFacts DEF IInv
<1> QED BY <1>1, <1>3, <1>4, DiskSet

\* Only the placeholder, the check value and the rot change a file.
LEMMA DisksKept ==
  ASSUME IInv, Next, pc' \notin Ended, pc \notin {"placeholder", "save"}, ~Damage
  PROVE  \A i \in 1..N : f'[i].disk = f[i].disk
<1>1. CASE CalculateFileCheckValue \/ ValidImageCheckValue
  BY <1>1, BeginDisks DEF CalculateFileCheckValue, ValidImageCheckValue
<1>2. /\ ~SaveZeroDataToFileEndForCheckValue /\ ~SaveFileCheckValue /\ ~UserBreak
      /\ ~FileReadStays /\ ~GetFileCheckValue /\ ~Done
  BY DEF SaveZeroDataToFileEndForCheckValue, SaveFileCheckValue, UserBreak,
      FileReadStays, Refuse, GetFileCheckValue,
         Done, Ended, vars
<1> QED BY <1>1, <1>2, FileDisks, AllDisks, SampleDisks, FailsDisks, SaltDisks DEF Next, Step

\* What no step changes, and what it only adds to.
LEMMA NextFrame ==
  ASSUME IInv, Next, pc' \notin Ended
  PROVE  /\ UNCHANGED <<ifntfs, image>> /\ N' = N /\ fault \subseteq fault' /\ pc \notin Ended
         /\ Calculating' => Calculating
         /\ ~Damage => damaged' = damaged
<1>1. ~Done /\ ~UserBreak /\ ~FileReadStays /\ ~GetFileCheckValue
  BY DEF Done, UserBreak, FileReadStays, Refuse, GetFileCheckValue, Ended, vars
<1>2. pc = "written" => mode = "calculate"
  BY DEF IInv, HashInv
<1>3. CASE CalculateFileCheckValue
  BY <1>2, <1>3 DEF CalculateFileCheckValue, Begin, N, Calculating, Ended
<1>4. CASE ValidImageCheckValue
  BY <1>4 DEF ValidImageCheckValue, Begin, N, Calculating, Ended
<1>5. CASE SaveZeroDataToFileEndForCheckValue
  BY <1>5 DEF SaveZeroDataToFileEndForCheckValue, N, Calculating, Ended
<1>6. CASE CalculateFileSHA256Value
  BY <1>6 DEF CalculateFileSHA256Value, N, Calculating, Ended
<1>7. CASE _CalFileSHA256Value
  BY <1>7 DEF _CalFileSHA256Value, N, Calculating, Ended
<1>8. CASE _CalculateFileSHA256ValueBySegData
  BY <1>8 DEF _CalculateFileSHA256ValueBySegData, N, Calculating, Ended
<1>9. CASE HashReadFails
  BY <1>9 DEF HashReadFails, N, Calculating, Ended
<1>10. CASE GetSaltValue
  BY <1>10 DEF GetSaltValue, N, Calculating, Ended
<1>11. CASE SaveFileCheckValue
  BY <1>11 DEF SaveFileCheckValue, Refuse, N, Calculating, Ended
<1>12. CASE Damage
  BY <1>12 DEF Damage, N, Calculating, Ended
<1> QED BY <1>1, <1>3, <1>4, <1>5, <1>6, <1>7, <1>8, <1>9, <1>10, <1>11, <1>12 DEF Next, Step

\* The bytes that are kept are in the image and in the file.
LEMMA KeptFacts ==
  ASSUME IInv, pc \notin Ended, NEW i \in 1..N
  PROVE  Kept(i) \in Int /\ Kept(i) <= Len(image[i]) /\ Len(image[i]) <= Size(i) /\ Size(i) \in Nat
         /\ Len(image[i]) \in Nat
<1>1. HandleInv /\ Val \in Nat
  BY ConstantFacts DEF IInv
<1>2. Len(image[i]) \in Nat
  BY <1>1, ImageFacts
<1>3. Size(i) \in Nat /\ Size(i) >= Len(image[i])
  <2>1. /\ Size(i) \in Nat
        /\ Size(i) = Len(image[i]) \/ (i = N /\ ~ifntfs /\ Size(i) = Len(image[i]) + Val)
    BY SizeFacts
  <2> QED BY <1>1, <1>2, <2>1
<1>4. Kept(i) = Len(image[i]) \/ Kept(i) = Len(image[i]) - Val
  <2> DEFINE v == IF i = N /\ (ifntfs \/ "write" \in fault) THEN Val ELSE 0
  <2>1. Kept(i) = Len(image[i]) - v
    BY DEF Kept
  <2>2. v = 0 \/ v = Val
    OBVIOUS
  <2> HIDE DEF v
  <2> QED BY <1>1, <1>2, <2>1, <2>2
<1> HIDE DEF Kept
<1> QED BY <1>1, <1>2, <1>3, <1>4

\* They become fewer when the placeholder cannot be written, never more.
LEMMA KeptShrinks ==
  ASSUME IInv, pc \notin Ended, UNCHANGED <<ifntfs, image>>, N' = N, fault \subseteq fault', NEW i \in 1..N
  PROVE  Kept(i)' \in Int /\ Kept(i)' <= Kept(i)
<1>1. Len(image[i]) \in Nat /\ Val \in Nat
  BY KeptFacts, ConstantFacts
<1> QED BY <1>1 DEF Kept

\* The data of the files, before and after anything rots.
KeptInv == \A i \in 1..N : \A j \in 1..Kept(i) : f[i].disk[j] = image[i][j]
RotInv ==
  \A x \in damaged : /\ x[1] \in 1..N /\ x[2] \in 0..(DataLen(x[1]) - 1)
                     /\ f[x[1]].disk[x[2] + 1] = 0

\* The files are what Backup wrote.
LEMMA InitData == Init => DataInv
<1> SUFFICES ASSUME Init PROVE DataInv
  OBVIOUS
<1>1. IInv
  BY InitIInv
<1>2. damaged = {} /\ f = [i \in 1..N |-> Opened(image[i])] /\ pc \notin Ended
  BY DEF Init, Ended
<1>3. ASSUME NEW i \in 1..N PROVE f[i].disk = image[i]
  BY <1>2 DEF Opened
<1> QED BY <1>2, <1>3 DEF DataInv

\* The bytes that are kept stay what they are, if nothing rots.
LEMMA KeptStep ==
  ASSUME IInv, DataInv, Next, pc' \notin Ended, ~Damage,
         \A i \in 1..N : \A j \in 1..Kept(i) : (j \in 1..Kept(i)') => f'[i].disk[j] = f[i].disk[j]
  PROVE  damaged' = {} => KeptInv'
<1> SUFFICES ASSUME damaged' = {} PROVE KeptInv'
  OBVIOUS
<1>1. /\ UNCHANGED <<ifntfs, image>> /\ N' = N /\ fault \subseteq fault' /\ pc \notin Ended
      /\ Calculating' => Calculating
      /\ ~Damage => damaged' = damaged
  BY NextFrame
<1>2. KeptInv
  BY <1>1 DEF DataInv, KeptInv
<1>3. ASSUME NEW i \in 1..N, NEW j \in 1..Kept(i)' PROVE f'[i].disk[j] = image[i][j]
  <2> DEFINE k == Kept(i)
             l == Kept(i)'
  <2>1. k \in Int /\ l \in Int /\ l <= k
    BY <1>1, KeptFacts, KeptShrinks
  <2>2. j \in 1..l
    OBVIOUS
  <2> HIDE DEF k, l
  <2>3. j \in 1..k
    BY <2>1, <2>2
  <2>4. f'[i].disk[j] = f[i].disk[j]
    BY <2>2, <2>3 DEF k, l
  <2> QED BY <1>2, <2>3, <2>4 DEF KeptInv, k
<1> QED BY <1>1, <1>3 DEF KeptInv

\* No file changes.
LEMMA SameData ==
  ASSUME IInv, DataInv, Next, pc' \notin Ended, ~Damage, \A i \in 1..N : f'[i].disk = f[i].disk
  PROVE  DataInv'
<1>1. /\ UNCHANGED <<ifntfs, image>> /\ N' = N /\ fault \subseteq fault' /\ pc \notin Ended
      /\ Calculating' => Calculating
      /\ ~Damage => damaged' = damaged
  BY NextFrame
<1>2. damaged' = {} => KeptInv'
  BY KeptStep
<1>3. RotInv
  BY <1>1 DEF DataInv, RotInv
<1>4. \A i \in 1..N : DataLen(i)' = DataLen(i)
  BY <1>1 DEF DataLen, Size
<1>5. RotInv'
  BY <1>1, <1>3, <1>4 DEF RotInv
<1>6. Calculating' => damaged' = {}
  BY <1>1 DEF DataInv
<1> QED BY <1>2, <1>5, <1>6 DEF DataInv, KeptInv, RotInv

\* The placeholder is behind the image.
LEMMA PlaceholderData ==
  ASSUME IInv, DataInv, SaveZeroDataToFileEndForCheckValue PROVE DataInv'
<1> DEFINE d == [i \in 1..Val |-> 0]
<1>1. /\ pc = "placeholder" /\ pc' = "file" /\ pc \notin Ended /\ pc' \notin Ended
      /\ f' = [f EXCEPT ![N] = NormalFileWrite(f[N], Size(N), d)] \/ f' = f
  BY DEF SaveZeroDataToFileEndForCheckValue, Ended
<1>2. Next /\ ~Damage
  BY <1>1 DEF Next, Step, Damage
<1>3. /\ UNCHANGED <<ifntfs, image>> /\ N' = N /\ fault \subseteq fault' /\ pc \notin Ended
      /\ Calculating' => Calculating
      /\ ~Damage => damaged' = damaged
  BY <1>1, <1>2, NextFrame
<1>4. HandleInv /\ CacheInv /\ ifntfs \in BOOLEAN /\ mode = "calculate"
  BY <1>1 DEF IInv, TypeOK, HashInv
<1>5. N \in 1..N /\ f \in [1..N -> Handle]
  BY <1>4, ImageFacts DEF HandleInv
<1>6. damaged = {}
  BY <1>1, <1>4 DEF DataInv, Calculating
<1>7. ASSUME NEW i \in 1..N, NEW j \in 1..Kept(i) PROVE f'[i].disk[j] = f[i].disk[j]
  <2>1. CASE f' = f \/ i # N
    BY <1>1, <1>5, <2>1
  <2>2. CASE f' # f /\ i = N
    <3> DEFINE o == f[N]
               p == Size(N)
               w == NormalFileWrite(o, p, d)
    <3>1. f'[N] = w
      BY <1>1, <1>5, <2>2
    <3>2. d \in Seq(Nat) /\ Len(d) = Val /\ Len(d) < CacheSize
      BY ConstantFacts
    <3>3. Tame(o) /\ Agrees(o) /\ o.disk \in Seq(Nat) /\ p = Len(o.disk) /\ p \in Nat
      <4>1. Tame(o) /\ o.disk \in Seq(Nat)
        BY <1>4, <1>5, HandleAt, TameFields
      <4>2. o = Opened(o.disk)
        BY <1>1, <1>4 DEF CacheInv
      <4>3. Agrees(o)
        BY <4>1, <4>2, OpenedFacts
      <4> QED BY <4>1, <4>3 DEF Size
    <3>4. Kept(i) \in Int /\ Kept(i) <= p
      <4>1. Kept(i) \in Int /\ Kept(i) <= Len(image[i]) /\ Len(image[i]) <= Size(i) /\ Size(i) \in Nat
            /\ Len(image[i]) \in Nat
        BY <1>1, KeptFacts
      <4> QED BY <2>2, <4>1
    <3> HIDE DEF d, o, p
    <3>5. \E k \in 0..Len(d) : NormalFileWrite(o, p, d).disk = Overwrite(o.disk, p, SubSeq(d, 1, k))
      BY <1>4, <3>2, <3>3, WriteDisk
    <3>6. PICK k \in 0..Len(d) : w.disk = Overwrite(o.disk, p, SubSeq(d, 1, k))
      BY <3>5
    <3> HIDE DEF w
    <3>7. SubSeq(d, 1, k) \in Seq(Nat)
      BY <3>2
    <3>8. j \in 1..p /\ j <= Len(o.disk)
      BY <3>3, <3>4
    <3> DEFINE t == w.disk
               s == o.disk
               e == SubSeq(d, 1, k)
    <3>10. /\ s \in Seq(Nat) /\ p \in Nat /\ e \in Seq(Nat) /\ t = Overwrite(s, p, e)
           /\ j \in 1..p /\ j <= Len(s)
      BY <3>3, <3>6, <3>7, <3>8
    <3>9. w.disk[j] = o.disk[j]
      <4> HIDE DEF t, s, e
      <4>1. t[j] = s[j]
        BY <3>10, OverwriteKeeps
      <4> QED BY <4>1 DEF t, s
    <3> QED BY <2>2, <3>1, <3>9 DEF o
  <2> QED BY <2>1, <2>2
<1>8. damaged' = {} => KeptInv'
  BY <1>1, <1>2, <1>7, KeptStep
<1> QED BY <1>2, <1>3, <1>6, <1>8 DEF DataInv, KeptInv

\* The file after the check value was written.
SavedAs(s) ==
  /\ s \in Seq(Nat) /\ f' = [f EXCEPT ![N] = Opened(s)]
  /\ Len(s) = IF Size(N) = 0 THEN Val ELSE Size(N)
  /\ \A i \in 1..ValuePos : i <= Size(N) => s[i] = f[N].disk[i]
  /\ fault' = {} => \A j \in 1..Val : s[ValuePos + j] = 10000 + j

\* The check value is written where the bytes that are kept end.
LEMMA SavedFile ==
  ASSUME IInv, SaveFileCheckValue, pc' = "calculated"
  PROVE  \E s : SavedAs(s)
<1>1. \E m \in 0..Val :
        /\ ~ifntfs \/ fault' = {} => m = Val
        /\ f' = [f EXCEPT ![N] = Opened(Overwrite(f[N].disk, ValuePos, SubSeq(Bytes, 1, m)))]
  BY SaveEffect
<1>2. PICK m \in 0..Val :
        /\ ~ifntfs \/ fault' = {} => m = Val
        /\ f' = [f EXCEPT ![N] = Opened(Overwrite(f[N].disk, ValuePos, SubSeq(Bytes, 1, m)))]
  BY <1>1
<1> DEFINE s == Overwrite(f[N].disk, ValuePos, SubSeq(Bytes, 1, m))
<1>3. s = Overwrite(f[N].disk, ValuePos, SubSeq(Bytes, 1, m)) /\ f' = [f EXCEPT ![N] = Opened(s)]
  BY <1>2
<1>4. pc = "save" /\ (~ifntfs => m = Val)
  BY <1>2 DEF SaveFileCheckValue
<1> HIDE DEF s
<1>5. /\ s \in Seq(Nat) /\ Len(s) = IF Size(N) = 0 THEN Val ELSE Size(N)
      /\ \A i \in 1..ValuePos : i <= Size(N) => s[i] = f[N].disk[i]
      /\ \A j \in 1..m : s[ValuePos + j] = 10000 + j
  BY <1>3, <1>4, SaveSize
<1>6. fault' = {} => \A j \in 1..Val : s[ValuePos + j] = 10000 + j
  BY <1>2, <1>5
<1>7. SavedAs(s)
  BY <1>3, <1>5, <1>6 DEF SavedAs
<1> QED BY <1>7

\* The check value is behind what is kept.
LEMMA SaveData ==
  ASSUME IInv, DataInv, SaveFileCheckValue, pc' \notin Ended PROVE DataInv'
<1>1. pc = "save" /\ pc' = "calculated" /\ pc \notin Ended /\ Next /\ ~Damage
  BY DEF SaveFileCheckValue, Refuse, Ended, Next, Step, Damage
<1>2. /\ UNCHANGED <<ifntfs, image>> /\ N' = N /\ fault \subseteq fault' /\ pc \notin Ended
      /\ Calculating' => Calculating
      /\ ~Damage => damaged' = damaged
  BY <1>1, NextFrame
<1>3. /\ N \in 1..N /\ Tame(f[N]) /\ Agrees(f[N]) /\ f[N].disk \in Seq(Nat)
      /\ Size(N) \in Nat /\ Size(N) = Len(f[N].disk)
      /\ ValuePos \in Nat /\ ifntfs \in BOOLEAN
      /\ Size(N) # 0 => ValuePos + Val = Size(N)
      /\ Size(N) = 0 => ValuePos = 0 /\ ~ifntfs /\ image[N] = <<>>
  BY <1>1, PosFacts
<1>4. PICK s : SavedAs(s)
  BY <1>1, SavedFile
<1>5. /\ f' = [f EXCEPT ![N] = Opened(s)]
      /\ \A i \in 1..ValuePos : i <= Size(N) => s[i] = f[N].disk[i]
  BY <1>4 DEF SavedAs
<1>6. f'[N].disk = s /\ \A j \in 1..N : j # N => f'[j] = f[j]
  <2>1. f \in [1..N -> Handle]
    BY DEF IInv, HandleInv
  <2> DEFINE g == Opened(s)
  <2>2. f' = [f EXCEPT ![N] = g] /\ g.disk = s
    BY <1>5 DEF Opened
  <2> HIDE DEF g
  <2> QED BY <1>3, <2>1, <2>2
<1>7. damaged = {}
  <2>1. Calculating
    BY <1>1 DEF IInv, HashInv, Calculating
  <2> QED BY <1>1, <2>1 DEF DataInv
<1>8. Kept(N) <= ValuePos /\ Kept(N) <= Size(N) /\ Kept(N) \in Int
  <2>1. Kept(N) \in Int /\ Kept(N) <= Len(image[N]) /\ Len(image[N]) <= Size(N) /\ Size(N) \in Nat
        /\ Len(image[N]) \in Nat
    BY <1>1, <1>3, KeptFacts
  <2>2. CASE Size(N) = 0
    BY <1>3, <2>1, <2>2
  <2>3. CASE Size(N) # 0
    <3>1. Val \in Nat /\ ValuePos = Size(N) - Val
      BY <1>3, <2>3, ConstantFacts
    <3>2. HandleInv /\ SizeInv
      BY DEF IInv
    <3>3. Size(N) = IF Grown THEN Len(image[N]) + Val ELSE Len(image[N])
      BY <1>1, <3>2 DEF SizeInv
    <3>4. CASE Grown
      BY <1>3, <2>1, <3>1, <3>3, <3>4
    <3>5. CASE ~Grown
      <4>1. ifntfs \/ "write" \in fault
        BY <1>1, <3>5 DEF Grown
      <4>2. Kept(N) = Len(image[N]) - Val
        BY <4>1 DEF Kept
      <4> QED BY <2>1, <3>1, <3>3, <3>5, <4>2
    <3> QED BY <3>4, <3>5
  <2> QED BY <2>2, <2>3
<1>9. ASSUME NEW i \in 1..N, NEW j \in 1..Kept(i) PROVE f'[i].disk[j] = f[i].disk[j]
  <2>1. CASE i = N
    <3> DEFINE k == Kept(N)
               v == ValuePos
    <3>1. j \in 1..k /\ k <= v /\ k <= Size(N) /\ k \in Int
      BY <1>8, <2>1
    <3>2. v \in Nat /\ Size(N) \in Nat
      BY <1>3
    <3> HIDE DEF k, v
    <3>3. j \in 1..v /\ j <= Size(N)
      BY <3>1, <3>2
    <3>4. s[j] = f[N].disk[j]
      BY <1>5, <3>3 DEF v
    <3> QED BY <1>6, <2>1, <3>4
  <2>2. CASE i # N
    BY <1>6, <2>2
  <2> QED BY <2>1, <2>2
<1>10. damaged' = {} => KeptInv'
  BY <1>1, <1>9, KeptStep
<1> QED BY <1>2, <1>1, <1>7, <1>10 DEF DataInv, KeptInv

\* One byte of the image is 0.
LEMMA DamageData == ASSUME IInv, DataInv, Damage PROVE DataInv'
<1>1. /\ pc = "calculated" /\ UNCHANGED <<ifntfs, image, pc, mode, seen, fault>> /\ ~Calculating'
  BY DEF Damage, Calculating
<1>2. PICK i \in 1..N : \E j \in 1..DataLen(i) :
         /\ j \in Nat /\ j <= Size(i) /\ damaged' = {<<i, j - 1>>}
         /\ f' = [f EXCEPT ![i] = [f[i] EXCEPT !.disk = [f[i].disk EXCEPT ![j] = 0]]]
  BY DamageEffect
<1>3. PICK j \in 1..DataLen(i) :
         /\ j \in Nat /\ j <= Size(i) /\ damaged' = {<<i, j - 1>>}
         /\ f' = [f EXCEPT ![i] = [f[i] EXCEPT !.disk = [f[i].disk EXCEPT ![j] = 0]]]
  BY <1>2
<1> DEFINE o == f[i]
           s == [o.disk EXCEPT ![j] = 0]
           g == [o EXCEPT !.disk = s]
<1>4. f \in [1..N -> Handle] /\ HandleInv
  BY DEF IInv, HandleInv
<1>5. o \in Handle /\ o.disk \in Seq(Nat) /\ Len(o.disk) = Size(i) /\ N' = N
  BY <1>1, <1>4 DEF Handle, Size, N
<1>6. s \in Seq(Nat) /\ Len(s) = Len(o.disk) /\ s[j] = 0
  <2>1. j \in 1..Len(o.disk)
    BY <1>3, <1>5
  <2> QED BY <1>5, <2>1, SetAt
<1>7. f' = [f EXCEPT ![i] = g] /\ g = [o EXCEPT !.disk = s]
  BY <1>3
<1> HIDE DEF s, o, g
<1>8. g.disk = s
  BY <1>5, <1>7 DEF Handle
<1>9. f'[i].disk = s /\ \A k \in 1..N : k # i => f'[k] = f[k]
  BY <1>4, <1>7, <1>8
<1>10. Size(i)' = Size(i)
  BY <1>5, <1>6, <1>9 DEF Size
<1>11. DataLen(i)' = DataLen(i) /\ DataLen(i) \in Int
  <2>1. pc \notin Ended /\ Val \in Nat
    BY <1>1, ConstantFacts DEF Ended
  <2>2. Size(i) \in Nat
    BY <1>5
  <2> QED BY <1>5, <1>10, <2>1, <2>2 DEF DataLen
<1>12. ASSUME NEW x \in damaged'
       PROVE  x[1] \in 1..N /\ x[2] \in 0..(DataLen(x[1])' - 1) /\ f'[x[1]].disk[x[2] + 1] = 0
  <2>1. x[1] = i /\ x[2] = j - 1
    BY <1>3
  <2>2. j - 1 \in 0..(DataLen(i) - 1) /\ (j - 1) + 1 = j
    BY <1>3, <1>11
  <2> QED BY <1>6, <1>9, <1>11, <2>1, <2>2
<1>13. damaged' # {}
  BY <1>3
<1> QED BY <1>1, <1>5, <1>12, <1>13 DEF DataInv

\* A step that changes nothing.
LEMMA StutterData == IInv /\ DataInv /\ UNCHANGED vars => DataInv'
BY DEF DataInv, vars, Calculating, Kept, DataLen, Size, N, hash

\* Every step keeps the data.
LEMMA NextData == IInv /\ DataInv /\ [Next]_vars => DataInv'
<1> SUFFICES ASSUME IInv, DataInv, Next, pc' \notin Ended PROVE DataInv'
  BY StutterData DEF DataInv
<1>1. CASE Damage
  BY <1>1, DamageData
<1>2. CASE pc = "placeholder"
  <2>1. SaveZeroDataToFileEndForCheckValue
    BY <1>2 DEF Next, Step, CalculateFileCheckValue, ValidImageCheckValue, CalculateFileSHA256Value,
       _CalFileSHA256Value, _CalculateFileSHA256ValueBySegData, HashReadFails, UserBreak,
           FileReadStays, GetSaltValue,
       SaveFileCheckValue, GetFileCheckValue, Damage, Done, Ended
  <2> QED BY <2>1, PlaceholderData
<1>3. CASE pc = "save"
  <2>1. SaveFileCheckValue
    BY <1>3 DEF Next, Step, CalculateFileCheckValue, ValidImageCheckValue, CalculateFileSHA256Value,
       _CalFileSHA256Value, _CalculateFileSHA256ValueBySegData, HashReadFails, UserBreak,
           FileReadStays, GetSaltValue,
       SaveZeroDataToFileEndForCheckValue, GetFileCheckValue, Damage, Done, Ended
  <2> QED BY <2>1, SaveData
<1>4. CASE pc \notin {"placeholder", "save"} /\ ~Damage
  BY <1>4, DisksKept, SameData
<1> QED BY <1>1, <1>2, <1>3, <1>4

\* What the files hold, in every state: SaveZeroDataToFileEndForCheckValue and
\* SaveFileCheckValue write the last Val bytes of the last file and nothing else.
THEOREM DataInductive == Spec => []DataInv
<1>1. Init => DataInv
  BY InitData
<1>2. IInv /\ DataInv /\ [Next]_vars => DataInv'
  BY NextData
<1> QED BY <1>1, <1>2, CheckValueInductive, PTL DEF Spec

\* Every byte of a slice is one of the file.
LEMMA SliceAll ==
  ASSUME NEW s \in Seq(Nat), NEW p \in Nat, NEW n \in Int, NEW b, b = Slice(s, p, n)
  PROVE  \A i \in 1..Len(b) : b[i] = s[p + i]
BY SliceAt

\* Equal bytes make equal slices.
LEMMA SliceEqual ==
  ASSUME NEW s \in Seq(Nat), NEW t \in Seq(Nat), NEW p \in Nat, NEW n \in Int,
         n <= 0 \/ (p + n <= Len(s) /\ p + n <= Len(t)),
         \A j \in 1..(p + n) : p < j => s[j] = t[j]
  PROVE  Slice(s, p, n) = Slice(t, p, n)
<1> DEFINE a == Slice(s, p, n)
           b == Slice(t, p, n)
<1>1. a = Slice(s, p, n) /\ b = Slice(t, p, n)
  OBVIOUS
<1> HIDE DEF a, b
<1>2. /\ a \in Seq(Nat) /\ Len(a) \in Nat
      /\ Len(a) = IF p >= Len(s) \/ n <= 0 THEN 0 ELSE IF p + n < Len(s) THEN n ELSE Len(s) - p
  BY <1>1, SliceFacts
<1>3. /\ b \in Seq(Nat) /\ Len(b) \in Nat
      /\ Len(b) = IF p >= Len(t) \/ n <= 0 THEN 0 ELSE IF p + n < Len(t) THEN n ELSE Len(t) - p
  BY <1>1, SliceFacts
<1>4. Len(s) \in Nat /\ Len(t) \in Nat
  OBVIOUS
<1>5. Len(a) = (IF n <= 0 THEN 0 ELSE n) /\ Len(b) = (IF n <= 0 THEN 0 ELSE n)
  <2>1. \A x \in Nat : n <= 0 \/ p + n <= x =>
          (IF p >= x \/ n <= 0 THEN 0 ELSE IF p + n < x THEN n ELSE x - p) = (IF n <= 0 THEN 0 ELSE n)
    OBVIOUS
  <2> QED BY <1>2, <1>3, <1>4, <2>1
<1>8. \A i \in 1..Len(a) : a[i] = s[p + i]
  BY <1>1, SliceAll
<1>9. \A i \in 1..Len(b) : b[i] = t[p + i]
  BY <1>1, SliceAll
<1>6. ASSUME NEW i \in 1..Len(a) PROVE a[i] = b[i]
  <2>1. i \in 1..n /\ i \in 1..Len(b) /\ i \in 1..Len(a)
    BY <1>5
  <2>2. p + i \in 1..(p + n) /\ p < p + i
    <3>1. \A x \in Nat : \A y \in Int : \A q \in 1..y : x + q \in 1..(x + y) /\ x < x + q
      OBVIOUS
    <3> QED BY <2>1, <3>1
  <2>3. s[p + i] = t[p + i]
    BY <2>2
  <2>4. a[i] = s[p + i]
    BY <1>8, <2>1
  <2>5. b[i] = t[p + i]
    BY <1>9, <2>1
  <2> QED BY <2>3, <2>4, <2>5
<1>7. a = b
  BY <1>2, <1>3, <1>5, <1>6, SeqEqual
<1> QED BY <1>7 DEF a, b

\* The data kept byte by byte is kept as DataKept says it.
LEMMA DataSlices == IInv /\ DataInv => DataKept
<1> SUFFICES ASSUME IInv, DataInv, pc = "calculated", damaged = {}, NEW i \in 1..N
             PROVE  LET len == Len(image[i]) - (IF ifntfs \/ "write" \in fault THEN Val ELSE 0)
                    IN Slice(f[i].disk, 0, len) = Slice(image[i], 0, len)
  BY DEF DataKept
<1> DEFINE v == IF ifntfs \/ "write" \in fault THEN Val ELSE 0
           len == Len(image[i]) - v
           s == f[i].disk
           t == image[i]
<1>1. pc \notin Ended /\ HandleInv /\ ifntfs \in BOOLEAN
  BY DEF Ended, IInv, TypeOK
<1>2. /\ Kept(i) \in Int /\ Kept(i) <= Len(image[i]) /\ Len(image[i]) <= Size(i) /\ Size(i) \in Nat
      /\ Len(image[i]) \in Nat
  BY <1>1, KeptFacts
<1>3. v \in Nat
  BY ConstantFacts
<1>4. len \in Int /\ len <= Kept(i)
  <2>1. Kept(i) = Len(image[i]) - v \/ Kept(i) = Len(image[i])
    BY <1>2 DEF Kept
  <2> HIDE DEF v
  <2> QED BY <1>2, <1>3, <2>1
<1>5. s \in Seq(Nat) /\ t \in Seq(Nat) /\ Len(s) = Size(i)
  BY <1>1, HandleAt, TameFields, ImageFacts DEF Size
<1>6. \A j \in 1..Kept(i) : s[j] = t[j]
  BY <1>1 DEF DataInv
<1> HIDE DEF len, s, v
<1>7. len <= Len(s) /\ len <= Len(t)
  BY <1>2, <1>4, <1>5
<1> HIDE DEF t
<1> DEFINE k == Kept(i)
<1>8. ASSUME NEW j \in 1..(0 + len) PROVE s[j] = t[j]
  <2>1. k \in Int /\ len <= k
    BY <1>2, <1>4
  <2> HIDE DEF k
  <2>2. j \in 1..k
    BY <1>4, <2>1
  <2> QED BY <1>6, <2>2 DEF k
<1>9. 0 \in Nat /\ 0 + len <= Len(s) /\ 0 + len <= Len(t)
  BY <1>4, <1>7
<1>10. Slice(s, 0, len) = Slice(t, 0, len)
  BY <1>4, <1>5, <1>8, <1>9, SliceEqual
<1> QED BY <1>10 DEF len, s, t, v

\* The calculation of the check value leaves the image alone: on FAT every byte, on
\* NTFS or without the placeholder every byte but the last Val ones.
THEOREM DataIsKept == Spec => []DataKept
<1>1. IInv /\ DataInv => DataKept
  BY DataSlices
<1> QED BY <1>1, CheckValueInductive, DataInductive, PTL

-----------------------------------------------------------------------------
(***************************************************************************)
(* The check value.                                                        *)
(***************************************************************************)

\* The check value is written at the end of the file.
LEMMA SaveValue ==
  ASSUME IInv, SaveFileCheckValue, pc' \notin Ended PROVE ValueInv'
<1>1. pc = "save" /\ pc' = "calculated" /\ pc \notin Ended /\ Next
  BY DEF SaveFileCheckValue, Refuse, Ended, Next, Step
<1>2. /\ UNCHANGED <<ifntfs, image>> /\ N' = N /\ fault \subseteq fault' /\ pc \notin Ended
      /\ Calculating' => Calculating
      /\ ~Damage => damaged' = damaged
  BY <1>1, NextFrame
<1>3. /\ N \in 1..N /\ Tame(f[N]) /\ Agrees(f[N]) /\ f[N].disk \in Seq(Nat)
      /\ Size(N) \in Nat /\ Size(N) = Len(f[N].disk)
      /\ ValuePos \in Nat /\ ifntfs \in BOOLEAN
      /\ Size(N) # 0 => ValuePos + Val = Size(N)
      /\ Size(N) = 0 => ValuePos = 0 /\ ~ifntfs /\ image[N] = <<>>
  BY <1>1, PosFacts
<1>4. PICK s : SavedAs(s)
  BY <1>1, SavedFile
<1>5. /\ s \in Seq(Nat) /\ f' = [f EXCEPT ![N] = Opened(s)]
      /\ Len(s) = IF Size(N) = 0 THEN Val ELSE Size(N)
      /\ fault' = {} => \A j \in 1..Val : s[ValuePos + j] = 10000 + j
  BY <1>4 DEF SavedAs
<1>6. f'[N].disk = s
  <2>1. f \in [1..N -> Handle]
    BY DEF IInv, HandleInv
  <2> DEFINE g == Opened(s)
  <2>2. f' = [f EXCEPT ![N] = g] /\ g.disk = s
    BY <1>5 DEF Opened
  <2> HIDE DEF g
  <2> QED BY <1>3, <2>1, <2>2
<1>7. Size(N)' = Len(s)
  <2>1. f'[N'].disk = s
    BY <1>2, <1>6
  <2> QED BY <2>1 DEF Size
<1>8. Len(s) - Val = ValuePos
  <2>1. Val \in Nat
    BY ConstantFacts
  <2>2. CASE Size(N) = 0
    BY <1>3, <1>5, <2>1, <2>2
  <2>3. CASE Size(N) # 0
    BY <1>3, <1>5, <2>1, <2>3
  <2> QED BY <2>2, <2>3
<1>9. ASSUME fault' = {}, NEW j \in 1..Val PROVE f'[N'].disk[Size(N)' - Val + j] = 10000 + j
  BY <1>2, <1>5, <1>6, <1>7, <1>8, <1>9
<1> QED BY <1>9 DEF ValueInv

\* What rots is in front of it.
LEMMA DamageValue ==
  ASSUME IInv, ValueInv, Damage PROVE ValueInv'
<1>1. /\ pc = "calculated" /\ pc \notin Ended /\ UNCHANGED <<ifntfs, image, pc, mode, fault>> /\ ~Calculating
  BY DEF Damage, Calculating, Ended
<1>2. PICK i \in 1..N : \E j \in 1..DataLen(i) :
         /\ j \in Nat /\ j <= Size(i) /\ damaged' = {<<i, j - 1>>}
         /\ f' = [f EXCEPT ![i] = [f[i] EXCEPT !.disk = [f[i].disk EXCEPT ![j] = 0]]]
  BY DamageEffect
<1>3. PICK j \in 1..DataLen(i) :
         /\ j \in Nat /\ j <= Size(i) /\ damaged' = {<<i, j - 1>>}
         /\ f' = [f EXCEPT ![i] = [f[i] EXCEPT !.disk = [f[i].disk EXCEPT ![j] = 0]]]
  BY <1>2
<1> DEFINE o == f[i]
           s == [o.disk EXCEPT ![j] = 0]
           g == [o EXCEPT !.disk = s]
<1>4. f \in [1..N -> Handle] /\ HandleInv /\ N' = N
  BY <1>1 DEF IInv, HandleInv, N
<1>5. o \in Handle /\ o.disk \in Seq(Nat) /\ Len(o.disk) = Size(i)
  BY <1>4 DEF Handle, Size
<1>6. s \in Seq(Nat) /\ Len(s) = Len(o.disk) /\ \A k \in 1..Len(o.disk) : k # j => s[k] = o.disk[k]
  <2>1. j \in 1..Len(o.disk)
    BY <1>3, <1>5
  <2>2. 0 \in Nat
    OBVIOUS
  <2> QED BY <1>5, <2>1, <2>2, ExceptSeq
<1>7. f' = [f EXCEPT ![i] = g] /\ g = [o EXCEPT !.disk = s] /\ o = f[i]
  BY <1>3
<1> HIDE DEF s, o, g
<1>8. g.disk = s
  BY <1>5, <1>7 DEF Handle
<1>9. f'[i].disk = s /\ \A k \in 1..N : k # i => f'[k] = f[k]
  BY <1>4, <1>7, <1>8
<1>10. N \in 1..N
  BY <1>4, ImageFacts
<1>11. ASSUME fault = {}, NEW q \in 1..Val PROVE f'[N].disk[Len(f'[N].disk) - Val + q] = 10000 + q
  <2>1. f[N].disk[Size(N) - Val + q] = 10000 + q
    BY <1>1, <1>11 DEF ValueInv
  <2>2. CASE i # N
    BY <1>9, <1>10, <2>1, <2>2 DEF Size
  <2>3. CASE i = N
    <3> DEFINE z == Size(N)
               p == z - Val + q
    <3>1. z \in Nat /\ z = Len(o.disk)
      BY <1>5, <1>7, <2>3
    <3>2. j \in 1..(z - Val)
      BY <1>3, <2>3 DEF DataLen
    <3>3. Val \in Nat \ {0}
      BY ConstantFacts
    <3> HIDE DEF z
    <3>4. p \in 1..Len(o.disk) /\ p # j
      BY <3>1, <3>2, <3>3
    <3>5. o.disk[p] = 10000 + q
      BY <1>7, <2>1, <2>3 DEF z
    <3> HIDE DEF p
    <3>6. s[p] = 10000 + q
      BY <1>6, <3>4, <3>5
    <3>7. Len(f'[N].disk) - Val + q = p
      BY <1>6, <1>9, <2>3, <3>1 DEF p
    <3> QED BY <1>9, <2>3, <3>6, <3>7
  <2> QED BY <2>2, <2>3
<1> QED BY <1>1, <1>4, <1>11 DEF ValueInv, Size

\* Where a step can begin.
LEMMA FromSave == ASSUME Next, pc = "save" PROVE SaveFileCheckValue
BY DEF Next, Step, CalculateFileCheckValue, ValidImageCheckValue, CalculateFileSHA256Value,
       _CalFileSHA256Value, _CalculateFileSHA256ValueBySegData, HashReadFails, UserBreak,
           FileReadStays, GetSaltValue,
       SaveZeroDataToFileEndForCheckValue, GetFileCheckValue, Damage, Done, Ended

\* The first pass ends with the check value.
LEMMA PassEnds ==
  ASSUME Next, Calculating, pc' \notin Ended, pc # "save" PROVE Calculating'
<1>1. mode = "calculate" /\ pc # "calculated"
  BY DEF Calculating
<1>2. /\ ~ValidImageCheckValue /\ ~SaveFileCheckValue /\ ~Damage /\ ~Done /\ ~UserBreak /\ ~FileReadStays
      /\ ~GetFileCheckValue
  BY <1>1 DEF ValidImageCheckValue, SaveFileCheckValue, Damage, Done, UserBreak,
      FileReadStays, Refuse, GetFileCheckValue,
     Ended, vars
<1>3. CASE CalculateFileCheckValue
  BY <1>3 DEF CalculateFileCheckValue, Begin, Calculating
<1>4. CASE SaveZeroDataToFileEndForCheckValue \/ CalculateFileSHA256Value
  BY <1>1, <1>4 DEF SaveZeroDataToFileEndForCheckValue, CalculateFileSHA256Value, Refuse, Calculating
<1>5. CASE _CalFileSHA256Value
  BY <1>1, <1>5 DEF _CalFileSHA256Value, NextFile, Calculating
<1>6. CASE _CalculateFileSHA256ValueBySegData
  BY <1>1, <1>6 DEF _CalculateFileSHA256ValueBySegData, NextFile, Calculating
<1>7. CASE HashReadFails
  BY <1>1, <1>7 DEF HashReadFails, NextFile, Calculating
<1>8. CASE GetSaltValue
  BY <1>1, <1>8 DEF GetSaltValue, Refuse, Calculating
<1> QED BY <1>2, <1>3, <1>4, <1>5, <1>6, <1>7, <1>8 DEF Next, Step

\* Every step leaves the check value at the end.
LEMMA NextValue == IInv /\ ValueInv /\ [Next]_vars => ValueInv'
<1> SUFFICES ASSUME IInv, ValueInv, [Next]_vars PROVE ValueInv'
  OBVIOUS
<1>1. CASE UNCHANGED vars
  BY <1>1 DEF ValueInv, vars, Calculating, Size, N, hash
<1>2. CASE Next /\ pc' \notin Ended
  <2>1. /\ UNCHANGED <<ifntfs, image>> /\ N' = N /\ fault \subseteq fault' /\ pc \notin Ended
        /\ Calculating' => Calculating
        /\ ~Damage => damaged' = damaged
    BY <1>2, NextFrame
  <2>2. CASE pc = "save"
    BY <1>2, <2>2, FromSave, SaveValue
  <2>3. CASE Damage
    BY <2>3, DamageValue
  <2>4. CASE pc # "save" /\ ~Damage /\ ~Calculating'
    <3>1. ~Calculating
      BY <1>2, <2>4, PassEnds
    <3>2. pc # "placeholder"
      BY <3>1 DEF IInv, HashInv, Calculating
    <3>3. \A i \in 1..N : f'[i].disk = f[i].disk
      BY <1>2, <2>4, <3>2, DisksKept
    <3>4. N \in 1..N
      BY ImageFacts DEF IInv
    <3> QED BY <2>1, <3>1, <3>3, <3>4 DEF ValueInv, Size
  <2>5. CASE Calculating'
    BY <2>5 DEF ValueInv
  <2> QED BY <2>2, <2>3, <2>4, <2>5
<1>3. CASE pc' \in Ended
  BY <1>3 DEF ValueInv
<1> QED BY <1>1, <1>2, <1>3

\* The check value is where ValidImageCheckValue looks for it.
THEOREM ValueInductive == Spec => []ValueInv
<1>1. Init => ValueInv
  BY DEF Init, ValueInv, Calculating
<1>2. IInv /\ ValueInv /\ [Next]_vars => ValueInv'
  BY NextValue
<1> QED BY <1>1, <1>2, CheckValueInductive, PTL DEF Spec

-----------------------------------------------------------------------------
(***************************************************************************)
(* What the two passes read.                                               *)
(***************************************************************************)

\* The size of a file with the placeholder or the check value.
SizeOf(i) == Len(image[i]) + (IF i = N /\ ~ifntfs THEN Val ELSE 0)

\* The sizes in both passes, when no fault occurred.
LEMMA PassSizes ==
  ASSUME IInv, fault = {}, pc \notin Ended, pc \notin {"written", "placeholder"}, NEW i \in 1..N
  PROVE  /\ Size(i) = SizeOf(i) /\ Size(i) \in Nat
         /\ DataLen(i) = Kept(i) /\ DataLen(i) \in Nat /\ DataLen(i) <= Len(image[i])
         /\ DataLen(i) <= Size(i) /\ Len(image[i]) \in Nat /\ Len(image[i]) % Page = 0
         /\ ~ifntfs => DataLen(i) = Len(image[i])
         /\ DataLen(i) = Size(i) - (IF i = N THEN Val ELSE 0)
<1>1. HandleInv /\ SizeInv /\ ifntfs \in BOOLEAN
  BY DEF IInv, TypeOK
<1>2. Len(image[i]) \in Nat /\ Len(image[i]) % Page = 0 /\ N \in Nat \ {0}
  BY <1>1, ImageFacts
<1>3. Val \in Nat \ {0} /\ Val < Page /\ Page \in Nat \ {0}
  BY ConstantFacts
<1>4. Size(i) \in Nat /\ (ifntfs => i = N /\ Size(i) >= Page)
  BY SizeFacts
<1>5. CASE i # N
  <2>1. i \in 1..(N - 1)
    BY <1>2, <1>5
  <2>2. Size(i) = Len(image[i])
    BY <1>1, <2>1 DEF SizeInv
  <2>3. SizeOf(i) = Len(image[i]) /\ Kept(i) = Len(image[i]) /\ DataLen(i) = Size(i)
    BY <1>2, <1>5 DEF SizeOf, Kept, DataLen
  <2> QED BY <1>2, <1>5, <2>2, <2>3
<1>6. CASE i = N /\ ifntfs
  <2>1. ~Grown
    BY <1>6 DEF Grown
  <2>2. Size(i) = Len(image[i])
    BY <1>1, <1>6, <2>1 DEF SizeInv
  <2>3. SizeOf(i) = Len(image[i]) /\ Kept(i) = Len(image[i]) - Val /\ DataLen(i) = Size(i) - Val
    BY <1>2, <1>6 DEF SizeOf, Kept, DataLen
  <2>4. DataLen(i) \in Nat /\ DataLen(i) <= Len(image[i]) /\ DataLen(i) <= Size(i)
    BY <1>2, <1>3, <1>4, <1>6, <2>2, <2>3
  <2>5. DataLen(i) = Size(i) - (IF i = N THEN Val ELSE 0)
    BY <1>6, <2>3
  <2> QED BY <1>2, <1>4, <1>6, <2>2, <2>3, <2>4, <2>5
<1>7. CASE i = N /\ ~ifntfs
  <2>1. Grown
    BY <1>7 DEF Grown
  <2>2. Size(i) = Len(image[i]) + Val
    BY <1>1, <1>7, <2>1 DEF SizeInv
  <2>3. SizeOf(i) = Len(image[i]) + Val /\ Kept(i) = Len(image[i]) - 0 /\ DataLen(i) = Size(i) - Val
    BY <1>2, <1>7 DEF SizeOf, Kept, DataLen
  <2>4. DataLen(i) = Len(image[i]) /\ Kept(i) = Len(image[i]) /\ DataLen(i) <= Size(i)
    BY <1>2, <1>3, <2>2, <2>3
  <2>5. DataLen(i) = Size(i) - (IF i = N THEN Val ELSE 0)
    BY <1>7, <2>3
  <2> QED BY <1>2, <1>4, <2>2, <2>3, <2>4, <2>5
<1> QED BY <1>1, <1>5, <1>6, <1>7

\* A read of the loop over a small file does not meet the check value; the last one
\* ends in front of it.
LEMMA AllData ==
  ASSUME IInv, fault = {}, pc = "all"
  PROVE  /\ ReadSize <= 0 \/ llReadSize + ReadSize <= DataLen(file)
         /\ ReadSize > 0 /\ ~GoesOn(ReadSize, llReadSize + ReadSize) =>
              llReadSize + ReadSize = DataLen(file)
         /\ ReadSize <= 0 => \/ DataLen(file) = 0
                             \/ ~ifntfs /\ file = N /\ DataLen(file) = llReadSize
<1> DEFINE z == Size(file)
           p == llReadSize
           d == DataLen(file)
<1>1. /\ HandleInv /\ HashInv /\ ifntfs \in BOOLEAN /\ pc \notin Ended
      /\ file \in 1..N /\ p \in Nat /\ z \in Nat
  BY LoopFacts
<1>2. /\ p % Chunk = 0 /\ p <= z /\ (p # 0 => p < z)
      /\ ifntfs => ReadSize \in 1..(CacheSize - 1)
  BY <1>1, AllFacts DEF HashInv
<1>3. /\ Page \in Nat \ {0} /\ Chunk \in Nat \ {0} /\ Val \in Nat \ {0} /\ CacheSize \in Nat
      /\ Chunk % Page = 0 /\ Val < Page
  BY ConstantFacts
<1>4. /\ d \in Nat /\ d <= z /\ d = z - (IF file = N THEN Val ELSE 0)
      /\ ~ifntfs => d = Len(image[file])
      /\ Len(image[file]) % Page = 0 /\ z = SizeOf(file) /\ Len(image[file]) \in Nat
  BY <1>1, PassSizes
<1>5. p % Page = 0
  BY <1>1, <1>2, <1>3, MultipleOf
<1>6. ReadSize = IF z - p > Chunk THEN Chunk ELSE d - p
  <2>1. ReadSize = IF z - p > Chunk THEN Chunk ELSE z - p - (IF file = N THEN Val ELSE 0)
    BY DEF ReadSize, IsLast
  <2>2. z - p - (IF file = N THEN Val ELSE 0) = d - p
    BY <1>1, <1>3, <1>4
  <2> QED BY <2>1, <2>2
<1>7. z % Page = 0 \/ (~ifntfs /\ file = N /\ d % Page = 0)
  <2>1. CASE ~ifntfs /\ file = N
    BY <1>4, <2>1
  <2>2. CASE ~(~ifntfs /\ file = N)
    <3>1. z = Len(image[file]) + 0
      BY <1>4, <2>2 DEF SizeOf
    <3> QED BY <1>4, <3>1
  <2> QED BY <2>1, <2>2
<1> HIDE DEF z, p, d
<1>8. (p + Chunk) % Page = 0 /\ p + Chunk \in Nat
  <2>1. p \in Nat /\ Chunk \in Nat /\ Page \in Nat \ {0} /\ p % Page = 0 /\ Chunk % Page = 0
    BY <1>1, <1>3, <1>5
  <2>2. (p + Chunk) % Page = 0
    BY <2>1, MultipleSum
  <2> QED BY <2>1, <2>2
<1>9. z - p > Chunk => p + Chunk <= d
  <2> SUFFICES ASSUME z - p > Chunk PROVE p + Chunk <= d
    OBVIOUS
  <2>1. CASE z % Page = 0
    <3>1. z - (p + Chunk) >= Page
      <4>1. p + Chunk < z
        BY <1>1, <1>3
      <4> QED BY <1>1, <1>3, <1>8, <2>1, <4>1, MultipleGap
    <3> QED BY <1>1, <1>3, <1>4, <3>1
  <2>2. CASE file = N /\ d % Page = 0
    <3> SUFFICES ASSUME d < p + Chunk PROVE FALSE
      BY <1>1, <1>3, <1>4
    <3>1. (p + Chunk) - d >= Page
      <4> DEFINE e == p + Chunk
      <4>1. e \in Nat /\ d \in Nat /\ e % Page = 0 /\ d % Page = 0 /\ d < e /\ Page \in Nat \ {0}
        BY <1>3, <1>4, <1>8, <2>2
      <4> HIDE DEF e
      <4>2. e - d >= Page
        BY <4>1, MultipleGap
      <4> QED BY <4>2 DEF e
    <3>2. z = d + Val
      BY <1>1, <1>3, <1>4, <2>2
    <3> QED BY <1>1, <1>3, <1>4, <3>1, <3>2
  <2> QED BY <1>7, <2>1, <2>2
<1>10. ReadSize <= 0 \/ p + ReadSize <= d
  BY <1>1, <1>3, <1>4, <1>6, <1>9
<1>11. ASSUME ReadSize > 0, ~GoesOn(ReadSize, p + ReadSize) PROVE p + ReadSize = d
  <2>1. ~(ReadSize = Chunk /\ p + ReadSize < z)
    BY <1>11 DEF GoesOn, z
  <2>2. ~(z - p > Chunk)
    BY <1>1, <1>3, <1>6, <2>1
  <2> QED BY <1>1, <1>4, <1>6, <2>2
<1>12. ASSUME ReadSize <= 0 PROVE d = 0 \/ (~ifntfs /\ file = N /\ d = p)
  <2>1. ~(z - p > Chunk) /\ d <= p
    BY <1>1, <1>3, <1>4, <1>6, <1>12
  <2>2. ~ifntfs
    BY <1>2, <1>3, <1>12
  <2>3. CASE file # N
    <3>1. d = z
      BY <1>1, <1>4, <2>3
    <3> QED BY <1>1, <1>2, <2>1, <3>1
  <2>4. CASE file = N
    <3>1. d % Page = 0
      BY <1>4, <2>2
    <3>2. CASE d < p
      <4>1. p - d >= Page
        BY <1>1, <1>3, <1>4, <1>5, <3>1, <3>2, MultipleGap
      <4>2. z = d + Val /\ p < z
        BY <1>1, <1>2, <1>3, <1>4, <2>4, <3>2
      <4> QED BY <1>1, <1>3, <1>4, <4>1, <4>2
    <3>3. CASE ~(d < p)
      BY <1>1, <1>4, <2>1, <2>2, <2>4, <3>3
    <3> QED BY <3>2, <3>3
  <2> QED BY <2>3, <2>4
<1> QED BY <1>10, <1>11, <1>12 DEF p, d

\* A sample is in front of the check value.
LEMMA SampleData ==
  ASSUME IInv, fault = {}, pc = "sample"
  PROVE  llReadSize + Chunk <= DataLen(file)
<1> DEFINE z == Size(file)
           v == IF IsLast THEN Val ELSE 0
           s == SampleStart(iSegIndex)
<1>1. /\ HashInv /\ pc \notin Ended /\ file \in 1..N /\ z \in Nat /\ TypeOK
  BY LoopFacts
<1>2. /\ Size(file) > SegNumber * Big /\ iSegIndex <= SegNumber /\ llSectorDataReadSize < Limit
      /\ llSectorDataReadSize % Chunk = 0
      /\ llReadSize = s + llSectorDataReadSize
  BY <1>1 DEF HashInv
<1>3. /\ Chunk \in Nat \ {0} /\ Limit \in Nat \ {0} /\ Val \in Nat /\ SegNumber \in Nat
      /\ Limit % Chunk = 0
  BY ConstantFacts
<1>4. llSectorDataReadSize \in Nat /\ iSegIndex \in 0..(SegNumber + 1)
  BY <1>1, <1>3 DEF TypeOK
<1>5. s \in Nat /\ s + Limit + v <= z
  BY <1>1, <1>2, <1>4, SampleBounds
<1>6. Limit - llSectorDataReadSize >= Chunk
  BY <1>2, <1>3, <1>4, MultipleGap
<1>7. DataLen(file) = z - v
  BY <1>1, PassSizes DEF IsLast
<1>8. v \in Nat
  BY <1>3
<1> HIDE DEF z, v, s
<1> QED BY <1>1, <1>2, <1>3, <1>4, <1>5, <1>6, <1>7, <1>8

\* What is read is what Backup wrote, as long as nothing rots.
LEMMA DataBytes ==
  ASSUME IInv, DataInv, fault = {}, damaged = {}, pc \notin Ended, pc \notin {"written", "placeholder"},
         NEW i \in 1..N, NEW p \in Nat, NEW n \in Int, n <= 0 \/ p + n <= DataLen(i)
  PROVE  /\ Slice(f[i].disk, p, n) = Slice(image[i], p, n)
         /\ \A j \in 1..DataLen(i) : f[i].disk[j] = 100 * i + j
<1> DEFINE s == f[i].disk
           t == image[i]
           d == DataLen(i)
<1>1. HandleInv /\ ifntfs \in BOOLEAN
  BY DEF IInv, TypeOK
<1>2. s \in Seq(Nat) /\ t \in Seq(Nat) /\ Size(i) = Len(s) /\ \A j \in 1..Len(t) : t[j] = 100 * i + j
  BY <1>1, ImageFacts, HandleAt, TameFields DEF Size
<1>3. d \in Nat /\ d = Kept(i) /\ d <= Len(t) /\ d <= Len(s)
  BY <1>2, PassSizes
<1>4. \A j \in 1..d : s[j] = t[j]
  BY <1>3 DEF DataInv
<1> HIDE DEF s, t, d
<1>5. n <= 0 \/ p + n <= d
  BY DEF d
<1>6. n <= 0 \/ (p + n <= Len(s) /\ p + n <= Len(t))
  BY <1>2, <1>3, <1>5
<1>7. \A j \in 1..(p + n) : p < j => s[j] = t[j]
  <2> SUFFICES ASSUME NEW j \in 1..(p + n), p < j PROVE s[j] = t[j]
    OBVIOUS
  <2>1. j \in 1..d
    BY <1>3, <1>5
  <2> QED BY <1>4, <2>1
<1>8. Slice(s, p, n) = Slice(t, p, n)
  BY <1>2, <1>6, <1>7, SliceEqual
<1>9. \A j \in 1..d : s[j] = 100 * i + j
  BY <1>2, <1>3, <1>4
<1> QED BY <1>8, <1>9 DEF s, t, d

-----------------------------------------------------------------------------
(***************************************************************************)
(* What is hashed: 0 is met only where something rotted.                   *)
(***************************************************************************)

\* A 0 in two sections together is in one of them.
LEMMA ZeroConcat ==
  ASSUME NEW s \in Seq(Nat), NEW t \in Seq(Nat)
  PROVE  Zero(s \o t) <=> Zero(s) \/ Zero(t)
<1> DEFINE u == s \o t
<1>1. /\ Len(s) \in Nat /\ Len(t) \in Nat /\ Len(u) = Len(s) + Len(t)
      /\ \A i \in 1..Len(s) : u[i] = s[i]
      /\ \A i \in 1..Len(t) : u[Len(s) + i] = t[i]
  OBVIOUS
<1> HIDE DEF u
<1>2. ASSUME Zero(u) PROVE Zero(s) \/ Zero(t)
  <2>1. PICK i \in 1..Len(u) : u[i] = 0
    BY <1>2 DEF Zero
  <2>2. CASE i <= Len(s)
    <3>1. i \in 1..Len(s)
      BY <1>1, <2>2
    <3>2. s[i] = 0
      BY <1>1, <2>1, <3>1
    <3> QED BY <3>1, <3>2 DEF Zero
  <2>3. CASE ~(i <= Len(s))
    <3> DEFINE k == i - Len(s)
    <3>1. k \in 1..Len(t) /\ Len(s) + k = i
      BY <1>1, <2>3
    <3> HIDE DEF k
    <3>2. t[k] = 0
      BY <1>1, <2>1, <3>1
    <3> QED BY <3>1, <3>2 DEF Zero
  <2> QED BY <2>2, <2>3
<1>3. ASSUME Zero(s) PROVE Zero(u)
  <2>1. PICK i \in 1..Len(s) : s[i] = 0
    BY <1>3 DEF Zero
  <2>2. i \in 1..Len(u) /\ u[i] = 0
    BY <1>1, <2>1
  <2> QED BY <2>2 DEF Zero
<1>4. ASSUME Zero(t) PROVE Zero(u)
  <2>1. PICK i \in 1..Len(t) : t[i] = 0
    BY <1>4 DEF Zero
  <2> DEFINE k == Len(s) + i
  <2>2. k \in 1..Len(u)
    BY <1>1
  <2>3. u[k] = 0
    BY <1>1, <2>1
  <2> HIDE DEF k
  <2> QED BY <2>2, <2>3 DEF Zero
<1> QED BY <1>2, <1>3, <1>4 DEF u

\* A section more brings the zeros it has.
LEMMA ZeroAppend ==
  ASSUME NEW c \in Seq(Seq(Nat)), NEW s \in Seq(Nat)
  PROVE  ZeroIn(Append(c, s)) <=> ZeroIn(c) \/ Zero(s)
<1> DEFINE u == Append(c, s)
<1>1. /\ Len(c) \in Nat /\ Len(u) = Len(c) + 1 /\ \A i \in 1..Len(c) : u[i] = c[i]
      /\ u[Len(c) + 1] = s
  OBVIOUS
<1> HIDE DEF u
<1>2. ASSUME ZeroIn(u) PROVE ZeroIn(c) \/ Zero(s)
  <2>1. PICK i \in 1..Len(u) : Zero(u[i])
    BY <1>2 DEF ZeroIn
  <2>2. i \in 1..Len(c) \/ i = Len(c) + 1
    BY <1>1
  <2> QED BY <1>1, <2>1, <2>2 DEF ZeroIn
<1>3. ASSUME ZeroIn(c) PROVE ZeroIn(u)
  <2>1. PICK i \in 1..Len(c) : Zero(c[i])
    BY <1>3 DEF ZeroIn
  <2>2. i \in 1..Len(u)
    BY <1>1
  <2>3. Zero(u[i])
    BY <1>1, <2>1
  <2> QED BY <2>2, <2>3 DEF ZeroIn
<1>4. ASSUME Zero(s) PROVE ZeroIn(u)
  <2> DEFINE k == Len(c) + 1
  <2>1. k \in 1..Len(u) /\ u[k] = s
    BY <1>1
  <2> HIDE DEF k
  <2> QED BY <1>4, <2>1 DEF ZeroIn
<1> QED BY <1>2, <1>3, <1>4 DEF u

\* An empty section brings none.
LEMMA ZeroEmpty ==
  /\ ~Zero(<<>>) /\ ~ZeroIn(<<>>)
  /\ \A c \in Seq(Seq(Nat)) : c \o <<<<>>>> = Append(c, <<>>) /\ c \o <<>> = c
<1>1. ~Zero(<<>>) /\ ~ZeroIn(<<>>)
  BY DEF Zero, ZeroIn
<1>2. ASSUME NEW c \in Seq(Seq(Nat)) PROVE c \o <<<<>>>> = Append(c, <<>>) /\ c \o <<>> = c
  OBVIOUS
<1> QED BY <1>1, <1>2

\* What a round of the loop over a small file reads and does.
AllOut == NormalFileRead(f[file], llReadSize, ReadSize).out

\* What a round over the whole file hashes, and where it goes on.
LEMMA AllEffect ==
  ASSUME IInv, _CalFileSHA256Value
  PROVE  /\ pc = "all" /\ AllOut \in Seq(Nat) /\ Len(AllOut) = IF ReadSize > 0 THEN ReadSize ELSE 0
         /\ \A i \in 1..Len(AllOut) : AllOut[i] = f[file].disk[llReadSize + i]
         /\ llReadSize' = llReadSize + Len(AllOut)
         /\ IF Len(AllOut) # 0 /\ Hashed(Len(AllOut), llReadSize + Len(AllOut))
              THEN ctx' = Append(ctx, ctxSec \o AllOut) /\ ctxSec' = <<>>
              ELSE ctx' = ctx /\ ctxSec' = ctxSec \o AllOut
         /\ IF GoesOn(Len(AllOut), llReadSize + Len(AllOut)) THEN UNCHANGED <<file, pc>> ELSE NextFile
         /\ UNCHANGED <<ifntfs, image, mode, iSegIndex, llSectorDataReadSize, salt, seen, damaged, fault>>
<1> DEFINE r == NormalFileRead(f[file], llReadSize, ReadSize)
<1>1. pc = "all" /\ r = NormalFileRead(f[file], llReadSize, ReadSize)
  BY DEF _CalFileSHA256Value
<1>2. AllOut = r.out
  BY DEF AllOut
<1>3. /\ llReadSize' = llReadSize + Len(r.out)
      /\ IF Len(r.out) # 0 /\ Hashed(Len(r.out), llReadSize + Len(r.out))
           THEN ctx' = Append(ctx, ctxSec \o r.out) /\ ctxSec' = <<>>
           ELSE ctx' = ctx /\ ctxSec' = ctxSec \o r.out
      /\ IF GoesOn(Len(r.out), llReadSize + Len(r.out)) THEN UNCHANGED <<file, pc>> ELSE NextFile
      /\ UNCHANGED <<ifntfs, image, mode, iSegIndex, llSectorDataReadSize, salt, seen, damaged, fault>>
  BY DEF _CalFileSHA256Value
<1> HIDE DEF r
<1>4. /\ Tame(r.f) /\ r.f.disk = f[file].disk /\ Agrees(r.f)
      /\ r.out \in Seq(Nat) /\ Len(r.out) = IF ReadSize > 0 THEN ReadSize ELSE 0
      /\ Len(r.out) \in 0..Chunk
      /\ \A i \in 1..Len(r.out) : r.out[i] = f[file].disk[llReadSize + i]
  BY <1>1, AllRead
<1> QED BY <1>1, <1>2, <1>3, <1>4

\* What a round of the loop over the samples reads and does.
SampleOut == NormalFileRead(f[file], llReadSize, Chunk).out
SampleFull == Len(ctxSec \o SampleOut) >= Section
SampleDone == llSectorDataReadSize + Chunk >= Limit
SampleEnd == SampleDone /\ iSegIndex = SegNumber

\* What a round over the samples hashes, and where it goes on.
LEMMA SampleEffect ==
  ASSUME IInv, _CalculateFileSHA256ValueBySegData
  PROVE  /\ pc = "sample" /\ SampleOut \in Seq(Nat) /\ Len(SampleOut) = Chunk
         /\ \A i \in 1..Chunk : SampleOut[i] = f[file].disk[llReadSize + i]
         /\ ctx' = IF SampleFull
                   THEN IF SampleEnd THEN Append(Append(ctx, ctxSec \o SampleOut), <<>>)
                                     ELSE Append(ctx, ctxSec \o SampleOut)
                   ELSE IF SampleEnd THEN Append(ctx, ctxSec \o SampleOut) ELSE ctx
         /\ ctxSec' = IF SampleFull \/ SampleEnd THEN <<>> ELSE ctxSec \o SampleOut
         /\ iSegIndex' = IF SampleDone THEN iSegIndex + 1 ELSE iSegIndex
         /\ llSectorDataReadSize' = IF SampleDone THEN 0 ELSE llSectorDataReadSize + Chunk
         /\ llReadSize' = IF SampleEnd \/ ~SampleDone THEN llReadSize + Chunk
                          ELSE SampleStart(iSegIndex + 1)
         /\ IF ~SampleEnd THEN UNCHANGED <<file, pc>> ELSE NextFile
         /\ UNCHANGED <<ifntfs, image, mode, salt, seen, damaged, fault>>
<1> DEFINE r == NormalFileRead(f[file], llReadSize, Chunk)
           n == Len(r.out)
           sec == ctxSec \o r.out
           full == Len(sec) >= Section
           data == llSectorDataReadSize + n
           done == data >= Limit
           end == done /\ iSegIndex + 1 > SegNumber
           next == IF done THEN SampleStart(iSegIndex + 1) ELSE llReadSize + n
<1>1. /\ pc = "sample"
      /\ ctx' = IF full THEN Append(ctx, sec) \o (IF end THEN <<<<>>>> ELSE <<>>)
                ELSE IF end THEN Append(ctx, sec) ELSE ctx
      /\ ctxSec' = IF full \/ end THEN <<>> ELSE sec
      /\ iSegIndex' = IF done THEN iSegIndex + 1 ELSE iSegIndex
      /\ llSectorDataReadSize' = IF done THEN 0 ELSE data
      /\ llReadSize' = IF end THEN llReadSize + n ELSE next
      /\ IF ~end /\ GoesOn(n, next) THEN UNCHANGED <<file, pc>> ELSE NextFile
      /\ UNCHANGED <<ifntfs, image, mode, salt, seen, damaged, fault>>
  BY DEF _CalculateFileSHA256ValueBySegData
<1>2. r = NormalFileRead(f[file], llReadSize, Chunk) /\ SampleOut = r.out
  BY DEF SampleOut
<1> HIDE DEF r
<1>3. /\ Tame(r.f) /\ r.f.disk = f[file].disk /\ Agrees(r.f)
      /\ r.out \in Seq(Nat) /\ n = Chunk
      /\ \A i \in 1..Chunk : r.out[i] = f[file].disk[llReadSize + i]
      /\ (ifntfs => Inside(r.f, llReadSize + Chunk))
      /\ llSectorDataReadSize \in Nat /\ llSectorDataReadSize + Chunk <= Limit
      /\ (llSectorDataReadSize + Chunk) % Chunk = 0
      /\ llReadSize + Chunk <= Size(file)
      /\ iSegIndex \in 0..SegNumber
      /\ iSegIndex # SegNumber => SampleStart(iSegIndex + 1) \in Nat
                                  /\ SampleStart(iSegIndex + 1) < Size(file)
      /\ llSectorDataReadSize + Chunk # Limit => llReadSize + Chunk < Size(file)
  BY <1>1, <1>2, SampleRead
<1>4. HandleInv /\ Chunk \in Nat \ {0} /\ Limit \in Nat /\ SegNumber \in Nat
  BY <1>1, LoopFacts, ConstantFacts
<1>5. /\ sec \in Seq(Nat) /\ Len(sec) = Len(ctxSec) + n /\ Append(ctx, sec) \in Seq(Seq(Nat))
      /\ ctx \in Seq(Seq(Nat)) /\ <<>> \in Seq(Nat) /\ Append(ctx, sec) \o <<<<>>>> \in Seq(Seq(Nat))
  BY <1>3, <1>4, SectionTypes
<1>6. end <=> (done /\ iSegIndex = SegNumber)
  BY <1>3, <1>4
<1>7. data = llSectorDataReadSize + Chunk /\ (done <=> llSectorDataReadSize + Chunk >= Limit)
  BY <1>3
<1>8. ~end => GoesOn(n, next)
  <2> SUFFICES ASSUME ~end PROVE GoesOn(n, next)
    OBVIOUS
  <2>1. CASE done
    BY <1>3, <1>6, <2>1 DEF GoesOn
  <2>2. CASE ~done
    <3>1. llSectorDataReadSize + Chunk # Limit
      BY <1>3, <1>4, <1>7, <2>2
    <3> QED BY <1>3, <2>2, <3>1 DEF GoesOn
  <2> QED BY <2>1, <2>2
<1>9. Append(ctx, sec) \o <<<<>>>> = Append(Append(ctx, sec), <<>>) /\ Append(ctx, sec) \o <<>> = Append(ctx, sec)
  BY <1>5, ZeroEmpty
<1>10. ctx' = IF full THEN (IF end THEN Append(Append(ctx, sec), <<>>) ELSE Append(ctx, sec))
              ELSE IF end THEN Append(ctx, sec) ELSE ctx
  <2> HIDE DEF full, end, sec
  <2>1. CASE end
    BY <1>1, <1>9, <2>1
  <2>2. CASE ~end
    BY <1>1, <1>9, <2>2
  <2> QED BY <2>1, <2>2
<1>11. /\ SampleFull <=> full
       /\ SampleDone <=> done
       /\ SampleEnd <=> end
       /\ sec = ctxSec \o SampleOut
  BY <1>2, <1>6, <1>7 DEF SampleFull, SampleDone, SampleEnd
<1>12. llReadSize' = IF end \/ ~done THEN llReadSize + n ELSE SampleStart(iSegIndex + 1)
  BY <1>1
<1> HIDE DEF full, end, done, sec, data, next, n
<1> QED BY <1>1, <1>2, <1>3, <1>7, <1>8, <1>10, <1>11, <1>12 DEF n

\* The bytes of an image are not 0.
LEMMA NoZero ==
  ASSUME IInv, DataInv, fault = {}, damaged = {}, pc \in {"all", "sample"}, NEW b \in Seq(Nat),
         \A i \in 1..Len(b) : b[i] = f[file].disk[llReadSize + i],
         Len(b) = 0 \/ llReadSize + Len(b) <= DataLen(file)
  PROVE  ~Zero(b)
<1>1. file \in 1..N /\ llReadSize \in Nat /\ pc \notin Ended
  BY LoopFacts
<1>2. DataLen(file) \in Nat
  BY <1>1, PassSizes
<1>3. \A j \in 1..DataLen(file) : f[file].disk[j] = 100 * file + j
  <2> DEFINE d == f[file].disk
             t == image[file]
  <2>1. 0 \in Nat /\ 0 \in Int /\ 0 <= 0
    OBVIOUS
  <2>2. /\ Slice(f[file].disk, 0, 0) = Slice(image[file], 0, 0)
        /\ \A j \in 1..DataLen(file) : f[file].disk[j] = 100 * file + j
    BY <1>1, <2>1, DataBytes
  <2> QED BY <2>2
<1> DEFINE k == DataLen(file)
           d == f[file].disk
<1> HIDE DEF k, d
<1>4. ASSUME NEW i \in 1..Len(b) PROVE b[i] # 0
  <2> DEFINE j == llReadSize + i
  <2>1. j \in 1..k
    BY <1>1, <1>2 DEF k
  <2>2. b[i] = d[j]
    BY DEF d
  <2> HIDE DEF j
  <2>3. d[j] = 100 * file + j
    BY <1>3, <2>1 DEF d, k
  <2>4. file \in Nat /\ j \in Nat \ {0}
    BY <1>1, <1>2, <2>1 DEF k
  <2> QED BY <2>2, <2>3, <2>4
<1> QED BY <1>4 DEF Zero

\* A chunk without a 0 leaves what is hashed without one.
LEMMA SectionPure ==
  ASSUME HandleInv, NEW b \in Seq(Nat), ~Zero(b), ~Zero(ctxSec), ~ZeroIn(ctx)
  PROVE  /\ ~Zero(ctxSec \o b) /\ ~ZeroIn(Append(ctx, ctxSec \o b))
         /\ ~ZeroIn(Append(Append(ctx, ctxSec \o b), <<>>))
<1> DEFINE s == ctxSec \o b
<1>1. ctxSec \in Seq(Nat) /\ ctx \in Seq(Seq(Nat))
  BY HandleTypes
<1>2. s \in Seq(Nat) /\ ~Zero(s)
  BY <1>1, ZeroConcat
<1> HIDE DEF s
<1> DEFINE c == Append(ctx, s)
<1>3. c \in Seq(Seq(Nat)) /\ <<>> \in Seq(Nat)
  BY <1>1, <1>2
<1>4. ~ZeroIn(c)
  BY <1>1, <1>2, ZeroAppend
<1> HIDE DEF c
<1>5. ~ZeroIn(Append(c, <<>>))
  BY <1>3, <1>4, ZeroAppend, ZeroEmpty
<1> QED BY <1>2, <1>4, <1>5 DEF c, s

\* The rounds of the first pass.
LEMMA AllPure ==
  ASSUME IInv, DataInv, PureInv, _CalFileSHA256Value, fault = {}, Calculating
  PROVE  ~ZeroIn(ctx') /\ ~Zero(ctxSec')
<1>1. /\ pc = "all" /\ AllOut \in Seq(Nat) /\ Len(AllOut) = IF ReadSize > 0 THEN ReadSize ELSE 0
      /\ \A i \in 1..Len(AllOut) : AllOut[i] = f[file].disk[llReadSize + i]
      /\ llReadSize' = llReadSize + Len(AllOut)
      /\ IF Len(AllOut) # 0 /\ Hashed(Len(AllOut), llReadSize + Len(AllOut))
           THEN ctx' = Append(ctx, ctxSec \o AllOut) /\ ctxSec' = <<>>
           ELSE ctx' = ctx /\ ctxSec' = ctxSec \o AllOut
      /\ IF GoesOn(Len(AllOut), llReadSize + Len(AllOut)) THEN UNCHANGED <<file, pc>> ELSE NextFile
      /\ UNCHANGED <<ifntfs, image, mode, iSegIndex, llSectorDataReadSize, salt, seen, damaged, fault>>
  BY AllEffect
<1>2. HandleInv /\ pc \notin Ended
  BY <1>1, LoopFacts
<1>3. damaged = {} /\ ~ZeroIn(ctx) /\ ~Zero(ctxSec)
  BY <1>2 DEF DataInv, PureInv
<1> DEFINE b == AllOut
<1>4. Len(b) = 0 \/ llReadSize + Len(b) <= DataLen(file)
  <2>1. ReadSize <= 0 \/ llReadSize + ReadSize <= DataLen(file)
    BY <1>1, AllData
  <2>2. ReadSize \in Int
    BY <1>1, AllFacts
  <2> QED BY <1>1, <2>1, <2>2
<1> HIDE DEF b
<1>5. b = AllOut
  BY DEF b
<1>6. ~Zero(b)
  <2>1. b \in Seq(Nat) /\ \A i \in 1..Len(b) : b[i] = f[file].disk[llReadSize + i]
    BY <1>1, <1>5
  <2>2. pc \in {"all", "sample"}
    BY <1>1
  <2> QED BY <1>3, <1>4, <2>1, <2>2, NoZero
<1>7. /\ ~Zero(ctxSec \o b) /\ ~ZeroIn(Append(ctx, ctxSec \o b))
      /\ ~ZeroIn(Append(Append(ctx, ctxSec \o b), <<>>))
  BY <1>1, <1>2, <1>3, <1>5, <1>6, SectionPure
<1> QED BY <1>1, <1>3, <1>5, <1>7, ZeroEmpty

\* The samples the calculation takes have no 0.
LEMMA SamplePure ==
  ASSUME IInv, DataInv, PureInv, _CalculateFileSHA256ValueBySegData, fault = {}, Calculating
  PROVE  ~ZeroIn(ctx') /\ ~Zero(ctxSec')
<1>1. /\ pc = "sample" /\ SampleOut \in Seq(Nat) /\ Len(SampleOut) = Chunk
      /\ \A i \in 1..Chunk : SampleOut[i] = f[file].disk[llReadSize + i]
      /\ ctx' = IF SampleFull
                THEN IF SampleEnd THEN Append(Append(ctx, ctxSec \o SampleOut), <<>>)
                                  ELSE Append(ctx, ctxSec \o SampleOut)
                ELSE IF SampleEnd THEN Append(ctx, ctxSec \o SampleOut) ELSE ctx
      /\ ctxSec' = IF SampleFull \/ SampleEnd THEN <<>> ELSE ctxSec \o SampleOut
      /\ iSegIndex' = IF SampleDone THEN iSegIndex + 1 ELSE iSegIndex
      /\ llSectorDataReadSize' = IF SampleDone THEN 0 ELSE llSectorDataReadSize + Chunk
      /\ llReadSize' = IF SampleEnd \/ ~SampleDone THEN llReadSize + Chunk
                       ELSE SampleStart(iSegIndex + 1)
      /\ IF ~SampleEnd THEN UNCHANGED <<file, pc>> ELSE NextFile
      /\ UNCHANGED <<ifntfs, image, mode, salt, seen, damaged, fault>>
  BY SampleEffect
<1>2. HandleInv /\ pc \notin Ended
  BY <1>1, LoopFacts
<1>3. damaged = {} /\ ~ZeroIn(ctx) /\ ~Zero(ctxSec)
  BY <1>2 DEF DataInv, PureInv
<1> DEFINE b == SampleOut
<1>4. llReadSize + Len(b) <= DataLen(file)
  BY <1>1, SampleData
<1> HIDE DEF b
<1>5. b = SampleOut
  BY DEF b
<1>6. ~Zero(b)
  <2>1. b \in Seq(Nat) /\ \A i \in 1..Len(b) : b[i] = f[file].disk[llReadSize + i]
    BY <1>1, <1>5
  <2>2. pc \in {"all", "sample"}
    BY <1>1
  <2> QED BY <1>3, <1>4, <2>1, <2>2, NoZero
<1>7. /\ ~Zero(ctxSec \o b) /\ ~ZeroIn(Append(ctx, ctxSec \o b))
      /\ ~ZeroIn(Append(Append(ctx, ctxSec \o b), <<>>))
  BY <1>1, <1>2, <1>3, <1>5, <1>6, SectionPure
<1> QED BY <1>1, <1>3, <1>5, <1>7, ZeroEmpty

\* The digest of the first pass has no 0.
LEMMA NextPure == IInv /\ DataInv /\ PureInv /\ [Next]_vars => PureInv'
<1> SUFFICES ASSUME IInv, DataInv, PureInv, [Next]_vars, pc' \notin Ended, fault' = {}
             PROVE  IF Calculating' THEN ~ZeroIn(ctx') /\ ~Zero(ctxSec') ELSE ~ZeroIn(seen'[1][1])
  BY DEF PureInv
<1>1. CASE UNCHANGED vars
  BY <1>1 DEF PureInv, vars, Calculating, hash
<1>2. CASE Next
  <2>1. /\ UNCHANGED <<ifntfs, image>> /\ N' = N /\ fault \subseteq fault' /\ pc \notin Ended
        /\ Calculating' => Calculating
        /\ ~Damage => damaged' = damaged
    BY <1>2, NextFrame
  <2>2. fault = {}
    BY <2>1
  <2>3. /\ Calculating => ~ZeroIn(ctx) /\ ~Zero(ctxSec)
        /\ ~Calculating => ~ZeroIn(seen[1][1])
    BY <2>1, <2>2 DEF PureInv
  <2>4. CASE Calculating'
    <3>1. /\ ~SaveFileCheckValue /\ ~Damage /\ ~ValidImageCheckValue /\ ~Done /\ ~HashReadFails /\ ~UserBreak
          /\ ~FileReadStays
          /\ ~GetFileCheckValue
      BY <2>1, <2>4 DEF SaveFileCheckValue, Refuse, Damage, ValidImageCheckValue, Calculating, Done, HashReadFails,
         UserBreak, FileReadStays, GetFileCheckValue, Ended, vars
    <3>2. CASE CalculateFileCheckValue
      <4>1. ctx' = <<>> /\ ctxSec' = ctxSec
        BY <3>2 DEF CalculateFileCheckValue, Begin
      <4> QED BY <2>1, <2>3, <2>4, <4>1, ZeroEmpty
    <3>3. CASE CalculateFileSHA256Value
      <4>1. ctx' = ctx /\ ctxSec' = <<>>
        BY <3>3 DEF CalculateFileSHA256Value
      <4> QED BY <2>1, <2>3, <2>4, <4>1, ZeroEmpty
    <3>4. CASE SaveZeroDataToFileEndForCheckValue \/ GetSaltValue
      <4>1. ctx' = ctx /\ ctxSec' = ctxSec
        BY <3>4 DEF SaveZeroDataToFileEndForCheckValue, GetSaltValue, hash
      <4> QED BY <2>1, <2>3, <2>4, <4>1
    <3>5. CASE _CalFileSHA256Value
      BY <2>1, <2>2, <2>4, <3>5, AllPure
    <3>6. CASE _CalculateFileSHA256ValueBySegData
      BY <2>1, <2>2, <2>4, <3>6, SamplePure
    <3> QED BY <1>2, <2>4, <3>1, <3>2, <3>3, <3>4, <3>5, <3>6 DEF Next, Step
  <2>5. CASE ~Calculating' /\ Calculating
    <3>1. pc = "save"
      BY <1>2, <2>5, PassEnds
    <3>2. SaveFileCheckValue /\ pc' = "calculated"
      BY <1>2, <3>1, FromSave DEF SaveFileCheckValue, Refuse, Ended
    <3>3. seen' = <<Digest>>
      BY <3>2, SaveEffect
    <3>4. seen'[1][1] = ctx
      BY <3>3 DEF Digest
    <3> QED BY <2>3, <2>5, <3>4
  <2>6. CASE ~Calculating' /\ ~Calculating
    <3>1. seen' = seen
      <4>1. ~SaveFileCheckValue /\ ~Done /\ ~UserBreak /\ ~FileReadStays /\ ~GetFileCheckValue
        BY <2>6 DEF SaveFileCheckValue, Calculating, Done, UserBreak,
            FileReadStays, Refuse, GetFileCheckValue, Ended, vars,
           IInv, HashInv
      <4>2. CASE CalculateFileCheckValue \/ ValidImageCheckValue
        BY <4>2 DEF CalculateFileCheckValue, ValidImageCheckValue, Begin
      <4>3. CASE SaveZeroDataToFileEndForCheckValue \/ CalculateFileSHA256Value \/ Damage \/ GetSaltValue
        BY <4>3 DEF SaveZeroDataToFileEndForCheckValue, CalculateFileSHA256Value, Damage, GetSaltValue
      <4>4. CASE _CalFileSHA256Value
        BY <4>4 DEF _CalFileSHA256Value
      <4>5. CASE _CalculateFileSHA256ValueBySegData
        BY <4>5 DEF _CalculateFileSHA256ValueBySegData
      <4>6. CASE HashReadFails
        BY <4>6 DEF HashReadFails
      <4> QED BY <1>2, <4>1, <4>2, <4>3, <4>4, <4>5, <4>6 DEF Next, Step
    <3> QED BY <2>3, <2>6, <3>1
  <2> QED BY <2>4, <2>5, <2>6
<1> QED BY <1>1, <1>2

-----------------------------------------------------------------------------
(***************************************************************************)
(* The validation meets what rotted.                                       *)
(***************************************************************************)

\* The rotted byte x is one that is to be hashed, and what HitInv says of it.
Hashable(x) == x[2] \in Covered(x[1], DataLen(x[1])) \ LostTail(x[1], DataLen(x[1]))
Hit(x) ==
  /\ x[1] < file => ZeroIn(ctx)
  /\ x[1] = file /\ pc = "all" /\ x[2] < llReadSize =>
       ZeroIn(ctx) \/ (Zero(ctxSec) /\ x[2] >= llReadSize - (llReadSize % Section))
  /\ x[1] = file /\ pc = "sample" /\ Passed(x[2]) => ZeroIn(ctx) \/ Zero(ctxSec)

\* A read has the rotted byte.
LEMMA ReadMeets ==
  ASSUME NEW b \in Seq(Nat), NEW d, NEW p \in Nat, \A i \in 1..Len(b) : b[i] = d[p + i],
         NEW q \in Nat, p <= q, q < p + Len(b), d[q + 1] = 0
  PROVE  Zero(b)
<1> DEFINE i == q + 1 - p
<1>1. i \in 1..Len(b) /\ p + i = q + 1
  OBVIOUS
<1> HIDE DEF i
<1>2. b[i] = d[p + i]
  BY <1>1
<1> QED BY <1>1, <1>2 DEF Zero

\* What a round of the loop over a small file has met.
LEMMA AllMeets ==
  ASSUME IInv, DataInv, _CalFileSHA256Value, NEW x \in damaged, Hit(x), x[1] = file,
         x[2] < llReadSize + Len(AllOut)
  PROVE  ZeroIn(ctx) \/ (Zero(ctxSec \o AllOut) /\ x[2] >= llReadSize - (llReadSize % Section))
<1>1. /\ pc = "all" /\ AllOut \in Seq(Nat) /\ Len(AllOut) = IF ReadSize > 0 THEN ReadSize ELSE 0
      /\ \A i \in 1..Len(AllOut) : AllOut[i] = f[file].disk[llReadSize + i]
      /\ llReadSize' = llReadSize + Len(AllOut)
      /\ IF Len(AllOut) # 0 /\ Hashed(Len(AllOut), llReadSize + Len(AllOut))
           THEN ctx' = Append(ctx, ctxSec \o AllOut) /\ ctxSec' = <<>>
           ELSE ctx' = ctx /\ ctxSec' = ctxSec \o AllOut
      /\ IF GoesOn(Len(AllOut), llReadSize + Len(AllOut)) THEN UNCHANGED <<file, pc>> ELSE NextFile
      /\ UNCHANGED <<ifntfs, image, mode, iSegIndex, llSectorDataReadSize, salt, seen, damaged, fault>>
  BY AllEffect
<1>2. HandleInv /\ pc \notin Ended /\ llReadSize \in Nat
  BY <1>1, LoopFacts
<1>3. ctxSec \in Seq(Nat)
  BY <1>2, HandleTypes
<1> DEFINE q == x[2]
           b == AllOut
           d == f[file].disk
<1>4. /\ x[1] \in 1..N /\ x[2] \in 0..(DataLen(x[1]) - 1)
      /\ f[x[1]].disk[x[2] + 1] = 0
  BY <1>2 DEF DataInv
<1>5. q \in Nat /\ d[q + 1] = 0
  BY <1>4
<1>6. /\ b \in Seq(Nat) /\ \A i \in 1..Len(b) : b[i] = d[llReadSize + i]
      /\ q < llReadSize + Len(b)
  BY <1>1
<1>7. q < llReadSize => ZeroIn(ctx) \/ (Zero(ctxSec) /\ q >= llReadSize - (llReadSize % Section))
  BY <1>1 DEF Hit
<1> HIDE DEF q, b, d
<1>8. CASE q < llReadSize
  BY <1>3, <1>6, <1>7, <1>8, ZeroConcat DEF q, b
<1>9. CASE ~(q < llReadSize)
  <2>1. Zero(b)
    BY <1>2, <1>5, <1>6, <1>9, ReadMeets
  <2>2. Zero(ctxSec \o b)
    BY <1>3, <1>6, <2>1, ZeroConcat
  <2>3. q >= llReadSize - (llReadSize % Section)
    <3>1. Section \in Nat \ {0}
      BY ConstantFacts
    <3>2. llReadSize % Section \in Nat
      BY <1>2, <3>1
    <3> QED BY <1>2, <1>5, <1>9, <3>2
  <2> QED BY <2>2, <2>3 DEF q, b
<1> QED BY <1>8, <1>9

\* The digest keeps what it has.
LEMMA AllHit ==
  ASSUME IInv, DataInv, _CalFileSHA256Value, fault = {}, NEW x \in damaged, Hashable(x), Hit(x)
  PROVE  Hit(x)'
<1>1. /\ pc = "all" /\ AllOut \in Seq(Nat) /\ Len(AllOut) = IF ReadSize > 0 THEN ReadSize ELSE 0
      /\ \A i \in 1..Len(AllOut) : AllOut[i] = f[file].disk[llReadSize + i]
      /\ llReadSize' = llReadSize + Len(AllOut)
      /\ IF Len(AllOut) # 0 /\ Hashed(Len(AllOut), llReadSize + Len(AllOut))
           THEN ctx' = Append(ctx, ctxSec \o AllOut) /\ ctxSec' = <<>>
           ELSE ctx' = ctx /\ ctxSec' = ctxSec \o AllOut
      /\ IF GoesOn(Len(AllOut), llReadSize + Len(AllOut)) THEN UNCHANGED <<file, pc>> ELSE NextFile
      /\ UNCHANGED <<ifntfs, image, mode, iSegIndex, llSectorDataReadSize, salt, seen, damaged, fault>>
  BY AllEffect
<1>2. HandleInv /\ pc \notin Ended /\ llReadSize \in Nat /\ file \in 1..N /\ N \in Nat
  BY <1>1, LoopFacts
<1>3. ctxSec \in Seq(Nat) /\ ctx \in Seq(Seq(Nat))
  BY <1>2, HandleTypes
<1> DEFINE q == x[2]
           p == llReadSize
           n == Len(AllOut)
           sec == ctxSec \o AllOut
           d == DataLen(file)
<1>4. /\ x[1] \in 1..N /\ x[2] \in 0..(DataLen(x[1]) - 1)
      /\ f[x[1]].disk[x[2] + 1] = 0
  BY <1>2 DEF DataInv
<1>5. sec \in Seq(Nat) /\ n \in Nat /\ p \in Nat
  BY <1>1, <1>2, <1>3
<1>6. x[1] = file => q \in 0..(d - 1)
  BY <1>4
<1>7. d \in Nat
  BY <1>1, <1>2, PassSizes
<1>8. x[1] = file /\ q < p + n => ZeroIn(ctx) \/ (Zero(sec) /\ q >= p - (p % Section))
  BY AllMeets
<1>9. /\ p' = p + n
      /\ IF n # 0 /\ Hashed(n, p + n) THEN ctx' = Append(ctx, sec) /\ ctxSec' = <<>>
         ELSE ctx' = ctx /\ ctxSec' = sec
      /\ IF GoesOn(n, p + n) THEN UNCHANGED <<file, pc>> ELSE NextFile
  BY <1>1
<1>10. p % Chunk = 0 /\ Len(ctxSec) = p % Section
  BY <1>1, AllFacts
<1>11. /\ ReadSize <= 0 \/ p + ReadSize <= d
       /\ ReadSize > 0 /\ ~GoesOn(ReadSize, p + ReadSize) => p + ReadSize = d
       /\ ReadSize <= 0 => d = 0 \/ (~ifntfs /\ file = N /\ d = p)
  BY <1>1, AllData
<1>12. n = IF ReadSize > 0 THEN ReadSize ELSE 0
  BY <1>1
<1>13. x[1] = file => q \notin LostTail(file, d)
  BY DEF Hashable
<1>14. x[1] < file => ZeroIn(ctx)
  BY DEF Hit
<1> HIDE DEF sec, n, d
<1>15. /\ ZeroIn(ctx) => ZeroIn(ctx')
       /\ Zero(sec) /\ n # 0 /\ Hashed(n, p + n) => ZeroIn(ctx')
  BY <1>3, <1>5, <1>9, ZeroAppend
<1>16. Chunk \in Nat \ {0} /\ Section \in Nat \ {0} /\ p % Section \in Nat
  BY <1>5, ConstantFacts
<1>17. CASE GoesOn(n, p + n)
  <2>1. n = Chunk /\ file' = file /\ pc' = "all"
    BY <1>1, <1>9, <1>17 DEF GoesOn
  <2>2. ASSUME x[1] = file, q < p' PROVE ZeroIn(ctx') \/ (Zero(ctxSec') /\ q >= p' - (p' % Section))
    <3>1. ZeroIn(ctx) \/ (Zero(sec) /\ q >= p - (p % Section))
      BY <1>8, <1>9, <2>2
    <3>2. CASE n # 0 /\ Hashed(n, p + n)
      BY <1>15, <3>1, <3>2
    <3>3. CASE ~(n # 0 /\ Hashed(n, p + n))
      <4>1. ctxSec' = sec /\ p' = p + Chunk
        BY <1>9, <2>1, <3>3
      <4>2. ~(Len(ctxSec) + Chunk >= Section)
        BY <1>16, <2>1, <3>3 DEF Hashed
      <4>3. (p + Chunk) % Section = (p % Section) + Chunk
        <5>1. /\ (p + Chunk) % Chunk = 0 /\ p % Section \in 0..(Section - 1) /\ (p % Section) % Chunk = 0
              /\ (p % Section) + Chunk <= Section
              /\ (p + Chunk) % Section = IF (p % Section) + Chunk >= Section THEN 0 ELSE (p % Section) + Chunk
          BY <1>5, <1>10, ChunkMore
        <5> QED BY <1>10, <4>2, <5>1
      <4>4. p' - (p' % Section) = p - (p % Section)
        <5>1. \A a, c, s \in Nat : (a + c) - (s + c) = a - s
          OBVIOUS
        <5>2. p' % Section = (p % Section) + Chunk
          BY <4>1, <4>3
        <5> DEFINE s == p % Section
        <5>3. s \in Nat /\ p' % Section = s + Chunk
          BY <1>16, <5>2
        <5> HIDE DEF s
        <5>4. p' - (p' % Section) = (p + Chunk) - (s + Chunk)
          BY <4>1, <5>3
        <5> QED BY <1>5, <1>16, <5>1, <5>3, <5>4 DEF s
      <4> QED BY <1>15, <3>1, <4>1, <4>4
    <3> QED BY <3>2, <3>3
  <2>3. pc' # "sample"
    BY <2>1
  <2> QED BY <1>14, <1>15, <2>1, <2>2, <2>3 DEF Hit
<1>18. CASE ~GoesOn(n, p + n)
  <2>1. file' = file + 1 /\ pc' \notin {"all", "sample"}
    BY <1>9, <1>18 DEF NextFile
  <2>2. ASSUME x[1] = file PROVE ZeroIn(ctx')
    <3>1. CASE ReadSize > 0
      <4>1. n = ReadSize /\ n # 0 /\ p + n = d
        BY <1>11, <1>12, <1>18, <3>1
      <4>2. q < p + n
        BY <1>6, <1>7, <2>2, <4>1
      <4>3. Hashed(n, p + n)
        BY <1>18 DEF Hashed
      <4> QED BY <1>8, <1>15, <2>2, <4>1, <4>2, <4>3
    <3>2. CASE ~(ReadSize > 0)
      <4>1. n = 0 /\ (d = 0 \/ (~ifntfs /\ file = N /\ d = p))
        <5>1. ReadSize \in Int
          BY <1>1, AllFacts
        <5> QED BY <1>11, <1>12, <3>2, <5>1
      <4>2. ~ifntfs /\ file = N /\ d = p
        BY <1>6, <2>2, <4>1
      <4>3. LostTail(file, d) = (p - (p % Section))..p
        BY <1>10, <4>2 DEF LostTail
      <4>4. q < p /\ q \in Nat
        BY <1>5, <1>6, <2>2, <4>2
      <4>5. ~(q >= p - (p % Section))
        <5> DEFINE s == p % Section
        <5>1. s \in Nat /\ q \notin (p - s)..p
          BY <1>13, <1>16, <2>2, <4>3
        <5> HIDE DEF s
        <5>2. ~(q >= p - s)
          BY <1>5, <4>4, <5>1
        <5> QED BY <5>2 DEF s
      <4>6. q < p + n
        BY <1>5, <4>1, <4>4
      <4> QED BY <1>8, <1>15, <2>2, <4>5, <4>6
    <3> QED BY <3>1, <3>2
  <2>3. x[1] < file + 1 => x[1] < file \/ x[1] = file
    BY <1>2, <1>4
  <2> QED BY <1>14, <1>15, <2>1, <2>2, <2>3 DEF Hit
<1> QED BY <1>17, <1>18

\* What a round of the loop over the samples has passed when it ends.
Reached(q) == Passed(q) \/ (llReadSize <= q /\ q < llReadSize + Chunk)

\* What this round reads is what the loop has passed when it is over.
LEMMA ReachedIs ==
  ASSUME IInv, pc = "sample", NEW q \in Nat, NEW k \in 0..iSegIndex,
         SampleStart(k) <= q, q < SampleStart(k) + Limit, k = iSegIndex => q < llReadSize + Chunk
  PROVE  Reached(q)
<1>1. llReadSize \in Nat /\ Chunk \in Nat
  BY LoopFacts, ConstantFacts
<1>2. CASE k = iSegIndex /\ ~(q < llReadSize)
  BY <1>1, <1>2 DEF Reached
<1>3. CASE ~(k = iSegIndex /\ ~(q < llReadSize))
  BY <1>3 DEF Reached, Passed
<1> QED BY <1>2, <1>3

\* The byte that rotted is hashed in the round that reaches it.
LEMMA SampleMeets ==
  ASSUME IInv, DataInv, _CalculateFileSHA256ValueBySegData, NEW x \in damaged, Hit(x), x[1] = file,
         Reached(x[2])
  PROVE  ZeroIn(ctx) \/ Zero(ctxSec \o SampleOut)
<1>1. /\ pc = "sample" /\ SampleOut \in Seq(Nat) /\ Len(SampleOut) = Chunk
      /\ \A i \in 1..Chunk : SampleOut[i] = f[file].disk[llReadSize + i]
      /\ ctx' = IF SampleFull
                THEN IF SampleEnd THEN Append(Append(ctx, ctxSec \o SampleOut), <<>>)
                                  ELSE Append(ctx, ctxSec \o SampleOut)
                ELSE IF SampleEnd THEN Append(ctx, ctxSec \o SampleOut) ELSE ctx
      /\ ctxSec' = IF SampleFull \/ SampleEnd THEN <<>> ELSE ctxSec \o SampleOut
      /\ iSegIndex' = IF SampleDone THEN iSegIndex + 1 ELSE iSegIndex
      /\ llSectorDataReadSize' = IF SampleDone THEN 0 ELSE llSectorDataReadSize + Chunk
      /\ llReadSize' = IF SampleEnd \/ ~SampleDone THEN llReadSize + Chunk
                       ELSE SampleStart(iSegIndex + 1)
      /\ IF ~SampleEnd THEN UNCHANGED <<file, pc>> ELSE NextFile
      /\ UNCHANGED <<ifntfs, image, mode, salt, seen, damaged, fault>>
  BY SampleEffect
<1>2. HandleInv /\ pc \notin Ended /\ llReadSize \in Nat
  BY <1>1, LoopFacts
<1>3. ctxSec \in Seq(Nat)
  BY <1>2, HandleTypes
<1> DEFINE q == x[2]
           b == SampleOut
           d == f[file].disk
<1>4. /\ x[1] \in 1..N /\ x[2] \in 0..(DataLen(x[1]) - 1)
      /\ f[x[1]].disk[x[2] + 1] = 0
  BY <1>2 DEF DataInv
<1>5. q \in Nat /\ d[q + 1] = 0
  BY <1>4
<1>6. b \in Seq(Nat) /\ Len(b) = Chunk /\ \A i \in 1..Len(b) : b[i] = d[llReadSize + i]
  BY <1>1
<1>7. Passed(q) => ZeroIn(ctx) \/ Zero(ctxSec)
  BY <1>1 DEF Hit
<1>8. Reached(q)
  OBVIOUS
<1> HIDE DEF q, b, d
<1>9. CASE Passed(q)
  BY <1>3, <1>6, <1>7, <1>9, ZeroConcat DEF b
<1>10. CASE llReadSize <= q /\ q < llReadSize + Chunk
  <2>1. q < llReadSize + Len(b)
    BY <1>6, <1>10
  <2>2. Zero(b)
    BY <1>2, <1>5, <1>6, <1>10, <2>1, ReadMeets
  <2> QED BY <1>3, <1>6, <2>2, ZeroConcat DEF b
<1> QED BY <1>8, <1>9, <1>10 DEF Reached

\* Where the samples are.
LEMMA SampleAt ==
  ASSUME IInv, pc = "sample", NEW k \in 0..(SegNumber + 1)
  PROVE  SampleStart(k) \in Nat /\ SampleStart(k) + Limit + (IF IsLast THEN Val ELSE 0) <= Size(file)
<1> DEFINE z == Size(file)
<1>1. HashInv /\ z \in Nat
  BY LoopFacts
<1>2. z > SegNumber * Big /\ Size(file) = z
  BY <1>1 DEF HashInv
<1> HIDE DEF z
<1>3. SampleStart(k) \in Nat /\ SampleStart(k) + Limit + (IF IsLast THEN Val ELSE 0) <= z
  BY <1>1, <1>2, SampleBounds
<1> QED BY <1>2, <1>3

\* A round passes a chunk.
LEMMA PassedStep ==
  ASSUME IInv, _CalculateFileSHA256ValueBySegData, ~SampleEnd, NEW q \in Nat, Passed(q)'
  PROVE  Reached(q)
<1>1. /\ pc = "sample" /\ SampleOut \in Seq(Nat) /\ Len(SampleOut) = Chunk
      /\ \A i \in 1..Chunk : SampleOut[i] = f[file].disk[llReadSize + i]
      /\ ctx' = IF SampleFull
                THEN IF SampleEnd THEN Append(Append(ctx, ctxSec \o SampleOut), <<>>)
                                  ELSE Append(ctx, ctxSec \o SampleOut)
                ELSE IF SampleEnd THEN Append(ctx, ctxSec \o SampleOut) ELSE ctx
      /\ ctxSec' = IF SampleFull \/ SampleEnd THEN <<>> ELSE ctxSec \o SampleOut
      /\ iSegIndex' = IF SampleDone THEN iSegIndex + 1 ELSE iSegIndex
      /\ llSectorDataReadSize' = IF SampleDone THEN 0 ELSE llSectorDataReadSize + Chunk
      /\ llReadSize' = IF SampleEnd \/ ~SampleDone THEN llReadSize + Chunk
                       ELSE SampleStart(iSegIndex + 1)
      /\ IF ~SampleEnd THEN UNCHANGED <<file, pc>> ELSE NextFile
      /\ UNCHANGED <<ifntfs, image, mode, salt, seen, damaged, fault>>
  BY SampleEffect
<1>2. /\ HandleInv /\ HashInv /\ TypeOK /\ pc \notin Ended /\ llReadSize \in Nat /\ file \in 1..N
  BY <1>1, LoopFacts
<1>3. /\ iSegIndex <= SegNumber /\ llReadSize = SampleStart(iSegIndex) + llSectorDataReadSize
      /\ iSegIndex \in Nat /\ llSectorDataReadSize \in Nat
  BY <1>1, <1>2, ConstantFacts DEF HashInv, TypeOK
<1>4. llSectorDataReadSize + Chunk <= Limit /\ Limit \in Nat /\ Chunk \in Nat
  <2> DEFINE r == NormalFileRead(f[file], llReadSize, Chunk)
  <2>1. r = NormalFileRead(f[file], llReadSize, Chunk)
    OBVIOUS
  <2> HIDE DEF r
  <2>2. /\ Tame(r.f) /\ r.f.disk = f[file].disk /\ Agrees(r.f)
        /\ r.out \in Seq(Nat) /\ Len(r.out) = Chunk
        /\ \A i \in 1..Chunk : r.out[i] = f[file].disk[llReadSize + i]
        /\ (ifntfs => Inside(r.f, llReadSize + Chunk))
        /\ llSectorDataReadSize \in Nat /\ llSectorDataReadSize + Chunk <= Limit
        /\ (llSectorDataReadSize + Chunk) % Chunk = 0
        /\ llReadSize + Chunk <= Size(file)
        /\ iSegIndex \in 0..SegNumber
        /\ iSegIndex # SegNumber => SampleStart(iSegIndex + 1) \in Nat
                                    /\ SampleStart(iSegIndex + 1) < Size(file)
        /\ llSectorDataReadSize + Chunk # Limit => llReadSize + Chunk < Size(file)
    BY <1>1, <2>1, SampleRead
  <2> QED BY <2>2, ConstantFacts
<1>5. /\ file' = file /\ N' = N /\ Limit' = Limit /\ Size(file)' = Size(file)
  <2>1. \A i \in 1..N : f'[i].disk = f[i].disk
    BY <1>2, SampleDisks
  <2> QED BY <1>1, <1>2, <2>1 DEF N, Limit, Size
<1>6. PICK k \in 0..iSegIndex' : /\ SampleStart(k)' <= q /\ q < SampleStart(k)' + Limit'
                                 /\ k = iSegIndex' => q < llReadSize'
  BY DEF Passed
<1>7. SampleStart(k)' = SampleStart(k)
  BY <1>5, SampleStartStep
<1>8. CASE ~SampleDone
  <2>1. iSegIndex' = iSegIndex /\ llReadSize' = llReadSize + Chunk
    BY <1>1, <1>8
  <2> QED BY <1>1, <1>5, <1>6, <1>7, <2>1, ReachedIs
<1>9. CASE SampleDone
  <2>1. iSegIndex' = iSegIndex + 1 /\ llReadSize' = SampleStart(iSegIndex + 1)
    BY <1>1, <1>9
  <2>2. k # iSegIndex + 1
    <3> SUFFICES ASSUME k = iSegIndex + 1 PROVE FALSE
      OBVIOUS
    <3> DEFINE s == SampleStart(k)
    <3>1. s <= q /\ q < s
      BY <1>6, <1>7, <2>1
    <3>2. s \in Nat
      <4>1. k \in 0..(SegNumber + 1)
        BY <1>3, <1>6, <2>1, ConstantFacts
      <4> QED BY <1>1, <4>1, SampleAt
    <3> HIDE DEF s
    <3> QED BY <3>1, <3>2
  <2>3. k \in 0..iSegIndex
    BY <1>3, <1>6, <2>1, <2>2
  <2>4. ASSUME k = iSegIndex PROVE q < llReadSize + Chunk
    <3>1. llSectorDataReadSize + Chunk = Limit
      BY <1>3, <1>4, <1>9 DEF SampleDone
    <3>2. q < SampleStart(iSegIndex) + Limit
      BY <1>5, <1>6, <1>7, <2>4
    <3>3. SampleStart(iSegIndex) \in Int
      <4>1. iSegIndex \in 0..(SegNumber + 1)
        BY <1>3, ConstantFacts
      <4> QED BY <1>1, <4>1, SampleAt
    <3> QED BY <1>3, <1>4, <3>1, <3>2, <3>3
  <2> QED BY <1>1, <1>5, <1>6, <1>7, <2>3, <2>4, ReachedIs
<1> QED BY <1>8, <1>9

\* After the last round all samples are passed.
LEMMA AllReached ==
  ASSUME IInv, fault = {}, pc = "sample", SampleEnd, NEW q \in Nat, q \in Covered(file, DataLen(file))
  PROVE  Reached(q)
<1> DEFINE z == Size(file)
           d == DataLen(file)
           v == IF IsLast THEN Val ELSE 0
           g == z \div SegNumber
<1>1. HashInv /\ TypeOK /\ pc \notin Ended /\ file \in 1..N /\ z \in Nat /\ llReadSize \in Nat
  BY LoopFacts
<1>2. /\ z > SegNumber * Big /\ llReadSize = SampleStart(iSegIndex) + llSectorDataReadSize
      /\ iSegIndex = SegNumber /\ llSectorDataReadSize \in Nat /\ llSectorDataReadSize + Chunk >= Limit
  BY <1>1 DEF HashInv, TypeOK, SampleEnd, SampleDone
<1>3. /\ d \in Nat /\ d = z - (IF file = N THEN Val ELSE 0)
  BY <1>1, PassSizes
<1>4. /\ Val \in Nat /\ SegNumber \in Nat \ {0} /\ Big \in Nat \ {0} /\ Limit \in Nat /\ Chunk \in Nat
  BY ConstantFacts
<1>5. v \in Nat /\ z = d + v /\ z = (IF file = N THEN d + Val ELSE d)
  BY <1>1, <1>3, <1>4 DEF IsLast
<1>6. SampleStart(SegNumber) = z - Limit - v
  BY <1>4 DEF SampleStart
<1>7. ASSUME NEW k \in 0..(SegNumber - 1) PROVE SampleStart(k) = k * g
  BY <1>4 DEF SampleStart
<1>8. ~(z <= SegNumber * Big)
  BY <1>1, <1>2, <1>4
<1>9. q \in (UNION {(k * g)..(k * g + Limit - 1) : k \in 0..(SegNumber - 1)}) \cup (d - Limit)..(d - 1)
  <2> HIDE DEF d
  <2>1. q \in Covered(file, d)
    BY DEF d
  <2>2. (IF file = N THEN d + Val ELSE d) = z
    BY <1>5
  <2>3. Covered(file, d) = (UNION {(k * g)..(k * g + Limit - 1) : k \in 0..(SegNumber - 1)})
                             \cup (d - Limit)..(d - 1)
    BY <1>8, <2>2 DEF Covered
  <2> QED BY <2>1, <2>3
<1>10. SampleStart(SegNumber) \in Nat
  <2> DEFINE k == SegNumber
  <2>1. k \in 0..(SegNumber + 1)
    BY <1>4
  <2> HIDE DEF k
  <2>2. SampleStart(k) \in Nat
    BY <2>1, SampleAt
  <2> QED BY <2>2 DEF k
<1>11. ASSUME NEW k \in 0..(SegNumber - 1) PROVE k * g \in Nat
  <2> DEFINE s == SampleStart(k)
  <2>1. k \in 0..(SegNumber + 1)
    BY <1>4
  <2>2. SampleStart(k) \in Nat
    BY <2>1, SampleAt
  <2> QED BY <1>7, <2>2
<1> HIDE DEF z, d, v, g
<1>12. CASE q \in (d - Limit)..(d - 1)
  <2> DEFINE k == SegNumber
             s == SampleStart(SegNumber)
  <2>1. s = d - Limit
    BY <1>3, <1>4, <1>5, <1>6
  <2>2. s \in Nat /\ llReadSize = s + llSectorDataReadSize
    BY <1>2, <1>10
  <2>3. k \in 0..iSegIndex /\ s = SampleStart(k)
    BY <1>2, <1>4
  <2> HIDE DEF s, k
  <2>4. s <= q /\ q < s + Limit /\ q < llReadSize + Chunk
    BY <1>2, <1>3, <1>4, <1>12, <2>1, <2>2
  <2> QED BY <2>3, <2>4, ReachedIs
<1>13. CASE q \in UNION {(k * g)..(k * g + Limit - 1) : k \in 0..(SegNumber - 1)}
  <2>1. PICK k \in 0..(SegNumber - 1) : q \in (k * g)..(k * g + Limit - 1)
    BY <1>13
  <2>2. k \in 0..iSegIndex /\ k # iSegIndex
    BY <1>2, <1>4
  <2> DEFINE s == SampleStart(k)
  <2>3. s \in Nat /\ q \in s..(s + Limit - 1)
    BY <1>7, <1>11, <2>1
  <2> HIDE DEF s
  <2>4. s <= q /\ q < s + Limit
    BY <1>4, <2>3
  <2> QED BY <2>2, <2>4, ReachedIs DEF s
<1> QED BY <1>9, <1>12, <1>13

\* The digest keeps what it has.
LEMMA SampleHit ==
  ASSUME IInv, DataInv, _CalculateFileSHA256ValueBySegData, fault = {}, NEW x \in damaged,
         Hashable(x), Hit(x)
  PROVE  Hit(x)'
<1>1. /\ pc = "sample" /\ SampleOut \in Seq(Nat) /\ Len(SampleOut) = Chunk
      /\ \A i \in 1..Chunk : SampleOut[i] = f[file].disk[llReadSize + i]
      /\ ctx' = IF SampleFull
                THEN IF SampleEnd THEN Append(Append(ctx, ctxSec \o SampleOut), <<>>)
                                  ELSE Append(ctx, ctxSec \o SampleOut)
                ELSE IF SampleEnd THEN Append(ctx, ctxSec \o SampleOut) ELSE ctx
      /\ ctxSec' = IF SampleFull \/ SampleEnd THEN <<>> ELSE ctxSec \o SampleOut
      /\ iSegIndex' = IF SampleDone THEN iSegIndex + 1 ELSE iSegIndex
      /\ llSectorDataReadSize' = IF SampleDone THEN 0 ELSE llSectorDataReadSize + Chunk
      /\ llReadSize' = IF SampleEnd \/ ~SampleDone THEN llReadSize + Chunk
                       ELSE SampleStart(iSegIndex + 1)
      /\ IF ~SampleEnd THEN UNCHANGED <<file, pc>> ELSE NextFile
      /\ UNCHANGED <<ifntfs, image, mode, salt, seen, damaged, fault>>
  BY SampleEffect
<1>2. HandleInv /\ pc \notin Ended /\ file \in 1..N /\ N \in Nat
  BY <1>1, LoopFacts
<1>3. ctxSec \in Seq(Nat) /\ ctx \in Seq(Seq(Nat)) /\ <<>> \in Seq(Nat)
  BY <1>2, HandleTypes
<1> DEFINE q == x[2]
           sec == ctxSec \o SampleOut
<1>4. /\ x[1] \in 1..N /\ x[2] \in 0..(DataLen(x[1]) - 1)
      /\ f[x[1]].disk[x[2] + 1] = 0
  BY <1>2 DEF DataInv
<1>5. q \in Nat /\ sec \in Seq(Nat)
  BY <1>1, <1>3, <1>4
<1>6. x[1] = file /\ Reached(q) => ZeroIn(ctx) \/ Zero(sec)
  BY SampleMeets
<1>7. x[1] = file /\ SampleEnd => Reached(q)
  BY <1>1, <1>5, AllReached DEF Hashable
<1>8. ~SampleEnd /\ Passed(q)' => Reached(q)
  BY <1>5, PassedStep
<1>9. x[1] < file => ZeroIn(ctx)
  BY DEF Hit
<1>10. /\ ctx' = IF SampleFull
                 THEN IF SampleEnd THEN Append(Append(ctx, sec), <<>>) ELSE Append(ctx, sec)
                 ELSE IF SampleEnd THEN Append(ctx, sec) ELSE ctx
       /\ ctxSec' = IF SampleFull \/ SampleEnd THEN <<>> ELSE sec
       /\ IF ~SampleEnd THEN UNCHANGED <<file, pc>> ELSE NextFile
  BY <1>1
<1> HIDE DEF sec
<1> DEFINE c == Append(ctx, sec)
<1>11. c \in Seq(Seq(Nat)) /\ (ZeroIn(c) <=> ZeroIn(ctx) \/ Zero(sec)) /\ c = Append(ctx, sec)
  BY <1>3, <1>5, ZeroAppend
<1> HIDE DEF c
<1>12. ZeroIn(Append(c, <<>>)) <=> ZeroIn(c)
  BY <1>3, <1>11, ZeroAppend, ZeroEmpty
<1>13. /\ ZeroIn(ctx) => ZeroIn(ctx')
       /\ Zero(sec) => ZeroIn(ctx') \/ Zero(ctxSec')
       /\ Zero(sec) /\ SampleEnd => ZeroIn(ctx')
  BY <1>10, <1>11, <1>12
<1>14. CASE ~SampleEnd
  <2>1. file' = file /\ pc' = "sample" /\ x' = x
    BY <1>1, <1>10, <1>14
  <2>2. x[1] = file /\ Passed(q)' => ZeroIn(ctx') \/ Zero(ctxSec')
    BY <1>6, <1>8, <1>13, <1>14
  <2> QED BY <1>9, <1>13, <2>1, <2>2 DEF Hit
<1>15. CASE SampleEnd
  <2>1. file' = file + 1 /\ pc' \notin {"all", "sample"}
    BY <1>10, <1>15 DEF NextFile
  <2>2. x[1] < file + 1 => x[1] < file \/ x[1] = file
    BY <1>2, <1>4
  <2>3. x[1] < file + 1 => ZeroIn(ctx')
    BY <1>6, <1>7, <1>9, <1>13, <1>15, <2>2
  <2> QED BY <2>1, <2>3 DEF Hit
<1> QED BY <1>14, <1>15

\* As long as the files of the image stay, what is to be hashed stays the same.
LEMMA HashableSame ==
  ASSUME UNCHANGED <<ifntfs, image>>, N' = N, \A i \in 1..N : f'[i].disk = f[i].disk,
         NEW x, x[1] \in 1..N, Hashable(x)'
  PROVE  Hashable(x)
<1>4. DataLen(x[1])' = DataLen(x[1])
  BY DEF DataLen, Size
<1>5. Limit' = Limit
  BY DEF Limit
<1> DEFINE i == x[1]
           d == DataLen(i)
<1>6. d' = d /\ i' = i /\ N' = N /\ ifntfs' = ifntfs
  BY <1>4
<1> HIDE DEF d, i
<1>7. Covered(i, d)' = Covered(i, d)
  BY <1>5, <1>6 DEF Covered
<1>8. LostTail(i, d)' = LostTail(i, d)
  BY <1>6 DEF LostTail
<1>9. x[2] \in Covered(i, d)' \ LostTail(i, d)'
  BY DEF Hashable, i, d
<1> QED BY <1>7, <1>8, <1>9 DEF Hashable, i, d

\* A byte that is to be hashed was to be hashed before the step.
LEMMA HashableKept ==
  ASSUME IInv, DataInv, Next, pc' \notin Ended, pc \notin {"placeholder", "save"}, ~Damage,
         NEW x \in damaged, Hashable(x)'
  PROVE  Hashable(x)
<1>1. /\ UNCHANGED <<ifntfs, image>> /\ N' = N /\ fault \subseteq fault' /\ pc \notin Ended
      /\ Calculating' => Calculating
      /\ ~Damage => damaged' = damaged
  BY NextFrame
<1>2. \A i \in 1..N : f'[i].disk = f[i].disk
  BY DisksKept
<1>3. x[1] \in 1..N
  BY <1>1 DEF DataInv
<1> QED BY <1>1, <1>2, <1>3, HashableSame

\* Every step of the validation meets the byte that rotted, or has not reached it.
LEMMA NextHit == IInv /\ DataInv /\ HitInv /\ [Next]_vars => HitInv'
<1> SUFFICES ASSUME IInv, DataInv, HitInv, [Next]_vars, pc' \notin Ended, fault' = {}, mode' = "validate",
                    NEW x \in damaged', Hashable(x)'
             PROVE  Hit(x)'
  BY DEF HitInv, Hashable, Hit
<1>1. CASE UNCHANGED vars
  <2>3. UNCHANGED <<f, image, ifntfs, mode, pc, fault, damaged>>
    BY <1>1 DEF vars
  <2>4. pc \notin Ended /\ fault = {} /\ mode = "validate" /\ x \in damaged
    BY <2>3
  <2>5. N' = N /\ Limit' = Limit /\ \A i : Size(i)' = Size(i)
    BY <2>3 DEF N, Limit, Size
  <2>6. /\ DataLen(x[1])' = DataLen(x[1])
        /\ \A i, d : Covered(i, d)' = Covered(i, d) /\ LostTail(i, d)' = LostTail(i, d)
    BY <2>3, <2>5 DEF Covered, LostTail, DataLen
  <2>1. pc \notin Ended /\ fault = {} /\ mode = "validate" /\ x \in damaged /\ Hashable(x)
    BY <2>3, <2>4, <2>6 DEF Hashable
  <2>2. Hit(x)
    BY <2>1 DEF HitInv, Hashable, Hit
  <2> QED BY <1>1, <2>2 DEF vars, hash, Hit, Passed, SampleStart, Size, N, Limit, IsLast
<1>2. CASE Next
  <2>1. /\ UNCHANGED <<ifntfs, image>> /\ N' = N /\ fault \subseteq fault' /\ pc \notin Ended
        /\ Calculating' => Calculating
        /\ ~Damage => damaged' = damaged
    BY <1>2, NextFrame
  <2>2. CASE ValidImageCheckValue
    <3>1. pc' = "file" /\ file' = 1 /\ damaged' = damaged
      BY <2>2 DEF ValidImageCheckValue, Begin, Ended
    <3>2. x[1] \in 1..N
      BY <2>1, <3>1 DEF DataInv
    <3>3. ~(x[1] < 1)
      BY <3>2
    <3> QED BY <3>1, <3>3 DEF Hit
  <2>3. CASE ~ValidImageCheckValue
    <3>1. mode = "validate" /\ ~CalculateFileCheckValue
      <4>1. ~CalculateFileCheckValue /\ ~Done /\ ~UserBreak /\ ~FileReadStays /\ ~GetFileCheckValue
        BY <2>1 DEF CalculateFileCheckValue, Begin, Done, Ended, UserBreak,
            FileReadStays, Refuse, GetFileCheckValue
      <4>2. CASE SaveZeroDataToFileEndForCheckValue \/ CalculateFileSHA256Value \/ Damage \/ GetSaltValue
                 \/ SaveFileCheckValue
        BY <4>1, <4>2 DEF SaveZeroDataToFileEndForCheckValue, CalculateFileSHA256Value, Damage, GetSaltValue,
           SaveFileCheckValue
      <4>3. CASE _CalFileSHA256Value
        BY <4>1, <4>3 DEF _CalFileSHA256Value
      <4>4. CASE _CalculateFileSHA256ValueBySegData
        BY <4>1, <4>4 DEF _CalculateFileSHA256ValueBySegData
      <4>5. CASE HashReadFails
        BY <4>1, <4>5 DEF HashReadFails
      <4> QED BY <1>2, <2>3, <4>1, <4>2, <4>3, <4>4, <4>5 DEF Next, Step
    <3>2. pc \notin {"written", "placeholder", "save", "calculated"}
      BY <3>1 DEF IInv, HashInv
    <3>3. ~Damage /\ damaged' = damaged /\ fault = {}
      BY <2>1, <3>2 DEF Damage
    <3>4. x \in damaged /\ Hashable(x)
      <4>1. pc \notin {"placeholder", "save"}
        BY <3>2
      <4>2. x \in damaged
        BY <3>3
      <4> QED BY <1>2, <3>3, <4>1, <4>2, HashableKept
    <3>5. Hit(x)
      BY <2>1, <3>1, <3>3, <3>4 DEF HitInv, Hashable, Hit
    <3>6. x[2] \in Nat
      <4>1. x[2] \in 0..(DataLen(x[1]) - 1)
        BY <2>1, <3>4 DEF DataInv
      <4> QED BY <4>1
    <3>7. CASE CalculateFileSHA256Value
      <4>1. /\ file' = file /\ ctx' = ctx /\ pc' \in {"all", "sample"}
            /\ llReadSize' = 0 /\ iSegIndex' = 0
        BY <3>7 DEF CalculateFileSHA256Value, Refuse, Ended
      <4>2. ~Passed(x[2])'
        BY <3>6, <4>1 DEF Passed
      <4> QED BY <3>5, <3>6, <4>1, <4>2 DEF Hit
    <3>8. CASE _CalFileSHA256Value
      BY <3>3, <3>4, <3>5, <3>8, AllHit
    <3>9. CASE _CalculateFileSHA256ValueBySegData
      BY <3>3, <3>4, <3>5, <3>9, SampleHit
    <3>10. CASE GetSaltValue
      <4>1. file' = file /\ ctx' = ctx /\ pc' \notin {"all", "sample"}
        BY <3>10 DEF GetSaltValue, hash, Refuse
      <4> QED BY <3>5, <4>1 DEF Hit
    <3>11. /\ ~HashReadFails /\ ~UserBreak /\ ~FileReadStays /\ ~GetFileCheckValue /\ ~Done
           /\ ~SaveZeroDataToFileEndForCheckValue /\ ~SaveFileCheckValue
      BY <2>1, <3>2 DEF HashReadFails, UserBreak, FileReadStays, Refuse, GetFileCheckValue, Done, Ended,
         SaveZeroDataToFileEndForCheckValue, SaveFileCheckValue
    <3> QED BY <1>2, <2>3, <3>1, <3>3, <3>7, <3>8, <3>9, <3>10, <3>11 DEF Next, Step
  <2> QED BY <2>2, <2>3
<1> QED BY <1>1, <1>2

-----------------------------------------------------------------------------
(***************************************************************************)
(* The comparison.                                                         *)
(***************************************************************************)

\* Another digest has another check value.
LEMMA TwoDigests ==
  ASSUME NEW a, a # Digest, NEW s, s = Append(<<a>>, Digest)
  PROVE  CheckBytes(s) # Bytes
<1> DEFINE k == CHOOSE i \in 1..Len(s) : s[i] = Digest
<1>1. Len(s) = 2 /\ s[1] = a /\ s[2] = Digest
  OBVIOUS
<1>2. \E i \in 1..Len(s) : s[i] = Digest
  BY <1>1
<1>3. k \in 1..Len(s) /\ s[k] = Digest
  BY <1>2
<1>4. k = 2
  BY <1>1, <1>3
<1>5. CheckBytes(s) = [j \in 1..Val |-> 10000 * k + j]
  BY DEF CheckBytes
<1> HIDE DEF k
<1>6. 1 \in 1..Val
  BY ConstantFacts
<1>7. CheckBytes(s)[1] = 20001
  BY <1>4, <1>5, <1>6
<1>8. Bytes[1] = 10001
  BY <1>6 DEF Bytes
<1> QED BY <1>7, <1>8

\* What ValidImageCheckValue finds at the end of the image.
LEMMA ValueRead ==
  ASSUME IInv, ValueInv, fault = {}, pc = "compare", NEW r, r = NormalFileRead(f[N], ValuePos, Val)
  PROVE  r.out = Bytes
<1> DEFINE s == f[N].disk
           b == r.out
           v == ValuePos
<1>1. /\ N \in 1..N /\ Tame(f[N]) /\ Agrees(f[N]) /\ f[N].disk \in Seq(Nat)
      /\ Size(N) \in Nat /\ Size(N) = Len(f[N].disk)
      /\ ValuePos \in Nat /\ ifntfs \in BOOLEAN
      /\ Size(N) # 0 => ValuePos + Val = Size(N)
      /\ Size(N) = 0 => ValuePos = 0 /\ ~ifntfs /\ image[N] = <<>>
  BY PosFacts
<1>2. /\ Tame(r.f) /\ r.f.disk = f[N].disk /\ f[N].disk \in Seq(Nat)
      /\ r.out = Slice(f[N].disk, ValuePos, Val)
  BY CompareRead
<1>3. pc \notin Ended /\ pc \notin {"written", "placeholder"} /\ ~Calculating
  BY DEF Ended, IInv, HashInv, Calculating
<1>4. Val \in Nat \ {0}
  BY ConstantFacts
<1>5. DataLen(N) \in Nat /\ DataLen(N) = Size(N) - (IF N = N THEN Val ELSE 0)
  BY <1>1, <1>3, PassSizes
<1>6. Size(N) = v + Val
  BY <1>1, <1>4, <1>5
<1>7. \A j \in 1..Val : s[Size(N) - Val + j] = 10000 + j
  BY <1>3 DEF ValueInv
<1>8. v \in Nat /\ s \in Seq(Nat) /\ Len(s) = v + Val /\ b = Slice(s, v, Val)
  BY <1>1, <1>2, <1>6
<1> HIDE DEF s, b, v
<1>9. /\ b \in Seq(Nat) /\ Len(b) \in Nat
      /\ Len(b) = IF v >= Len(s) \/ Val <= 0 THEN 0 ELSE IF v + Val < Len(s) THEN Val ELSE Len(s) - v
  <2>1. Val \in Int
    BY <1>4
  <2> QED BY <1>8, <2>1, SliceFacts
<1>10. Len(b) = Val
  <2>1. ~(v >= Len(s) \/ Val <= 0) /\ ~(v + Val < Len(s)) /\ Len(s) - v = Val
    BY <1>4, <1>8
  <2> QED BY <1>9, <2>1
<1>11. \A i \in 1..Len(b) : b[i] = s[v + i]
  <2>1. Val \in Int
    BY <1>4
  <2> QED BY <1>8, <2>1, SliceAll
<1>12. ASSUME NEW i \in 1..Val PROVE b[i] = 10000 + i
  <2>1. Size(N) - Val + i = v + i
    BY <1>4, <1>6, <1>8
  <2> QED BY <1>7, <1>10, <1>11, <2>1
<1>13. Bytes \in Seq(Nat) /\ Len(Bytes) = Val /\ \A j \in 1..Val : Bytes[j] = 10000 + j
  BY BytesFacts
<1>14. b = Bytes
  BY <1>9, <1>10, <1>12, <1>13, SeqEqual
<1> QED BY <1>14 DEF b

\* The image is accepted when its digest is that of the first pass.
LEMMA CompareOutcome ==
  ASSUME IInv, ValueInv, fault' = {}, GetFileCheckValue, pc' \in {"valid", "invalid"}
  PROVE  /\ pc = "compare" /\ mode = "validate" /\ fault = {} /\ file = N + 1
         /\ UNCHANGED <<ifntfs, image, damaged>> /\ N' = N
         /\ pc' = "valid" <=> Digest = seen[1]
         /\ \A i \in 1..N : f'[i].disk = f[i].disk
<1> DEFINE r == NormalFileRead(f[N], ValuePos, Val)
<1>1. /\ pc = "compare" /\ UNCHANGED <<ifntfs, image, damaged, fault>>
      /\ seen' = IF \E i \in 1..Len(seen) : seen[i] = Digest THEN seen ELSE Append(seen, Digest)
      /\ pc' = IF r.out = CheckBytes(seen') THEN "valid" ELSE "invalid"
      /\ f' = [f EXCEPT ![N] = Opened(r.f.disk)]
  BY DEF GetFileCheckValue, Refuse
<1>2. r = NormalFileRead(f[N], ValuePos, Val)
  OBVIOUS
<1> HIDE DEF r
<1>3. fault = {}
  BY <1>1
<1>4. r.out = Bytes
  BY <1>1, <1>2, <1>3, ValueRead
<1>5. r.f.disk = f[N].disk
  BY <1>1, <1>2, CompareRead
<1>6. mode = "validate" /\ file = N + 1 /\ seen = <<seen[1]>>
  BY <1>1 DEF IInv, HashInv, Ended, Calculating
<1>7. ASSUME Digest = seen[1] PROVE pc' = "valid"
  <2>1. Len(seen) = 1
    BY <1>6
  <2>2. \E i \in 1..Len(seen) : seen[i] = Digest
    BY <1>7, <2>1
  <2>3. seen' = <<Digest>>
    BY <1>1, <1>6, <1>7, <2>2
  <2>4. CheckBytes(seen') = Bytes
    BY <2>3, OneDigest
  <2> QED BY <1>1, <1>4, <1>7, <2>4
<1>8. ASSUME Digest # seen[1] PROVE pc' = "invalid"
  <2> DEFINE a == seen[1]
  <2>1. seen = <<a>> /\ a # Digest
    BY <1>6, <1>8
  <2> HIDE DEF a
  <2>2. ~\E i \in 1..Len(seen) : seen[i] = Digest
    BY <2>1
  <2>3. seen' = Append(<<a>>, Digest)
    BY <1>1, <2>1, <2>2
  <2>4. CheckBytes(seen') # Bytes
    BY <2>1, <2>3, TwoDigests
  <2> QED BY <1>1, <1>4, <1>8, <2>4
<1>9. \A i \in 1..N : f'[i].disk = f[i].disk
  <2> DEFINE g == Opened(r.f.disk)
  <2>1. f \in [1..N -> Handle] /\ f' = [f EXCEPT ![N] = g] /\ g.disk = f[N].disk
    BY <1>1, <1>5 DEF IInv, HandleInv, Opened
  <2> HIDE DEF g
  <2> QED BY <2>1
<1> QED BY <1>1, <1>3, <1>6, <1>7, <1>8, <1>9 DEF N

\* An image whose digest has a 0 is not accepted.
LEMMA Compared ==
  ASSUME IInv, DataInv, ValueInv, PureInv, HitInv, GetFileCheckValue, pc' = "valid", fault' = {},
         NEW x \in damaged', Hashable(x)'
  PROVE  FALSE
<1>1. pc' \in {"valid", "invalid"}
  OBVIOUS
<1>2. /\ pc = "compare" /\ mode = "validate" /\ fault = {} /\ file = N + 1
      /\ UNCHANGED <<ifntfs, image, damaged>> /\ N' = N
      /\ pc' = "valid" <=> Digest = seen[1]
      /\ \A i \in 1..N : f'[i].disk = f[i].disk
  BY <1>1, CompareOutcome
<1>3. pc \notin Ended /\ x \in damaged /\ Digest = seen[1] /\ ~Calculating
  BY <1>2 DEF Ended, Calculating
<1>4. x[1] \in 1..N
  BY <1>3 DEF DataInv
<1>5. Hashable(x)
  BY <1>2, <1>4, HashableSame
<1>6. Hit(x)
  BY <1>2, <1>3, <1>5 DEF HitInv, Hashable, Hit
<1>7. ZeroIn(ctx)
  <2>1. N \in Nat
    BY ImageFacts DEF IInv
  <2>2. x[1] < file
    BY <1>2, <1>4, <2>1
  <2> QED BY <1>6, <2>2 DEF Hit
<1>8. ~ZeroIn(seen[1][1])
  BY <1>2, <1>3 DEF PureInv
<1>9. seen[1][1] = ctx
  BY <1>3 DEF Digest
<1> QED BY <1>7, <1>8, <1>9

\* Only the comparison ends a validation with a verdict.
LEMMA FromCompare == ASSUME Next, pc' \in {"valid", "invalid"} PROVE GetFileCheckValue \/ UNCHANGED vars
<1>1. ~CalculateFileCheckValue /\ ~ValidImageCheckValue /\ ~SaveZeroDataToFileEndForCheckValue
  BY DEF CalculateFileCheckValue, ValidImageCheckValue, SaveZeroDataToFileEndForCheckValue
<1>2. ~CalculateFileSHA256Value /\ ~UserBreak /\ ~FileReadStays /\ ~GetSaltValue /\ ~SaveFileCheckValue
  BY DEF CalculateFileSHA256Value, UserBreak, FileReadStays, GetSaltValue, SaveFileCheckValue, Refuse
<1>3. ~HashReadFails
  BY DEF HashReadFails, NextFile
<1>4. ~_CalFileSHA256Value
  BY DEF _CalFileSHA256Value, NextFile
<1>5. ~_CalculateFileSHA256ValueBySegData
  BY DEF _CalculateFileSHA256ValueBySegData, NextFile
<1>6. Damage => FALSE
  BY DEF Damage
<1> QED BY <1>1, <1>2, <1>3, <1>4, <1>5, <1>6 DEF Next, Step, Done

\* A step to the verdict that the image is valid has met no damage.
LEMMA NextDetected ==
  ASSUME IInv, DataInv, ValueInv, PureInv, HitInv, DamageIsDetected, [Next]_vars
  PROVE  DamageIsDetected'
<1> SUFFICES ASSUME pc' = "valid", fault' = {}, NEW x \in damaged', Hashable(x)' PROVE FALSE
  BY DEF DamageIsDetected, Hashable
<1>1. CASE UNCHANGED vars
  <2>1. pc = "valid" /\ fault = {} /\ x \in damaged /\ ifntfs' = ifntfs /\ image' = image /\ f' = f
    BY <1>1 DEF vars
  <2>2. DataLen(x[1])' = DataLen(x[1]) /\ N' = N /\ Limit' = Limit
    BY <2>1 DEF DataLen, Size, N, Limit
  <2> DEFINE i == x[1]
             d == DataLen(i)
  <2>3. d' = d /\ i' = i
    BY <2>2
  <2>4. x[2] \in Covered(i, d)' \ LostTail(i, d)'
    BY DEF Hashable
  <2> HIDE DEF d, i
  <2>5. Covered(i, d)' = Covered(i, d)
    BY <2>2, <2>3 DEF Covered
  <2>6. LostTail(i, d)' = LostTail(i, d)
    BY <2>1, <2>2, <2>3 DEF LostTail
  <2>7. Hashable(x)
    BY <2>4, <2>5, <2>6 DEF Hashable, i, d
  <2> QED BY <2>1, <2>7 DEF DamageIsDetected, Hashable
<1>2. CASE GetFileCheckValue
  BY <1>2, Compared
<1> QED BY <1>1, <1>2, FromCompare

\* A byte of the image that rots after the calculation is noticed before the image is
\* restored, if it is in a small file or in a sample of a big one: whatever
\* ValidImageCheckValue reads through the cache, its digest then has a byte that that of
\* CalculateFileCheckValue has not.  The tail that a FAT image loses is all that is excepted.
THEOREM RotIsNoticed == Spec => []DamageIsDetected
<1>1. Init => PureInv /\ HitInv /\ DamageIsDetected
  <2>1. ASSUME Init PROVE ~ZeroIn(ctx) /\ ~Zero(ctxSec)
    BY <2>1, ZeroEmpty DEF Init
  <2> QED BY <2>1 DEF Init, PureInv, HitInv, DamageIsDetected, Calculating
<1>2. IInv /\ DataInv /\ PureInv /\ [Next]_vars => PureInv'
  BY NextPure
<1>3. IInv /\ DataInv /\ HitInv /\ [Next]_vars => HitInv'
  BY NextHit
<1>4. IInv /\ DataInv /\ ValueInv /\ PureInv /\ HitInv /\ DamageIsDetected /\ [Next]_vars
        => DamageIsDetected'
  BY NextDetected
<1> QED BY <1>1, <1>2, <1>3, <1>4, CheckValueInductive, DataInductive, ValueInductive, PTL DEF Spec

-----------------------------------------------------------------------------
(***************************************************************************)
(* The two passes do the same.  What a round of a pass makes of the digest *)
(* is a function of where it stands and of the image; the rounds of the    *)
(* first pass are kept as a history, along which the second one goes.      *)
(***************************************************************************)

\* Where a pass stands: the step, the file, the position in it, the sample and what
\* of it is read, the section begun and the sections hashed.
At(step, i, p, k, d, sec, c) == <<step, i, p, k, d, sec, c>>
Cur ==
  At(IF pc \in {"save", "compare"} THEN "salt" ELSE pc, file,
     IF pc \in {"all", "sample"} THEN llReadSize ELSE 0,
     IF pc = "sample" THEN iSegIndex ELSE 0,
     IF pc = "sample" THEN llSectorDataReadSize ELSE 0,
     IF pc \in {"all", "sample"} THEN ctxSec ELSE <<>>, ctx)
Start == At("file", 1, 0, 0, 0, <<>>, <<>>)

\* The end of the loop over file i.
Past(i, c) == At(IF i = N THEN "salt" ELSE "file", i + 1, 0, 0, 0, <<>>, c)

\* The rounds: a file is opened, a chunk of a small one is hashed, a chunk of a sample.
AfterFile(i, c) == At(IF SizeOf(i) > SegNumber * Big THEN "sample" ELSE "all", i, 0, 0, 0, <<>>, c)

ReadSizeOf(i, p) ==
  IF SizeOf(i) - p > Chunk THEN Chunk ELSE SizeOf(i) - p - (IF i = N THEN Val ELSE 0)
AfterAll(i, p, s, c) ==
  LET b == Slice(image[i], p, ReadSizeOf(i, p))
      on == Len(b) = Chunk /\ p + Len(b) < SizeOf(i)
      hashed == Len(b) # 0 /\ (Len(s) + Len(b) >= Section \/ ~on)
      cc == IF hashed THEN Append(c, s \o b) ELSE c
  IN IF on THEN At("all", i, p + Len(b), 0, 0, IF hashed THEN <<>> ELSE s \o b, cc) ELSE Past(i, cc)

StartOf(i, k) ==
  IF k < SegNumber THEN k * (SizeOf(i) \div SegNumber)
  ELSE SizeOf(i) - Limit - (IF i = N THEN Val ELSE 0)
AfterSample(i, p, k, d, s, c) ==
  LET b == Slice(image[i], p, Chunk)
      full == Len(s \o b) >= Section
      done == d + Chunk >= Limit
      end == done /\ k = SegNumber
      cc == IF full THEN IF end THEN Append(Append(c, s \o b), <<>>) ELSE Append(c, s \o b)
            ELSE IF end THEN Append(c, s \o b) ELSE c
  IN IF end THEN Past(i, cc)
     ELSE At("sample", i, IF done THEN StartOf(i, k + 1) ELSE p + Chunk,
             IF done THEN k + 1 ELSE k, IF done THEN 0 ELSE d + Chunk,
             IF full THEN <<>> ELSE s \o b, cc)

After(h) ==
  IF h[1] = "file" THEN AfterFile(h[2], h[7])
  ELSE IF h[1] = "all" THEN AfterAll(h[2], h[3], h[6], h[7])
  ELSE AfterSample(h[2], h[3], h[4], h[5], h[6], h[7])

\* H is a history of m rounds.
History(m, H) ==
  /\ H[0] = Start
  /\ \A k \in 0..(m - 1) : H[k][1] \in {"file", "all", "sample"} /\ H[k + 1] = After(H[k])

\* The salt of the image.
SaltOf == Slice(image[1], SizeOf(1) \div 2, Val) \o Slice(image[1], SizeOf(1) \div 3, 1)

\* The first pass stands where a history has come to; the second one stands somewhere
\* along that of the first, which ended with the digest.
Reaches(h) == \E m \in Nat : \E H : History(m, H) /\ H[m] = h
Follows(m, H) ==
  /\ History(m, H) /\ H[m][1] = "salt" /\ seen[1] = <<H[m][7], SaltOf>>
  /\ mode = "validate" => \E k \in 0..m : Cur = H[k]
Along == IF Calculating THEN Reaches(Cur) ELSE \E m \in Nat : \E H : Follows(m, H)
HistoryInv ==
  pc \notin Ended /\ fault = {} /\ damaged = {} =>
    /\ pc = "placeholder" => file = 1 /\ ctx = <<>>
    /\ pc \in {"save", "compare"} => salt = SaltOf
    /\ pc \notin {"written", "placeholder"} => Along

\* The rounds of a pass.
LEMMA FileFollows ==
  ASSUME IInv, fault = {}, CalculateFileSHA256Value, pc' \notin Ended
  PROVE  Cur' = After(Cur) /\ pc = "file"
<1>1. /\ pc = "file" /\ llReadSize' = 0 /\ iSegIndex' = 0 /\ llSectorDataReadSize' = 0 /\ ctxSec' = <<>>
      /\ pc' = (IF Size(file) > SegNumber * Big THEN "sample" ELSE "all") /\ file' = file /\ ctx' = ctx
  BY DEF CalculateFileSHA256Value, Refuse, Ended
<1>2. file \in 1..N
  <2>1. N \in Nat
    BY ImageFacts DEF IInv
  <2> QED BY <1>1, <2>1 DEF IInv, TypeOK, HashInv
<1>3. Size(file) = SizeOf(file)
  <2>1. pc \notin Ended /\ pc \notin {"written", "placeholder"}
    BY <1>1 DEF Ended
  <2> QED BY <1>2, <2>1, PassSizes
<1>4. Cur = At("file", file, 0, 0, 0, <<>>, ctx)
  BY <1>1 DEF Cur
<1>5. Cur' = At(pc', file, 0, 0, 0, <<>>, ctx)
  BY <1>1 DEF Cur
<1>6. After(Cur) = AfterFile(file, ctx)
  BY <1>4 DEF After, At
<1> QED BY <1>1, <1>3, <1>5, <1>6 DEF AfterFile

\* On an image nobody touched a round over the whole file reads what Backup wrote ...
LEMMA AllReads ==
  ASSUME IInv, DataInv, fault = {}, damaged = {}, pc = "all"
  PROVE  /\ AllOut = Slice(image[file], llReadSize, ReadSizeOf(file, llReadSize))
         /\ Size(file) = SizeOf(file)
<1>1. file \in 1..N /\ llReadSize \in Nat /\ pc \notin Ended
  BY LoopFacts
<1>2. Size(file) = SizeOf(file)
  <2>1. pc \notin {"written", "placeholder"}
    OBVIOUS
  <2> QED BY <1>1, <2>1, PassSizes
<1>3. ReadSize = ReadSizeOf(file, llReadSize)
  BY <1>2 DEF ReadSize, ReadSizeOf, IsLast
<1>4. /\ ReadSize \in Int
      /\ ifntfs => ReadSize \in 1..(CacheSize - 1) /\ llReadSize < Size(file)
  BY AllFacts
<1>5. ReadSize <= 0 \/ llReadSize + ReadSize <= DataLen(file)
  BY AllData
<1> DEFINE n == ReadSize
           r == NormalFileRead(f[file], llReadSize, n)
<1>6. AllOut = r.out
  BY DEF AllOut
<1>7. /\ n \in Int /\ n = ReadSize /\ (n <= 0 \/ llReadSize + n <= DataLen(file))
      /\ ifntfs => n \in 1..(CacheSize - 1) /\ llReadSize < Size(file)
      /\ r = NormalFileRead(f[file], llReadSize, n) /\ pc \in {"all", "sample"}
  BY <1>4, <1>5
<1> HIDE DEF r, n
<1>8. r.out = Slice(f[file].disk, llReadSize, n)
  BY <1>7, LoopRead
<1>9. /\ Slice(f[file].disk, llReadSize, n) = Slice(image[file], llReadSize, n)
      /\ \A j \in 1..DataLen(file) : f[file].disk[j] = 100 * file + j
  BY <1>1, <1>7, DataBytes
<1> QED BY <1>2, <1>3, <1>6, <1>7, <1>8, <1>9

\* ... and so does what is hashed follow from the image alone.
LEMMA AllFollows ==
  ASSUME IInv, DataInv, fault = {}, damaged = {}, _CalFileSHA256Value
  PROVE  Cur' = After(Cur) /\ pc = "all"
<1>1. /\ pc = "all" /\ AllOut \in Seq(Nat) /\ Len(AllOut) = IF ReadSize > 0 THEN ReadSize ELSE 0
      /\ \A i \in 1..Len(AllOut) : AllOut[i] = f[file].disk[llReadSize + i]
      /\ llReadSize' = llReadSize + Len(AllOut)
      /\ IF Len(AllOut) # 0 /\ Hashed(Len(AllOut), llReadSize + Len(AllOut))
           THEN ctx' = Append(ctx, ctxSec \o AllOut) /\ ctxSec' = <<>>
           ELSE ctx' = ctx /\ ctxSec' = ctxSec \o AllOut
      /\ IF GoesOn(Len(AllOut), llReadSize + Len(AllOut)) THEN UNCHANGED <<file, pc>> ELSE NextFile
      /\ UNCHANGED <<ifntfs, image, mode, iSegIndex, llSectorDataReadSize, salt, seen, damaged, fault>>
  BY AllEffect
<1>2. AllOut = Slice(image[file], llReadSize, ReadSizeOf(file, llReadSize)) /\ Size(file) = SizeOf(file)
  BY <1>1, AllReads
<1> DEFINE b == AllOut
           on == Len(b) = Chunk /\ llReadSize + Len(b) < SizeOf(file)
           hashed == Len(b) # 0 /\ (Len(ctxSec) + Len(b) >= Section \/ ~on)
           cc == IF hashed THEN Append(ctx, ctxSec \o b) ELSE ctx
           sec == IF hashed THEN <<>> ELSE ctxSec \o b
<1>3. GoesOn(Len(b), llReadSize + Len(b)) <=> on
  BY <1>2 DEF GoesOn
<1>4. Len(b) # 0 /\ Hashed(Len(b), llReadSize + Len(b)) <=> hashed
  BY <1>3 DEF Hashed
<1>5. ctx' = cc /\ ctxSec' = sec
  BY <1>1, <1>4
<1>6. Cur = At("all", file, llReadSize, 0, 0, ctxSec, ctx)
  BY <1>1 DEF Cur
<1>7. After(Cur) = AfterAll(file, llReadSize, ctxSec, ctx)
  BY <1>6 DEF After, At
<1>8. AfterAll(file, llReadSize, ctxSec, ctx)
        = IF on THEN At("all", file, llReadSize + Len(b), 0, 0, sec, cc) ELSE Past(file, cc)
  BY <1>2 DEF AfterAll
<1> HIDE DEF on, hashed, cc, sec, b
<1>9. CASE on
  <2>1. pc' = "all" /\ file' = file /\ llReadSize' = llReadSize + Len(b)
    BY <1>1, <1>3, <1>9 DEF b
  <2>2. Cur' = At("all", file, llReadSize + Len(b), 0, 0, sec, cc)
    BY <1>5, <2>1 DEF Cur
  <2> QED BY <1>1, <1>7, <1>8, <1>9, <2>2
<1>10. CASE ~on
  <2>1. file' = file + 1 /\ pc' = IF file = N THEN "salt" ELSE "file"
    BY <1>1, <1>3, <1>10 DEF NextFile, b
  <2>2. Cur' = Past(file, cc)
    BY <1>5, <2>1 DEF Cur, Past
  <2> QED BY <1>1, <1>7, <1>8, <1>10, <2>2
<1> QED BY <1>9, <1>10

\* A round over the samples reads what Backup wrote ...
LEMMA SampleReads ==
  ASSUME IInv, DataInv, fault = {}, damaged = {}, pc = "sample"
  PROVE  SampleOut = Slice(image[file], llReadSize, Chunk) /\ Size(file) = SizeOf(file)
<1>1. file \in 1..N /\ llReadSize \in Nat /\ pc \notin Ended /\ Size(file) \in Nat
  BY LoopFacts
<1>2. Size(file) = SizeOf(file) /\ DataLen(file) <= Size(file) /\ DataLen(file) \in Nat
  <2>1. pc \notin {"written", "placeholder"}
    OBVIOUS
  <2> QED BY <1>1, <2>1, PassSizes
<1>3. llReadSize + Chunk <= DataLen(file)
  BY SampleData
<1>4. Chunk \in Nat \ {0} /\ Chunk < CacheSize /\ CacheSize \in Nat
  BY ConstantFacts
<1>5. Chunk \in Int /\ Chunk \in 1..(CacheSize - 1) /\ llReadSize < Size(file)
  BY <1>1, <1>2, <1>3, <1>4
<1> DEFINE r == NormalFileRead(f[file], llReadSize, Chunk)
<1>6. SampleOut = r.out /\ r = NormalFileRead(f[file], llReadSize, Chunk) /\ pc \in {"all", "sample"}
  BY DEF SampleOut
<1> HIDE DEF r
<1>7. r.out = Slice(f[file].disk, llReadSize, Chunk)
  BY <1>5, <1>6, LoopRead
<1>8. /\ Slice(f[file].disk, llReadSize, Chunk) = Slice(image[file], llReadSize, Chunk)
      /\ \A j \in 1..DataLen(file) : f[file].disk[j] = 100 * file + j
  <2>1. pc \notin {"written", "placeholder"}
    OBVIOUS
  <2> QED BY <1>1, <1>3, <1>5, <2>1, DataBytes
<1> QED BY <1>2, <1>6, <1>7, <1>8

\* ... and what is hashed follows from the image alone.
LEMMA SampleFollows ==
  ASSUME IInv, DataInv, fault = {}, damaged = {}, _CalculateFileSHA256ValueBySegData
  PROVE  Cur' = After(Cur) /\ pc = "sample"
<1>1. /\ pc = "sample" /\ SampleOut \in Seq(Nat) /\ Len(SampleOut) = Chunk
      /\ \A i \in 1..Chunk : SampleOut[i] = f[file].disk[llReadSize + i]
      /\ ctx' = IF SampleFull
                THEN IF SampleEnd THEN Append(Append(ctx, ctxSec \o SampleOut), <<>>)
                                  ELSE Append(ctx, ctxSec \o SampleOut)
                ELSE IF SampleEnd THEN Append(ctx, ctxSec \o SampleOut) ELSE ctx
      /\ ctxSec' = IF SampleFull \/ SampleEnd THEN <<>> ELSE ctxSec \o SampleOut
      /\ iSegIndex' = IF SampleDone THEN iSegIndex + 1 ELSE iSegIndex
      /\ llSectorDataReadSize' = IF SampleDone THEN 0 ELSE llSectorDataReadSize + Chunk
      /\ llReadSize' = IF SampleEnd \/ ~SampleDone THEN llReadSize + Chunk
                       ELSE SampleStart(iSegIndex + 1)
      /\ IF ~SampleEnd THEN UNCHANGED <<file, pc>> ELSE NextFile
      /\ UNCHANGED <<ifntfs, image, mode, salt, seen, damaged, fault>>
  BY SampleEffect
<1>2. SampleOut = Slice(image[file], llReadSize, Chunk) /\ Size(file) = SizeOf(file)
  BY <1>1, SampleReads
<1> DEFINE b == SampleOut
           full == Len(ctxSec \o b) >= Section
           done == llSectorDataReadSize + Chunk >= Limit
           end == done /\ iSegIndex = SegNumber
           cc == IF full THEN IF end THEN Append(Append(ctx, ctxSec \o b), <<>>) ELSE Append(ctx, ctxSec \o b)
                 ELSE IF end THEN Append(ctx, ctxSec \o b) ELSE ctx
           next == IF done THEN StartOf(file, iSegIndex + 1) ELSE llReadSize + Chunk
           seg == IF done THEN iSegIndex + 1 ELSE iSegIndex
           data == IF done THEN 0 ELSE llSectorDataReadSize + Chunk
           sec == IF full THEN <<>> ELSE ctxSec \o b
<1>3. (SampleFull <=> full) /\ (SampleDone <=> done) /\ (SampleEnd <=> end)
  BY DEF SampleFull, SampleDone, SampleEnd
<1>4. SampleStart(iSegIndex + 1) = StartOf(file, iSegIndex + 1)
  BY <1>2 DEF SampleStart, StartOf, IsLast
<1>5. ctx' = cc /\ iSegIndex' = seg /\ llSectorDataReadSize' = data
  BY <1>1, <1>3
<1>6. ~end => ctxSec' = sec /\ llReadSize' = next
  BY <1>1, <1>3, <1>4
<1>7. Cur = At("sample", file, llReadSize, iSegIndex, llSectorDataReadSize, ctxSec, ctx)
  BY <1>1 DEF Cur
<1>8. After(Cur) = AfterSample(file, llReadSize, iSegIndex, llSectorDataReadSize, ctxSec, ctx)
  BY <1>7 DEF After, At
<1>9. AfterSample(file, llReadSize, iSegIndex, llSectorDataReadSize, ctxSec, ctx)
        = IF end THEN Past(file, cc) ELSE At("sample", file, next, seg, data, sec, cc)
  BY <1>2 DEF AfterSample
<1>10. IF ~end THEN UNCHANGED <<file, pc>> ELSE NextFile
  BY <1>1, <1>3
<1> HIDE DEF end, cc, next, seg, data, sec
<1>11. CASE ~end
  <2>1. Cur' = At("sample", file, next, seg, data, sec, cc)
    BY <1>1, <1>5, <1>6, <1>10, <1>11 DEF Cur
  <2> QED BY <1>1, <1>8, <1>9, <1>11, <2>1
<1>12. CASE end
  <2>1. file' = file + 1 /\ pc' = IF file = N THEN "salt" ELSE "file"
    BY <1>10, <1>12 DEF NextFile
  <2>2. Cur' = Past(file, cc)
    BY <1>5, <2>1 DEF Cur, Past
  <2> QED BY <1>1, <1>8, <1>9, <1>12, <2>2
<1> QED BY <1>11, <1>12

\* The salt is that of the image.
LEMMA SaltFollows ==
  ASSUME IInv, DataInv, fault = {}, damaged = {}, GetSaltValue, pc' \notin Ended
  PROVE  /\ salt' = SaltOf /\ Cur' = Cur /\ pc = "salt"
         /\ pc' = IF mode = "calculate" THEN "save" ELSE "compare"
<1> DEFINE a == NormalFileRead(IF N > 1 THEN Opened(f[1].disk) ELSE f[1], Size(1) \div 2, Val)
           b == NormalFileRead(a.f, Size(1) \div 3, 1)
<1>1. /\ pc = "salt" /\ salt' = a.out \o b.out /\ UNCHANGED <<ifntfs, image, mode, file, ctx>>
      /\ pc' = IF mode = "calculate" THEN "save" ELSE "compare"
  BY DEF GetSaltValue, Refuse, Ended, hash
<1>2. /\ a = NormalFileRead(IF N > 1 THEN Opened(f[1].disk) ELSE f[1], Size(1) \div 2, Val)
      /\ b = NormalFileRead(a.f, Size(1) \div 3, 1)
  OBVIOUS
<1> HIDE DEF a, b
<1>3. /\ Tame(b.f) /\ Agrees(b.f) /\ b.f.disk = f[1].disk /\ f[1].disk \in Seq(Nat)
      /\ Size(1) \in Nat /\ Size(1) = Len(f[1].disk) /\ Size(1) >= Page
      /\ a.out = Slice(f[1].disk, Size(1) \div 2, Val) /\ b.out = Slice(f[1].disk, Size(1) \div 3, 1)
  BY <1>1, <1>2, SaltRead
<1>4. 1 \in 1..N /\ pc \notin Ended /\ pc \notin {"written", "placeholder"}
  BY <1>1, ImageFacts DEF IInv, Ended
<1> DEFINE i == 1
<1>5. i \in 1..N /\ i = 1
  BY <1>4
<1> HIDE DEF i
<1>6. /\ Size(i) = SizeOf(i) /\ DataLen(i) \in Nat
      /\ DataLen(i) = Size(i) - (IF i = N THEN Val ELSE 0)
  BY <1>4, <1>5, PassSizes
<1> DEFINE z == Size(1)
           d == DataLen(1)
           h == Size(1) \div 2
           t == Size(1) \div 3
<1>7. z = SizeOf(1) /\ d \in Nat /\ d >= z - Val /\ z \in Nat /\ z >= 4 * Val /\ Val \in Nat \ {0}
  <2>1. 4 * Val <= Page /\ Val \in Nat \ {0} /\ Page \in Nat
    BY ConstantFacts
  <2>2. d = z - Val \/ d = z
    BY <1>3, <1>5, <1>6
  <2>3. z = SizeOf(1) /\ d \in Nat /\ z >= Page /\ z \in Nat
    BY <1>3, <1>5, <1>6
  <2> HIDE DEF z, d
  <2> QED BY <2>1, <2>2, <2>3
<1>8. h \in Nat /\ t \in Nat /\ h + Val <= d /\ t + 1 <= d
  <2>1. \A x \in Nat : /\ x \div 2 \in Nat /\ x \div 3 \in Nat
                       /\ 2 * (x \div 2) <= x /\ 3 * (x \div 3) <= x
    OBVIOUS
  <2>2. /\ h \in Nat /\ t \in Nat /\ 2 * h <= z /\ 3 * t <= z
    BY <1>7, <2>1
  <2> HIDE DEF h, t, z, d
  <2> QED BY <1>7, <2>2
<1>9. Slice(f[1].disk, h, Val) = Slice(image[1], h, Val)
  <2>1. /\ i \in 1..N /\ h \in Nat /\ Val \in Int /\ (Val <= 0 \/ h + Val <= DataLen(i))
    BY <1>5, <1>7, <1>8
  <2> HIDE DEF h
  <2>2. /\ Slice(f[i].disk, h, Val) = Slice(image[i], h, Val)
        /\ \A j \in 1..DataLen(i) : f[i].disk[j] = 100 * i + j
    BY <1>4, <2>1, DataBytes
  <2> QED BY <1>5, <2>2
<1>10. Slice(f[1].disk, t, 1) = Slice(image[1], t, 1)
  <2>1. /\ i \in 1..N /\ t \in Nat /\ 1 \in Int /\ (1 <= 0 \/ t + 1 <= DataLen(i))
    BY <1>5, <1>7, <1>8
  <2> HIDE DEF t
  <2>2. /\ Slice(f[i].disk, t, 1) = Slice(image[i], t, 1)
        /\ \A j \in 1..DataLen(i) : f[i].disk[j] = 100 * i + j
    BY <1>4, <2>1, DataBytes
  <2> QED BY <1>5, <2>2
<1>11. salt' = SaltOf
  BY <1>1, <1>3, <1>7, <1>9, <1>10 DEF SaltOf
<1>12. Cur = At("salt", file, 0, 0, 0, <<>>, ctx)
  BY <1>1 DEF Cur
<1>13. Cur' = At("salt", file, 0, 0, 0, <<>>, ctx)
  BY <1>1 DEF Cur
<1> QED BY <1>1, <1>11, <1>12, <1>13

\* What the rounds make of the digest depends on the image alone.
LEMMA AfterSame ==
  ASSUME UNCHANGED <<ifntfs, image>>
  PROVE  (\A h : After(h)' = After(h)) /\ SaltOf' = SaltOf
<1>1. N' = N /\ Limit' = Limit
  BY DEF N, Limit
<1>2. \A i : SizeOf(i)' = SizeOf(i)
  BY <1>1 DEF SizeOf
<1>3. \A i, c : Past(i, c)' = Past(i, c)
  BY <1>1 DEF Past
<1>4. \A i, c : AfterFile(i, c)' = AfterFile(i, c)
  BY <1>2 DEF AfterFile
<1>5. \A i, p : ReadSizeOf(i, p)' = ReadSizeOf(i, p)
  BY <1>1, <1>2 DEF ReadSizeOf
<1>6. \A i, k : StartOf(i, k)' = StartOf(i, k)
  BY <1>1, <1>2 DEF StartOf
<1>7. \A i, p, s, c : AfterAll(i, p, s, c)' = AfterAll(i, p, s, c)
  BY <1>2, <1>3, <1>5 DEF AfterAll
<1>8. \A i, p, k, d, s, c : AfterSample(i, p, k, d, s, c)' = AfterSample(i, p, k, d, s, c)
  BY <1>1, <1>3, <1>6 DEF AfterSample
<1>9. ASSUME NEW h PROVE After(h)' = After(h)
  BY <1>4, <1>7, <1>8 DEF After
<1>10. SaltOf' = SaltOf
  BY <1>2 DEF SaltOf
<1> QED BY <1>9, <1>10

\* A history says the same of the same image.
LEMMA HistorySame ==
  ASSUME UNCHANGED <<ifntfs, image>>, NEW m, NEW H
  PROVE  History(m, H)' <=> History(m, H)
<1>1. \A h : After(h)' = After(h)
  BY AfterSame
<1> QED BY <1>1 DEF History

\* A round more.
LEMMA HistoryGrows ==
  ASSUME NEW g, Reaches(g), g[1] \in {"file", "all", "sample"}
  PROVE  Reaches(After(g))
<1>1. PICK m \in Nat : \E H : History(m, H) /\ H[m] = g
  BY DEF Reaches
<1>2. PICK H : History(m, H) /\ H[m] = g
  BY <1>1
<1> DEFINE h == After(g)
           n == m + 1
           G == [k \in 0..n |-> IF k = n THEN h ELSE H[k]]
<1>3. n \in Nat /\ 0 \in 0..n /\ n \in 0..n /\ 0 # n /\ \A k \in 0..(n - 1) : k \in 0..n /\ k + 1 \in 0..n /\ k # n
  OBVIOUS
<1>4. G[n] = h /\ \A k \in 0..(n - 1) : G[k] = H[k]
  BY <1>3
<1> HIDE DEF G
<1>5. G[0] = Start
  BY <1>2, <1>3, <1>4 DEF History
<1>6. ASSUME NEW k \in 0..(n - 1)
      PROVE  G[k][1] \in {"file", "all", "sample"} /\ G[k + 1] = After(G[k])
  <2>1. G[k] = H[k]
    BY <1>4
  <2>2. CASE k = m
    <3>1. G[k + 1] = h /\ G[k] = g
      BY <1>2, <1>4, <2>1, <2>2
    <3> QED BY <3>1
  <2>3. CASE k # m
    <3>1. k \in 0..(m - 1) /\ k + 1 \in 0..(n - 1)
      BY <2>3
    <3>2. G[k + 1] = H[k + 1]
      BY <1>4, <3>1
    <3> QED BY <1>2, <2>1, <3>1, <3>2 DEF History
  <2> QED BY <2>2, <2>3
<1>7. History(n, G)
  BY <1>5, <1>6 DEF History
<1> QED BY <1>3, <1>4, <1>7 DEF Reaches

\* What has been reached goes on being reached with the next round.
LEMMA ReachesNext ==
  ASSUME UNCHANGED <<ifntfs, image>>, NEW h, Reaches(h), Cur' = h
  PROVE  Reaches(Cur)'
<1>1. PICK m \in Nat : \E H : History(m, H) /\ H[m] = h
  BY DEF Reaches
<1>2. PICK H : History(m, H) /\ H[m] = h
  BY <1>1
<1>3. History(m, H)'
  BY <1>2, HistorySame
<1>4. H[m] = Cur'
  BY <1>2
<1> QED BY <1>3, <1>4 DEF Reaches

\* The calculation has reached where it starts.
LEMMA ReachesStart == Reaches(Start)
<1> DEFINE H == [k \in {0} |-> Start]
<1>1. H[0] = Start /\ 0 \in Nat
  OBVIOUS
<1> HIDE DEF H
<1>2. History(0, H)
  BY <1>1 DEF History
<1> QED BY <1>1, <1>2 DEF Reaches

\* A round of either pass.
LEMMA RoundFollows ==
  ASSUME IInv, DataInv, fault = {}, damaged = {}, pc' \notin Ended,
         CalculateFileSHA256Value \/ _CalFileSHA256Value \/ _CalculateFileSHA256ValueBySegData
  PROVE  Cur' = After(Cur) /\ pc \in {"file", "all", "sample"} /\ Cur[1] = pc /\ pc' \notin {"save", "compare"}
<1>1. CASE CalculateFileSHA256Value
  <2>1. Cur' = After(Cur) /\ pc = "file"
    BY <1>1, FileFollows
  <2>2. pc' \notin {"save", "compare"}
    BY <1>1 DEF CalculateFileSHA256Value, Refuse
  <2> QED BY <2>1, <2>2 DEF Cur, At
<1>2. CASE _CalFileSHA256Value
  <2>1. Cur' = After(Cur) /\ pc = "all"
    BY <1>2, AllFollows
  <2>2. pc' \notin {"save", "compare"}
    BY <1>2 DEF _CalFileSHA256Value, NextFile
  <2> QED BY <2>1, <2>2 DEF Cur, At
<1>3. CASE _CalculateFileSHA256ValueBySegData
  <2>1. Cur' = After(Cur) /\ pc = "sample"
    BY <1>3, SampleFollows
  <2>2. pc' \notin {"save", "compare"}
    BY <1>3 DEF _CalculateFileSHA256ValueBySegData, NextFile
  <2> QED BY <2>1, <2>2 DEF Cur, At
<1> QED BY <1>1, <1>2, <1>3

\* The first pass.
LEMMA FirstPass ==
  ASSUME IInv, DataInv, HistoryInv, Next, pc' \notin Ended, fault' = {}, damaged' = {}, Calculating'
  PROVE  HistoryInv'
<1>1. /\ UNCHANGED <<ifntfs, image>> /\ N' = N /\ fault \subseteq fault' /\ pc \notin Ended
      /\ Calculating' => Calculating
      /\ ~Damage => damaged' = damaged
  BY NextFrame
<1>2. /\ ~SaveFileCheckValue /\ ~Damage /\ ~ValidImageCheckValue /\ ~Done /\ ~HashReadFails /\ ~UserBreak
      /\ ~FileReadStays
      /\ ~GetFileCheckValue
  <2>1. mode' = "calculate" /\ pc' # "calculated" /\ mode = "calculate" /\ pc # "calculated"
    BY <1>1 DEF Calculating
  <2>2. ~Damage /\ ~ValidImageCheckValue /\ ~Done
    BY <1>1, <2>1 DEF Damage, ValidImageCheckValue, Done
  <2>3. ~SaveFileCheckValue /\ ~UserBreak /\ ~FileReadStays /\ ~GetFileCheckValue
    BY <2>1 DEF SaveFileCheckValue, UserBreak, FileReadStays, GetFileCheckValue, Refuse, Ended
  <2>4. ~HashReadFails
    BY DEF HashReadFails
  <2> QED BY <2>2, <2>3, <2>4
<1>3. fault = {} /\ damaged = {} /\ Calculating
  BY <1>1, <1>2
<1>4. /\ pc = "placeholder" => file = 1 /\ ctx = <<>>
      /\ pc \notin {"written", "placeholder"} => Reaches(Cur)
  BY <1>1, <1>3 DEF HistoryInv, Along
<1>5. SaltOf' = SaltOf
  BY <1>1, AfterSame
<1>6. CASE CalculateFileCheckValue
  <2>1. pc' = "placeholder" /\ file' = 1 /\ ctx' = <<>>
    BY <1>6 DEF CalculateFileCheckValue, Begin, Ended
  <2> QED BY <2>1 DEF HistoryInv
<1>7. CASE SaveZeroDataToFileEndForCheckValue
  <2>1. pc' = "file" /\ file' = 1 /\ ctx' = <<>>
    BY <1>4, <1>7 DEF SaveZeroDataToFileEndForCheckValue, hash
  <2>2. Cur' = Start
    BY <2>1 DEF Cur, Start
  <2>3. Reaches(Cur)'
    BY <1>1, <2>2, ReachesStart, ReachesNext
  <2> QED BY <2>1, <2>3 DEF HistoryInv, Along
<1>8. CASE CalculateFileSHA256Value \/ _CalFileSHA256Value \/ _CalculateFileSHA256ValueBySegData
  <2>1. Cur' = After(Cur) /\ pc \in {"file", "all", "sample"} /\ Cur[1] = pc /\ pc' \notin {"save", "compare"}
    BY <1>3, <1>8, RoundFollows
  <2>2. Reaches(Cur)
    BY <1>4, <2>1
  <2>3. Reaches(After(Cur))
    BY <2>1, <2>2, HistoryGrows
  <2>4. Reaches(Cur)'
    BY <1>1, <2>1, <2>3, ReachesNext
  <2>5. pc' # "placeholder"
    BY <1>8 DEF CalculateFileSHA256Value, Refuse, _CalFileSHA256Value, _CalculateFileSHA256ValueBySegData, NextFile
  <2> QED BY <2>1, <2>4, <2>5 DEF HistoryInv, Along
<1>9. CASE GetSaltValue
  <2>1. /\ salt' = SaltOf /\ Cur' = Cur /\ pc = "salt"
        /\ pc' = IF mode = "calculate" THEN "save" ELSE "compare"
    BY <1>3, <1>9, SaltFollows
  <2>2. Reaches(Cur)
    BY <1>4, <2>1
  <2>3. Reaches(Cur)'
    BY <1>1, <2>1, <2>2, ReachesNext
  <2> QED BY <1>5, <2>1, <2>3 DEF HistoryInv, Along
<1> QED BY <1>2, <1>6, <1>7, <1>8, <1>9 DEF Next, Step

\* The digest of the first pass.
LEMMA FirstDigest ==
  ASSUME IInv, HistoryInv, SaveFileCheckValue, pc' = "calculated", fault' = {}, damaged' = {}
  PROVE  HistoryInv'
<1>1. /\ pc = "save" /\ seen = <<>> /\ seen' = <<Digest>> /\ mode = "calculate" /\ file = N + 1
      /\ fault' \in {fault, fault \cup {"close"}}
      /\ UNCHANGED <<ifntfs, image, mode, file, llReadSize, iSegIndex, llSectorDataReadSize,
                     ctxSec, ctx, salt, damaged>>
  BY SaveEffect
<1>2. fault = {} /\ damaged = {} /\ pc \notin Ended /\ Calculating
  BY <1>1 DEF Ended, Calculating
<1>3. salt = SaltOf /\ Reaches(Cur)
  BY <1>1, <1>2 DEF HistoryInv, Along
<1>4. PICK m \in Nat : \E H : History(m, H) /\ H[m] = Cur
  BY <1>3 DEF Reaches
<1>5. PICK H : History(m, H) /\ H[m] = Cur
  BY <1>4
<1>6. H[m][1] = "salt" /\ H[m][7] = ctx
  BY <1>1, <1>5 DEF Cur, At
<1>7. History(m, H)' /\ SaltOf' = SaltOf
  BY <1>1, <1>5, HistorySame, AfterSame
<1>8. seen'[1] = <<H[m][7], SaltOf'>>
  BY <1>1, <1>3, <1>6, <1>7 DEF Digest
<1>9. mode' # "validate" /\ ~Calculating'
  BY <1>1 DEF Calculating
<1>10. Follows(m, H)'
  BY <1>6, <1>7, <1>8, <1>9 DEF Follows
<1>11. Along'
  BY <1>9, <1>10 DEF Along
<1> QED BY <1>11 DEF HistoryInv

\* The second pass.
LEMMA SecondPass ==
  ASSUME IInv, DataInv, HistoryInv, Next, pc' \notin Ended, fault' = {}, damaged' = {}, ~Calculating
  PROVE  HistoryInv'
<1>1. /\ UNCHANGED <<ifntfs, image>> /\ N' = N /\ fault \subseteq fault' /\ pc \notin Ended
      /\ Calculating' => Calculating
      /\ ~Damage => damaged' = damaged
  BY NextFrame
<1>2. /\ ~SaveFileCheckValue /\ ~Damage /\ ~Done /\ ~HashReadFails /\ ~UserBreak
      /\ ~FileReadStays /\ ~GetFileCheckValue
      /\ ~CalculateFileCheckValue /\ ~SaveZeroDataToFileEndForCheckValue
  <2>1. pc \notin {"written", "placeholder", "save"}
    BY DEF IInv, HashInv, Calculating
  <2> QED BY <2>1 DEF SaveFileCheckValue, Refuse, Damage, Done, HashReadFails, UserBreak,
      FileReadStays, GetFileCheckValue,
             CalculateFileCheckValue, SaveZeroDataToFileEndForCheckValue, Ended, vars
<1>3. fault = {} /\ damaged = {} /\ pc \notin {"written", "placeholder"} /\ ~Calculating'
  <2>1. pc \notin {"written", "placeholder"}
    BY DEF IInv, HashInv, Calculating
  <2> QED BY <1>1, <1>2, <2>1
<1>4. PICK m \in Nat : \E H : Follows(m, H)
  BY <1>1, <1>3 DEF HistoryInv, Along
<1>5. PICK H : Follows(m, H)
  BY <1>4
<1>6. /\ History(m, H) /\ H[m][1] = "salt" /\ seen[1] = <<H[m][7], SaltOf>>
      /\ mode = "validate" => \E k \in 0..m : Cur = H[k]
  BY <1>5 DEF Follows
<1>7. History(m, H)' /\ SaltOf' = SaltOf
  BY <1>1, <1>6, HistorySame, AfterSame
<1>8. pc # "calculated" => mode = "validate"
  BY DEF Calculating, IInv, TypeOK
<1>9. CASE ValidImageCheckValue
  <2>1. pc' = "file" /\ file' = 1 /\ ctx' = <<>> /\ seen' = seen
    BY <1>9 DEF ValidImageCheckValue, Begin, Ended
  <2>2. Cur' = Start
    BY <2>1 DEF Cur, Start
  <2>3. 0 \in 0..m /\ Cur' = H[0]
    BY <1>6, <2>2 DEF History
  <2>4. Follows(m, H)'
    BY <1>6, <1>7, <2>1, <2>3 DEF Follows
  <2> QED BY <1>3, <2>1, <2>4 DEF HistoryInv, Along
<1>10. CASE CalculateFileSHA256Value \/ _CalFileSHA256Value \/ _CalculateFileSHA256ValueBySegData
  <2>1. Cur' = After(Cur) /\ pc \in {"file", "all", "sample"} /\ Cur[1] = pc /\ pc' \notin {"save", "compare"}
    BY <1>3, <1>10, RoundFollows
  <2>2. PICK k \in 0..m : Cur = H[k]
    BY <1>6, <1>8, <2>1
  <2>3. k # m
    BY <1>6, <2>1, <2>2
  <2>4. k \in 0..(m - 1) /\ k + 1 \in 0..m
    BY <2>3
  <2>5. Cur' = H[k + 1]
    BY <1>6, <2>1, <2>2, <2>4 DEF History
  <2>6. seen' = seen /\ pc' # "placeholder"
    BY <1>10 DEF CalculateFileSHA256Value, Refuse, _CalFileSHA256Value, _CalculateFileSHA256ValueBySegData, NextFile
  <2>7. Follows(m, H)'
    BY <1>6, <1>7, <2>4, <2>5, <2>6 DEF Follows
  <2> QED BY <1>3, <2>1, <2>6, <2>7 DEF HistoryInv, Along
<1>11. CASE GetSaltValue
  <2>1. /\ salt' = SaltOf /\ Cur' = Cur /\ pc = "salt"
        /\ pc' = IF mode = "calculate" THEN "save" ELSE "compare"
    BY <1>3, <1>11, SaltFollows
  <2>2. seen' = seen
    BY <1>11 DEF GetSaltValue
  <2>3. \E k \in 0..m : Cur' = H[k]
    BY <1>6, <1>8, <2>1
  <2>4. Follows(m, H)'
    BY <1>6, <1>7, <2>2, <2>3 DEF Follows
  <2> QED BY <1>3, <1>7, <2>1, <2>4 DEF HistoryInv, Along
<1> QED BY <1>2, <1>9, <1>10, <1>11 DEF Next, Step

\* Every step of both passes follows from the image alone.
LEMMA NextHistory == IInv /\ DataInv /\ HistoryInv /\ [Next]_vars => HistoryInv'
<1> SUFFICES ASSUME IInv, DataInv, HistoryInv, [Next]_vars PROVE HistoryInv'
  OBVIOUS
<1>1. CASE UNCHANGED vars
  <2>1. /\ pc' = pc /\ fault' = fault /\ damaged' = damaged /\ file' = file /\ ctx' = ctx /\ salt' = salt
        /\ mode' = mode /\ seen' = seen /\ UNCHANGED <<ifntfs, image>> /\ Cur' = Cur
    BY <1>1 DEF vars, hash, Cur
  <2>2. SaltOf' = SaltOf /\ (Calculating' <=> Calculating)
    BY <2>1, AfterSame DEF Calculating
  <2>3. Along => Along'
    <3>1. CASE Calculating
      <4> SUFFICES ASSUME Reaches(Cur) PROVE Reaches(Cur)'
        BY <2>2, <3>1 DEF Along
      <4> QED BY <2>1, ReachesNext
    <3>2. CASE ~Calculating
      <4> SUFFICES ASSUME NEW m \in Nat, NEW H, Follows(m, H) PROVE Follows(m, H)'
        BY <2>2, <3>2 DEF Along
      <4>1. History(m, H)'
        BY <2>1, HistorySame DEF Follows
      <4> QED BY <2>1, <2>2, <4>1 DEF Follows
    <3> QED BY <3>1, <3>2
  <2> QED BY <2>1, <2>2, <2>3 DEF HistoryInv
<1>2. CASE Next /\ pc' \notin Ended /\ fault' = {} /\ damaged' = {}
  <2>1. CASE Calculating'
    BY <1>2, <2>1, FirstPass
  <2>2. CASE ~Calculating' /\ Calculating
    <3>1. pc = "save"
      BY <1>2, <2>2, PassEnds
    <3>2. SaveFileCheckValue /\ pc' = "calculated"
      BY <1>2, <3>1, FromSave DEF SaveFileCheckValue, Refuse, Ended
    <3> QED BY <1>2, <3>2, FirstDigest
  <2>3. CASE ~Calculating
    BY <1>2, <2>3, SecondPass
  <2> QED BY <2>1, <2>2, <2>3
<1>3. CASE ~(pc' \notin Ended /\ fault' = {} /\ damaged' = {})
  BY <1>3 DEF HistoryInv
<1> QED BY <1>1, <1>2, <1>3

\* The second pass ends where the first one did.
LEMMA SameDigest ==
  ASSUME HistoryInv, pc = "compare", mode = "validate", fault = {}, damaged = {}
  PROVE  Digest = seen[1]
<1>1. salt = SaltOf /\ Along /\ ~Calculating
  BY DEF HistoryInv, Ended, Calculating
<1>2. PICK m \in Nat : \E H : Follows(m, H)
  BY <1>1 DEF Along
<1>3. PICK H : Follows(m, H)
  BY <1>2
<1>4. PICK k \in 0..m : Cur = H[k]
  BY <1>3 DEF Follows
<1>5. Cur[1] = "salt" /\ Cur[7] = ctx
  BY DEF Cur, At
<1>6. k = m
  <2>1. k \in 0..(m - 1) => H[k][1] \in {"file", "all", "sample"}
    BY <1>3 DEF Follows, History
  <2>2. k \notin 0..(m - 1)
    BY <1>4, <1>5, <2>1
  <2> QED BY <2>2
<1>7. seen[1] = <<H[m][7], SaltOf>>
  BY <1>3 DEF Follows
<1> QED BY <1>1, <1>4, <1>5, <1>6, <1>7 DEF Digest

\* A step to the verdict that the image is invalid has met a fault or damage.
LEMMA NextAccepted ==
  ASSUME IInv, ValueInv, HistoryInv, ValidAfterCalculate, [Next]_vars
  PROVE  ValidAfterCalculate'
<1> SUFFICES ASSUME pc' = "invalid", fault' = {}, damaged' = {} PROVE FALSE
  BY DEF ValidAfterCalculate
<1>1. CASE UNCHANGED vars
  BY <1>1 DEF vars, ValidAfterCalculate
<1>2. CASE GetFileCheckValue
  <2>1. pc' \in {"valid", "invalid"}
    OBVIOUS
  <2>2. /\ pc = "compare" /\ mode = "validate" /\ fault = {} /\ file = N + 1
        /\ UNCHANGED <<ifntfs, image, damaged>> /\ N' = N
        /\ pc' = "valid" <=> Digest = seen[1]
        /\ \A i \in 1..N : f'[i].disk = f[i].disk
    BY <1>2, <2>1, CompareOutcome
  <2>3. Digest = seen[1]
    BY <2>2, SameDigest
  <2> QED BY <2>2, <2>3
<1> QED BY <1>1, <1>2, FromCompare

\* An image nobody touched is accepted: on NTFS and on FAT, for files of every length,
\* ValidImageCheckValue goes through the very rounds of CalculateFileCheckValue, although
\* the one reads its last file with the placeholder in or behind the cache of the handle
\* and the other with the check value in the file.
THEOREM GoodImageAccepted == Spec => []ValidAfterCalculate
<1>1. Init => HistoryInv /\ ValidAfterCalculate
  BY DEF Init, HistoryInv, ValidAfterCalculate
<1>2. IInv /\ DataInv /\ HistoryInv /\ [Next]_vars => HistoryInv'
  BY NextHistory
<1>3. IInv /\ ValueInv /\ HistoryInv /\ ValidAfterCalculate /\ [Next]_vars => ValidAfterCalculate'
  BY NextAccepted
<1> QED BY <1>1, <1>2, <1>3, CheckValueInductive, DataInductive, ValueInductive, PTL DEF Spec
=============================================================================
