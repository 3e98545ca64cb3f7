-------------------------- MODULE FileHandleProofs --------------------------
(***************************************************************************)
(* Proofs about FileHandle: the cached handle of a file on NTFS is a file  *)
(* of bytes (ByteFile), for every size of the cache, the page and the      *)
(* sector, every size of the reads and writes and every length of the file.*)
(***************************************************************************)
EXTENDS FileHandle, SequenceTheorems, TLAPS

-----------------------------------------------------------------------------
(***************************************************************************)
(* Sequences of bytes.                                                     *)
(***************************************************************************)

\* Two sequences with the same bytes are the same.
LEMMA SameBytes ==
  ASSUME NEW s \in Seq(Nat), NEW t \in Seq(Nat), Len(s) = Len(t),
         \A i \in 1..Len(s) : s[i] = t[i]
  PROVE  s = t
OBVIOUS

\* The bytes of a concatenation.
LEMMA ConcatBytes ==
  ASSUME NEW s \in Seq(Nat), NEW t \in Seq(Nat)
  PROVE  /\ s \o t \in Seq(Nat) /\ Len(s \o t) = Len(s) + Len(t)
         /\ Len(s) \in Nat /\ Len(t) \in Nat
         /\ \A i \in 1..Len(s) : (s \o t)[i] = s[i]
         /\ \A i \in 1..Len(t) : (s \o t)[Len(s) + i] = t[i]
OBVIOUS

\* The bytes of a part.
LEMMA PartBytes ==
  ASSUME NEW s \in Seq(Nat), NEW m \in Nat, NEW n \in 0..Len(s)
  PROVE  /\ SubSeq(s, m + 1, n) \in Seq(Nat)
         /\ Len(SubSeq(s, m + 1, n)) = IF m < n THEN n - m ELSE 0
         /\ \A i \in 1..Len(SubSeq(s, m + 1, n)) : SubSeq(s, m + 1, n)[i] = s[m + i]
<1>1. m + 1 \in Int /\ n \in Int /\ \A i \in (m + 1)..n : s[i] \in Nat
  OBVIOUS
<1>2. /\ SubSeq(s, m + 1, n) \in Seq(Nat)
      /\ Len(SubSeq(s, m + 1, n)) = IF m + 1 <= n THEN n - (m + 1) + 1 ELSE 0
      /\ \A i \in 1..(n - (m + 1) + 1) : SubSeq(s, m + 1, n)[i] = s[(m + 1) + i - 1]
  BY <1>1, SubSeqProperties
<1> DEFINE t == SubSeq(s, m + 1, n)
<1> HIDE DEF t
<1>3. /\ t \in Seq(Nat) /\ Len(t) = IF m < n THEN n - m ELSE 0
      /\ \A i \in 1..(n - m) : t[i] = s[m + i]
  <2>1. n - (m + 1) + 1 = n - m /\ \A i \in Nat : (m + 1) + i - 1 = m + i
    OBVIOUS
  <2> QED BY <1>2, <2>1 DEF t
<1> QED BY <1>3 DEF t

\* A leading part and the rest.
LEMMA SplitBytes ==
  ASSUME NEW d \in Seq(Nat), NEW k \in 0..Len(d)
  PROVE  /\ SubSeq(d, 1, k) \in Seq(Nat) /\ Len(SubSeq(d, 1, k)) = k
         /\ SubSeq(d, k + 1, Len(d)) \in Seq(Nat) /\ Len(SubSeq(d, k + 1, Len(d))) = Len(d) - k
         /\ d = SubSeq(d, 1, k) \o SubSeq(d, k + 1, Len(d))
<1> DEFINE a == SubSeq(d, 1, k)
           b == SubSeq(d, k + 1, Len(d))
<1>1. a \in Seq(Nat) /\ Len(a) = k /\ \A i \in 1..k : a[i] = d[i]
  <2>1. 0 \in Nat /\ 0 + 1 = 1 /\ \A i \in 1..k : 0 + i = i
    OBVIOUS
  <2> QED BY <2>1, PartBytes
<1>2. b \in Seq(Nat) /\ Len(b) = Len(d) - k /\ \A i \in 1..Len(b) : b[i] = d[k + i]
  <2>1. Len(d) \in 0..Len(d) /\ k \in Nat /\ Len(d) \in Nat
    OBVIOUS
  <2>2. /\ b \in Seq(Nat) /\ Len(b) = IF k < Len(d) THEN Len(d) - k ELSE 0
        /\ \A i \in 1..Len(b) : b[i] = d[k + i]
    BY <2>1, PartBytes
  <2> HIDE DEF b
  <2>3. Len(b) = Len(d) - k
    BY <2>1, <2>2
  <2> QED BY <2>2, <2>3
<1> HIDE DEF a, b
<1> DEFINE c == a \o b
<1>3. /\ c \in Seq(Nat) /\ Len(c) = Len(d)
      /\ \A i \in 1..k : c[i] = a[i]
      /\ \A i \in 1..Len(b) : c[k + i] = b[i]
  <2>1. /\ c \in Seq(Nat) /\ Len(c) = Len(a) + Len(b)
        /\ \A i \in 1..Len(a) : c[i] = a[i]
        /\ \A i \in 1..Len(b) : c[Len(a) + i] = b[i]
    BY <1>1, <1>2, ConcatBytes
  <2> HIDE DEF c
  <2>2. Len(a) = k /\ Len(a) + Len(b) = Len(d)
    BY <1>1, <1>2
  <2> QED BY <2>1, <2>2
<1> HIDE DEF c
<1>4. ASSUME NEW i \in 1..Len(d) PROVE d[i] = c[i]
  <2>1. CASE i <= k
    BY <1>1, <1>3, <2>1
  <2>2. CASE i > k
    <3> DEFINE j == i - k
    <3>1. j \in 1..Len(b) /\ k + j = i
      BY <1>2, <2>2
    <3> HIDE DEF j
    <3> QED BY <1>2, <1>3, <3>1
  <2> QED BY <2>1, <2>2
<1>5. d = c
  BY <1>3, <1>4, SameBytes
<1> QED BY <1>1, <1>2, <1>5 DEF a, b, c

\* An empty sequence is the one without bytes.
LEMMA NoBytes ==
  ASSUME NEW s \in Seq(Nat)
  PROVE  Len(s) \in Nat /\ (s = <<>> <=> Len(s) = 0)
OBVIOUS

\* Byte i of s with d over it.
Byte(s, p, d, i) == IF p < i /\ i <= p + Len(d) THEN d[i - p] ELSE IF i <= Len(s) THEN s[i] ELSE 0

\* The bytes of Overwrite.
LEMMA OverwriteBytes ==
  ASSUME NEW s \in Seq(Nat), NEW p \in Nat, NEW d \in Seq(Nat)
  PROVE  /\ Overwrite(s, p, d) \in Seq(Nat)
         /\ Len(Overwrite(s, p, d)) = IF d # <<>> /\ p + Len(d) > Len(s) THEN p + Len(d) ELSE Len(s)
         /\ \A i \in 1..Len(Overwrite(s, p, d)) : Overwrite(s, p, d)[i] = Byte(s, p, d, i)
         /\ Len(Overwrite(s, p, d)) >= Len(s)
<1>1. CASE d = <<>>
  <2>1. Overwrite(s, p, d) = s /\ Len(d) = 0
    BY <1>1 DEF Overwrite
  <2>2. \A i \in 1..Len(s) : s[i] = Byte(s, p, d, i)
    BY <2>1 DEF Byte
  <2> QED BY <1>1, <2>1, <2>2
<1>2. CASE d # <<>>
  <2> DEFINE n == IF p + Len(d) > Len(s) THEN p + Len(d) ELSE Len(s)
             o == [i \in 1..n |-> Byte(s, p, d, i)]
  <2>1. Overwrite(s, p, d) = o
    BY <1>2 DEF Overwrite, Byte
  <2>2. n \in Nat /\ n >= Len(s)
    OBVIOUS
  <2>3. \A i \in 1..n : Byte(s, p, d, i) \in Nat
    BY DEF Byte
  <2> HIDE DEF n
  <2>4. o \in Seq(Nat) /\ Len(o) = n /\ \A i \in 1..n : o[i] = Byte(s, p, d, i)
    BY <2>2, <2>3
  <2> QED BY <1>2, <2>1, <2>2, <2>4 DEF n
<1> QED BY <1>1, <1>2

\* The bytes of Slice.
LEMMA SliceBytes ==
  ASSUME NEW s \in Seq(Nat), NEW p \in Nat, NEW n \in Nat
  PROVE  /\ Slice(s, p, n) \in Seq(Nat) /\ Len(Slice(s, p, n)) \in Nat
         /\ Len(Slice(s, p, n)) = IF p >= Len(s) THEN 0 ELSE IF p + n < Len(s) THEN n ELSE Len(s) - p
         /\ \A i \in 1..Len(Slice(s, p, n)) : Slice(s, p, n)[i] = s[p + i]
<1> DEFINE e == IF p + n < Len(s) THEN p + n ELSE Len(s)
<1>1. e \in 0..Len(s) /\ Len(s) \in Nat
  OBVIOUS
<1>2. Slice(s, p, n) = SubSeq(s, p + 1, e)
  BY DEF Slice
<1> HIDE DEF e
<1>3. /\ Slice(s, p, n) \in Seq(Nat)
      /\ Len(Slice(s, p, n)) = IF p < e THEN e - p ELSE 0
      /\ \A i \in 1..Len(Slice(s, p, n)) : Slice(s, p, n)[i] = s[p + i]
  <2>1. /\ SubSeq(s, p + 1, e) \in Seq(Nat)
        /\ Len(SubSeq(s, p + 1, e)) = IF p < e THEN e - p ELSE 0
        /\ \A i \in 1..Len(SubSeq(s, p + 1, e)) : SubSeq(s, p + 1, e)[i] = s[p + i]
    BY <1>1, PartBytes
  <2> QED BY <1>2, <2>1
<1> QED BY <1>1, <1>3 DEF e

\* Writing on where a write ended is writing both at once.
LEMMA OverwriteAppend ==
  ASSUME NEW s \in Seq(Nat), NEW p \in Nat, NEW a \in Seq(Nat), NEW b \in Seq(Nat)
  PROVE  Overwrite(Overwrite(s, p, a), p + Len(a), b) = Overwrite(s, p, a \o b)
<1> DEFINE la == Len(a)
           lb == Len(b)
           ls == Len(s)
           t == Overwrite(s, p, a)
           lt == Len(t)
           u == Overwrite(t, p + la, b)
           c == a \o b
           v == Overwrite(s, p, c)
<1>1. /\ la \in Nat /\ lb \in Nat /\ ls \in Nat
      /\ (a = <<>> <=> la = 0) /\ (b = <<>> <=> lb = 0)
  OBVIOUS
<1>2. /\ c \in Seq(Nat) /\ Len(c) = la + lb
      /\ \A i \in 1..la : c[i] = a[i]
      /\ \A i \in 1..lb : c[la + i] = b[i]
      /\ (c = <<>> <=> Len(c) = 0)
  BY ConcatBytes, NoBytes
<1>3. /\ t \in Seq(Nat)
      /\ lt = IF a # <<>> /\ p + la > ls THEN p + la ELSE ls
      /\ \A i \in 1..lt : t[i] = Byte(s, p, a, i)
  BY OverwriteBytes
<1> HIDE DEF c, t, la, lb, ls, lt
<1>4. /\ u \in Seq(Nat)
      /\ Len(u) = IF b # <<>> /\ p + la + lb > lt THEN p + la + lb ELSE lt
      /\ \A i \in 1..Len(u) : u[i] = Byte(t, p + la, b, i)
  <2>1. p + la \in Nat
    BY <1>1
  <2> QED BY <1>3, <2>1, OverwriteBytes DEF lt, lb
<1>5. /\ v \in Seq(Nat)
      /\ Len(v) = IF c # <<>> /\ p + (la + lb) > ls THEN p + (la + lb) ELSE ls
      /\ \A i \in 1..Len(v) : v[i] = Byte(s, p, c, i)
  <2>1. /\ v \in Seq(Nat)
        /\ Len(v) = IF c # <<>> /\ p + Len(c) > ls THEN p + Len(c) ELSE ls
        /\ \A i \in 1..Len(v) : v[i] = Byte(s, p, c, i)
    BY <1>2, OverwriteBytes DEF ls
  <2> HIDE DEF v
  <2> QED BY <1>2, <2>1
<1> DEFINE lu == Len(u)
           lv == Len(v)
<1> HIDE DEF u, v, lu, lv
<1>6. lt \in Nat /\ lu \in Nat /\ lu = lv
  <2>1. lt = IF la # 0 /\ p + la > ls THEN p + la ELSE ls
    BY <1>1, <1>3
  <2>2. lu = IF lb # 0 /\ p + la + lb > lt THEN p + la + lb ELSE lt
    BY <1>1, <1>4 DEF lu
  <2>3. lv = IF la + lb # 0 /\ p + (la + lb) > ls THEN p + (la + lb) ELSE ls
    BY <1>2, <1>5 DEF lv
  <2> QED BY <1>1, <2>1, <2>2, <2>3
<1>7. ASSUME NEW i \in 1..lu PROVE u[i] = v[i]
  <2>1. /\ u[i] = (IF p + la < i /\ i <= p + la + lb THEN b[i - (p + la)]
                   ELSE IF i <= lt THEN t[i] ELSE 0)
        /\ v[i] = (IF p < i /\ i <= p + (la + lb) THEN c[i - p] ELSE IF i <= ls THEN s[i] ELSE 0)
    BY <1>2, <1>4, <1>5, <1>6 DEF Byte, lu, lv, lt, lb, ls
  <2>2. /\ i \in Nat /\ i >= 1
        /\ i <= lt => t[i] = IF p < i /\ i <= p + la THEN a[i - p] ELSE IF i <= ls THEN s[i] ELSE 0
    BY <1>3, <1>6 DEF Byte, la, ls
  <2>3. lt = IF la # 0 /\ p + la > ls THEN p + la ELSE ls
    BY <1>1, <1>3
  <2>4. CASE i <= p
    BY <1>1, <2>1, <2>2, <2>3, <2>4
  <2>5. CASE p < i /\ i <= p + la
    <3>1. i - p \in 1..la /\ i <= lt /\ i <= p + (la + lb)
      BY <1>1, <2>2, <2>3, <2>5
    <3>2. c[i - p] = a[i - p]
      BY <1>2, <3>1
    <3> QED BY <1>1, <2>1, <2>2, <2>5, <3>1, <3>2
  <2>6. CASE p + la < i /\ i <= p + la + lb
    <3> DEFINE j == i - (p + la)
    <3>1. j \in 1..lb /\ i - p = la + j /\ p < i /\ i <= p + (la + lb)
      BY <1>1, <2>2, <2>6
    <3> HIDE DEF j
    <3>2. c[la + j] = b[j]
      BY <1>2, <3>1
    <3> QED BY <2>1, <2>6, <3>1, <3>2 DEF j
  <2>7. CASE p + la + lb < i
    BY <1>1, <2>1, <2>2, <2>3, <2>7
  <2> QED BY <1>1, <2>2, <2>4, <2>5, <2>6, <2>7
<1>8. u = v
  BY <1>4, <1>5, <1>6, <1>7, SameBytes DEF lu, lv
<1> QED BY <1>8 DEF u, v, t, c, la

\* Nothing changes when what is written is there already.
LEMMA OverwriteSame ==
  ASSUME NEW s \in Seq(Nat), NEW p \in Nat, NEW d \in Seq(Nat),
         \A i \in 1..Len(d) : p + i <= Len(s) /\ d[i] = s[p + i]
  PROVE  Overwrite(s, p, d) = s
<1> DEFINE t == Overwrite(s, p, d)
<1>1. /\ t \in Seq(Nat)
      /\ Len(t) = IF d # <<>> /\ p + Len(d) > Len(s) THEN p + Len(d) ELSE Len(s)
      /\ \A i \in 1..Len(t) : t[i] = Byte(s, p, d, i)
  BY OverwriteBytes
<1> HIDE DEF t
<1>2. Len(t) = Len(s)
  <2>1. d # <<>> => Len(d) \in 1..Len(d)
    OBVIOUS
  <2>2. d # <<>> => p + Len(d) <= Len(s)
    BY <2>1
  <2>3. p + Len(d) \in Nat /\ Len(s) \in Nat
    OBVIOUS
  <2> QED BY <1>1, <2>2, <2>3
<1>3. \A i \in 1..Len(t) : t[i] = s[i]
  <2> TAKE i \in 1..Len(t)
  <2>1. CASE p < i /\ i <= p + Len(d)
    <3>1. i - p \in 1..Len(d) /\ p + (i - p) = i
      BY <2>1
    <3> QED BY <1>1, <2>1, <3>1 DEF Byte
  <2>2. CASE ~(p < i /\ i <= p + Len(d))
    BY <1>1, <1>2, <2>2 DEF Byte
  <2> QED BY <2>1, <2>2
<1> QED BY <1>1, <1>2, <1>3, SameBytes DEF t

-----------------------------------------------------------------------------
(***************************************************************************)
(* The parts of _FileWrite.                                                *)
(***************************************************************************)

\* What the user sees of a handle.
Visible(f) == IF f.cachedirty THEN Overwrite(f.disk, f.cachedatapos, f.cache) ELSE f.disk

\* A handle a session may have: the cache fits, and can be trusted when it is not dirty.
Sound(f) == f \in Handle /\ Len(f.cache) <= CacheSize /\ (~f.cachedirty => Agrees(f))

\* The fields of a handle.
LEMMA HandleFields ==
  ASSUME NEW f \in Handle
  PROVE  /\ f.disk \in Seq(Nat) /\ f.filepos \in Nat /\ f.cachedatapos \in Nat
         /\ f.cache \in Seq(Nat) /\ f.cachedirty \in BOOLEAN /\ Len(f.cache) \in Nat
         /\ CacheSize \in Nat \ {0}
<1>1. /\ f.disk \in Seq(Nat) /\ f.filepos \in Nat /\ f.cachedatapos \in Nat
      /\ f.cache \in Seq(Nat) /\ f.cachedirty \in BOOLEAN
  BY DEF Handle
<1> QED BY <1>1, CacheSizeAssumption

\* Whether it is dirty or not, writing the cache of a sound handle shows what was seen.
LEMMA SoundVisible ==
  ASSUME NEW f, Sound(f)
  PROVE  /\ Visible(f) = Overwrite(f.disk, f.cachedatapos, f.cache)
         /\ Visible(f) \in Seq(Nat) /\ Len(Visible(f)) >= Len(f.disk)
         /\ f.cache = <<>> => Visible(f) = f.disk
<1>1. f \in Handle
  BY DEF Sound
<1>2. /\ f.disk \in Seq(Nat) /\ f.cachedatapos \in Nat /\ f.cache \in Seq(Nat)
      /\ f.cachedirty \in BOOLEAN
  BY <1>1, HandleFields
<1>3. Visible(f) = Overwrite(f.disk, f.cachedatapos, f.cache)
  <2>1. CASE f.cachedirty
    BY <2>1 DEF Visible
  <2>2. CASE ~f.cachedirty
    <3>1. \A i \in 1..Len(f.cache) : /\ f.cachedatapos + i <= Len(f.disk)
                                     /\ f.cache[i] = f.disk[f.cachedatapos + i]
      BY <2>2 DEF Sound, Agrees
    <3>2. Overwrite(f.disk, f.cachedatapos, f.cache) = f.disk
      BY <1>2, <3>1, OverwriteSame
    <3> QED BY <2>2, <3>2 DEF Visible
  <2> QED BY <1>2, <2>1, <2>2
<1>4. f.cache = <<>> => Visible(f) = f.disk
  BY <1>3 DEF Overwrite
<1> QED BY <1>2, <1>3, <1>4, OverwriteBytes

\* WriteBack changes nothing for the user, and the position is behind the cache.
LEMMA WriteBackEffect ==
  ASSUME NEW f, Sound(f), NEW g, g = WriteBack(f)
  PROVE  /\ g \in Handle /\ Len(g.cache) <= CacheSize /\ g.cachedirty = f.cachedirty
         /\ g.filepos = f.filepos /\ g.filepos = g.cachedatapos + Len(g.cache)
         /\ Overwrite(g.disk, g.cachedatapos, g.cache) = Visible(f)
         /\ ~f.cachedirty => g.disk = Visible(f)
<1>1. f \in Handle /\ Len(f.cache) <= CacheSize
  BY DEF Sound
<1>2. /\ f.disk \in Seq(Nat) /\ f.filepos \in Nat /\ f.cachedatapos \in Nat
      /\ f.cache \in Seq(Nat) /\ f.cachedirty \in BOOLEAN /\ Len(f.cache) \in Nat
      /\ CacheSize \in Nat \ {0}
  BY <1>1, HandleFields
<1>3. /\ Visible(f) = Overwrite(f.disk, f.cachedatapos, f.cache) /\ Visible(f) \in Seq(Nat)
  BY SoundVisible
<1>4. CASE f.filepos # CacheEnd(f)
  <2>1. /\ g = [f EXCEPT !.disk = Visible(f), !.cache = <<>>, !.cachedatapos = f.filepos]
    BY <1>3, <1>4 DEF WriteBack, Flush
  <2>2. g \in Handle
    <3>1. <<>> \in Seq(Nat)
      OBVIOUS
    <3> QED BY <1>1, <1>2, <1>3, <2>1, <3>1 DEF Handle
  <2>3. /\ g.disk = Visible(f) /\ g.cache = <<>> /\ g.cachedatapos = f.filepos
        /\ g.filepos = f.filepos /\ g.cachedirty = f.cachedirty
    BY <1>1, <2>1 DEF Handle
  <2>4. Len(g.cache) = 0 /\ Overwrite(g.disk, g.cachedatapos, g.cache) = g.disk
    BY <2>3 DEF Overwrite
  <2> QED BY <1>2, <2>2, <2>3, <2>4
<1>5. CASE f.filepos = CacheEnd(f)
  <2>1. g = f
    BY <1>5 DEF WriteBack
  <2> QED BY <1>1, <1>3, <1>5, <2>1 DEF CacheEnd, Visible
<1> QED BY <1>4, <1>5

\* Fill after WriteBack: the part of d there is room for is in the cache.
LEMMA FillEffect ==
  ASSUME NEW f, Sound(f), NEW d \in Seq(Nat), NEW g, g = Fill(WriteBack(f), d),
         NEW k, k = Room(WriteBack(f), d)
  PROVE  /\ k \in 0..Len(d) /\ g \in Handle /\ Len(g.cache) <= CacheSize
         /\ g.cachedirty = f.cachedirty /\ g.filepos = f.filepos
         /\ Overwrite(g.disk, g.cachedatapos, g.cache) = Overwrite(Visible(f), f.filepos, SubSeq(d, 1, k))
         /\ f.filepos + k = g.cachedatapos + Len(g.cache)
         /\ Len(g.cache) # CacheSize => k = Len(d)
         /\ ~f.cachedirty => g.disk = Visible(f)
<1> DEFINE w == WriteBack(f)
<1>1. /\ w \in Handle /\ Len(w.cache) <= CacheSize /\ w.cachedirty = f.cachedirty
      /\ w.filepos = f.filepos /\ w.filepos = w.cachedatapos + Len(w.cache)
      /\ Overwrite(w.disk, w.cachedatapos, w.cache) = Visible(f)
      /\ ~f.cachedirty => w.disk = Visible(f)
  BY WriteBackEffect
<1> HIDE DEF w
<1>2. /\ w.disk \in Seq(Nat) /\ w.cachedatapos \in Nat /\ w.cache \in Seq(Nat)
      /\ Len(w.cache) \in Nat /\ CacheSize \in Nat \ {0} /\ Len(d) \in Nat
  BY <1>1, HandleFields
<1>3. /\ k \in 0..Len(d) /\ Len(w.cache) + k <= CacheSize
      /\ Len(w.cache) + k # CacheSize => k = Len(d)
  <2>1. k = IF Len(d) > CacheSize - Len(w.cache) THEN CacheSize - Len(w.cache) ELSE Len(d)
    BY DEF Room, w
  <2> DEFINE n == Len(d)
             m == Len(w.cache)
  <2>2. n \in Nat /\ m \in Nat /\ m <= CacheSize /\ CacheSize \in Nat
        /\ k = IF n > CacheSize - m THEN CacheSize - m ELSE n
    BY <1>1, <1>2, <2>1
  <2> HIDE DEF n, m
  <2>3. k \in 0..n /\ m + k <= CacheSize /\ (m + k # CacheSize => k = n)
    BY <2>2
  <2> QED BY <2>3 DEF n, m
<1>4. g = [w EXCEPT !.cache = w.cache \o SubSeq(d, 1, k)]
  BY DEF Fill, w
<1>5. SubSeq(d, 1, k) \in Seq(Nat) /\ Len(SubSeq(d, 1, k)) = k
  BY <1>3, SplitBytes
<1>6. w.cache \o SubSeq(d, 1, k) \in Seq(Nat) /\ Len(w.cache \o SubSeq(d, 1, k)) = Len(w.cache) + k
  BY <1>2, <1>5, ConcatBytes
<1>7. g \in Handle
  BY <1>1, <1>4, <1>6 DEF Handle
<1>8. /\ g.disk = w.disk /\ g.cachedatapos = w.cachedatapos /\ g.filepos = w.filepos
      /\ g.cachedirty = w.cachedirty /\ g.cache = w.cache \o SubSeq(d, 1, k)
  BY <1>1, <1>4 DEF Handle
<1>9. Overwrite(g.disk, g.cachedatapos, g.cache) = Overwrite(Visible(f), f.filepos, SubSeq(d, 1, k))
  <2>1. Overwrite(Overwrite(w.disk, w.cachedatapos, w.cache), w.cachedatapos + Len(w.cache), SubSeq(d, 1, k))
        = Overwrite(w.disk, w.cachedatapos, w.cache \o SubSeq(d, 1, k))
    <3> DEFINE e == SubSeq(d, 1, k)
    <3>1. e \in Seq(Nat)
      BY <1>5
    <3> HIDE DEF e
    <3>2. \A s \in Seq(Nat), p \in Nat, a \in Seq(Nat) :
             Overwrite(Overwrite(s, p, a), p + Len(a), e) = Overwrite(s, p, a \o e)
      BY <3>1, OverwriteAppend
    <3> QED BY <1>2, <3>2 DEF e
  <2> QED BY <1>1, <1>8, <2>1
<1>10. Len(g.cache) = Len(w.cache) + k /\ f.filepos + k = g.cachedatapos + Len(g.cache)
  <2>1. Len(g.cache) = Len(w.cache) + k
    BY <1>6, <1>8
  <2> QED BY <1>1, <1>2, <1>3, <1>8, <2>1
<1> QED BY <1>1, <1>3, <1>7, <1>8, <1>9, <1>10

\* FlushFull of a full cache: all of it is in the file, the cache is empty.
LEMMA FlushFullEffect ==
  ASSUME NEW g \in Handle, Len(g.cache) = CacheSize, NEW e, e = FlushFull(g)
  PROVE  /\ e \in Handle /\ e.cache = <<>> /\ e.cachedirty = FALSE
         /\ e.disk = Overwrite(g.disk, g.cachedatapos, g.cache)
         /\ e.filepos = g.cachedatapos + Len(g.cache)
<1>1. /\ g.disk \in Seq(Nat) /\ g.cachedatapos \in Nat /\ g.cache \in Seq(Nat)
      /\ CacheSize \in Nat
  BY HandleFields
<1> DEFINE o == Overwrite(g.disk, g.cachedatapos, g.cache)
<1>2. o \in Seq(Nat)
  BY <1>1, OverwriteBytes
<1>3. e = [g EXCEPT !.disk = o, !.cache = <<>>, !.cachedatapos = g.cachedatapos + CacheSize,
                    !.filepos = g.cachedatapos + CacheSize, !.cachedirty = FALSE]
  BY DEF FlushFull, Flush, Handle
<1> HIDE DEF o
<1>4. <<>> \in Seq(Nat) /\ g.cachedatapos + CacheSize \in Nat
  BY <1>1
<1>5. e \in Handle
  BY <1>2, <1>3, <1>4 DEF Handle
<1>6. /\ e.cache = <<>> /\ e.cachedirty = FALSE /\ e.disk = o
      /\ e.filepos = g.cachedatapos + CacheSize
  BY <1>3 DEF Handle
<1> QED BY <1>5, <1>6 DEF o

\* Direct of the first k bytes, with an empty cache.
LEMMA DirectEffect ==
  ASSUME NEW f \in Handle, f.cache = <<>>, NEW d \in Seq(Nat), NEW k \in 0..Len(d),
         NEW g, g = Direct(f, d, k)
  PROVE  /\ g \in Handle /\ g.cache = <<>> /\ g.cachedirty = f.cachedirty
         /\ g.disk = Overwrite(f.disk, f.filepos, SubSeq(d, 1, k))
         /\ g.filepos = f.filepos + k
<1>1. f.disk \in Seq(Nat) /\ f.filepos \in Nat
  BY HandleFields
<1> DEFINE o == Overwrite(f.disk, f.filepos, SubSeq(d, 1, k))
<1>2. o \in Seq(Nat) /\ f.filepos + k \in Nat
  <2> DEFINE a == SubSeq(d, 1, k)
  <2>1. a \in Seq(Nat)
    BY SplitBytes
  <2> HIDE DEF a
  <2>2. Overwrite(f.disk, f.filepos, a) \in Seq(Nat)
    BY <1>1, <2>1, OverwriteBytes
  <2>3. f.filepos + k \in Nat
    BY <1>1
  <2> QED BY <2>2, <2>3 DEF a
<1>3. g = [f EXCEPT !.disk = o, !.filepos = f.filepos + k]
  BY DEF Direct
<1> HIDE DEF o
<1>4. g \in Handle
  BY <1>2, <1>3 DEF Handle
<1>5. g.cache = <<>> /\ g.cachedirty = f.cachedirty /\ g.disk = o /\ g.filepos = f.filepos + k
  BY <1>3 DEF Handle
<1> QED BY <1>4, <1>5 DEF o

\* Whole multiples of the cache are no more than there is.
LEMMA WholeType ==
  ASSUME NEW d \in Seq(Nat)
  PROVE  /\ Whole(d) \in 0..Len(d) /\ Len(d) - Whole(d) \in 0..(CacheSize - 1)
         /\ Len(d) \in Nat /\ CacheSize \in Nat \ {0}
<1>1. Len(d) \in Nat /\ CacheSize \in Nat \ {0}
  BY CacheSizeAssumption
<1>2. \A n \in Nat : n % CacheSize \in 0..(CacheSize - 1) /\ n % CacheSize <= n
  BY <1>1
<1>3. Len(d) % CacheSize \in 0..(CacheSize - 1) /\ Len(d) % CacheSize <= Len(d)
  BY <1>1, <1>2
<1> QED BY <1>1, <1>3 DEF Whole

\* WriteRest with an empty cache writes all of d.
LEMMA WriteRestEffect ==
  ASSUME NEW f \in Handle, f.cache = <<>>, NEW d \in Seq(Nat), NEW g, g = WriteRest(f, d)
  PROVE  /\ Sound(g) /\ Visible(g) = Overwrite(f.disk, f.filepos, d)
         /\ g.filepos = f.filepos + Len(d)
<1> DEFINE k == Whole(d)
           a == SubSeq(d, 1, k)
           rest == SubSeq(d, k + 1, Len(d))
           m == Direct(f, d, k)
<1>1. k \in 0..Len(d) /\ Len(d) - k \in 0..(CacheSize - 1) /\ Len(d) \in Nat /\ CacheSize \in Nat \ {0}
  BY WholeType
<1>2. /\ a \in Seq(Nat) /\ Len(a) = k /\ rest \in Seq(Nat) /\ Len(rest) = Len(d) - k
      /\ d = a \o rest
  BY <1>1, SplitBytes
<1>3. /\ m \in Handle /\ m.cache = <<>> /\ m.cachedirty = f.cachedirty
      /\ m.disk = Overwrite(f.disk, f.filepos, a) /\ m.filepos = f.filepos + k
  BY <1>1, DirectEffect
<1>4. g = IF rest = <<>> THEN m
          ELSE [m EXCEPT !.cache = rest, !.cachedatapos = m.filepos,
                         !.filepos = m.filepos + Len(rest), !.cachedirty = TRUE]
  BY DEF WriteRest
<1>5. f.disk \in Seq(Nat) /\ f.filepos \in Nat /\ m.disk \in Seq(Nat) /\ m.filepos \in Nat
  BY <1>3, HandleFields
<1> HIDE DEF m, rest, a, k
<1>6. Overwrite(f.disk, f.filepos, d) = Overwrite(m.disk, m.filepos, rest)
  <2>1. Overwrite(Overwrite(f.disk, f.filepos, a), f.filepos + Len(a), rest)
        = Overwrite(f.disk, f.filepos, a \o rest)
    <3>1. \A s \in Seq(Nat), p \in Nat, b \in Seq(Nat) :
             Overwrite(Overwrite(s, p, b), p + Len(b), rest) = Overwrite(s, p, b \o rest)
      BY <1>2, OverwriteAppend
    <3> QED BY <1>2, <1>5, <3>1
  <2> QED BY <1>2, <1>3, <2>1
<1>7. CASE rest = <<>>
  <2>1. g = m /\ Len(rest) = 0
    BY <1>4, <1>7
  <2>2. Len(m.cache) = 0
    BY <1>3
  <2>3. Sound(m)
    BY <1>1, <1>3, <2>2 DEF Sound, Agrees
  <2>4. Visible(m) = m.disk
    BY <1>3, <2>3, SoundVisible
  <2>5. Overwrite(m.disk, m.filepos, rest) = m.disk
    BY <1>7 DEF Overwrite
  <2>6. k = Len(d)
    BY <1>1, <1>2, <2>1
  <2> QED BY <1>3, <1>6, <2>1, <2>3, <2>4, <2>5, <2>6
<1>8. CASE rest # <<>>
  <2>1. g = [m EXCEPT !.cache = rest, !.cachedatapos = m.filepos,
                      !.filepos = m.filepos + Len(rest), !.cachedirty = TRUE]
    BY <1>4, <1>8
  <2>2. m.filepos + Len(rest) \in Nat /\ m.filepos + Len(rest) = f.filepos + Len(d)
        /\ Len(rest) <= CacheSize
    BY <1>1, <1>2, <1>3, <1>5
  <2>3. g \in Handle
    BY <1>2, <1>3, <1>5, <2>1, <2>2 DEF Handle
  <2>4. /\ g.cache = rest /\ g.cachedatapos = m.filepos /\ g.filepos = m.filepos + Len(rest)
        /\ g.cachedirty = TRUE /\ g.disk = m.disk
    BY <1>3, <2>1 DEF Handle
  <2>5. Sound(g)
    BY <2>2, <2>3, <2>4 DEF Sound
  <2> QED BY <1>6, <2>2, <2>4, <2>5 DEF Visible
<1> QED BY <1>7, <1>8

\* Writing a leading part and then the rest is writing all.
LEMMA OverwriteSplit ==
  ASSUME NEW s \in Seq(Nat), NEW p \in Nat, NEW d \in Seq(Nat), NEW k \in 0..Len(d)
  PROVE  Overwrite(Overwrite(s, p, SubSeq(d, 1, k)), p + k, SubSeq(d, k + 1, Len(d)))
         = Overwrite(s, p, d)
<1> DEFINE a == SubSeq(d, 1, k)
           b == SubSeq(d, k + 1, Len(d))
<1>1. a \in Seq(Nat) /\ Len(a) = k /\ b \in Seq(Nat) /\ d = a \o b
  BY SplitBytes
<1> HIDE DEF a, b
<1>2. Overwrite(Overwrite(s, p, a), p + Len(a), b) = Overwrite(s, p, a \o b)
  <2>1. \A c \in Seq(Nat) : Overwrite(Overwrite(s, p, c), p + Len(c), b) = Overwrite(s, p, c \o b)
    BY <1>1, OverwriteAppend
  <2> QED BY <1>1, <2>1
<1>3. Overwrite(Overwrite(s, p, a), p + k, b) = Overwrite(s, p, d)
  BY <1>1, <1>2
<1> QED BY <1>3 DEF a, b

\* The leading part of the rest follows the leading part.
LEMMA LeadingParts ==
  ASSUME NEW d \in Seq(Nat), NEW k \in 0..Len(d), NEW j \in 0..(Len(d) - k)
  PROVE  SubSeq(d, 1, k) \o SubSeq(SubSeq(d, k + 1, Len(d)), 1, j) = SubSeq(d, 1, k + j)
<1> DEFINE n == Len(d)
           a == SubSeq(d, 1, k)
           b == SubSeq(d, k + 1, n)
           c == SubSeq(b, 1, j)
           e == a \o c
           t == SubSeq(d, 1, k + j)
<1>1. k + j \in 0..n /\ n \in Nat /\ 0 \in Nat /\ 0 + 1 = 1 /\ k \in Nat /\ n \in 0..n
  OBVIOUS
<1>2. a \in Seq(Nat) /\ Len(a) = k /\ b \in Seq(Nat) /\ Len(b) = n - k
  BY SplitBytes
<1>3. \A i \in 1..k : a[i] = d[i]
  <2>1. \A i \in 1..Len(a) : a[i] = d[0 + i]
    BY <1>1, PartBytes
  <2> QED BY <1>2, <2>1
<1>4. \A i \in 1..Len(b) : b[i] = d[k + i]
  BY <1>1, PartBytes
<1>5. t \in Seq(Nat) /\ Len(t) = k + j /\ \A i \in 1..(k + j) : t[i] = d[i]
  <2> DEFINE m == k + j
  <2>1. m \in 0..n
    BY <1>1
  <2> HIDE DEF m
  <2>2. SubSeq(d, 1, m) \in Seq(Nat) /\ Len(SubSeq(d, 1, m)) = m
    BY <2>1, SplitBytes
  <2>3. \A i \in 1..Len(SubSeq(d, 1, m)) : SubSeq(d, 1, m)[i] = d[0 + i]
    BY <1>1, <2>1, PartBytes
  <2>4. \A i \in 1..m : SubSeq(d, 1, m)[i] = d[i]
    BY <2>2, <2>3
  <2> QED BY <2>2, <2>4 DEF m
<1> HIDE DEF n, a, b, t
<1>6. j \in 0..Len(b)
  BY <1>2 DEF n
<1>7. c \in Seq(Nat) /\ Len(c) = j /\ \A i \in 1..j : c[i] = b[i]
  <2>1. c \in Seq(Nat) /\ Len(c) = j
    BY <1>2, <1>6, SplitBytes
  <2>2. \A i \in 1..Len(c) : c[i] = b[0 + i]
    BY <1>1, <1>2, <1>6, PartBytes
  <2> QED BY <2>1, <2>2
<1> HIDE DEF c
<1>8. e \in Seq(Nat) /\ Len(e) = k + j /\ (\A i \in 1..k : e[i] = a[i]) /\ \A i \in 1..j : e[k + i] = c[i]
  <2>1. /\ e \in Seq(Nat) /\ Len(e) = Len(a) + Len(c)
        /\ \A i \in 1..Len(a) : e[i] = a[i]
        /\ \A i \in 1..Len(c) : e[Len(a) + i] = c[i]
    BY <1>2, <1>7, ConcatBytes
  <2> HIDE DEF e
  <2> QED BY <1>2, <1>7, <2>1
<1> HIDE DEF e
<1>9. ASSUME NEW i \in 1..(k + j) PROVE e[i] = t[i]
  <2>1. CASE i <= k
    <3>1. i \in 1..k
      BY <2>1
    <3> QED BY <1>3, <1>5, <1>8, <3>1
  <2>2. CASE i > k
    <3> DEFINE m == i - k
    <3>1. m \in 1..j /\ k + m = i /\ m \in 1..Len(b)
      BY <1>1, <1>6, <2>2
    <3> HIDE DEF m
    <3> QED BY <1>4, <1>5, <1>7, <1>8, <3>1
  <2> QED BY <1>1, <2>1, <2>2
<1>10. e = t
  BY <1>5, <1>8, <1>9, SameBytes
<1> QED BY <1>10 DEF e, t, a, c, b, n

\* A write of d that succeeds: d is laid over what the user saw.
LEMMA WrittenEffect ==
  ASSUME NEW f, Sound(f), NEW d \in Seq(Nat), NEW g, g = Written(f, d)
  PROVE  /\ Sound(g) /\ Visible(g) = Overwrite(Visible(f), f.filepos, d)
         /\ g.filepos = f.filepos + Len(d)
<1>1. f \in Handle /\ Visible(f) \in Seq(Nat) /\ f.filepos \in Nat /\ Len(d) \in Nat
  BY SoundVisible, HandleFields DEF Sound
<1>2. CASE f.cache = <<>>
  <2>1. g = WriteRest(f, d)
    BY <1>2 DEF Written, Fills
  <2>2. Visible(f) = f.disk
    BY <1>2, SoundVisible
  <2> QED BY <1>1, <1>2, <2>1, <2>2, WriteRestEffect
<1>3. CASE f.cache # <<>>
  <2> DEFINE w == Fill(WriteBack(f), d)
             k == Room(WriteBack(f), d)
  <2>1. /\ k \in 0..Len(d) /\ w \in Handle /\ Len(w.cache) <= CacheSize
        /\ w.filepos = f.filepos
        /\ Overwrite(w.disk, w.cachedatapos, w.cache) = Overwrite(Visible(f), f.filepos, SubSeq(d, 1, k))
        /\ f.filepos + k = w.cachedatapos + Len(w.cache)
        /\ Len(w.cache) # CacheSize => k = Len(d)
    BY FillEffect
  <2>2. CASE Fills(f, d)
    <3> DEFINE e == FlushFull(w)
               l == SubSeq(d, k + 1, Len(d))
    <3>1. g = WriteRest(e, l)
      BY <1>3, <2>2 DEF Written, Left
    <3>2. Len(w.cache) = CacheSize
      BY <2>2 DEF Fills
    <3> HIDE DEF w, k
    <3>3. /\ e \in Handle /\ e.cache = <<>>
          /\ e.disk = Overwrite(Visible(f), f.filepos, SubSeq(d, 1, k))
          /\ e.filepos = f.filepos + k
      <4>1. /\ e \in Handle /\ e.cache = <<>>
            /\ e.disk = Overwrite(w.disk, w.cachedatapos, w.cache)
            /\ e.filepos = w.cachedatapos + Len(w.cache)
        BY <2>1, <3>2, FlushFullEffect
      <4> QED BY <2>1, <4>1
    <3>4. l \in Seq(Nat) /\ Len(l) = Len(d) - k
      BY <2>1, SplitBytes
    <3>5. Overwrite(e.disk, e.filepos, l) = Overwrite(Visible(f), f.filepos, d)
      <4>1. \A s \in Seq(Nat), p \in Nat :
               Overwrite(Overwrite(s, p, SubSeq(d, 1, k)), p + k, l) = Overwrite(s, p, d)
        BY <2>1, OverwriteSplit
      <4> QED BY <1>1, <3>3, <4>1
    <3> HIDE DEF e, l
    <3>6. Sound(g) /\ Visible(g) = Overwrite(e.disk, e.filepos, l) /\ g.filepos = e.filepos + Len(l)
      BY <3>1, <3>3, <3>4, WriteRestEffect
    <3>7. e.filepos + Len(l) = f.filepos + Len(d)
      BY <1>1, <2>1, <3>3, <3>4
    <3> QED BY <3>5, <3>6, <3>7
  <2>3. CASE ~Fills(f, d)
    <3>1. g = [w EXCEPT !.cachedirty = TRUE, !.filepos = w.filepos + Len(d)]
      BY <1>3, <2>3 DEF Written
    <3>2. Len(w.cache) # CacheSize
      BY <1>3, <2>3 DEF Fills
    <3> HIDE DEF w, k
    <3>3. k = Len(d) /\ w.filepos + Len(d) = f.filepos + Len(d) /\ w.filepos + Len(d) \in Nat
      BY <1>1, <2>1, <3>2
    <3>4. SubSeq(d, 1, k) = d
      <4>1. SubSeq(d, 1, Len(d)) = d
        OBVIOUS
      <4> QED BY <3>3, <4>1
    <3>5. g \in Handle
      BY <2>1, <3>1, <3>3 DEF Handle
    <3>6. /\ g.cachedirty = TRUE /\ g.filepos = f.filepos + Len(d) /\ g.disk = w.disk
          /\ g.cachedatapos = w.cachedatapos /\ g.cache = w.cache
      BY <2>1, <3>1, <3>3 DEF Handle
    <3>7. Sound(g)
      BY <2>1, <3>5, <3>6 DEF Sound
    <3>8. Visible(g) = Overwrite(Visible(f), f.filepos, d)
      BY <2>1, <3>4, <3>6 DEF Visible
    <3> QED BY <3>6, <3>7, <3>8
  <2> QED BY <2>2, <2>3
<1> QED BY <1>2, <1>3

\* Nothing is written of a leading part without bytes.
LEMMA OverwriteNothing ==
  ASSUME NEW s, NEW p, NEW d \in Seq(Nat)
  PROVE  Overwrite(s, p, SubSeq(d, 1, 0)) = s
<1>1. SubSeq(d, 1, 0) = <<>>
  OBVIOUS
<1> QED BY <1>1 DEF Overwrite

\* WriteRest of less than a cache: the file is left alone, the data is in the cache.
LEMMA WriteRestShort ==
  ASSUME NEW f \in Handle, f.cache = <<>>, NEW d \in Seq(Nat), Len(d) < CacheSize,
         NEW g, g = WriteRest(f, d)
  PROVE  /\ g.disk = f.disk
         /\ d # <<>> => g.cache = d /\ g.cachedatapos = f.filepos
<1> DEFINE m == Direct(f, d, 0)
<1>1. Len(d) \in Nat /\ CacheSize \in Nat \ {0} /\ f.filepos \in Nat /\ 0 \in 0..Len(d)
  BY HandleFields
<1>2. Whole(d) = 0
  <2>1. \A i \in Nat : i < CacheSize => i % CacheSize = i
    <3>1. CacheSize \in Nat \ {0}
      BY <1>1
    <3> QED BY <3>1
  <2>2. Len(d) % CacheSize = Len(d)
    BY <1>1, <2>1
  <2> QED BY <1>1, <2>2 DEF Whole
<1>3. SubSeq(d, 0 + 1, Len(d)) = d
  <2>1. SubSeq(d, 1, Len(d)) = d
    OBVIOUS
  <2> QED BY <2>1
<1>4. /\ m \in Handle /\ m.disk = Overwrite(f.disk, f.filepos, SubSeq(d, 1, 0))
      /\ m.filepos = f.filepos + 0
  BY <1>1, DirectEffect
<1>5. m.disk = f.disk /\ m.filepos = f.filepos
  BY <1>1, <1>4, OverwriteNothing
<1>6. g = IF d = <<>> THEN m
          ELSE [m EXCEPT !.cache = d, !.cachedatapos = m.filepos,
                         !.filepos = m.filepos + Len(d), !.cachedirty = TRUE]
  BY <1>2, <1>3 DEF WriteRest
<1> HIDE DEF m
<1>7. CASE d = <<>>
  BY <1>5, <1>6, <1>7
<1>8. CASE d # <<>>
  BY <1>4, <1>5, <1>6, <1>8 DEF Handle
<1> QED BY <1>7, <1>8

\* A write of less than a cache with a cache that can be trusted: so far the file has,
\* at most, a leading part of the data.
LEMMA WrittenDisk ==
  ASSUME NEW f \in Handle, Len(f.cache) <= CacheSize, Agrees(f), NEW d \in Seq(Nat),
         Len(d) < CacheSize, NEW g, g = Written(f, d)
  PROVE  \E k \in 0..Len(d) : g.disk = Overwrite(f.disk, f.filepos, SubSeq(d, 1, k))
<1>1. /\ f.disk \in Seq(Nat) /\ f.filepos \in Nat /\ f.cachedatapos \in Nat
      /\ f.cache \in Seq(Nat) /\ f.cachedirty \in BOOLEAN /\ Len(d) \in Nat /\ CacheSize \in Nat
  BY HandleFields
<1>2. Sound(f)
  BY DEF Sound
<1>3. Overwrite(f.disk, f.cachedatapos, f.cache) = f.disk
  <2>1. \A i \in 1..Len(f.cache) : /\ f.cachedatapos + i <= Len(f.disk)
                                   /\ f.cache[i] = f.disk[f.cachedatapos + i]
    BY DEF Agrees
  <2> QED BY <1>1, <2>1, OverwriteSame
<1>4. Visible(f) = f.disk
  BY <1>2, <1>3, SoundVisible
<1>5. f.disk = Overwrite(f.disk, f.filepos, SubSeq(d, 1, 0)) /\ 0 \in 0..Len(d)
  BY <1>1, OverwriteNothing
<1>6. CASE f.cache = <<>>
  <2>1. g = WriteRest(f, d)
    BY <1>6 DEF Written, Fills
  <2>2. g.disk = f.disk
    BY <1>6, <2>1, WriteRestShort
  <2> QED BY <1>5, <2>2
<1>7. CASE f.cache # <<>>
  <2> DEFINE w == Fill(WriteBack(f), d)
             k == Room(WriteBack(f), d)
  <2>1. /\ k \in 0..Len(d) /\ w \in Handle /\ Len(w.cache) <= CacheSize
        /\ Overwrite(w.disk, w.cachedatapos, w.cache) = Overwrite(f.disk, f.filepos, SubSeq(d, 1, k))
    BY <1>2, <1>4, FillEffect
  <2>2. CASE Fills(f, d)
    <3> DEFINE e == FlushFull(w)
               l == SubSeq(d, k + 1, Len(d))
    <3>1. g = WriteRest(e, l)
      BY <1>7, <2>2 DEF Written, Left
    <3>2. Len(w.cache) = CacheSize
      BY <2>2 DEF Fills
    <3> HIDE DEF w, k
    <3>3. /\ e \in Handle /\ e.cache = <<>>
          /\ e.disk = Overwrite(f.disk, f.filepos, SubSeq(d, 1, k))
      BY <2>1, <3>2, FlushFullEffect
    <3>4. l \in Seq(Nat) /\ Len(l) = Len(d) - k
      BY <2>1, SplitBytes
    <3>5. Len(l) < CacheSize
      BY <1>1, <2>1, <3>4
    <3> HIDE DEF e, l
    <3>6. g.disk = e.disk
      BY <3>1, <3>3, <3>4, <3>5, WriteRestShort
    <3> QED BY <2>1, <3>3, <3>6
  <2>3. CASE ~Fills(f, d)
    <3>1. g = [w EXCEPT !.cachedirty = TRUE, !.filepos = w.filepos + Len(d)]
      BY <1>7, <2>3 DEF Written
    <3>2. w.disk = f.disk
      <4> DEFINE b == WriteBack(f)
      <4>1. b.disk = f.disk
        <5>1. CASE f.filepos # CacheEnd(f)
          <6>1. b = [f EXCEPT !.disk = f.disk, !.cache = <<>>, !.cachedatapos = f.filepos]
            BY <1>3, <5>1 DEF WriteBack, Flush
          <6> QED BY <6>1 DEF Handle
        <5>2. CASE f.filepos = CacheEnd(f)
          BY <5>2 DEF WriteBack
        <5> QED BY <5>1, <5>2
      <4>2. b \in Handle
        BY <1>2, WriteBackEffect
      <4> HIDE DEF b
      <4>3. w = [b EXCEPT !.cache = b.cache \o SubSeq(d, 1, Room(b, d))]
        BY DEF Fill, b
      <4> QED BY <4>1, <4>2, <4>3 DEF Handle
    <3> HIDE DEF w, k
    <3>3. g.disk = w.disk
      BY <2>1, <3>1 DEF Handle
    <3> QED BY <1>5, <3>2, <3>3
  <2> QED BY <2>2, <2>3
<1> QED BY <1>6, <1>7

\* A write of d that fails: a leading part of d is laid over what the user saw.
LEMMA WriteFailsEffect ==
  ASSUME Sound(h), NEW d \in Seq(Nat), _FileWriteFails(h, d)
  PROVE  /\ h' \in Handle /\ Len(h'.cache) <= CacheSize
         /\ \E k \in 0..Len(d) : Visible(h') = Overwrite(Visible(h), h.filepos, SubSeq(d, 1, k))
<1>1. /\ h \in Handle /\ Len(h.cache) <= CacheSize
      /\ Visible(h) \in Seq(Nat) /\ h.filepos \in Nat /\ Len(d) \in Nat /\ 0 \in 0..Len(d)
      /\ h.cachedirty \in BOOLEAN /\ CacheSize \in Nat \ {0}
  BY SoundVisible, HandleFields DEF Sound
<1>2. Visible(h) = Overwrite(Visible(h), h.filepos, SubSeq(d, 1, 0))
  BY OverwriteNothing
<1> DEFINE w == Fill(WriteBack(h), d)
           r == Room(WriteBack(h), d)
           V == Visible(h)
           p == h.filepos
<1>3. /\ r \in 0..Len(d) /\ w \in Handle /\ Len(w.cache) <= CacheSize
      /\ w.cachedirty = h.cachedirty
      /\ Overwrite(w.disk, w.cachedatapos, w.cache) = Overwrite(V, p, SubSeq(d, 1, r))
      /\ p + r = w.cachedatapos + Len(w.cache)
      /\ ~h.cachedirty => w.disk = V
  BY FillEffect
<1>4. CASE h' = h
  BY <1>1, <1>2, <1>4
<1>5. CASE h' = w
  <2> HIDE DEF w, r
  <2>1. CASE h.cachedirty
    <3>1. Visible(h') = Overwrite(V, p, SubSeq(d, 1, r))
      BY <1>3, <1>5, <2>1 DEF Visible
    <3> QED BY <1>3, <1>5, <3>1
  <2>2. CASE ~h.cachedirty
    <3>1. Visible(h') = V
      BY <1>3, <1>5, <2>2 DEF Visible
    <3> QED BY <1>1, <1>2, <1>3, <1>5, <3>1
  <2> QED BY <1>1, <2>1, <2>2
<1>6. ASSUME h.cache = <<>>, NEW k \in 0..Len(d), h' = Direct(h, d, k)
      PROVE  h' \in Handle /\ Len(h'.cache) <= CacheSize /\ Visible(h') = Overwrite(V, p, SubSeq(d, 1, k))
  <2>1. /\ h' \in Handle /\ h'.cache = <<>> /\ h'.cachedirty = h.cachedirty
        /\ h'.disk = Overwrite(h.disk, p, SubSeq(d, 1, k))
    BY <1>1, <1>6, DirectEffect
  <2>2. Visible(h') = h'.disk
    BY <2>1 DEF Visible, Overwrite
  <2>3. V = h.disk
    BY <1>6, SoundVisible
  <2>4. Len(h'.cache) = 0
    BY <2>1
  <2> QED BY <1>1, <2>1, <2>2, <2>3, <2>4
<1>7. ASSUME Fills(h, d), NEW k \in 0..Len(Left(h, d)), h' = Direct(FlushFull(w), Left(h, d), k)
      PROVE  h' \in Handle /\ Len(h'.cache) <= CacheSize
             /\ r + k \in 0..Len(d) /\ Visible(h') = Overwrite(V, p, SubSeq(d, 1, r + k))
  <2> DEFINE e == FlushFull(w)
             l == SubSeq(d, r + 1, Len(d))
             a == SubSeq(d, 1, r)
             b == SubSeq(l, 1, k)
  <2>1. l = Left(h, d)
    BY DEF Left
  <2>2. Len(w.cache) = CacheSize
    BY <1>7 DEF Fills
  <2> HIDE DEF w, r
  <2>3. /\ e \in Handle /\ e.cache = <<>> /\ e.cachedirty = FALSE
        /\ e.disk = Overwrite(V, p, a) /\ e.filepos = p + r
    <3>1. /\ e \in Handle /\ e.cache = <<>> /\ e.cachedirty = FALSE
          /\ e.disk = Overwrite(w.disk, w.cachedatapos, w.cache)
          /\ e.filepos = w.cachedatapos + Len(w.cache)
      BY <1>3, <2>2, FlushFullEffect
    <3> QED BY <1>3, <3>1
  <2>4. a \in Seq(Nat) /\ Len(a) = r /\ l \in Seq(Nat) /\ Len(l) = Len(d) - r
    BY <1>3, SplitBytes
  <2>5. k \in 0..(Len(d) - r)
    BY <1>7, <2>1, <2>4
  <2>6. a \o b = SubSeq(d, 1, r + k)
    BY <1>3, <2>5, LeadingParts
  <2>7. h' = Direct(e, l, k) /\ k \in 0..Len(l)
    BY <1>7, <2>1
  <2> HIDE DEF e, l
  <2>8. b \in Seq(Nat)
    BY <2>4, <2>7, SplitBytes
  <2>9. /\ h' \in Handle /\ h'.cache = <<>> /\ h'.cachedirty = FALSE
        /\ h'.disk = Overwrite(e.disk, e.filepos, b)
    BY <2>3, <2>4, <2>7, DirectEffect
  <2> HIDE DEF a, b, V, p
  <2>10. Overwrite(Overwrite(V, p, a), p + Len(a), b) = Overwrite(V, p, a \o b)
    <3>1. \A s \in Seq(Nat), q \in Nat, c \in Seq(Nat) :
             Overwrite(Overwrite(s, q, c), q + Len(c), b) = Overwrite(s, q, c \o b)
      BY <2>8, OverwriteAppend
    <3>2. V \in Seq(Nat) /\ p \in Nat
      BY <1>1 DEF V, p
    <3> QED BY <2>4, <3>1, <3>2
  <2>11. Visible(h') = Overwrite(V, p, SubSeq(d, 1, r + k))
    <3>1. Visible(h') = h'.disk
      BY <2>9 DEF Visible
    <3> QED BY <2>3, <2>4, <2>6, <2>9, <2>10, <3>1
  <2>12. r + k \in 0..Len(d)
    BY <1>1, <1>3, <2>5
  <2>13. Len(h'.cache) = 0
    BY <2>9
  <2> QED BY <1>1, <2>9, <2>11, <2>12, <2>13
<1>8. CASE h.cache # <<>> /\ h.filepos # CacheEnd(h) /\ h' = h
  BY <1>4, <1>8
<1>9. CASE Fills(h, d) /\ h' = Fill(WriteBack(h), d)
  BY <1>5, <1>9
<1>10. CASE /\ h.cache = <<>> \/ Fills(h, d)
            /\ \E k \in {i \in 0..Len(d) : i % CacheSize = 0} :
                 k < Whole(Rest(h, d)) /\ h' = Direct(Base(h, d), Rest(h, d), k)
  <2>1. PICK k \in 0..Len(d) : k < Whole(Rest(h, d)) /\ h' = Direct(Base(h, d), Rest(h, d), k)
    BY <1>10
  <2>2. CASE h.cache = <<>>
    <3>1. h' = Direct(h, d, k)
      BY <2>1, <2>2 DEF Base, Rest
    <3> QED BY <1>6, <2>2, <3>1
  <2>3. CASE h.cache # <<>>
    <3>1. Base(h, d) = FlushFull(w) /\ Rest(h, d) = Left(h, d) /\ Fills(h, d)
      BY <1>10, <2>3 DEF Base, Rest
    <3>2. Left(h, d) \in Seq(Nat)
      BY <1>3, SplitBytes DEF Left
    <3>3. k \in 0..Len(Left(h, d))
      <4>1. Whole(Left(h, d)) \in 0..Len(Left(h, d))
        BY <3>2, WholeType
      <4> QED BY <2>1, <3>1, <3>2, <4>1
    <3> HIDE DEF w, r, V, p
    <3>4. /\ h' \in Handle /\ Len(h'.cache) <= CacheSize
          /\ r + k \in 0..Len(d) /\ Visible(h') = Overwrite(V, p, SubSeq(d, 1, r + k))
      BY <1>7, <2>1, <3>1, <3>3
    <3> QED BY <3>4 DEF V, p
  <2> QED BY <2>2, <2>3
<1> QED BY <1>8, <1>9, <1>10 DEF _FileWriteFails

\* What the file has after a write of d to f is what it had, or what the user saw
\* of it with a leading part of d.
Stored(disk, f, d) ==
  \/ disk = f.disk
  \/ \E k \in 0..Len(d) : disk = Overwrite(Visible(f), f.filepos, SubSeq(d, 1, k))

\* With an empty cache the whole multiples of the cache are stored.
LEMMA WriteRestDisk ==
  ASSUME NEW f \in Handle, f.cache = <<>>, NEW d \in Seq(Nat), NEW g, g = WriteRest(f, d)
  PROVE  g.disk = Overwrite(f.disk, f.filepos, SubSeq(d, 1, Whole(d)))
<1> DEFINE m == Direct(f, d, Whole(d))
<1>1. Whole(d) \in 0..Len(d)
  BY WholeType
<1>2. m \in Handle /\ m.disk = Overwrite(f.disk, f.filepos, SubSeq(d, 1, Whole(d)))
  BY <1>1, DirectEffect
<1>3. g.disk = m.disk
  <2> DEFINE rest == SubSeq(d, Whole(d) + 1, Len(d))
  <2>1. g = IF rest = <<>> THEN m
            ELSE [m EXCEPT !.cache = rest, !.cachedatapos = m.filepos,
                           !.filepos = m.filepos + Len(rest), !.cachedirty = TRUE]
    BY DEF WriteRest
  <2> HIDE DEF m, rest
  <2> QED BY <1>2, <2>1 DEF Handle
<1> QED BY <1>2, <1>3

\* Filling the cache stores at most what was in it.
LEMMA FillDisk ==
  ASSUME NEW f, Sound(f), NEW d \in Seq(Nat), NEW g, g = Fill(WriteBack(f), d)
  PROVE  Stored(g.disk, f, d)
<1> DEFINE w == WriteBack(f)
<1>1. f \in Handle /\ w \in Handle
  BY WriteBackEffect DEF Sound
<1>2. w.disk = f.disk \/ w.disk = Visible(f)
  <2>1. CASE f.filepos # CacheEnd(f)
    <3>1. w = [f EXCEPT !.disk = Visible(f), !.cache = <<>>, !.cachedatapos = f.filepos]
      BY <2>1, SoundVisible DEF WriteBack, Flush
    <3> QED BY <1>1, <3>1 DEF Handle
  <2>2. CASE f.filepos = CacheEnd(f)
    BY <2>2 DEF WriteBack
  <2> QED BY <2>1, <2>2
<1>3. g.disk = w.disk
  <2>1. g = [w EXCEPT !.cache = w.cache \o SubSeq(d, 1, Room(w, d))]
    BY DEF Fill
  <2> HIDE DEF w
  <2> QED BY <1>1, <2>1 DEF Handle
<1>4. Visible(f) = Overwrite(Visible(f), f.filepos, SubSeq(d, 1, 0)) /\ 0 \in 0..Len(d)
  BY OverwriteNothing
<1> HIDE DEF w
<1> QED BY <1>2, <1>3, <1>4 DEF Stored

\* Behind a full cache that was written, a leading part of what is left of d
\* makes a longer leading part of d.
LEMMA LeftStored ==
  ASSUME NEW f, Sound(f), NEW d \in Seq(Nat), Fills(f, d),
         NEW e, e = FlushFull(Fill(WriteBack(f), d)), NEW j \in 0..Len(Left(f, d))
  PROVE  /\ e \in Handle /\ e.cache = <<>> /\ Left(f, d) \in Seq(Nat)
         /\ Stored(Overwrite(e.disk, e.filepos, SubSeq(Left(f, d), 1, j)), f, d)
<1> DEFINE w == Fill(WriteBack(f), d)
           r == Room(WriteBack(f), d)
           l == Left(f, d)
           a == SubSeq(d, 1, r)
           b == SubSeq(l, 1, j)
<1>1. /\ r \in 0..Len(d) /\ w \in Handle /\ Len(w.cache) <= CacheSize
      /\ Overwrite(w.disk, w.cachedatapos, w.cache) = Overwrite(Visible(f), f.filepos, a)
      /\ f.filepos + r = w.cachedatapos + Len(w.cache)
  BY FillEffect
<1>2. Len(w.cache) = CacheSize
  BY DEF Fills
<1>3. e = FlushFull(w)
  OBVIOUS
<1>4. l = SubSeq(d, r + 1, Len(d))
  BY DEF Left
<1> HIDE DEF w, r, l
<1>5. /\ e \in Handle /\ e.cache = <<>>
      /\ e.disk = Overwrite(Visible(f), f.filepos, a) /\ e.filepos = f.filepos + r
  BY <1>1, <1>2, <1>3, FlushFullEffect
<1>6. a \in Seq(Nat) /\ Len(a) = r /\ l \in Seq(Nat) /\ Len(l) = Len(d) - r /\ Len(d) \in Nat
  BY <1>1, <1>4, SplitBytes
<1>7. j \in 0..Len(l)
  BY DEF l
<1>8. b \in Seq(Nat)
  BY <1>6, <1>7, SplitBytes
<1>9. j \in 0..(Len(d) - r) /\ r + j \in 0..Len(d)
  BY <1>1, <1>6, <1>7
<1>10. a \o b = SubSeq(d, 1, r + j)
  BY <1>1, <1>4, <1>9, LeadingParts
<1>11. f.filepos \in Nat /\ Visible(f) \in Seq(Nat)
  BY SoundVisible, HandleFields DEF Sound
<1> HIDE DEF a, b
<1>12. Overwrite(Overwrite(Visible(f), f.filepos, a), f.filepos + Len(a), b)
       = Overwrite(Visible(f), f.filepos, a \o b)
  <2>1. \A s \in Seq(Nat), q \in Nat, c \in Seq(Nat) :
           Overwrite(Overwrite(s, q, c), q + Len(c), b) = Overwrite(s, q, c \o b)
    BY <1>8, OverwriteAppend
  <2> QED BY <1>6, <1>11, <2>1
<1>13. Overwrite(e.disk, e.filepos, b) = Overwrite(Visible(f), f.filepos, SubSeq(d, 1, r + j))
  BY <1>5, <1>6, <1>10, <1>12
<1>14. Stored(Overwrite(e.disk, e.filepos, b), f, d)
  BY <1>9, <1>13 DEF Stored
<1> QED BY <1>5, <1>6, <1>14 DEF b, l

\* A write of d that succeeds ...
LEMMA WrittenStored ==
  ASSUME NEW f, Sound(f), NEW d \in Seq(Nat), NEW g, g = Written(f, d)
  PROVE  Stored(g.disk, f, d)
<1>1. f \in Handle
  BY DEF Sound
<1>2. CASE f.cache = <<>>
  <2>1. g.disk = Overwrite(f.disk, f.filepos, SubSeq(d, 1, Whole(d)))
    BY <1>1, <1>2, WriteRestDisk DEF Written, Fills
  <2>2. Whole(d) \in 0..Len(d) /\ Visible(f) = f.disk
    BY <1>2, WholeType, SoundVisible
  <2> QED BY <2>1, <2>2 DEF Stored
<1>3. CASE f.cache # <<>> /\ Fills(f, d)
  <2> DEFINE e == FlushFull(Fill(WriteBack(f), d))
             l == Left(f, d)
  <2>1. g = WriteRest(e, l)
    BY <1>3 DEF Written
  <2>2. \A j \in 0..Len(l) : /\ e \in Handle /\ e.cache = <<>> /\ l \in Seq(Nat)
                             /\ Stored(Overwrite(e.disk, e.filepos, SubSeq(l, 1, j)), f, d)
    BY <1>3, LeftStored
  <2>3. l \in Seq(Nat)
    <3>1. Room(WriteBack(f), d) \in 0..Len(d)
      BY FillEffect
    <3> QED BY <3>1, SplitBytes DEF Left
  <2> HIDE DEF e, l
  <2>4. Whole(l) \in 0..Len(l)
    BY <2>3, WholeType
  <2>5. g.disk = Overwrite(e.disk, e.filepos, SubSeq(l, 1, Whole(l)))
    BY <2>1, <2>2, <2>4, WriteRestDisk
  <2> QED BY <2>2, <2>4, <2>5
<1>4. CASE f.cache # <<>> /\ ~Fills(f, d)
  <2> DEFINE w == Fill(WriteBack(f), d)
  <2>1. g = [w EXCEPT !.cachedirty = TRUE, !.filepos = w.filepos + Len(d)]
    BY <1>4 DEF Written
  <2>2. w \in Handle /\ Stored(w.disk, f, d)
    BY FillEffect, FillDisk
  <2> HIDE DEF w
  <2>3. g.disk = w.disk
    BY <2>1, <2>2 DEF Handle
  <2> QED BY <2>2, <2>3
<1> QED BY <1>2, <1>3, <1>4

\* ... and one that fails.
LEMMA WriteFailsStored ==
  ASSUME Sound(h), NEW d \in Seq(Nat), _FileWriteFails(h, d)
  PROVE  Stored(h'.disk, h, d)
<1>1. h \in Handle
  BY DEF Sound
<1>2. CASE h' = h
  BY <1>2 DEF Stored
<1>3. CASE h' = Fill(WriteBack(h), d)
  BY <1>3, FillDisk
<1>4. ASSUME h.cache = <<>> \/ Fills(h, d), NEW k \in 0..Len(d),
             k < Whole(Rest(h, d)), h' = Direct(Base(h, d), Rest(h, d), k)
      PROVE  Stored(h'.disk, h, d)
  <2>1. CASE h.cache = <<>>
    <3>1. h' = Direct(h, d, k)
      BY <1>4, <2>1 DEF Base, Rest
    <3>2. h'.disk = Overwrite(h.disk, h.filepos, SubSeq(d, 1, k))
      BY <1>1, <2>1, <3>1, DirectEffect
    <3>3. Visible(h) = h.disk
      BY <2>1, SoundVisible
    <3> QED BY <3>2, <3>3 DEF Stored
  <2>2. CASE h.cache # <<>>
    <3> DEFINE e == FlushFull(Fill(WriteBack(h), d))
               l == Left(h, d)
    <3>1. Base(h, d) = e /\ Rest(h, d) = l /\ Fills(h, d)
      BY <1>4, <2>2 DEF Base, Rest
    <3>2. \A j \in 0..Len(l) : /\ e \in Handle /\ e.cache = <<>> /\ l \in Seq(Nat)
                               /\ Stored(Overwrite(e.disk, e.filepos, SubSeq(l, 1, j)), h, d)
      BY <3>1, LeftStored
    <3>3. l \in Seq(Nat)
      <4>1. Room(WriteBack(h), d) \in 0..Len(d)
        BY FillEffect
      <4> QED BY <4>1, SplitBytes DEF Left
    <3> HIDE DEF e, l
    <3>4. k \in 0..Len(l) /\ h' = Direct(e, l, k)
      <4>1. Whole(l) \in 0..Len(l) /\ Len(l) \in Nat
        BY <3>3, WholeType
      <4> QED BY <1>4, <3>1, <4>1
    <3>5. h'.disk = Overwrite(e.disk, e.filepos, SubSeq(l, 1, k))
      BY <3>2, <3>3, <3>4, DirectEffect
    <3> QED BY <3>2, <3>4, <3>5
  <2> QED BY <2>1, <2>2
<1> QED BY <1>2, <1>3, <1>4 DEF _FileWriteFails

-----------------------------------------------------------------------------
(***************************************************************************)
(* The parts of _FileRead.                                                 *)
(***************************************************************************)

\* A read on its way.
Reading == [f : Handle, out : Seq(Nat), n : Nat, stop : BOOLEAN]

\* r is on its way with a read of n bytes that began with the handle f: what is
\* missing and what was read make n, the position follows what was read, only
\* the end of the file stops it; and what was read is what the file has, if the
\* cache could be trusted.
Fetching(r, f, n) ==
  /\ r \in Reading /\ Len(r.f.cache) <= CacheSize
  /\ r.f.disk = f.disk /\ r.f.cachedirty = f.cachedirty
  /\ r.f.filepos = f.filepos + Len(r.out) /\ Len(r.out) + r.n = n
  /\ r.stop => r.f.filepos >= Len(f.disk)
  /\ Agrees(f) => /\ Agrees(r.f)
                  /\ \A i \in 1..Len(r.out) : /\ f.filepos + i <= Len(f.disk)
                                              /\ r.out[i] = f.disk[f.filepos + i]

\* The fields of a read.
LEMMA ReadingFields ==
  ASSUME NEW r \in Reading
  PROVE  /\ r.f \in Handle /\ r.out \in Seq(Nat) /\ r.n \in Nat /\ r.stop \in BOOLEAN
         /\ Len(r.out) \in Nat
         /\ r.f.disk \in Seq(Nat) /\ r.f.filepos \in Nat /\ r.f.cachedatapos \in Nat
         /\ r.f.cache \in Seq(Nat) /\ r.f.cachedirty \in BOOLEAN /\ Len(r.f.cache) \in Nat
         /\ Len(r.f.disk) \in Nat /\ CacheSize \in Nat \ {0}
<1>1. r.f \in Handle /\ r.out \in Seq(Nat) /\ r.n \in Nat /\ r.stop \in BOOLEAN
  BY DEF Reading
<1>2. /\ r.f.disk \in Seq(Nat) /\ r.f.filepos \in Nat /\ r.f.cachedatapos \in Nat
      /\ r.f.cache \in Seq(Nat) /\ r.f.cachedirty \in BOOLEAN /\ Len(r.f.cache) \in Nat
      /\ CacheSize \in Nat \ {0}
  BY <1>1, HandleFields
<1>3. Len(r.out) \in Nat /\ Len(r.f.disk) \in Nat
  BY <1>1, <1>2
<1> QED BY <1>1, <1>2, <1>3

\* Refill: the cache is what the file has at p, and empty only behind its end.
LEMMA RefillEffect ==
  ASSUME NEW r \in Reading, NEW p \in Nat, NEW g, g = Refill(r, p)
  PROVE  /\ g \in Reading /\ g.out = r.out /\ g.n = r.n
         /\ g.f.disk = r.f.disk /\ g.f.filepos = r.f.filepos /\ g.f.cachedirty = r.f.cachedirty
         /\ g.f.cachedatapos = p /\ g.f.cache = Slice(r.f.disk, p, CacheSize)
         /\ Len(g.f.cache) <= CacheSize /\ Agrees(g.f)
         /\ g.stop <=> g.f.cache = <<>>
         /\ g.f.cache = <<>> <=> p >= Len(r.f.disk)
<1>1. /\ r.f \in Handle /\ r.out \in Seq(Nat) /\ r.n \in Nat /\ r.stop \in BOOLEAN
      /\ r.f.disk \in Seq(Nat) /\ Len(r.f.disk) \in Nat /\ CacheSize \in Nat \ {0}
  BY ReadingFields
<1> DEFINE s == Slice(r.f.disk, p, CacheSize)
           l == Len(s)
           m == Len(r.f.disk)
<1>2. /\ s \in Seq(Nat) /\ l \in Nat
      /\ l = IF p >= m THEN 0 ELSE IF p + CacheSize < m THEN CacheSize ELSE m - p
      /\ \A i \in 1..l : s[i] = r.f.disk[p + i]
  BY <1>1, SliceBytes
<1>3. g = [r EXCEPT !.f = [r.f EXCEPT !.cachedatapos = p, !.cache = s], !.stop = (s = <<>>)]
  BY DEF Refill, Reading, Handle
<1> HIDE DEF s
<1>4. [r.f EXCEPT !.cachedatapos = p, !.cache = s] \in Handle
  BY <1>1, <1>2 DEF Handle
<1>5. g \in Reading /\ g.out = r.out /\ g.n = r.n
      /\ g.f = [r.f EXCEPT !.cachedatapos = p, !.cache = s] /\ g.stop = (s = <<>>)
  BY <1>3, <1>4 DEF Reading
<1>6. /\ g.f.disk = r.f.disk /\ g.f.filepos = r.f.filepos /\ g.f.cachedirty = r.f.cachedirty
      /\ g.f.cachedatapos = p /\ g.f.cache = s
  BY <1>1, <1>5 DEF Handle
<1>7. s = <<>> <=> l = 0
  BY <1>2, NoBytes
<1> HIDE DEF l, m
<1>8. m \in Nat /\ l <= CacheSize /\ (l = 0 <=> p >= m) /\ \A i \in 1..l : p + i <= m
  <2>1. m \in Nat
    BY <1>1 DEF m
  <2> QED BY <1>1, <1>2, <2>1
<1>9. Agrees(g.f)
  BY <1>2, <1>6, <1>8 DEF Agrees, l, m
<1> QED BY <1>5, <1>6, <1>7, <1>8, <1>9 DEF s, l, m

\* Got: the bytes are handed out.
LEMMA GotEffect ==
  ASSUME NEW r \in Reading, NEW b \in Seq(Nat), Len(b) <= r.n, NEW g, g = Got(r, b)
  PROVE  /\ g \in Reading /\ g.stop = r.stop /\ g.n = r.n - Len(b) /\ g.out = r.out \o b
         /\ g.f.disk = r.f.disk /\ g.f.filepos = r.f.filepos + Len(b)
         /\ g.f.cachedirty = r.f.cachedirty /\ g.f.cache = r.f.cache
         /\ g.f.cachedatapos = r.f.cachedatapos
<1>1. /\ r.f \in Handle /\ r.out \in Seq(Nat) /\ r.n \in Nat /\ r.stop \in BOOLEAN
      /\ r.f.filepos \in Nat
  BY ReadingFields
<1> DEFINE l == Len(b)
           o == r.out \o b
<1>2. l \in Nat /\ r.n - l \in Nat /\ r.f.filepos + l \in Nat
  BY <1>1
<1>3. o \in Seq(Nat)
  BY <1>1, ConcatBytes
<1>4. g = [r EXCEPT !.f = [r.f EXCEPT !.filepos = r.f.filepos + l], !.out = o, !.n = r.n - l]
  BY DEF Got, Reading, Handle
<1> HIDE DEF l, o
<1>5. [r.f EXCEPT !.filepos = r.f.filepos + l] \in Handle
  BY <1>1, <1>2 DEF Handle
<1>6. /\ g \in Reading /\ g.stop = r.stop /\ g.n = r.n - l /\ g.out = o
      /\ g.f = [r.f EXCEPT !.filepos = r.f.filepos + l]
  BY <1>2, <1>3, <1>4, <1>5 DEF Reading
<1>7. /\ g.f.disk = r.f.disk /\ g.f.filepos = r.f.filepos + l
      /\ g.f.cachedirty = r.f.cachedirty /\ g.f.cache = r.f.cache
      /\ g.f.cachedatapos = r.f.cachedatapos
  BY <1>1, <1>6 DEF Handle
<1> QED BY <1>6, <1>7 DEF l, o

\* Bytes of the file at the position may be handed out.
LEMMA GotFetching ==
  ASSUME NEW f \in Handle, NEW n \in Nat, NEW r, Fetching(r, f, n),
         NEW b \in Seq(Nat), Len(b) <= r.n,
         Agrees(f) => \A i \in 1..Len(b) : /\ r.f.filepos + i <= Len(f.disk)
                                           /\ b[i] = f.disk[r.f.filepos + i],
         NEW g, g = Got(r, b)
  PROVE  Fetching(g, f, n)
<1>1. r \in Reading
  BY DEF Fetching
<1>2. /\ g \in Reading /\ g.stop = r.stop /\ g.n = r.n - Len(b) /\ g.out = r.out \o b
      /\ g.f.disk = r.f.disk /\ g.f.filepos = r.f.filepos + Len(b)
      /\ g.f.cachedirty = r.f.cachedirty /\ g.f.cache = r.f.cache
      /\ g.f.cachedatapos = r.f.cachedatapos
  BY <1>1, GotEffect
<1>3. /\ r.out \in Seq(Nat) /\ r.n \in Nat /\ Len(r.out) \in Nat /\ r.f.filepos \in Nat
      /\ Len(b) \in Nat /\ f.filepos \in Nat /\ Len(f.disk) \in Nat
  BY <1>1, ReadingFields, HandleFields
<1> DEFINE o == r.out \o b
           l == Len(r.out)
<1>4. /\ Len(o) = l + Len(b)
      /\ \A i \in 1..l : o[i] = r.out[i]
      /\ \A i \in 1..Len(b) : o[l + i] = b[i]
  BY <1>3, ConcatBytes
<1> HIDE DEF o, l
<1>5. /\ l \in Nat /\ r.f.filepos = f.filepos + l /\ l + r.n = n
  BY <1>3 DEF Fetching, l
<1>6. /\ g.f.filepos = f.filepos + Len(o) /\ Len(o) + g.n = n
      /\ g.stop => g.f.filepos >= Len(f.disk)
  <2>1. r.stop => r.f.filepos >= Len(f.disk)
    BY DEF Fetching
  <2> DEFINE lb == Len(b)
             lo == Len(o)
             ld == Len(f.disk)
  <2>2. /\ lo = l + lb /\ lb \in Nat /\ ld \in Nat
        /\ g.f.filepos = r.f.filepos + lb /\ g.n = r.n - lb
        /\ g.stop => r.f.filepos >= ld
    BY <1>2, <1>3, <1>4, <2>1
  <2> HIDE DEF lb, lo, ld
  <2>3. g.f.filepos = f.filepos + lo /\ lo + g.n = n
    BY <1>3, <1>5, <2>2
  <2>4. g.stop => g.f.filepos >= ld
    BY <1>3, <2>2
  <2> QED BY <2>3, <2>4 DEF lo, ld
<1>7. ASSUME Agrees(f)
      PROVE  Agrees(g.f) /\ \A i \in 1..Len(o) : /\ f.filepos + i <= Len(f.disk)
                                                  /\ o[i] = f.disk[f.filepos + i]
  <2>1. Agrees(g.f)
    <3>1. Agrees(r.f)
      BY <1>7 DEF Fetching
    <3> QED BY <1>2, <3>1 DEF Agrees
  <2>2. ASSUME NEW i \in 1..Len(o)
        PROVE  f.filepos + i <= Len(f.disk) /\ o[i] = f.disk[f.filepos + i]
    <3>1. CASE i \in 1..l
      <4>1. f.filepos + i <= Len(f.disk) /\ r.out[i] = f.disk[f.filepos + i]
        BY <1>7, <3>1 DEF Fetching, l
      <4> QED BY <1>4, <3>1, <4>1
    <3>2. CASE i \notin 1..l
      <4> DEFINE j == i - l
      <4>1. j \in 1..Len(b) /\ l + j = i /\ r.f.filepos + j = f.filepos + i
        BY <1>3, <1>4, <1>5, <3>2
      <4> HIDE DEF j
      <4>2. r.f.filepos + j <= Len(f.disk) /\ b[j] = f.disk[r.f.filepos + j] /\ o[l + j] = b[j]
        BY <1>4, <1>7, <4>1
      <4> QED BY <4>1, <4>2
    <3> QED BY <3>1, <3>2
  <2> QED BY <2>1, <2>2
<1>8. Len(g.f.cache) <= CacheSize /\ g.f.disk = f.disk /\ g.f.cachedirty = f.cachedirty
  BY <1>2 DEF Fetching
<1> QED BY <1>2, <1>6, <1>7, <1>8 DEF Fetching, o

\* A refill at or before the position.
LEMMA RefillFetching ==
  ASSUME NEW f \in Handle, NEW n \in Nat, NEW r, Fetching(r, f, n),
         NEW p \in Nat, p <= r.f.filepos, NEW g, g = Refill(r, p)
  PROVE  Fetching(g, f, n)
<1>1. r \in Reading
  BY DEF Fetching
<1>2. /\ g \in Reading /\ g.out = r.out /\ g.n = r.n
      /\ g.f.disk = r.f.disk /\ g.f.filepos = r.f.filepos /\ g.f.cachedirty = r.f.cachedirty
      /\ Len(g.f.cache) <= CacheSize /\ Agrees(g.f)
      /\ g.stop => p >= Len(r.f.disk)
  BY <1>1, RefillEffect
<1>3. g.stop => g.f.filepos >= Len(f.disk)
  <2>1. r.f.filepos \in Nat /\ Len(r.f.disk) \in Nat /\ r.f.disk = f.disk
    BY <1>1, ReadingFields DEF Fetching
  <2> QED BY <1>2, <2>1
<1> QED BY <1>2, <1>3 DEF Fetching

\* Align refills from the start of the page.
LEMMA AlignFetching ==
  ASSUME NEW f \in Handle, NEW n \in Nat, NEW r, Fetching(r, f, n), NEW g, g = Align(r)
  PROVE  Fetching(g, f, n)
<1>1. r.f.filepos \in Nat /\ Page \in Nat \ {0}
  BY ReadingFields, SectorAssumption DEF Fetching
<1> DEFINE p == r.f.filepos - (r.f.filepos % Page)
<1>2. p \in Nat /\ p <= r.f.filepos
  <2>1. \A i \in Nat : i % Page \in 0..(Page - 1) /\ i % Page <= i
    BY <1>1
  <2>2. r.f.filepos % Page \in Nat /\ r.f.filepos % Page <= r.f.filepos
    BY <1>1, <2>1
  <2> QED BY <1>1, <2>2
<1>3. g = Refill(r, p) \/ g = r
  BY DEF Align
<1> HIDE DEF p
<1>4. CASE g = Refill(r, p)
  BY <1>2, <1>4, RefillFetching
<1> QED BY <1>3, <1>4

\* FromCache hands out bytes of the cache.
LEMMA FromCacheFetching ==
  ASSUME NEW f \in Handle, NEW n \in Nat, NEW r, Fetching(r, f, n), NEW g, g = FromCache(r)
  PROVE  Fetching(g, f, n) /\ g.stop = r.stop
<1>1. r \in Reading
  BY DEF Fetching
<1>2. /\ r.n \in Nat /\ r.f.filepos \in Nat /\ r.f.cachedatapos \in Nat
      /\ r.f.cache \in Seq(Nat) /\ Len(r.f.cache) \in Nat
  BY <1>1, ReadingFields
<1> DEFINE q == r.f.filepos - r.f.cachedatapos
           b == Slice(r.f.cache, q, r.n)
<1>3. CASE r.f.cachedatapos <= r.f.filepos /\ CacheEnd(r.f) > r.f.filepos
  <2>1. g = Got(r, b)
    BY <1>3 DEF FromCache
  <2>2. q \in Nat /\ r.f.cachedatapos + q = r.f.filepos
    BY <1>2, <1>3
  <2> HIDE DEF q
  <2> DEFINE l == Len(b)
             m == Len(r.f.cache)
  <2>3. /\ b \in Seq(Nat) /\ l \in Nat
        /\ l = IF q >= m THEN 0 ELSE IF q + r.n < m THEN r.n ELSE m - q
        /\ \A i \in 1..l : b[i] = r.f.cache[q + i]
    BY <1>2, <2>2, SliceBytes
  <2> HIDE DEF b, l, m
  <2>4. l <= r.n /\ \A i \in 1..l : q + i \in 1..m
    <3>1. m \in Nat
      BY <1>2 DEF m
    <3> QED BY <1>2, <2>2, <2>3, <3>1
  <2>5. ASSUME Agrees(f), NEW i \in 1..l
        PROVE  r.f.filepos + i <= Len(f.disk) /\ b[i] = f.disk[r.f.filepos + i]
    <3>1. r.f.cachedatapos + (q + i) = r.f.filepos + i
      BY <1>2, <2>2, <2>3
    <3>2. Agrees(r.f) /\ r.f.disk = f.disk
      BY <2>5 DEF Fetching
    <3>3. /\ r.f.cachedatapos + (q + i) <= Len(f.disk)
          /\ r.f.cache[q + i] = f.disk[r.f.cachedatapos + (q + i)]
      BY <2>4, <3>2 DEF Agrees, m
    <3> QED BY <2>3, <3>1, <3>3
  <2>6. Fetching(g, f, n)
    BY <2>1, <2>3, <2>4, <2>5, GotFetching DEF l
  <2>7. g.stop = r.stop
    BY <1>1, <2>1, <2>3, <2>4, GotEffect DEF l
  <2> QED BY <2>6, <2>7
<1>4. CASE ~(r.f.cachedatapos <= r.f.filepos /\ CacheEnd(r.f) > r.f.filepos)
  BY <1>4 DEF FromCache
<1> QED BY <1>3, <1>4

\* FromFile hands out bytes of the file; when it is not at its end, less than a
\* cache is wanted afterwards.
LEMMA FromFileFetching ==
  ASSUME NEW f \in Handle, NEW n \in Nat, NEW r, Fetching(r, f, n), NEW g, g = FromFile(r)
  PROVE  /\ Fetching(g, f, n) /\ (~g.stop => g.n < CacheSize)
         /\ r.n < CacheSize => g.n = r.n /\ ~g.stop /\ g.f.filepos = r.f.filepos
<1>1. r \in Reading
  BY DEF Fetching
<1>2. /\ r.n \in Nat /\ r.f.filepos \in Nat /\ r.f.disk \in Seq(Nat) /\ r.f.disk = f.disk
      /\ CacheSize \in Nat \ {0} /\ Len(r.f.disk) \in Nat
  BY <1>1, ReadingFields DEF Fetching
<1> DEFINE k == r.n - (r.n % CacheSize)
           b == Slice(r.f.disk, r.f.filepos, k)
           l == Len(b)
           m == Len(r.f.disk)
           e == Got(r, b)
<1>3. k \in Nat /\ k <= r.n /\ r.n - k < CacheSize /\ (r.n < CacheSize => k = 0)
  <2>3. \A i \in Nat : i % CacheSize \in 0..(CacheSize - 1) /\ i % CacheSize <= i
    <3>1. CacheSize \in Nat \ {0}
      BY <1>2
    <3> QED BY <3>1
  <2>1. \A i \in Nat : i < CacheSize => i % CacheSize = i
    BY <1>2
  <2> DEFINE j == r.n % CacheSize
  <2>2. j \in 0..(CacheSize - 1) /\ j <= r.n /\ (r.n < CacheSize => j = r.n) /\ k = r.n - j
    BY <1>2, <2>1, <2>3
  <2> HIDE DEF j, k
  <2> QED BY <1>2, <2>2
<1>4. g = [e EXCEPT !.stop = (l < k)]
  BY DEF FromFile
<1> HIDE DEF k
<1>5. /\ b \in Seq(Nat) /\ l \in Nat
      /\ l = IF r.f.filepos >= m THEN 0 ELSE IF r.f.filepos + k < m THEN k ELSE m - r.f.filepos
      /\ \A i \in 1..l : b[i] = r.f.disk[r.f.filepos + i]
  BY <1>2, <1>3, SliceBytes
<1> HIDE DEF b, l, m
<1>6. /\ m \in Nat /\ l <= k /\ l <= r.n /\ (l < k => r.f.filepos + l >= m)
      /\ \A i \in 1..l : r.f.filepos + i <= m
  <2>1. m \in Nat
    BY <1>2 DEF m
  <2> DEFINE p == r.f.filepos
             w == r.n
  <2>2. /\ p \in Nat /\ w \in Nat /\ k \in Nat /\ k <= w
        /\ l = IF p >= m THEN 0 ELSE IF p + k < m THEN k ELSE m - p
    BY <1>2, <1>3, <1>5
  <2> HIDE DEF p, w
  <2>3. l <= k /\ l <= w /\ (l < k => p + l >= m)
    BY <2>1, <2>2
  <2>4. \A i \in 1..l : p + i <= m
    BY <2>1, <2>2
  <2> QED BY <2>1, <2>3, <2>4 DEF p, w
<1>7. Fetching(e, f, n)
  BY <1>2, <1>5, <1>6, GotFetching DEF l, m
<1>8. e \in Reading /\ e.n = r.n - l /\ e.f.filepos = r.f.filepos + l
  BY <1>1, <1>5, <1>6, GotEffect DEF l
<1> HIDE DEF e
<1>9. g \in Reading /\ g.f = e.f /\ g.out = e.out /\ g.n = e.n /\ g.stop = (l < k)
  <2>1. (l < k) \in BOOLEAN
    BY <1>3, <1>5
  <2> QED BY <1>4, <1>8, <2>1 DEF Reading
<1>10. g.stop => g.f.filepos >= Len(f.disk)
  BY <1>2, <1>6, <1>8, <1>9 DEF m
<1>11. Fetching(g, f, n)
  BY <1>7, <1>9, <1>10 DEF Fetching
<1>12. ~g.stop => g.n < CacheSize
  <2>1. ~g.stop => ~(l < k)
    BY <1>9
  <2>2. ~(l < k) => r.n - l < CacheSize
    BY <1>2, <1>3, <1>5, <1>6
  <2> QED BY <1>8, <1>9, <2>1, <2>2
<1>13. r.n < CacheSize => g.n = r.n /\ ~g.stop /\ g.f.filepos = r.f.filepos
  <2>1. r.n < CacheSize => l = 0 /\ ~(l < k)
    BY <1>3, <1>5, <1>6
  <2>2. r.n - 0 = r.n /\ r.f.filepos + 0 = r.f.filepos
    BY <1>2
  <2> QED BY <1>8, <1>9, <2>1, <2>2
<1> QED BY <1>11, <1>12, <1>13

\* The cache is what the file has at the position, and less than a cache is wanted.
Primed(r) ==
  /\ r.n \in 1..(CacheSize - 1) /\ ~r.stop /\ r.f.cachedatapos = r.f.filepos
  /\ r.f.cache # <<>> /\ r.f.cache = Slice(r.f.disk, r.f.filepos, CacheSize)

\* A round of the loop; when more are to come, the next is the last.
LEMMA RoundFetching ==
  ASSUME NEW f \in Handle, NEW n \in Nat, NEW r, Fetching(r, f, n), NEW g, g = Round(r)
  PROVE  Fetching(g, f, n) /\ (g.n = 0 \/ g.stop \/ Primed(g))
<1> DEFINE a == Align(r)
           b == FromCache(a)
           c == FromFile(b)
<1>1. Fetching(a, f, n)
  BY AlignFetching
<1>2. g = IF r.n = 0 \/ r.stop THEN r
          ELSE IF a.stop THEN a
          ELSE IF b.n = 0 THEN b
          ELSE IF c.stop \/ c.n = 0 THEN c ELSE Refill(c, c.f.filepos)
  BY DEF Round
<1> HIDE DEF a
<1>3. Fetching(b, f, n)
  BY <1>1, FromCacheFetching
<1> HIDE DEF b
<1>4. Fetching(c, f, n) /\ (~c.stop => c.n < CacheSize)
  BY <1>3, FromFileFetching
<1> HIDE DEF c
<1>5. CASE r.n = 0 \/ r.stop
  BY <1>2, <1>5
<1>6. CASE ~(r.n = 0 \/ r.stop) /\ a.stop
  BY <1>1, <1>2, <1>6
<1>7. CASE ~(r.n = 0 \/ r.stop) /\ ~a.stop /\ b.n = 0
  BY <1>2, <1>3, <1>7
<1>8. CASE ~(r.n = 0 \/ r.stop) /\ ~a.stop /\ b.n # 0 /\ (c.stop \/ c.n = 0)
  BY <1>2, <1>4, <1>8
<1>9. CASE ~(r.n = 0 \/ r.stop) /\ ~a.stop /\ b.n # 0 /\ ~(c.stop \/ c.n = 0)
  <2>1. g = Refill(c, c.f.filepos)
    BY <1>2, <1>9
  <2>2. c \in Reading
    BY <1>4 DEF Fetching
  <2>3. c.f.filepos \in Nat /\ c.f.filepos <= c.f.filepos /\ c.n \in Nat /\ CacheSize \in Nat
    BY <2>2, ReadingFields
  <2>4. Fetching(g, f, n)
    BY <1>4, <2>1, <2>3, RefillFetching
  <2>5. /\ g.n = c.n /\ g.f.disk = c.f.disk /\ g.f.filepos = c.f.filepos
        /\ g.f.cachedatapos = c.f.filepos /\ g.f.cache = Slice(c.f.disk, c.f.filepos, CacheSize)
        /\ g.stop <=> g.f.cache = <<>>
    BY <2>1, <2>2, <2>3, RefillEffect
  <2>6. g.n \in 1..(CacheSize - 1)
    BY <1>4, <1>9, <2>3, <2>5
  <2>7. g.stop \/ Primed(g)
    BY <2>5, <2>6 DEF Primed
  <2> QED BY <2>4, <2>7
<1> QED BY <1>5, <1>6, <1>7, <1>8, <1>9

\* A round with such a cache is the last: it has all that is wanted, or the
\* cache ended with the file and the refill behind it finds nothing.
LEMMA PrimedEnds ==
  ASSUME NEW f \in Handle, NEW n \in Nat, NEW r, Fetching(r, f, n), Primed(r),
         NEW g, g = Round(r)
  PROVE  g.n = 0 \/ g.stop
<1>1. r \in Reading
  BY DEF Fetching
<1>2. /\ r.f.disk \in Seq(Nat) /\ r.f.filepos \in Nat /\ r.f.cache \in Seq(Nat)
      /\ Len(r.f.cache) \in Nat /\ Len(r.f.disk) \in Nat /\ r.n \in Nat
      /\ CacheSize \in Nat \ {0}
  BY <1>1, ReadingFields
<1> DEFINE m == Len(r.f.cache)
           e == Len(r.f.disk)
           p == r.f.filepos
           w == r.n
           b == FromCache(r)
           c == FromFile(b)
<1>3. /\ r.f.cachedatapos = p /\ w \in 1..(CacheSize - 1) /\ ~r.stop /\ r.f.cache # <<>>
      /\ r.f.cache = Slice(r.f.disk, p, CacheSize)
  BY DEF Primed
<1>4. /\ m # 0 /\ m \in Nat /\ e \in Nat /\ p \in Nat /\ w \in Nat
      /\ m = IF p >= e THEN 0 ELSE IF p + CacheSize < e THEN CacheSize ELSE e - p
  <2>1. m # 0 /\ m \in Nat /\ e \in Nat /\ p \in Nat /\ w \in Nat
    BY <1>2, <1>3, NoBytes
  <2> DEFINE t == r.f.disk
  <2>2. t \in Seq(Nat) /\ CacheSize \in Nat
    BY <1>2
  <2> HIDE DEF t, p
  <2>3. Len(Slice(t, p, CacheSize))
          = IF p >= Len(t) THEN 0 ELSE IF p + CacheSize < Len(t) THEN CacheSize ELSE Len(t) - p
    BY <2>1, <2>2, SliceBytes
  <2> QED BY <1>3, <2>1, <2>3 DEF t
<1>5. Align(r) = r
  <2>1. ~(r.f.cachedatapos > r.f.filepos) /\ ~(CacheEnd(r.f) < r.f.filepos)
    BY <1>2, <1>3 DEF CacheEnd
  <2> QED BY <2>1 DEF Align
<1>6. g = IF b.n = 0 THEN b ELSE IF c.stop \/ c.n = 0 THEN c ELSE Refill(c, c.f.filepos)
  <2>1. r.n # 0
    BY <1>3
  <2> QED BY <1>3, <1>5, <2>1 DEF Round
<1> DEFINE s == Slice(r.f.cache, 0, w)
<1>7. b = Got(r, s)
  <2>1. r.f.cachedatapos <= p /\ CacheEnd(r.f) > p /\ p - r.f.cachedatapos = 0
    BY <1>3, <1>4 DEF CacheEnd
  <2> QED BY <2>1 DEF FromCache
<1>8. s \in Seq(Nat) /\ Len(s) = IF w < m THEN w ELSE m
  <2>1. /\ s \in Seq(Nat)
        /\ Len(s) = IF 0 >= m THEN 0 ELSE IF 0 + w < m THEN w ELSE m - 0
    BY <1>2, SliceBytes
  <2> HIDE DEF s, m
  <2> QED BY <1>4, <2>1
<1>9. Fetching(b, f, n)
  BY FromCacheFetching
<1> HIDE DEF s
<1>10. b.n = w - Len(s) /\ b.f.filepos = p + Len(s) /\ b.f.disk = r.f.disk
  <2>1. Len(s) <= r.n
    BY <1>4, <1>8
  <2> QED BY <1>1, <1>7, <1>8, <2>1, GotEffect
<1>11. CASE b.n = 0
  BY <1>6, <1>11
<1>12. CASE b.n # 0
  <2> HIDE DEF b, m, e, p, w
  <2>1. b.n < CacheSize /\ b.f.filepos >= e
    BY <1>2, <1>3, <1>4, <1>8, <1>10, <1>12
  <2>2. /\ Fetching(c, f, n) /\ c.n = b.n /\ ~c.stop /\ c.f.filepos = b.f.filepos
    BY <1>9, <2>1, FromFileFetching
  <2> HIDE DEF c
  <2>3. g = Refill(c, c.f.filepos)
    BY <1>6, <1>12, <2>2
  <2>4. c \in Reading /\ c.f.disk = r.f.disk
    BY <2>2 DEF Fetching
  <2>5. c.f.filepos \in Nat /\ c.f.filepos >= Len(c.f.disk)
    BY <2>1, <2>2, <2>4, ReadingFields DEF e
  <2>6. g.stop
    BY <2>3, <2>4, <2>5, RefillEffect
  <2> QED BY <2>6
<1> QED BY <1>11, <1>12

\* A read begins.
LEMMA FetchingBegins ==
  ASSUME NEW f \in Handle, Len(f.cache) <= CacheSize, NEW n \in Nat
  PROVE  Fetching([f |-> f, out |-> <<>>, n |-> n, stop |-> FALSE], f, n)
<1> DEFINE q == [f |-> f, out |-> <<>>, n |-> n, stop |-> FALSE]
<1>1. <<>> \in Seq(Nat) /\ Len(<<>>) = 0 /\ FALSE \in BOOLEAN /\ f.filepos \in Nat
  BY HandleFields
<1>2. q \in Reading /\ q.f = f /\ q.out = <<>> /\ q.n = n /\ q.stop = FALSE
  BY <1>1 DEF Reading
<1> HIDE DEF q
<1>3. f.filepos = f.filepos + Len(q.out) /\ Len(q.out) + q.n = n /\ Len(q.out) = 0
  BY <1>1, <1>2
<1>4. Fetching(q, f, n)
  BY <1>2, <1>3 DEF Fetching
<1> QED BY <1>4 DEF q

\* A read ends, leaves the file as it is, and returns what is there.
LEMMA FetchedEffect ==
  ASSUME NEW f \in Handle, Len(f.cache) <= CacheSize, NEW n \in Nat, NEW r, r = Fetched(f, n)
  PROVE  /\ r.n = 0 \/ r.stop
         /\ r.f \in Handle /\ Len(r.f.cache) <= CacheSize /\ r.out \in Seq(Nat)
         /\ Len(r.out) <= n
         /\ r.f.disk = f.disk /\ r.f.cachedirty = f.cachedirty
         /\ r.f.filepos = f.filepos + Len(r.out)
         /\ Agrees(f) => Agrees(r.f) /\ r.out = Slice(f.disk, f.filepos, n)
<1> DEFINE q == [f |-> f, out |-> <<>>, n |-> n, stop |-> FALSE]
           a == Round(q)
<1>1. f.filepos \in Nat /\ f.disk \in Seq(Nat) /\ Len(f.disk) \in Nat
  BY HandleFields
<1>2. Fetching(q, f, n)
  BY FetchingBegins
<1>3. r = Round(a)
  BY DEF Fetched
<1> HIDE DEF q
<1>4. Fetching(a, f, n) /\ (a.n = 0 \/ a.stop \/ Primed(a))
  BY <1>2, RoundFetching
<1> HIDE DEF a
<1>5. Fetching(r, f, n)
  BY <1>3, <1>4, RoundFetching
<1>6. r.n = 0 \/ r.stop
  <2>1. CASE a.n = 0 \/ a.stop
    <3>1. r = a
      BY <1>3, <2>1 DEF Round
    <3> QED BY <2>1, <3>1
  <2>2. CASE Primed(a)
    BY <1>3, <1>4, <2>2, PrimedEnds
  <2> QED BY <1>4, <2>1, <2>2
<1>7. r \in Reading
  BY <1>5 DEF Fetching
<1>8. /\ r.f \in Handle /\ r.out \in Seq(Nat) /\ Len(r.out) \in Nat /\ r.n \in Nat
      /\ r.f.filepos \in Nat
  BY <1>7, ReadingFields
<1>9. ASSUME Agrees(f) PROVE Agrees(r.f) /\ r.out = Slice(f.disk, f.filepos, n)
  <2> DEFINE s == Slice(f.disk, f.filepos, n)
             ls == Len(s)
             lo == Len(r.out)
             e == Len(f.disk)
             p == f.filepos
  <2>1. /\ s \in Seq(Nat) /\ ls \in Nat
        /\ ls = IF p >= e THEN 0 ELSE IF p + n < e THEN n ELSE e - p
        /\ \A i \in 1..ls : s[i] = f.disk[p + i]
    <3> DEFINE t == f.disk
    <3>1. t \in Seq(Nat) /\ p \in Nat
      BY <1>1
    <3> HIDE DEF t, p
    <3>2. /\ Slice(t, p, n) \in Seq(Nat) /\ Len(Slice(t, p, n)) \in Nat
          /\ Len(Slice(t, p, n))
               = IF p >= Len(t) THEN 0 ELSE IF p + n < Len(t) THEN n ELSE Len(t) - p
          /\ \A i \in 1..Len(Slice(t, p, n)) : Slice(t, p, n)[i] = t[p + i]
      BY <3>1, SliceBytes
    <3> QED BY <3>2 DEF t, p
  <2>2. /\ Agrees(r.f) /\ lo + r.n = n /\ r.f.filepos = p + lo
        /\ \A i \in 1..lo : p + i <= e /\ r.out[i] = f.disk[p + i]
        /\ r.stop => r.f.filepos >= e
    BY <1>5, <1>9 DEF Fetching
  <2>3. lo \in Nat /\ e \in Nat /\ p \in Nat
    BY <1>1, <1>8
  <2> HIDE DEF s, ls, lo, e, p
  <2>4. lo # 0 => p + lo <= e
    BY <2>2, <2>3
  <2>5. lo = ls
    <3>1. r.n = 0 \/ p + lo >= e
      BY <1>6, <2>2
    <3> QED BY <1>8, <2>1, <2>2, <2>3, <2>4, <3>1
  <2>6. r.out = s
    <3>1. \A i \in 1..Len(r.out) : r.out[i] = s[i]
      BY <2>1, <2>2, <2>5 DEF lo
    <3> QED BY <1>8, <2>1, <2>5, <3>1, SameBytes DEF lo, ls
  <2> QED BY <2>2, <2>6 DEF s, p
<1>10. /\ Len(r.f.cache) <= CacheSize /\ r.f.disk = f.disk /\ r.f.cachedirty = f.cachedirty
       /\ r.f.filepos = f.filepos + Len(r.out)
  BY <1>5 DEF Fetching
<1>11. Len(r.out) <= n
  <2>1. Len(r.out) + r.n = n
    BY <1>5 DEF Fetching
  <2> QED BY <1>8, <2>1
<1> QED BY <1>6, <1>8, <1>9, <1>10, <1>11

-----------------------------------------------------------------------------
(***************************************************************************)
(* A read at a position that the cache does not have, whatever is in it:   *)
(* CheckValue reads a file before its placeholder.                         *)
(***************************************************************************)

\* Two handles with the same fields are the same, and so are two reads.
LEMMA SameHandle ==
  ASSUME NEW f \in Handle, NEW g \in Handle, f.disk = g.disk, f.filepos = g.filepos,
         f.cachedatapos = g.cachedatapos, f.cache = g.cache, f.cachedirty = g.cachedirty
  PROVE  f = g
<1>1. \A x \in Handle : x = [disk |-> x.disk, filepos |-> x.filepos,
                            cachedatapos |-> x.cachedatapos, cache |-> x.cache,
                            cachedirty |-> x.cachedirty]
  BY DEF Handle
<1> QED BY <1>1

\* A reading is what its four fields are.
LEMMA SameReading ==
  ASSUME NEW r \in Reading, NEW q \in Reading, r.f = q.f, r.out = q.out, r.n = q.n,
         r.stop = q.stop
  PROVE  r = q
BY DEF Reading

\* The handle with an empty cache where the cache begins or ends.
Apart(f) ==
  [f EXCEPT !.cache = <<>>,
            !.cachedatapos = IF f.filepos < f.cachedatapos THEN f.cachedatapos ELSE CacheEnd(f)]

\* What is left of a handle when its cache is thrown away.
LEMMA ApartFields ==
  ASSUME NEW f \in Handle, NEW e, e = Apart(f)
  PROVE  /\ e \in Handle /\ e.cache = <<>> /\ e.disk = f.disk /\ e.filepos = f.filepos
         /\ e.cachedirty = f.cachedirty /\ Len(e.cache) = 0 /\ Agrees(e)
         /\ e.cachedatapos = IF f.filepos < f.cachedatapos THEN f.cachedatapos ELSE CacheEnd(f)
         /\ CacheEnd(e) = e.cachedatapos
<1>1. /\ f.disk \in Seq(Nat) /\ f.filepos \in Nat /\ f.cachedatapos \in Nat
      /\ f.cache \in Seq(Nat) /\ f.cachedirty \in BOOLEAN /\ Len(f.cache) \in Nat
  BY HandleFields
<1> DEFINE p == IF f.filepos < f.cachedatapos THEN f.cachedatapos ELSE CacheEnd(f)
<1>2. p \in Nat
  BY <1>1 DEF CacheEnd
<1>3. e = [f EXCEPT !.cache = <<>>, !.cachedatapos = p]
  BY DEF Apart
<1> HIDE DEF p
<1>4. /\ e \in Handle /\ e.cache = <<>> /\ e.disk = f.disk /\ e.filepos = f.filepos
      /\ e.cachedirty = f.cachedirty /\ e.cachedatapos = p
  <2>1. <<>> \in Seq(Nat)
    OBVIOUS
  <2> QED BY <1>2, <1>3, <2>1 DEF Handle
<1>5. Len(e.cache) = 0 /\ CacheEnd(e) = e.cachedatapos
  <2>1. Len(e.cache) = 0
    BY <1>4
  <2>2. p + 0 = p
    BY <1>2
  <2> QED BY <1>4, <2>1, <2>2 DEF CacheEnd
<1>6. Agrees(e)
  BY <1>5 DEF Agrees
<1> QED BY <1>4, <1>5, <1>6 DEF p

\* Two reads that differ in their cache.
Twins(r, q) ==
  /\ r \in Reading /\ q \in Reading /\ r.out = q.out /\ r.n = q.n /\ r.stop = q.stop
  /\ r.f.disk = q.f.disk /\ r.f.filepos = q.f.filepos /\ r.f.cachedirty = q.f.cachedirty

\* A refill makes them the same.
LEMMA RefillTwins ==
  ASSUME NEW r, NEW q, Twins(r, q), NEW p \in Nat
  PROVE  Refill(r, p) = Refill(q, p)
<1> DEFINE a == Refill(r, p)
           b == Refill(q, p)
<1>1. r \in Reading /\ q \in Reading
  BY DEF Twins
<1>2. /\ a \in Reading /\ a.out = r.out /\ a.n = r.n
      /\ a.f.disk = r.f.disk /\ a.f.filepos = r.f.filepos /\ a.f.cachedirty = r.f.cachedirty
      /\ a.f.cachedatapos = p /\ a.f.cache = Slice(r.f.disk, p, CacheSize)
      /\ a.stop <=> a.f.cache = <<>>
  BY <1>1, RefillEffect
<1>3. /\ b \in Reading /\ b.out = q.out /\ b.n = q.n
      /\ b.f.disk = q.f.disk /\ b.f.filepos = q.f.filepos /\ b.f.cachedirty = q.f.cachedirty
      /\ b.f.cachedatapos = p /\ b.f.cache = Slice(q.f.disk, p, CacheSize)
      /\ b.stop <=> b.f.cache = <<>>
  BY <1>1, RefillEffect
<1> HIDE DEF a, b
<1>4. a.f \in Handle /\ b.f \in Handle /\ a.stop \in BOOLEAN /\ b.stop \in BOOLEAN
  BY <1>2, <1>3, ReadingFields
<1>5. a.f = b.f
  BY <1>2, <1>3, <1>4, SameHandle DEF Twins
<1>6. a = b
  BY <1>2, <1>3, <1>4, <1>5, SameReading DEF Twins
<1> QED BY <1>6 DEF a, b

\* What comes from the file is the same for both, and leaves the caches alone.
LEMMA FromFileTwins ==
  ASSUME NEW r, NEW q, Twins(r, q)
  PROVE  /\ Twins(FromFile(r), FromFile(q))
         /\ FromFile(r).f.cache = r.f.cache /\ FromFile(r).f.cachedatapos = r.f.cachedatapos
         /\ FromFile(q).f.cache = q.f.cache /\ FromFile(q).f.cachedatapos = q.f.cachedatapos
<1> DEFINE k == r.n - (r.n % CacheSize)
           b == Slice(r.f.disk, r.f.filepos, k)
           c == FromFile(r)
           d == FromFile(q)
<1>1. /\ r \in Reading /\ q \in Reading /\ r.out = q.out /\ r.n = q.n /\ r.stop = q.stop
      /\ r.f.disk = q.f.disk /\ r.f.filepos = q.f.filepos /\ r.f.cachedirty = q.f.cachedirty
  BY DEF Twins
<1>2. /\ r.n \in Nat /\ r.f.filepos \in Nat /\ r.f.disk \in Seq(Nat) /\ CacheSize \in Nat \ {0}
      /\ Len(r.f.disk) \in Nat
  BY <1>1, ReadingFields
<1>3. k \in Nat /\ k <= r.n
  <2>1. \A i \in Nat : i - (i % CacheSize) \in Nat /\ i - (i % CacheSize) <= i
    <3>1. CacheSize \in Nat \ {0}
      BY <1>2
    <3> QED BY <3>1
  <2> QED BY <1>2, <2>1
<1>4. c = [Got(r, b) EXCEPT !.stop = Len(b) < k] /\ d = [Got(q, b) EXCEPT !.stop = Len(b) < k]
  BY <1>1 DEF FromFile
<1> HIDE DEF k, c, d
<1>5. b \in Seq(Nat) /\ Len(b) \in Nat /\ Len(b) <= r.n
  <2> DEFINE l == Len(b)
             m == Len(r.f.disk)
             p == r.f.filepos
  <2>1. /\ b \in Seq(Nat) /\ l \in Nat
        /\ l = IF p >= m THEN 0 ELSE IF p + k < m THEN k ELSE m - p
    BY <1>2, <1>3, SliceBytes
  <2>2. m \in Nat /\ p \in Nat
    BY <1>2
  <2> HIDE DEF b, l, m, p
  <2>3. l <= k
    BY <1>3, <2>1, <2>2
  <2> QED BY <1>2, <1>3, <2>1, <2>3 DEF l
<1> HIDE DEF b
<1>6. /\ Got(r, b) \in Reading /\ Got(r, b).n = r.n - Len(b) /\ Got(r, b).out = r.out \o b
      /\ Got(r, b).f.disk = r.f.disk /\ Got(r, b).f.filepos = r.f.filepos + Len(b)
      /\ Got(r, b).f.cachedirty = r.f.cachedirty /\ Got(r, b).f.cache = r.f.cache
      /\ Got(r, b).f.cachedatapos = r.f.cachedatapos
  <2>1. r \in Reading
    BY <1>1
  <2> QED BY <1>5, <2>1, GotEffect
<1>7. /\ Got(q, b) \in Reading /\ Got(q, b).n = q.n - Len(b) /\ Got(q, b).out = q.out \o b
      /\ Got(q, b).f.disk = q.f.disk /\ Got(q, b).f.filepos = q.f.filepos + Len(b)
      /\ Got(q, b).f.cachedirty = q.f.cachedirty /\ Got(q, b).f.cache = q.f.cache
      /\ Got(q, b).f.cachedatapos = q.f.cachedatapos
  <2>1. q \in Reading /\ Len(b) <= q.n
    BY <1>1, <1>5
  <2> QED BY <1>5, <2>1, GotEffect
<1>8. (Len(b) < k) \in BOOLEAN
  BY <1>3, <1>5
<1>9. /\ c \in Reading /\ c.f = Got(r, b).f /\ c.out = Got(r, b).out /\ c.n = Got(r, b).n
      /\ c.stop = (Len(b) < k)
  BY <1>4, <1>6, <1>8 DEF Reading
<1>10. /\ d \in Reading /\ d.f = Got(q, b).f /\ d.out = Got(q, b).out /\ d.n = Got(q, b).n
       /\ d.stop = (Len(b) < k)
  BY <1>4, <1>7, <1>8 DEF Reading
<1>11. Twins(c, d)
  BY <1>1, <1>6, <1>7, <1>9, <1>10 DEF Twins
<1> QED BY <1>6, <1>7, <1>9, <1>10, <1>11 DEF c, d

\* The start of the page of a position.
LEMMA PageStart ==
  ASSUME NEW p \in Nat
  PROVE  /\ p - (p % Page) \in Nat /\ p - (p % Page) <= p /\ p < p - (p % Page) + Page
         /\ (p - (p % Page)) % Sector = 0
<1>1. Page \in Nat \ {0} /\ Sector \in Nat \ {0} /\ Page % Sector = 0
  BY SectorAssumption
<1> DEFINE a == p \div Page
           c == p % Page
           k == Page \div Sector
<1>2. a \in Nat /\ c \in 0..(Page - 1) /\ p = a * Page + c
  BY <1>1
<1>3. k \in Nat /\ Page = k * Sector
  BY <1>1
<1> HIDE DEF a, c, k
<1>4. p - c = a * Page /\ a * Page \in Nat /\ a * Page <= p /\ p < a * Page + Page
  BY <1>1, <1>2
<1>5. \A x, y, z \in Int : x * (y * z) = (x * y) * z
  OBVIOUS
<1>8. a * (k * Sector) = (a * k) * Sector
  BY <1>1, <1>2, <1>3, <1>5
<1>9. a * k \in Nat
  BY <1>2, <1>3
<1>6. \A i \in Nat : (i * Sector) % Sector = 0
  BY <1>1
<1>7. (a * Page) % Sector = 0
  BY <1>3, <1>6, <1>8, <1>9
<1> QED BY <1>4, <1>7 DEF c

\* No bytes of a file.
LEMMA NothingOf ==
  ASSUME NEW s \in Seq(Nat), NEW p \in Nat, NEW b, b = Slice(s, p, 0)
  PROVE  b \in Seq(Nat) /\ Len(b) = 0
<1>1. 0 \in Nat /\ Len(s) \in Nat
  OBVIOUS
<1>2. /\ Slice(s, p, 0) \in Seq(Nat)
      /\ Len(Slice(s, p, 0)) = IF p >= Len(s) THEN 0 ELSE IF p + 0 < Len(s) THEN 0 ELSE Len(s) - p
  BY <1>1, SliceBytes, Zenon
<1>3. \A x \in Nat : (IF p >= x THEN 0 ELSE IF p + 0 < x THEN 0 ELSE x - p) = 0
  OBVIOUS
<1> QED BY <1>1, <1>2, <1>3

\* Less than a cache does not come straight from the file.
LEMMA FromFileShort ==
  ASSUME NEW r \in Reading, r.n < CacheSize, NEW g, g = FromFile(r)
  PROVE  /\ g \in Reading /\ ~g.stop /\ g.n = r.n
         /\ g.f.disk = r.f.disk /\ g.f.filepos = r.f.filepos /\ g.f.cache = r.f.cache
         /\ g.f.cachedatapos = r.f.cachedatapos
<1>1. /\ r.n \in Nat /\ r.f.filepos \in Nat /\ r.f.disk \in Seq(Nat) /\ CacheSize \in Nat \ {0}
  BY ReadingFields
<1> DEFINE k == r.n - (r.n % CacheSize)
           b == Slice(r.f.disk, r.f.filepos, k)
<1>2. k = 0
  <2>1. \A i \in Nat : i < CacheSize => i % CacheSize = i
    <3>1. CacheSize \in Nat \ {0}
      BY <1>1
    <3> QED BY <3>1
  <2>2. r.n % CacheSize = r.n
    BY <1>1, <2>1
  <2> QED BY <1>1, <2>2
<1>3. b \in Seq(Nat) /\ Len(b) = 0
  <2>1. b = Slice(r.f.disk, r.f.filepos, 0)
    BY <1>2
  <2> HIDE DEF b
  <2> QED BY <1>1, <2>1, NothingOf
<1>4. g = [Got(r, b) EXCEPT !.stop = Len(b) < k]
  BY DEF FromFile
<1> HIDE DEF k, b
<1>5. /\ Len(b) <= r.n /\ (Len(b) < k) = FALSE /\ r.n - Len(b) = r.n
      /\ r.f.filepos + Len(b) = r.f.filepos
  BY <1>1, <1>2, <1>3
<1> DEFINE t == Got(r, b)
<1>6. /\ t \in Reading /\ t.n = r.n /\ t.f.disk = r.f.disk /\ t.f.filepos = r.f.filepos
      /\ t.f.cache = r.f.cache /\ t.f.cachedatapos = r.f.cachedatapos
  BY <1>3, <1>5, GotEffect
<1>7. g = [t EXCEPT !.stop = FALSE]
  BY <1>4, <1>5
<1> HIDE DEF t
<1>8. g \in Reading /\ ~g.stop /\ g.n = t.n /\ g.f = t.f
  BY <1>6, <1>7 DEF Reading
<1> QED BY <1>6, <1>8

\* A round at a position that the cache does not have is, but for a cache it leaves
\* alone, that of the handle with an empty cache; and then it is the last.
LEMMA RoundApart ==
  ASSUME NEW r, NEW q, Twins(r, q), ~r.stop, r.n # 0, q.f = Apart(r.f),
         r.f.filepos < r.f.cachedatapos \/ CacheEnd(r.f) <= r.f.filepos
  PROVE  \/ Round(r) = Round(q)
         \/ /\ Twins(Round(r), Round(q)) /\ (Round(r).stop \/ Round(r).n = 0)
            /\ Round(r).f.cache = r.f.cache /\ Round(r).f.cachedatapos = r.f.cachedatapos
            /\ Round(q).f.cache = q.f.cache /\ Round(q).f.cachedatapos = q.f.cachedatapos
            /\ r.n >= CacheSize
<1>1. /\ r \in Reading /\ q \in Reading /\ r.out = q.out /\ r.n = q.n /\ r.stop = q.stop
      /\ r.f.disk = q.f.disk /\ r.f.filepos = q.f.filepos /\ r.f.cachedirty = q.f.cachedirty
  BY DEF Twins
<1>2. /\ r.n \in Nat /\ r.f.filepos \in Nat /\ r.f.cachedatapos \in Nat /\ Len(r.f.cache) \in Nat
      /\ r.f \in Handle /\ CacheSize \in Nat \ {0} /\ Page \in Nat \ {0}
  BY <1>1, ReadingFields, SectorAssumption
<1> DEFINE pg == r.f.filepos - (r.f.filepos % Page)
           outside == r.f.cachedatapos > r.f.filepos \/ CacheEnd(r.f) < r.f.filepos
<1>3. /\ q.f.cachedatapos = IF r.f.filepos < r.f.cachedatapos THEN r.f.cachedatapos
                            ELSE CacheEnd(r.f)
      /\ CacheEnd(q.f) = q.f.cachedatapos
  BY <1>2, ApartFields
<1>4. outside <=> (q.f.cachedatapos > q.f.filepos \/ CacheEnd(q.f) < q.f.filepos)
  <2>1. \A p, d, l \in Nat : p < d \/ d + l <= p =>
          LET x == IF p < d THEN d ELSE d + l
          IN (d > p \/ d + l < p) <=> (x > p \/ x < p)
    OBVIOUS
  <2>2. /\ q.f.filepos = r.f.filepos
        /\ q.f.cachedatapos = IF r.f.filepos < r.f.cachedatapos THEN r.f.cachedatapos
                              ELSE r.f.cachedatapos + Len(r.f.cache)
        /\ CacheEnd(q.f) = q.f.cachedatapos
    BY <1>1, <1>3 DEF CacheEnd
  <2> QED BY <1>2, <2>1, <2>2 DEF CacheEnd
<1>5. CASE r.f.filepos % Sector # 0 /\ outside
  <2>1. Align(r) = Refill(r, pg) /\ Align(q) = Refill(q, pg)
    BY <1>1, <1>4, <1>5 DEF Align
  <2>2. pg \in Nat
    BY <1>2, PageStart
  <2> HIDE DEF pg
  <2>3. Align(r) = Align(q)
    BY <2>1, <2>2, RefillTwins
  <2> QED BY <1>1, <2>3 DEF Round
<1>6. CASE ~(r.f.filepos % Sector # 0 /\ outside)
  <2> DEFINE c == FromFile(r)
             d == FromFile(q)
  <2>1. Align(r) = r /\ Align(q) = q
    BY <1>1, <1>4, <1>6 DEF Align
  <2>2. FromCache(r) = r /\ FromCache(q) = q
    <3>1. ~(r.f.cachedatapos <= r.f.filepos /\ CacheEnd(r.f) > r.f.filepos)
      BY <1>2 DEF CacheEnd
    <3>2. ~(q.f.cachedatapos <= q.f.filepos /\ CacheEnd(q.f) > q.f.filepos)
      <4>1. q.f.cachedatapos \in Nat /\ q.f.filepos \in Nat
        BY <1>1, ReadingFields
      <4>2. CacheEnd(q.f) = q.f.cachedatapos
        BY <1>3
      <4> QED BY <4>1, <4>2
    <3> QED BY <3>1, <3>2 DEF FromCache
  <2>3. /\ Twins(c, d)
        /\ c.f.cache = r.f.cache /\ c.f.cachedatapos = r.f.cachedatapos
        /\ d.f.cache = q.f.cache /\ d.f.cachedatapos = q.f.cachedatapos
    BY FromFileTwins
  <2>4. Round(r) = IF c.stop \/ c.n = 0 THEN c ELSE Refill(c, c.f.filepos)
    BY <2>1, <2>2 DEF Round
  <2>5. Round(q) = IF d.stop \/ d.n = 0 THEN d ELSE Refill(d, d.f.filepos)
    BY <1>1, <2>1, <2>2 DEF Round
  <2>6. r.n < CacheSize => ~c.stop /\ c.n = r.n
    BY <1>1, FromFileShort
  <2> HIDE DEF c, d
  <2>7. c.f.filepos \in Nat /\ c.f.filepos = d.f.filepos /\ c.stop = d.stop /\ c.n = d.n
    BY <2>3, ReadingFields DEF Twins
  <2>8. CASE c.stop \/ c.n = 0
    <3>1. Round(r) = c /\ Round(q) = d
      BY <2>4, <2>5, <2>7, <2>8
    <3>2. r.n >= CacheSize
      BY <1>2, <2>6, <2>8
    <3> QED BY <2>3, <2>8, <3>1, <3>2
  <2>9. CASE ~(c.stop \/ c.n = 0)
    <3>1. Refill(c, c.f.filepos) = Refill(d, c.f.filepos)
      BY <2>3, <2>7, RefillTwins
    <3> QED BY <2>4, <2>5, <2>7, <2>9, <3>1
  <2> QED BY <2>8, <2>9
<1> QED BY <1>5, <1>6

\* A read at a position that the cache does not have returns what the file has there;
\* the cache is what the file has, or it is left alone.
LEMMA FetchedApart ==
  ASSUME NEW f \in Handle, Len(f.cache) <= CacheSize, NEW n \in Nat, NEW r, r = Fetched(f, n),
         n # 0, f.filepos < f.cachedatapos \/ CacheEnd(f) <= f.filepos,
         NEW s, s = Fetched(Apart(f), n)
  PROVE  /\ r.out = Slice(f.disk, f.filepos, n) /\ r.n = s.n
         /\ \/ r = s /\ Agrees(r.f)
            \/ /\ r.f.cache = f.cache /\ r.f.cachedatapos = f.cachedatapos
               /\ s.f.cache = <<>> /\ s.f.cachedatapos = Apart(f).cachedatapos
               /\ r.f.filepos = s.f.filepos /\ n >= CacheSize
<1> DEFINE e == Apart(f)
           q == [f |-> f, out |-> <<>>, n |-> n, stop |-> FALSE]
           t == [f |-> e, out |-> <<>>, n |-> n, stop |-> FALSE]
<1>1. /\ e \in Handle /\ e.cache = <<>> /\ e.disk = f.disk /\ e.filepos = f.filepos
      /\ e.cachedirty = f.cachedirty /\ Len(e.cache) = 0 /\ Agrees(e)
  BY ApartFields
<1>2. Len(e.cache) <= CacheSize
  BY <1>1, CacheSizeAssumption
<1>3. /\ s.out = Slice(f.disk, f.filepos, n) /\ Agrees(s.f)
  BY <1>1, <1>2, FetchedEffect
<1>4. r = Round(Round(q)) /\ s = Round(Round(t))
  BY DEF Fetched
<1>5. /\ Twins(q, t) /\ ~q.stop /\ q.n # 0 /\ t.f = Apart(q.f) /\ q.f = f /\ t.f = e /\ q.n = n
  <2> HIDE DEF e
  <2>1. Fetching(q, f, n) /\ Fetching(t, e, n)
    BY <1>1, <1>2, FetchingBegins
  <2> QED BY <1>1, <2>1 DEF Twins, Fetching, e
<1> HIDE DEF q, t, e
<1>6. \/ Round(q) = Round(t)
      \/ /\ Twins(Round(q), Round(t)) /\ (Round(q).stop \/ Round(q).n = 0)
         /\ Round(q).f.cache = q.f.cache /\ Round(q).f.cachedatapos = q.f.cachedatapos
         /\ Round(t).f.cache = t.f.cache /\ Round(t).f.cachedatapos = t.f.cachedatapos
         /\ q.n >= CacheSize
  BY <1>5, RoundApart
<1>7. CASE Round(q) = Round(t)
  BY <1>3, <1>4, <1>7
<1>8. CASE /\ Twins(Round(q), Round(t)) /\ (Round(q).stop \/ Round(q).n = 0)
           /\ Round(q).f.cache = q.f.cache /\ Round(q).f.cachedatapos = q.f.cachedatapos
           /\ Round(t).f.cache = t.f.cache /\ Round(t).f.cachedatapos = t.f.cachedatapos
           /\ q.n >= CacheSize
  <2>1. Round(t).stop \/ Round(t).n = 0
    BY <1>8 DEF Twins
  <2>2. r = Round(q) /\ s = Round(t)
    <3>1. \A x : x.stop \/ x.n = 0 => Round(x) = x
      BY DEF Round
    <3> QED BY <1>4, <1>8, <2>1, <3>1
  <2>3. /\ r.out = s.out /\ r.n = s.n /\ r.f.filepos = s.f.filepos
        /\ r.f.cache = f.cache /\ r.f.cachedatapos = f.cachedatapos
        /\ s.f.cache = e.cache /\ s.f.cachedatapos = e.cachedatapos /\ n >= CacheSize
    BY <1>5, <1>8, <2>2 DEF Twins
  <2> QED BY <1>1, <1>3, <2>3 DEF e
<1> QED BY <1>6, <1>7, <1>8

\* A round that wants less than a cache leaves the position in the cache or at its end.
LEMMA RoundInside ==
  ASSUME NEW r \in Reading, Len(r.f.cache) <= CacheSize, r.n < CacheSize,
         Inside(r.f, r.f.filepos) \/ (r.f.filepos < Len(r.f.disk) /\ r.n # 0 /\ ~r.stop),
         NEW g, g = Round(r)
  PROVE  Inside(g.f, g.f.filepos) /\ g \in Reading /\ g.n <= r.n
<1>1. /\ r.n \in Nat /\ r.f.filepos \in Nat /\ r.f.cachedatapos \in Nat /\ Len(r.f.cache) \in Nat
      /\ r.f.cache \in Seq(Nat) /\ r.f.disk \in Seq(Nat) /\ Len(r.f.disk) \in Nat
      /\ CacheSize \in Nat \ {0} /\ Page \in Nat \ {0} /\ Page <= CacheSize
  <2>1. \A c \in Nat \ {0} : \A k \in Nat \ {0} : c % k = 0 => k <= c
    OBVIOUS
  <2>2. Page <= CacheSize
    BY <2>1, SectorAssumption, CacheSizeAssumption
  <2> QED BY <2>2, ReadingFields, SectorAssumption
<1> DEFINE a == Align(r)
           b == FromCache(a)
           c == FromFile(b)
<1>2. CASE r.n = 0 \/ r.stop
  BY <1>1, <1>2 DEF Round
<1>3. CASE ~(r.n = 0 \/ r.stop)
  <2>1. g = IF a.stop THEN a ELSE IF b.n = 0 THEN b
            ELSE IF c.stop \/ c.n = 0 THEN c ELSE Refill(c, c.f.filepos)
    BY <1>3 DEF Round
  <2>2. /\ a \in Reading /\ ~a.stop /\ a.n = r.n /\ a.f.filepos = r.f.filepos
        /\ \/ Inside(a.f, a.f.filepos)
           \/ a.f.cachedatapos > a.f.filepos \/ CacheEnd(a.f) <= a.f.filepos
    <3> DEFINE p == r.f.filepos - (r.f.filepos % Page)
    <3>1. p \in Nat /\ p <= r.f.filepos /\ r.f.filepos < p + Page
      BY <1>1, PageStart
    <3>2. CASE a = r
      BY <1>1, <1>3, <3>2 DEF Inside, CacheEnd
    <3>3. CASE a # r
      <4>8. /\ a = Refill(r, p)
            /\ r.f.cachedatapos > r.f.filepos \/ CacheEnd(r.f) < r.f.filepos
        BY <3>3 DEF Align
      <4> HIDE DEF a, p
      <4>9. ~Inside(r.f, r.f.filepos)
        BY <1>1, <4>8 DEF Inside, CacheEnd
      <4>1. a = Refill(r, p) /\ ~Inside(r.f, r.f.filepos)
        BY <4>8, <4>9
      <4>2. /\ a \in Reading /\ a.n = r.n /\ a.f.filepos = r.f.filepos
            /\ a.f.cachedatapos = p /\ a.f.cache = Slice(r.f.disk, p, CacheSize)
            /\ a.stop <=> p >= Len(r.f.disk)
        BY <3>1, <4>1, RefillEffect
      <4>3. ~a.stop
        BY <1>1, <3>1, <4>1, <4>2
      <4> DEFINE l == Len(a.f.cache)
                 m == Len(r.f.disk)
                 x == r.f.filepos
      <4>4. l = IF p >= m THEN 0 ELSE IF p + CacheSize < m THEN CacheSize ELSE m - p
        <5>1. CacheSize \in Nat
          BY <1>1
        <5>2. Len(Slice(r.f.disk, p, CacheSize))
                = IF p >= Len(r.f.disk) THEN 0
                  ELSE IF p + CacheSize < Len(r.f.disk) THEN CacheSize ELSE Len(r.f.disk) - p
          BY <1>1, <3>1, <5>1, SliceBytes, Zenon
        <5> QED BY <4>2, <5>2
      <4>5. x < m /\ m \in Nat /\ x \in Nat /\ x < p + Page /\ p <= x
        BY <1>1, <3>1, <4>1
      <4> HIDE DEF l, m, x
      <4>6. p <= x /\ x <= p + l
        BY <1>1, <3>1, <4>4, <4>5
      <4>7. Inside(a.f, a.f.filepos)
        BY <4>2, <4>6 DEF Inside, CacheEnd, l, x
      <4> QED BY <4>2, <4>3, <4>7
    <3> QED BY <3>2, <3>3
  <2> HIDE DEF a
  <2>3. /\ b \in Reading /\ b.n <= r.n
        /\ b.n = 0 => Inside(b.f, b.f.filepos)
    <3>1. /\ a.n \in Nat /\ a.f.filepos \in Nat /\ a.f.cachedatapos \in Nat
          /\ a.f.cache \in Seq(Nat) /\ Len(a.f.cache) \in Nat
      BY <2>2, ReadingFields
    <3> DEFINE q == a.f.filepos - a.f.cachedatapos
               s == Slice(a.f.cache, q, a.n)
               l == Len(s)
               m == Len(a.f.cache)
    <3>2. CASE a.f.cachedatapos <= a.f.filepos /\ CacheEnd(a.f) > a.f.filepos
      <4>1. b = Got(a, s)
        BY <3>2 DEF FromCache
      <4>2. q \in Nat /\ a.f.cachedatapos + q = a.f.filepos /\ q < m
        BY <3>1, <3>2 DEF CacheEnd
      <4> HIDE DEF q
      <4>3. s \in Seq(Nat) /\ l \in Nat
            /\ l = IF q >= m THEN 0 ELSE IF q + a.n < m THEN a.n ELSE m - q
        BY <3>1, <4>2, SliceBytes
      <4> HIDE DEF s, l, m
      <4>4. m \in Nat
        BY <3>1 DEF m
      <4>5. l <= a.n /\ q + l <= m
        BY <3>1, <4>2, <4>3, <4>4
      <4>6. /\ b \in Reading /\ b.n = a.n - l /\ b.f.filepos = a.f.filepos + l
            /\ b.f.cache = a.f.cache /\ b.f.cachedatapos = a.f.cachedatapos
        BY <2>2, <4>1, <4>3, <4>5, GotEffect DEF l
      <4>7. /\ a.f.cachedatapos <= a.f.filepos + l
            /\ a.f.filepos + l <= a.f.cachedatapos + m /\ a.n - l <= a.n
        <5>1. \A e, i, j, k, t \in Nat : j + k <= t => e <= (e + j) + k /\ (e + j) + k <= e + t /\ i - k <= i
          OBVIOUS
        <5> QED BY <3>1, <4>2, <4>3, <4>4, <4>5, <5>1
      <4>8. Inside(b.f, b.f.filepos)
        BY <4>6, <4>7 DEF Inside, CacheEnd, m
      <4> QED BY <2>2, <4>6, <4>7, <4>8
    <3>3. CASE ~(a.f.cachedatapos <= a.f.filepos /\ CacheEnd(a.f) > a.f.filepos)
      <4>1. b = a
        BY <3>3 DEF FromCache
      <4> QED BY <1>1, <1>3, <2>2, <4>1
    <3> QED BY <3>2, <3>3
  <2> HIDE DEF b
  <2>4. CASE b.n = 0
    BY <2>1, <2>2, <2>3, <2>4
  <2>5. CASE b.n # 0
    <3>1. b.n \in Nat /\ b.n < CacheSize
      BY <1>1, <2>3, ReadingFields
    <3>2. c \in Reading /\ ~c.stop /\ c.n = b.n
      BY <2>3, <3>1, FromFileShort
    <3> HIDE DEF c
    <3>3. g = Refill(c, c.f.filepos)
      BY <2>1, <2>2, <2>5, <3>2
    <3>4. c.f.filepos \in Nat
      BY <3>2, ReadingFields
    <3>5. /\ g \in Reading /\ g.n = c.n /\ g.f.filepos = c.f.filepos
          /\ g.f.cachedatapos = c.f.filepos
      BY <3>2, <3>3, <3>4, RefillEffect
    <3>6. Len(g.f.cache) \in Nat
      BY <3>5, ReadingFields
    <3>7. \A i, j \in Nat : i <= i /\ i <= i + j
      OBVIOUS
    <3>8. Inside(g.f, g.f.filepos)
      BY <3>4, <3>5, <3>6, <3>7 DEF Inside, CacheEnd
    <3> QED BY <2>3, <3>2, <3>5, <3>8
  <2> QED BY <2>4, <2>5
<1> QED BY <1>2, <1>3

\* A read of less than a cache at a position before the end of the file returns what the
\* file has there and makes the cache what the file has, if it was or does not have the
\* position; the position is in the cache or at its end.
LEMMA FetchedShort ==
  ASSUME NEW f \in Handle, Len(f.cache) <= CacheSize, NEW n \in 1..(CacheSize - 1),
         f.filepos < Len(f.disk),
         Agrees(f) \/ f.filepos < f.cachedatapos \/ CacheEnd(f) <= f.filepos,
         NEW r, r = Fetched(f, n)
  PROVE  /\ Agrees(r.f) /\ r.out = Slice(f.disk, f.filepos, n)
         /\ Inside(r.f, r.f.filepos)
<1>1. /\ CacheSize \in Nat \ {0} /\ n \in Nat /\ n # 0 /\ n < CacheSize /\ f.filepos \in Nat
      /\ f.cachedatapos \in Nat /\ f.disk \in Seq(Nat) /\ Len(f.disk) \in Nat
  BY HandleFields, CacheSizeAssumption
<1>2. Agrees(r.f) /\ r.out = Slice(f.disk, f.filepos, n)
  <2>1. CASE Agrees(f)
    BY <1>1, <2>1, FetchedEffect
  <2>2. CASE f.filepos < f.cachedatapos \/ CacheEnd(f) <= f.filepos
    <3>1. ~(n >= CacheSize)
      BY <1>1
    <3> QED BY <1>1, <2>2, <3>1, FetchedApart
  <2> QED BY <2>1, <2>2
<1> DEFINE q == [f |-> f, out |-> <<>>, n |-> n, stop |-> FALSE]
           a == Round(q)
<1>3. r = Round(a)
  BY DEF Fetched
<1>4. q.f = f /\ q.n = n /\ ~q.stop
  OBVIOUS
<1>5. Fetching(q, f, n)
  BY <1>1, FetchingBegins
<1> HIDE DEF q
<1>6. Fetching(a, f, n)
  BY <1>1, <1>5, RoundFetching
<1>7. q \in Reading /\ a \in Reading /\ Len(a.f.cache) <= CacheSize
  BY <1>5, <1>6 DEF Fetching
<1>8. Inside(a.f, a.f.filepos) /\ a.n <= n
  BY <1>1, <1>4, <1>7, RoundInside
<1> HIDE DEF a
<1>9. a.n < CacheSize
  <2>1. a.n \in Nat
    BY <1>7, ReadingFields
  <2> QED BY <1>1, <1>8, <2>1
<1>10. Inside(r.f, r.f.filepos)
  BY <1>3, <1>7, <1>8, <1>9, RoundInside
<1> QED BY <1>2, <1>10

-----------------------------------------------------------------------------
(***************************************************************************)
(* The inductive invariant.                                                *)
(***************************************************************************)

\* A handle just opened.
LEMMA OpenedEffect ==
  ASSUME NEW s \in Seq(Nat), NEW g, g = Opened(s)
  PROVE  /\ g \in Handle /\ g.disk = s /\ g.filepos = 0 /\ g.cache = <<>>
         /\ g.cachedirty = FALSE /\ Len(g.cache) = 0 /\ Len(g.cache) <= CacheSize
         /\ Agrees(g) /\ Visible(g) = s /\ g = Opened(g.disk)
<1>1. <<>> \in Seq(Nat) /\ FALSE \in BOOLEAN /\ 0 \in Nat /\ Len(<<>>) = 0 /\ CacheSize \in Nat
  BY CacheSizeAssumption
<1>2. /\ g \in Handle /\ g.disk = s /\ g.filepos = 0 /\ g.cache = <<>> /\ g.cachedirty = FALSE
  BY <1>1 DEF Opened, Handle
<1>3. Len(g.cache) = 0 /\ Len(g.cache) <= CacheSize
  BY <1>1, <1>2
<1>4. Agrees(g) /\ Visible(g) = s
  BY <1>2, <1>3 DEF Agrees, Visible
<1> QED BY <1>2, <1>3, <1>4

\* What the user sees of the handle there is.
LEMMA ContentVisible ==
  ASSUME h \in Handle
  PROVE  Content = Visible(h) /\ Visible(h) \in Seq(Nat) /\ Len(Visible(h)) >= Len(h.disk)
<1>1. /\ h.disk \in Seq(Nat) /\ h.cachedatapos \in Nat /\ h.cache \in Seq(Nat)
      /\ h.cachedirty \in BOOLEAN /\ Len(h.disk) \in Nat
  BY HandleFields
<1>2. Flush(h).disk = Overwrite(h.disk, h.cachedatapos, h.cache)
  BY DEF Flush, Handle
<1>3. Overwrite(h.disk, h.cachedatapos, h.cache) \in Seq(Nat)
      /\ Len(Overwrite(h.disk, h.cachedatapos, h.cache)) >= Len(h.disk)
  BY <1>1, OverwriteBytes
<1>4. Content = Visible(h)
  BY <1>2 DEF Content, Visible
<1>5. CASE h.cachedirty
  BY <1>3, <1>4, <1>5 DEF Visible
<1>6. CASE ~h.cachedirty
  BY <1>1, <1>4, <1>6 DEF Visible
<1> QED BY <1>1, <1>5, <1>6

\* The same in the next state.
LEMMA ContentVisibleNext ==
  ASSUME h' \in Handle
  PROVE  Content' = Visible(h')
<1>1. Flush(h').disk = Overwrite(h'.disk, h'.cachedatapos, h'.cache)
  BY DEF Flush, Handle
<1> QED BY <1>1 DEF Content, Visible

\* The bytes of a write.
LEMMA FreshType ==
  ASSUME TypeOK, NEW n \in Sizes
  PROVE  Fresh(n) \in Seq(Nat)
<1>1. n \in Nat /\ MaxOps \in Nat /\ MaxSessions \in Nat
  BY UseAssumption
<1>2. ops \in Nat /\ sessions \in Nat
  BY <1>1 DEF TypeOK
<1>3. \A a, b \in Nat : a * b \in Nat
  OBVIOUS
<1> DEFINE c == MaxOps * sessions
<1>4. c \in Nat
  BY <1>1, <1>2, <1>3
<1> HIDE DEF c
<1>5. \A i \in 1..n : 100 * (c + ops + 1) + i \in Nat
  BY <1>1, <1>2, <1>4
<1>6. Fresh(n) = [i \in 1..n |-> 100 * (c + ops + 1) + i]
  BY DEF Fresh, c
<1> QED BY <1>1, <1>5, <1>6

\* The counter of the operations stays in its bound.
LEMMA CanActType ==
  ASSUME TypeOK, CanAct
  PROVE  state = "open" /\ ops' \in 0..MaxOps
<1>1. MaxOps \in Nat
  BY UseAssumption
<1> QED BY <1>1 DEF TypeOK, CanAct

\* The invariant holds of the file to begin with.
LEMMA InitIInv == Init => IInv
<1> SUFFICES ASSUME Init PROVE IInv
  OBVIOUS
<1>1. PICK n \in FileLens : h = Opened([i \in 1..n |-> i])
  BY DEF Init
<1>2. n \in Nat /\ MaxOps \in Nat /\ MaxSessions \in Nat
  BY UseAssumption
<1>3. [i \in 1..n |-> i] \in Seq(Nat)
  BY <1>2
<1>4. h \in Handle /\ Len(h.cache) <= CacheSize /\ h = Opened(h.disk)
  BY <1>1, <1>3, OpenedEffect
<1>5. 0 \in 0..MaxOps /\ 0 \in 0..MaxSessions /\ <<>> \in Seq(Nat)
  BY <1>2
<1>6. TypeOK
  BY <1>4, <1>5 DEF Init, TypeOK
<1> QED BY <1>4, <1>6 DEF Init, IInv, CacheInv

\* FileOpen begins with an empty cache.
LEMMA OpenIInv == IInv /\ FileOpen => IInv'
<1> SUFFICES ASSUME IInv, FileOpen PROVE IInv'
  OBVIOUS
<1>1. h.disk \in Seq(Nat)
  BY HandleFields DEF IInv, TypeOK
<1>2. h' \in Handle /\ Len(h'.cache) <= CacheSize /\ h'.cachedirty = FALSE /\ Agrees(h')
  BY <1>1, OpenedEffect DEF FileOpen
<1>3. MaxOps \in Nat /\ MaxSessions \in Nat
  BY UseAssumption
<1>4. ops' \in 0..MaxOps /\ sessions' \in 0..MaxSessions
  BY <1>3 DEF IInv, TypeOK, FileOpen
<1>5. TypeOK'
  BY <1>2, <1>4 DEF IInv, TypeOK, FileOpen
<1>6. CacheInv'
  <2>1. Agrees(h)'
    BY <1>2 DEF Agrees
  <2> QED BY <1>2, <2>1 DEF CacheInv, FileOpen
<1> QED BY <1>5, <1>6 DEF IInv

\* FileSetPos leaves the cache alone, wherever it goes.
LEMMA SetPosIInv == IInv /\ FileSetPos => IInv'
<1> SUFFICES ASSUME IInv, FileSetPos PROVE IInv'
  OBVIOUS
<1>1. state = "open" /\ ops' \in 0..MaxOps
  BY CanActType DEF IInv, FileSetPos
<1>2. h \in Handle /\ Len(h.cache) <= CacheSize
  BY DEF IInv, TypeOK
<1>3. PICK p \in 0..Len(h.disk) : h' = [h EXCEPT !.filepos = p]
  BY DEF FileSetPos
<1>4. p \in Nat
  OBVIOUS
<1>5. h' \in Handle
  BY <1>2, <1>3, <1>4 DEF Handle
<1>6. /\ h'.disk = h.disk /\ h'.cache = h.cache /\ h'.cachedatapos = h.cachedatapos
      /\ h'.cachedirty = h.cachedirty
  BY <1>2, <1>3 DEF Handle
<1>7. TypeOK'
  BY <1>1, <1>2, <1>5, <1>6 DEF IInv, TypeOK, FileSetPos
<1>8. CacheInv'
  <2>1. Agrees(h) => Agrees(h)'
    BY <1>6 DEF Agrees
  <2> QED BY <1>1, <1>6, <2>1 DEF IInv, CacheInv, FileSetPos
<1> QED BY <1>7, <1>8 DEF IInv

\* A handle of an open session is sound.
LEMMA OpenIsSound == IInv /\ state = "open" => Sound(h)
BY DEF IInv, TypeOK, CacheInv, Sound

\* _FileWrite leaves a dirty cache or one that agrees; a failure ends the session.
LEMMA WriteIInv == IInv /\ _FileWrite => IInv'
<1> SUFFICES ASSUME IInv, _FileWrite PROVE IInv'
  OBVIOUS
<1>1. state = "open" /\ ops' \in 0..MaxOps
  BY CanActType DEF IInv, _FileWrite
<1>2. Sound(h)
  BY <1>1, OpenIsSound
<1>3. arg' \in Seq(Nat)
  BY FreshType DEF IInv, _FileWrite
<1>4. CASE h' = Written(h, arg') /\ UNCHANGED state
  <2>1. Sound(h')
    BY <1>2, <1>3, <1>4, WrittenEffect
  <2>2. TypeOK'
    BY <1>1, <1>3, <1>4, <2>1 DEF Sound, IInv, TypeOK, _FileWrite
  <2>3. CacheInv'
    <3>1. Agrees(h') => Agrees(h)'
      BY DEF Agrees
    <3> QED BY <1>1, <1>4, <2>1, <3>1 DEF Sound, CacheInv, _FileWrite
  <2> QED BY <2>2, <2>3 DEF IInv
<1>5. CASE _FileWriteFails(h, arg') /\ state' = "error"
  <2>1. h' \in Handle /\ Len(h'.cache) <= CacheSize
    BY <1>2, <1>3, <1>5, WriteFailsEffect
  <2>2. TypeOK'
    BY <1>1, <1>3, <1>5, <2>1 DEF IInv, TypeOK, _FileWrite
  <2>3. CacheInv'
    BY <1>5 DEF CacheInv, _FileWrite
  <2> QED BY <2>2, <2>3 DEF IInv
<1> QED BY <1>4, <1>5 DEF _FileWrite

\* _FileRead leaves what is dirty dirty, and refills only from the file.
LEMMA ReadIInv == IInv /\ _FileRead => IInv'
<1> SUFFICES ASSUME IInv, _FileRead PROVE IInv'
  OBVIOUS
<1>1. state = "open" /\ ops' \in 0..MaxOps
  BY CanActType DEF IInv, _FileRead
<1>2. h \in Handle /\ Len(h.cache) <= CacheSize
  BY DEF IInv, TypeOK
<1>3. PICK n \in Sizes : /\ arg' = [i \in 1..n |-> 0]
                         /\ h' = Fetched(h, n).f /\ out' = Fetched(h, n).out
  BY DEF _FileRead
<1>4. n \in Nat
  BY UseAssumption
<1>5. /\ h' \in Handle /\ Len(h'.cache) <= CacheSize /\ out' \in Seq(Nat)
      /\ h'.cachedirty = h.cachedirty /\ (Agrees(h) => Agrees(h'))
  BY <1>2, <1>3, <1>4, FetchedEffect
<1>6. arg' \in Seq(Nat)
  BY <1>3, <1>4
<1>7. TypeOK'
  BY <1>1, <1>5, <1>6 DEF IInv, TypeOK, _FileRead
<1>8. CacheInv'
  <2>1. Agrees(h') => Agrees(h)'
    BY DEF Agrees
  <2> QED BY <1>1, <1>5, <2>1 DEF IInv, CacheInv, _FileRead
<1> QED BY <1>7, <1>8 DEF IInv

\* A read that fails leaves the file and what is dirty as they are.
LEMMA ReadFailsEffect ==
  ASSUME IInv, _FileReadFails
  PROVE  /\ h' \in Handle /\ Len(h'.cache) <= CacheSize
         /\ h'.disk = h.disk /\ h'.cachedirty = h.cachedirty
<1>1. h \in Handle /\ Len(h.cache) <= CacheSize
  BY DEF IInv, TypeOK
<1>2. PICK n \in Sizes :
        LET r == [f |-> h, out |-> <<>>, n |-> n, stop |-> FALSE]
            a == Align(r)
            b == FromCache(a)
            c == FromFile(b)
        IN \/ a # r /\ h' = [h EXCEPT !.cachedatapos = a.f.cachedatapos]
           \/ ~a.stop /\ b.n >= CacheSize /\ h' = b.f
           \/ ~a.stop /\ ~c.stop /\ c.n > 0 /\ h' = c.f
  BY DEF _FileReadFails
<1> DEFINE r == [f |-> h, out |-> <<>>, n |-> n, stop |-> FALSE]
           a == Align(r)
           b == FromCache(a)
           c == FromFile(b)
<1>3. \/ h' = [h EXCEPT !.cachedatapos = a.f.cachedatapos]
      \/ h' = b.f
      \/ h' = c.f
  BY <1>2
<1>4. n \in Nat
  BY UseAssumption
<1>5. Fetching(r, h, n)
  BY <1>1, <1>4, FetchingBegins
<1> HIDE DEF r
<1>6. Fetching(a, h, n)
  BY <1>1, <1>4, <1>5, AlignFetching
<1> HIDE DEF a
<1>7. Fetching(b, h, n)
  BY <1>1, <1>4, <1>6, FromCacheFetching
<1> HIDE DEF b
<1>8. Fetching(c, h, n)
  BY <1>1, <1>4, <1>7, FromFileFetching
<1> HIDE DEF c
<1>9. CASE h' = [h EXCEPT !.cachedatapos = a.f.cachedatapos]
  <2>1. a.f.cachedatapos \in Nat
    BY <1>6, ReadingFields DEF Fetching
  <2>2. h' \in Handle /\ h'.disk = h.disk /\ h'.cachedirty = h.cachedirty /\ h'.cache = h.cache
    BY <1>1, <1>9, <2>1 DEF Handle
  <2> QED BY <1>1, <2>2
<1>10. CASE h' = b.f
  <2>1. b.f \in Handle
    BY <1>7, ReadingFields DEF Fetching
  <2> QED BY <1>7, <1>10, <2>1 DEF Fetching
<1>11. CASE h' = c.f
  <2>1. c.f \in Handle
    BY <1>8, ReadingFields DEF Fetching
  <2> QED BY <1>8, <1>11, <2>1 DEF Fetching
<1> QED BY <1>3, <1>9, <1>10, <1>11

\* A read that fails ends the session with the cache of another place.
LEMMA ReadFailsIInv == IInv /\ _FileReadFails => IInv'
<1> SUFFICES ASSUME IInv, _FileReadFails PROVE IInv'
  OBVIOUS
<1>1. state = "open" /\ ops' \in 0..MaxOps
  BY CanActType DEF IInv, _FileReadFails
<1>2. h' \in Handle /\ Len(h'.cache) <= CacheSize /\ h'.cachedirty = h.cachedirty
  BY ReadFailsEffect
<1>3. TypeOK'
  BY <1>1, <1>2 DEF IInv, TypeOK, _FileReadFails
<1>4. CacheInv'
  BY <1>1, <1>2 DEF IInv, CacheInv, _FileReadFails
<1> QED BY <1>3, <1>4 DEF IInv

\* FileClose stores what the user saw, or loses the dirty cache.
LEMMA CloseEffect ==
  ASSUME IInv, FileClose
  PROVE  /\ Content \in Seq(Nat) /\ h.disk \in Seq(Nat)
         /\ \/ h' = Opened(Content) /\ lost' = lost
            \/ h' = Opened(h.disk) /\ lost' = TRUE
<1>1. Content \in Seq(Nat) /\ h.disk \in Seq(Nat)
  BY ContentVisible, HandleFields DEF IInv, TypeOK
<1> QED BY <1>1 DEF FileClose, Content

\* FileClose leaves no cache.
LEMMA CloseIInv == IInv /\ FileClose => IInv'
<1> SUFFICES ASSUME IInv, FileClose PROVE IInv'
  OBVIOUS
<1>1. /\ Content \in Seq(Nat) /\ h.disk \in Seq(Nat)
      /\ h' = Opened(Content) \/ h' = Opened(h.disk)
      /\ lost' = lost \/ lost' = TRUE
  BY CloseEffect
<1>2. h' \in Handle /\ Len(h'.cache) <= CacheSize /\ h' = Opened(h'.disk)
  BY <1>1, OpenedEffect
<1>3. TypeOK'
  BY <1>1, <1>2 DEF IInv, TypeOK, FileClose
<1>4. CacheInv'
  BY <1>2 DEF CacheInv, FileClose
<1> QED BY <1>3, <1>4 DEF IInv

\* Every step keeps the invariant.
LEMMA NextIInv == IInv /\ [Next]_vars => IInv'
<1> SUFFICES ASSUME IInv, [Next]_vars PROVE IInv'
  OBVIOUS
<1>1. CASE FileOpen
  BY <1>1, OpenIInv
<1>2. CASE FileSetPos
  BY <1>2, SetPosIInv
<1>3. CASE _FileWrite
  BY <1>3, WriteIInv
<1>4. CASE _FileRead
  BY <1>4, ReadIInv
<1>5. CASE _FileReadFails
  BY <1>5, ReadFailsIInv
<1>6. CASE FileClose
  BY <1>6, CloseIInv
<1>7. CASE UNCHANGED vars
  BY <1>7 DEF vars, IInv, TypeOK, CacheInv, Agrees
<1> QED BY <1>1, <1>2, <1>3, <1>4, <1>5, <1>6, <1>7 DEF Next

\* What the handle keeps through every session: its cache fits the buffer, is
\* gone when the file is closed, and agrees with the file unless it is dirty.
THEOREM FileHandleInductive == Spec => []IInv
BY InitIInv, NextIInv, PTL DEF Spec

\* The copies into handle->cache stay inside its buffer.
THEOREM FileHandleTypeOK == Spec => []TypeOK
<1>1. IInv => TypeOK
  BY DEF IInv
<1> QED BY <1>1, FileHandleInductive, PTL

\* The loop of _FileRead ends in two rounds, whatever is in the cache.
THEOREM ReadTerminates == Spec => []ReadEnds
<1>1. IInv => ReadEnds
  <2> SUFFICES ASSUME IInv, NEW n \in Sizes
               PROVE  Fetched(h, n).n = 0 \/ Fetched(h, n).stop
    BY DEF ReadEnds
  <2>1. h \in Handle /\ Len(h.cache) <= CacheSize /\ n \in Nat
    BY UseAssumption DEF IInv, TypeOK
  <2> QED BY <2>1, FetchedEffect
<1> QED BY <1>1, FileHandleInductive, PTL

-----------------------------------------------------------------------------
(***************************************************************************)
(* The handle implements ByteFile.                                         *)
(***************************************************************************)

\* ByteFile's operators are CachedFile's.
LEMMA SameOperators ==
  /\ \A s, p, d : BF!Overwrite(s, p, d) = Overwrite(s, p, d)
  /\ \A s, p, n : BF!Slice(s, p, n) = Slice(s, p, n)
BY DEF BF!Overwrite, Overwrite, BF!Slice, Slice

\* The file to begin with.
LEMMA InitByteFile == Init => BF!Init
<1> SUFFICES ASSUME Init PROVE BF!Init
  OBVIOUS
<1>1. IInv
  BY InitIInv
<1>2. h \in Handle
  BY <1>1 DEF IInv, TypeOK
<1>3. Content \in Seq(Nat)
  BY <1>2, ContentVisible
<1>4. h.filepos = 0 /\ ~h.cachedirty
  BY DEF Init, Opened
<1>5. Content = h.disk
  BY <1>4 DEF Content
<1> QED BY <1>3, <1>4, <1>5 DEF Init, BF!Init

\* Opening moves to the beginning and changes nothing.
LEMMA OpenByteFile == IInv /\ FileOpen => BF!Open
<1> SUFFICES ASSUME IInv, FileOpen PROVE BF!Open
  OBVIOUS
<1>1. h \in Handle /\ h.disk \in Seq(Nat)
  BY HandleFields DEF IInv, TypeOK
<1>2. h = Opened(h.disk) /\ h' = Opened(h.disk)
  BY DEF IInv, CacheInv, FileOpen
<1>3. h' \in Handle /\ h'.filepos = 0 /\ Visible(h') = h.disk /\ Visible(h) = h.disk
  BY <1>1, <1>2, OpenedEffect
<1>4. Content' = Content
  BY <1>1, <1>3, ContentVisible, ContentVisibleNext
<1>5. h'.disk = h.disk
  BY <1>1, <1>2, OpenedEffect
<1> QED BY <1>3, <1>4, <1>5 DEF FileOpen, BF!Open

\* The position stays within what the user sees.
LEMMA SetPosByteFile == IInv /\ FileSetPos => BF!SetPos
<1> SUFFICES ASSUME IInv, FileSetPos PROVE BF!SetPos
  OBVIOUS
<1>1. h \in Handle
  BY DEF IInv, TypeOK
<1>2. h' \in Handle
  BY SetPosIInv DEF IInv, TypeOK
<1>3. PICK p \in 0..Len(h.disk) : h' = [h EXCEPT !.filepos = p]
  BY DEF FileSetPos
<1>4. /\ h'.disk = h.disk /\ h'.cache = h.cache /\ h'.cachedatapos = h.cachedatapos
      /\ h'.cachedirty = h.cachedirty /\ h'.filepos = p
  BY <1>1, <1>3 DEF Handle
<1>5. Content' = Content
  <2>1. Visible(h') = Visible(h)
    BY <1>4 DEF Visible
  <2> QED BY <1>1, <1>2, <2>1, ContentVisible, ContentVisibleNext
<1>6. p \in 0..Len(Content)
  <2>1. Content \in Seq(Nat) /\ Len(Content) >= Len(h.disk) /\ h.disk \in Seq(Nat)
    BY <1>1, ContentVisible, HandleFields
  <2>2. Len(Content) \in Nat /\ Len(h.disk) \in Nat
    BY <2>1
  <2> QED BY <2>1, <2>2
<1> QED BY <1>4, <1>5, <1>6 DEF FileSetPos, CanAct, BF!SetPos

\* A write lands at the position, or a leading part of it does.
LEMMA WriteByteFile == IInv /\ _FileWrite => BF!Write \/ BF!WriteFails
<1> SUFFICES ASSUME IInv, _FileWrite PROVE BF!Write \/ BF!WriteFails
  OBVIOUS
<1>1. state = "open" /\ h \in Handle
  BY DEF IInv, TypeOK, _FileWrite, CanAct
<1>2. Sound(h)
  BY <1>1, OpenIsSound
<1>3. arg' \in Seq(Nat)
  BY FreshType DEF IInv, _FileWrite
<1>4. h' \in Handle
  BY WriteIInv DEF IInv, TypeOK
<1>5. Content = Visible(h) /\ Content' = Visible(h')
  BY <1>1, <1>4, ContentVisible, ContentVisibleNext
<1>6. ASSUME Stored(h'.disk, h, arg') PROVE BF!Store
  <2>1. \A k : BF!Part(k) = Overwrite(Content, h.filepos, SubSeq(arg', 1, k))
    BY SameOperators DEF BF!Part
  <2> QED BY <1>5, <1>6, <2>1 DEF Stored, BF!Store
<1>7. CASE h' = Written(h, arg') /\ UNCHANGED state
  <2>1. Visible(h') = Overwrite(Visible(h), h.filepos, arg') /\ h'.filepos = h.filepos + Len(arg')
    BY <1>2, <1>3, <1>7, WrittenEffect
  <2>2. Content' = BF!Overwrite(Content, h.filepos, arg')
    BY <1>5, <2>1, SameOperators
  <2>3. BF!Store
    BY <1>2, <1>3, <1>6, <1>7, WrittenStored
  <2>4. BF!Write
    BY <1>1, <1>3, <1>7, <2>1, <2>2, <2>3 DEF _FileWrite, BF!Write
  <2> QED BY <2>4
<1>8. CASE _FileWriteFails(h, arg') /\ state' = "error"
  <2>1. PICK k \in 0..Len(arg') : Visible(h') = Overwrite(Visible(h), h.filepos, SubSeq(arg', 1, k))
    BY <1>2, <1>3, <1>8, WriteFailsEffect
  <2>2. Content' = BF!Part(k)
    BY <1>5, <2>1, SameOperators DEF BF!Part
  <2>3. h'.filepos \in Nat
    BY <1>4 DEF Handle
  <2>4. BF!Store
    BY <1>2, <1>3, <1>6, <1>8, WriteFailsStored
  <2>5. BF!WriteFails
    BY <1>1, <1>3, <1>8, <2>2, <2>3, <2>4 DEF _FileWrite, BF!WriteFails
  <2> QED BY <2>5
<1> QED BY <1>7, <1>8 DEF _FileWrite

\* A session that has not written sees the file itself.
LEMMA CleanContent ==
  ASSUME IInv, state = "open", ~wrote
  PROVE  h.cachedirty = FALSE /\ Agrees(h) /\ Content = h.disk
<1>1. h \in Handle /\ h.cachedirty \in BOOLEAN
  BY HandleFields DEF IInv, TypeOK
<1>2. ~h.cachedirty /\ Agrees(h)
  BY <1>1 DEF IInv, CacheInv
<1> QED BY <1>1, <1>2 DEF Content

\* A read returns what is at the position.
LEMMA ReadByteFile ==
  ASSUME ~ReadAfterWrite, IInv, _FileRead
  PROVE  BF!Read
<1>1. state = "open" /\ ~wrote
  BY DEF _FileRead, CanAct
<1>2. h \in Handle /\ Len(h.cache) <= CacheSize
  BY DEF IInv, TypeOK
<1>3. h.cachedirty = FALSE /\ Agrees(h) /\ Content = h.disk
  BY <1>1, CleanContent
<1>4. PICK n \in Sizes : /\ arg' = [i \in 1..n |-> 0]
                         /\ h' = Fetched(h, n).f /\ out' = Fetched(h, n).out
  BY DEF _FileRead
<1>5. n \in Nat
  BY UseAssumption
<1>6. /\ h'.disk = h.disk /\ h'.cachedirty = h.cachedirty
      /\ h'.filepos = h.filepos + Len(out') /\ out' = Slice(h.disk, h.filepos, n)
  BY <1>2, <1>3, <1>4, <1>5, FetchedEffect
<1>7. arg' \in Seq({0}) /\ Len(arg') = n
  BY <1>4, <1>5
<1>8. Content' = Content
  BY <1>3, <1>6 DEF Content
<1>9. out' = BF!Slice(Content, h.filepos, Len(arg'))
  BY <1>3, <1>6, <1>7, SameOperators
<1> QED BY <1>1, <1>6, <1>7, <1>8, <1>9 DEF _FileRead, BF!Read

\* A read that fails changes nothing of the file.
LEMMA ReadFailsByteFile ==
  ASSUME ~ReadAfterWrite, IInv, _FileReadFails
  PROVE  BF!ReadFails
<1>1. state = "open" /\ ~wrote
  BY DEF _FileReadFails, CanAct
<1>2. h.cachedirty = FALSE /\ Content = h.disk
  BY <1>1, CleanContent
<1>3. h' \in Handle /\ h'.disk = h.disk /\ h'.cachedirty = h.cachedirty
  BY ReadFailsEffect
<1>4. Content' = Content
  BY <1>2, <1>3 DEF Content
<1>5. h'.filepos \in Nat
  BY <1>3 DEF Handle
<1> QED BY <1>1, <1>3, <1>4, <1>5 DEF _FileReadFails, BF!ReadFails

\* What was dirty is in the file when it is closed, or lost.
LEMMA CloseByteFile == IInv /\ FileClose => BF!Close \/ BF!CloseLoses
<1> SUFFICES ASSUME IInv, FileClose PROVE BF!Close \/ BF!CloseLoses
  OBVIOUS
<1>1. Content \in Seq(Nat) /\ h.disk \in Seq(Nat)
  BY CloseEffect
<1>2. ASSUME NEW s \in Seq(Nat), h' = Opened(s)
      PROVE  h'.disk = s /\ Content' = s /\ BF!Closing
  <2>1. h' \in Handle /\ h'.filepos = 0 /\ h'.disk = s /\ Visible(h') = s
    BY <1>2, OpenedEffect
  <2>2. Content' = s
    BY <2>1, ContentVisibleNext
  <2> QED BY <2>1, <2>2 DEF FileClose, BF!Closing
<1>3. CASE h' = Opened(Content) /\ lost' = lost
  BY <1>1, <1>2, <1>3 DEF BF!Close
<1>4. CASE h' = Opened(h.disk) /\ lost' = TRUE
  BY <1>1, <1>2, <1>4 DEF BF!CloseLoses
<1> QED BY <1>3, <1>4, CloseEffect

\* Every step of the handle is a step of the file of bytes.
LEMMA NextByteFile ==
  ASSUME ~ReadAfterWrite, IInv, [Next]_vars
  PROVE  [BF!Next]_BF!fvars
<1>1. CASE FileOpen
  BY <1>1, OpenByteFile DEF BF!Next
<1>2. CASE FileSetPos
  BY <1>2, SetPosByteFile DEF BF!Next
<1>3. CASE _FileWrite
  BY <1>3, WriteByteFile DEF BF!Next
<1>4. CASE _FileRead
  BY <1>4, ReadByteFile DEF BF!Next
<1>5. CASE _FileReadFails
  BY <1>5, ReadFailsByteFile DEF BF!Next
<1>6. CASE FileClose
  BY <1>6, CloseByteFile DEF BF!Next
<1>7. CASE UNCHANGED vars
  BY <1>7 DEF vars, BF!fvars, Content, Flush
<1> QED BY <1>1, <1>2, <1>3, <1>4, <1>5, <1>6, <1>7 DEF Next

\* The handle with its one buffer for reading ahead and writing behind is a file
\* of bytes for a user that does not read after it wrote in the same session:
\* nothing is misplaced, every read returns what the sessions before wrote, and
\* what is written is lost only by an n_writefile that fails in FileClose.
THEOREM HandleIsByteFile ==
  ASSUME ~ReadAfterWrite
  PROVE  Spec => IsByteFile
<1>1. Init => BF!Init
  BY InitByteFile
<1>2. IInv /\ [Next]_vars => [BF!Next]_BF!fvars
  BY NextByteFile
<1> QED BY <1>1, <1>2, FileHandleInductive, PTL DEF Spec, IsByteFile, BF!Spec
=============================================================================
