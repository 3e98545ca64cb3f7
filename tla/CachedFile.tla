----------------------------- MODULE CachedFile -----------------------------
(***************************************************************************)
(* The handle of a file on NTFS (utils.c): one buffer of CacheSize bytes   *)
(* serves as read cache and as write-behind cache.  A handle is a record   *)
(*   disk          what the library has stored of the file                 *)
(*   filepos, cachedatapos, cachedirty   as in FILE_HANDLE_INFO            *)
(*   cache         the first cachedatasize bytes of the buffer             *)
(* The library below (n_readfile, n_writefile, n_getfilesize) is external: *)
(* it acts on disk.                                                        *)
(***************************************************************************)
EXTENDS Integers, Sequences

CONSTANTS Sector, Page, CacheSize   \* 512, 4096, DEFAULT_FILE_CACHE_SIZE

ASSUME SectorAssumption == {Sector, Page} \subseteq Nat \ {0} /\ Page % Sector = 0
ASSUME CacheSizeAssumption == CacheSize \in Nat \ {0} /\ CacheSize % Page = 0

\* FILE_HANDLE_INFO, and the bytes of the file in the library.
Handle == [disk : Seq(Nat), filepos : Nat, cachedatapos : Nat, cache : Seq(Nat),
           cachedirty : BOOLEAN]

\* The bytes s with d laid over them from offset p on (n_writefile).
Overwrite(s, p, d) ==
  IF d = <<>> THEN s
  ELSE [i \in 1..(IF p + Len(d) > Len(s) THEN p + Len(d) ELSE Len(s)) |->
          IF p < i /\ i <= p + Len(d) THEN d[i - p]
          ELSE IF i <= Len(s) THEN s[i] ELSE 0]

\* At most n bytes of s from offset p on (n_readfile).
Slice(s, p, n) == SubSeq(s, p + 1, IF p + n < Len(s) THEN p + n ELSE Len(s))

\* _FileOpen: an empty cache.
Opened(disk) == [disk |-> disk, filepos |-> 0, cachedatapos |-> 0, cache |-> <<>>,
                 cachedirty |-> FALSE]

CacheEnd(f) == f.cachedatapos + Len(f.cache)

\* The cache has what the file has there.
Agrees(f) ==
  \A i \in 1..Len(f.cache) :
    f.cachedatapos + i <= Len(f.disk) /\ f.cache[i] = f.disk[f.cachedatapos + i]

\* A position in the cache or at its end.
Inside(f, p) == f.cachedatapos <= p /\ p <= CacheEnd(f)

\* n_writefile of the cache, which is empty afterwards.
Flush(f) ==
  [f EXCEPT !.disk = Overwrite(f.disk, f.cachedatapos, f.cache), !.cache = <<>>]

-----------------------------------------------------------------------------
(***************************************************************************)
(* _FileWrite, in its three parts.                                         *)
(***************************************************************************)

\* Mutant: the cache stays where it is and the data is appended to it.
WriteBackNever(f) == f

\* A cache that does not end at the position is written first.
WriteBack(f) ==
  IF f.filepos # CacheEnd(f) THEN [Flush(f) EXCEPT !.cachedatapos = f.filepos] ELSE f

\* Mutant: the room is taken for granted.
RoomAlways(f, d) == Len(d)

\* How much of d there is room for in the cache, and the cache with it.
Room(f, d) ==
  IF Len(d) > CacheSize - Len(f.cache) THEN CacheSize - Len(f.cache) ELSE Len(d)
Fill(f, d) == [f EXCEPT !.cache = @ \o SubSeq(d, 1, Room(f, d))]

\* A full cache is written; the position is behind it.
FlushFull(f) ==
  [Flush(f) EXCEPT !.cachedatapos = @ + CacheSize, !.filepos = f.cachedatapos + CacheSize,
                   !.cachedirty = FALSE]

\* Whole multiples of the cache go straight to the file ...
Whole(d) == Len(d) - (Len(d) % CacheSize)
Direct(f, d, k) ==
  [f EXCEPT !.disk = Overwrite(@, f.filepos, SubSeq(d, 1, k)), !.filepos = @ + k]

\* ... and the rest to the cache.
WriteRest(f, d) ==
  LET g == Direct(f, d, Whole(d))
      rest == SubSeq(d, Whole(d) + 1, Len(d))
  IN IF rest = <<>> THEN g
     ELSE [g EXCEPT !.cache = rest, !.cachedatapos = g.filepos,
                    !.filepos = @ + Len(rest), !.cachedirty = TRUE]

\* Whether the data fills the cache, and what of it is left then.
Fills(f, d) == f.cache # <<>> /\ Len(Fill(WriteBack(f), d).cache) = CacheSize
Left(f, d) == SubSeq(d, Room(WriteBack(f), d) + 1, Len(d))

\* The handle and the data with which _FileWrite comes to its direct writes.
Base(f, d) == IF f.cache = <<>> THEN f ELSE FlushFull(Fill(WriteBack(f), d))
Rest(f, d) == IF f.cache = <<>> THEN d ELSE Left(f, d)

\* The handle after a _FileWrite of d that returns TRUE.
Written(f, d) ==
  CASE f.cache = <<>> -> WriteRest(f, d)
    [] Fills(f, d)    -> WriteRest(FlushFull(Fill(WriteBack(f), d)), Left(f, d))
    [] OTHER          -> [Fill(WriteBack(f), d) EXCEPT
                            !.cachedirty = TRUE, !.filepos = @ + Len(d)]

-----------------------------------------------------------------------------
(***************************************************************************)
(* _FileRead: one round of its loop.  r is the handle, the bytes read so   *)
(* far, how many are still wanted, and whether a read found nothing.       *)
(***************************************************************************)

\* Mutant: an empty read is not taken for the end of the file.
RefillForever(r, p) ==
  [r EXCEPT !.f.cachedatapos = p, !.f.cache = Slice(r.f.disk, p, CacheSize)]

\* The cache is read anew from offset p on.
Refill(r, p) ==
  LET bytes == Slice(r.f.disk, p, CacheSize)
  IN [r EXCEPT !.f.cachedatapos = p, !.f.cache = bytes, !.stop = (bytes = <<>>)]

\* Inside a sector and outside the cache: refill from the start of the page.
Align(r) ==
  LET f == r.f IN
  IF f.filepos % Sector # 0 /\ (f.cachedatapos > f.filepos \/ CacheEnd(f) < f.filepos)
    THEN Refill(r, f.filepos - (f.filepos % Page)) ELSE r

Got(r, bytes) ==
  [r EXCEPT !.f.filepos = @ + Len(bytes), !.out = @ \o bytes, !.n = @ - Len(bytes)]

\* What the cache has at the position.
FromCache(r) ==
  LET f == r.f IN
  IF f.cachedatapos <= f.filepos /\ CacheEnd(f) > f.filepos
    THEN Got(r, Slice(f.cache, f.filepos - f.cachedatapos, r.n)) ELSE r

\* Whole multiples of the cache come straight from the file.
FromFile(r) ==
  LET k == r.n - (r.n % CacheSize)
      bytes == Slice(r.f.disk, r.f.filepos, k)
  IN [Got(r, bytes) EXCEPT !.stop = Len(bytes) < k]

Round(r) ==
  IF r.n = 0 \/ r.stop THEN r
  ELSE LET a == Align(r) IN
       IF a.stop THEN a
       ELSE LET b == FromCache(a) IN
            IF b.n = 0 THEN b
            ELSE LET c == FromFile(b) IN
                 IF c.stop \/ c.n = 0 THEN c ELSE Refill(c, c.f.filepos)

\* The loop ends in two rounds; ReadEnds says so.
Fetched(f, n) == Round(Round([f |-> f, out |-> <<>>, n |-> n, stop |-> FALSE]))
=============================================================================
