----------------------------- MODULE FileHandle -----------------------------
(***************************************************************************)
(* A user at work on one file on NTFS through its handle (CachedFile).     *)
(* It reads, writes, seeks, closes and opens again; it does not read after *)
(* it wrote in the same session, unless ReadAfterWrite; SetPos stays       *)
(* within what n_getfilesize reports.  Every library call may fail.        *)
(***************************************************************************)
EXTENDS CachedFile

CONSTANTS
  Sizes,                    \* sizes of the user's reads and writes
  FileLens,                 \* lengths of the files to begin with
  MaxOps,                   \* bound on the reads, writes and seeks of a session
  MaxSessions,              \* bound on the times the file is opened
  ReadAfterWrite            \* whether a session may read after it wrote

ASSUME UseAssumption == Sizes \cup FileLens \cup {MaxOps, MaxSessions} \subseteq Nat

VARIABLES
  h,         \* the handle
  state,     \* "closed", "open", or "error" after an operation returned FALSE
  arg, out,  \* the last request and what the last read returned
  wrote,     \* whether this session has written
  lost,      \* whether the n_writefile of the last FileClose failed
  ops, sessions

vars == <<h, state, arg, out, wrote, lost, ops, sessions>>

-----------------------------------------------------------------------------
Init ==
  /\ \E n \in FileLens : h = Opened([i \in 1..n |-> i])
  /\ state = "closed" /\ arg = <<>> /\ out = <<>> /\ wrote = FALSE
  /\ lost = FALSE /\ ops = 0 /\ sessions = 0

FileOpen ==
  /\ state = "closed" /\ sessions < MaxSessions
  /\ state' = "open" /\ wrote' = FALSE /\ lost' = FALSE /\ ops' = 0
  /\ sessions' = sessions + 1
  /\ h' = Opened(h.disk)
  /\ UNCHANGED <<arg, out>>

CanAct == state = "open" /\ ops < MaxOps /\ ops' = ops + 1

\* FileSetPos only moves the position.
FileSetPos ==
  /\ CanAct
  /\ \E p \in 0..Len(h.disk) : h' = [h EXCEPT !.filepos = p]
  /\ UNCHANGED <<state, arg, out, wrote, lost, sessions>>

\* Every byte written is a new one.
Fresh(n) == [i \in 1..n |-> 100 * (MaxOps * sessions + ops + 1) + i]

\* One of the calls of n_writefile fails: that of a cache elsewhere, that of a
\* full cache, or a direct one after k bytes.
_FileWriteFails(f, d) ==
  \/ f.cache # <<>> /\ f.filepos # CacheEnd(f) /\ h' = f
  \/ Fills(f, d) /\ h' = Fill(WriteBack(f), d)
  \/ /\ f.cache = <<>> \/ Fills(f, d)
     /\ \E k \in {i \in 0..Len(d) : i % CacheSize = 0} :
          k < Whole(Rest(f, d)) /\ h' = Direct(Base(f, d), Rest(f, d), k)

_FileWrite ==
  /\ CanAct
  /\ \E n \in Sizes : arg' = Fresh(n)
  /\ wrote' = TRUE
  /\ \/ h' = Written(h, arg') /\ UNCHANGED state
     \/ _FileWriteFails(h, arg') /\ state' = "error"
  /\ UNCHANGED <<out, lost, sessions>>

_FileRead ==
  /\ CanAct
  /\ wrote => ReadAfterWrite
  /\ \E n \in Sizes :
       /\ arg' = [i \in 1..n |-> 0]
       /\ h' = Fetched(h, n).f
       /\ out' = Fetched(h, n).out
  /\ UNCHANGED <<state, wrote, lost, sessions>>

\* One of the calls of n_readfile fails: the first leaves cachedatapos moved
\* under the old cache, the second and the third come after what was in the cache.
_FileReadFails ==
  /\ CanAct
  /\ wrote => ReadAfterWrite
  /\ \E n \in Sizes :
       LET r == [f |-> h, out |-> <<>>, n |-> n, stop |-> FALSE]
           a == Align(r)
           b == FromCache(a)
           c == FromFile(b)
       IN \/ a # r /\ h' = [h EXCEPT !.cachedatapos = a.f.cachedatapos]
          \/ ~a.stop /\ b.n >= CacheSize /\ h' = b.f
          \/ ~a.stop /\ ~c.stop /\ c.n > 0 /\ h' = c.f
  /\ state' = "error"
  /\ UNCHANGED <<arg, out, wrote, lost, sessions>>

\* FileClose: a dirty cache is written; when that fails the cache is gone with
\* what it held, and FileClose returns TRUE all the same.
FileClose ==
  /\ state \in {"open", "error"}
  /\ state' = "closed"
  /\ \/ h' = Opened(IF h.cachedirty THEN Flush(h).disk ELSE h.disk) /\ UNCHANGED lost
     \/ h.cachedirty /\ h' = Opened(h.disk) /\ lost' = TRUE
  /\ UNCHANGED <<arg, out, wrote, ops, sessions>>

Next == FileOpen \/ FileSetPos \/ _FileWrite \/ _FileRead \/ _FileReadFails \/ FileClose

Spec == Init /\ [][Next]_vars

-----------------------------------------------------------------------------
\* Every variable keeps its type; the cache never holds more than CacheSize
\* bytes (CopyMem into handle->cache stays inside the buffer).
TypeOK ==
  /\ h \in Handle /\ Len(h.cache) <= CacheSize
  /\ state \in {"closed", "open", "error"} /\ {wrote, lost} \subseteq BOOLEAN
  /\ arg \in Seq(Nat) /\ out \in Seq(Nat) /\ ops \in 0..MaxOps
  /\ sessions \in 0..MaxSessions

\* What the user sees as the file: what is in the library under the dirty cache.
Content == IF h.cachedirty THEN Flush(h).disk ELSE h.disk

BF == INSTANCE ByteFile WITH Bytes <- Nat, content <- Content, stored <- h.disk, pos <- h.filepos

\* The cached handle is a file of bytes: writes land at the position, reads
\* return what was written in the sessions before, across seeks, unaligned
\* positions, sizes larger than the cache and the end of file, and what is
\* written is lost only when the last n_writefile fails in FileClose; what the
\* file has then is what it had, at some place, before or in a write.
IsByteFile == BF!Spec

\* _FileRead returns: after two rounds it has all it was asked for or has met
\* the end of the file (its while(total) loop terminates).
ReadEnds ==
  \A n \in Sizes : state = "open" =>
    LET r == Fetched(h, n) IN r.n = 0 \/ r.stop

-----------------------------------------------------------------------------
(***************************************************************************)
(* The inductive strengthening of the properties.                          *)
(***************************************************************************)

\* A closed file has no cache; while it is open and until a call fails, a cache
\* that is not dirty can be trusted, and only a write makes it dirty.
CacheInv ==
  /\ state = "closed" => h = Opened(h.disk)
  /\ state = "open" => /\ ~h.cachedirty => Agrees(h)
                       /\ h.cachedirty => wrote
  /\ state = "error" /\ ~wrote => ~h.cachedirty

\* The inductive invariant.
IInv == TypeOK /\ CacheInv
=============================================================================
