------------------------------ MODULE SegFile ------------------------------
(***************************************************************************)
(* An image on a FAT volume (utils.c, ifntfs is FALSE): FileWrite splits   *)
(* it into segment files, FileRead joins them again.                       *)
(*                                                                         *)
(* Backup writes records, Recover reads them back: a bitmap with one       *)
(* FileRead, a unit with one for its head and one for its data.  A byte is *)
(* its number in the image.                                                *)
(***************************************************************************)
EXTENDS Integers, Sequences

CONSTANTS
  SPLIT_SIZE,
  MY_DEFINE_BUFFER_SIZE,  \* what one call of the firmware may move
  HeadSize,               \* sizeof(lZ4_BUFFER_HEAD)
  Sizes,                  \* the sizes of records
  MaxReqs                 \* bounds the reads the image calls for

ASSUME SizesAssumption ==
  /\ {SPLIT_SIZE, MY_DEFINE_BUFFER_SIZE, HeadSize} \subseteq Nat \ {0} /\ MaxReqs \in Nat
  /\ Sizes \subseteq Nat /\ \A n \in Sizes : n > HeadSize

VARIABLES
  segs,             \* the segment files, sequences of bytes
  total,            \* the bytes written
  todo,             \* the reads the image calls for: [kind, size]
  cut,              \* the end of the image was lost
  pc,
  currentfilesize, currentfileseg, pos, ifeof,  \* the handle
  size, index,      \* the read in progress, and what of it has been done
  buffer,
  out               \* what the reads have returned

handle == <<currentfilesize, currentfileseg, pos, ifeof>>
vars == <<segs, total, todo, cut, pc, handle, size, index, buffer, out>>

Lesser(a, b) == IF a < b THEN a ELSE b

Init ==
  /\ segs = << <<>> >> /\ total = 0 /\ todo = <<>> /\ cut = FALSE /\ pc = "write"
  /\ currentfilesize = 0 /\ currentfileseg = 0 /\ pos = 0 /\ ifeof = FALSE
  /\ size = 0 /\ index = 0 /\ buffer = <<>> /\ out = <<>>

-----------------------------------------------------------------------------
(***************************************************************************)
(* Writing                                                                 *)
(***************************************************************************)
Bytes(n) == [i \in 1..n |-> total + i]

Record(n) ==
  {<<[kind |-> "bitmap", size |-> n]>>,
   <<[kind |-> "head", size |-> HeadSize], [kind |-> "data", size |-> n - HeadSize]>>}

\* Mutant: a record fills the segment up to SPLIT_SIZE and goes on in the next.
FileWriteInside(n) ==
  LET room == SPLIT_SIZE - currentfilesize
      k == IF room > 0 THEN Lesser(n, room) ELSE 0
      s == [segs EXCEPT ![Len(segs)] = @ \o SubSeq(Bytes(n), 1, k)]
  IN IF k < n
       THEN /\ segs' = Append(s, SubSeq(Bytes(n), k + 1, n))
            /\ currentfilesize' = n - k /\ currentfileseg' = currentfileseg + 1
       ELSE /\ segs' = s
            /\ currentfilesize' = currentfilesize + n /\ UNCHANGED currentfileseg

\* The record goes to the current segment as a whole; a segment that is then
\* too large is the last one but one.
FileWrite(n) ==
  LET s == [segs EXCEPT ![Len(segs)] = @ \o Bytes(n)]
  IN IF currentfilesize + n > SPLIT_SIZE
       THEN /\ segs' = Append(s, <<>>)
            /\ currentfilesize' = 0 /\ currentfileseg' = currentfileseg + 1
       ELSE /\ segs' = s
            /\ currentfilesize' = currentfilesize + n /\ UNCHANGED currentfileseg

\* Backup writes one more record; its sequence starts with a bitmap.
WriteRecord ==
  /\ pc = "write"
  /\ \E n \in Sizes : \E r \in Record(n) :
       /\ Len(todo \o r) <= MaxReqs
       /\ todo = <<>> => r[1].kind = "bitmap"
       /\ FileWrite(n)
       /\ total' = total + n /\ todo' = todo \o r
  /\ UNCHANGED <<cut, pc, pos, ifeof, size, index, buffer, out>>

\* A record cannot be written, or the next segment not be opened: Backup
\* gives up and deletes the image.
FileWriteFails ==
  /\ pc = "write" /\ pc' = "done"
  /\ UNCHANGED <<segs, total, todo, cut, handle, size, index, buffer, out>>

EndWrite ==
  /\ pc = "write" /\ pc' = "open"
  /\ UNCHANGED <<segs, total, todo, cut, handle, size, index, buffer, out>>

\* A later copy of the image, or its volume, loses the end.
LoseEnd ==
  /\ pc = "open" /\ ~cut /\ cut' = TRUE
  /\ \E k \in 1..Len(segs) : \E n \in 0..Len(segs[k]) :
       segs' = Append(SubSeq(segs, 1, k - 1), SubSeq(segs[k], 1, n))
  /\ UNCHANGED <<total, todo, pc, handle, size, index, buffer, out>>

-----------------------------------------------------------------------------
(***************************************************************************)
(* Reading                                                                 *)
(***************************************************************************)
FileOpen ==
  /\ pc = "open" /\ pc' = "idle"
  /\ currentfilesize' = 0 /\ currentfileseg' = 0 /\ pos' = 0 /\ ifeof' = FALSE
  /\ UNCHANGED <<segs, total, todo, cut, size, index, buffer, out>>

\* FileRead for the next request.
FileRead ==
  /\ pc = "idle" /\ todo # <<>>
  /\ size' = Head(todo).size /\ index' = 0 /\ buffer' = <<>>
  /\ pc' = IF ifeof THEN "return" ELSE "read"
  /\ UNCHANGED <<segs, total, todo, cut, handle, out>>

\* Mutant: the last round of the loop asks for as much as the others.
BufferSizeFull == IF size < MY_DEFINE_BUFFER_SIZE THEN size ELSE MY_DEFINE_BUFFER_SIZE

\* What Read of the firmware is asked for.
BufferSize ==
  IF size < MY_DEFINE_BUFFER_SIZE THEN size
  ELSE Lesser(MY_DEFINE_BUFFER_SIZE, size - index)

Left == Len(segs[currentfileseg + 1]) - pos

\* Mutant: index is not advanced.
RoundsStuck(n) == index

\* Where the loop stands after a Read that brought n bytes.
Rounds(n) == index + n

\* One Read.  At the end of a file it brings what is left, at last nothing.  A
\* small request is done with one Read, a large one when index reaches size.
SegFileRead ==
  /\ pc \in {"read", "again"}
  /\ LET n == Lesser(BufferSize, Left)
     IN /\ buffer' = buffer \o SubSeq(segs[currentfileseg + 1], pos + 1, pos + n)
        /\ pos' = pos + n
        /\ index' = Rounds(n)
        /\ pc' = IF size >= MY_DEFINE_BUFFER_SIZE /\ Rounds(n) < size THEN pc
                 ELSE IF pc = "read" /\ buffer' = <<>> THEN "next" ELSE "return"
  /\ UNCHANGED <<segs, total, todo, cut, currentfilesize, currentfileseg, ifeof, size, out>>

\* The firmware reports an error: FALSE up to Recover, which ends.
SegFileReadFails ==
  /\ pc \in {"read", "again"} /\ pc' = "done"
  /\ UNCHANGED <<segs, total, todo, cut, handle, size, index, buffer, out>>

\* Mutant: the number of the segment is advanced once more.
NextSegmentTwice ==
  /\ pc = "next"
  /\ currentfileseg' = currentfileseg + 2 /\ pos' = 0 /\ index' = 0
  /\ IF currentfileseg + 2 < Len(segs) THEN pc' = "again" /\ UNCHANGED ifeof
                                       ELSE pc' = "return" /\ ifeof' = TRUE
  /\ UNCHANGED <<segs, total, todo, cut, currentfilesize, size, buffer, out>>

\* Nothing was read: the next segment is opened and read, or it is the end.
NextSegment ==
  /\ pc = "next"
  /\ currentfileseg' = currentfileseg + 1 /\ pos' = 0 /\ index' = 0
  /\ IF currentfileseg + 1 < Len(segs) THEN pc' = "again" /\ UNCHANGED ifeof
                                       ELSE pc' = "return" /\ ifeof' = TRUE
  /\ UNCHANGED <<segs, total, todo, cut, currentfilesize, size, buffer, out>>

\* The requests after the units of the partition.
NextPart(s) ==
  LET B == {i \in 1..Len(s) : s[i].kind = "bitmap"}
  IN IF B = {} THEN <<>> ELSE SubSeq(s, CHOOSE i \in B : \A j \in B : i <= j, Len(s))

\* What Recover makes of the answer: it goes on with what it asked for, takes
\* no head for the end of the partition and ends with anything else.
Return ==
  /\ pc = "return" /\ out' = out \o buffer
  /\ CASE Len(buffer) = size -> pc' = "idle" /\ todo' = Tail(todo)
       [] buffer = <<>> /\ Head(todo).kind = "head" ->
            pc' = "idle" /\ todo' = NextPart(todo)
       [] OTHER -> pc' = "done" /\ UNCHANGED todo
  /\ UNCHANGED <<segs, total, cut, handle, size, index, buffer>>

Finish ==
  /\ pc = "idle" /\ todo = <<>> /\ pc' = "done"
  /\ UNCHANGED <<segs, total, todo, cut, handle, size, index, buffer, out>>

Step ==
  \/ WriteRecord \/ FileWriteFails \/ EndWrite \/ LoseEnd
  \/ FileOpen \/ FileRead \/ SegFileRead \/ SegFileReadFails \/ NextSegment
  \/ Return \/ Finish

Returned == pc = "done" /\ UNCHANGED vars

Next == Step \/ Returned

\* One thread; the code goes on by itself.
Spec == Init /\ [][Next]_vars
FairSpec == Spec /\ WF_vars(FileRead \/ SegFileRead \/ NextSegment \/ Return \/ Finish)

-----------------------------------------------------------------------------
(***************************************************************************)
(* What must hold.                                                         *)
(***************************************************************************)

\* Every variable keeps its type: the loop of SegFileRead does not ask for more
\* than the buffer of its caller holds (utils.c).
TypeOK ==
  /\ pc \in {"write", "open", "idle", "read", "again", "next", "return", "done"}
  /\ segs \in Seq(Seq(Nat)) /\ total \in Nat
  /\ currentfileseg \in Nat /\ pos \in Nat /\ ifeof \in BOOLEAN
  /\ size \in Nat /\ index \in 0..size /\ Len(buffer) <= size

\* What FileRead has returned is the beginning of what FileWrite was given: also
\* across segments, and whatever of the end was lost.
ReadsInOrder == \A i \in 1..Len(out) : out[i] = i

\* No request ever straddles two segments of a complete image: a request is
\* answered in full (func.c relies on it when it takes less for an error).
RequestsAreWhole == pc = "return" /\ ~cut => Len(buffer) = size

\* A read that the segment can answer, and any small one, comes to an end.
ReadEnds ==
  (pc \in {"read", "again"} /\ (size < MY_DEFINE_BUFFER_SIZE \/ size - index <= Left))
  ~> pc \notin {"read", "again"}

-----------------------------------------------------------------------------
(***************************************************************************)
(* What a comment of the code says.                                        *)
(***************************************************************************)

\* utils.c:2756: at the end of a file a read returns with another size or 0.
FileReadReturns == pc = "read" ~> pc \in {"return", "done"}
-----------------------------------------------------------------------------
(***************************************************************************)
(* The inductive strengthening of the safety properties.                   *)
(***************************************************************************)
Request == [kind : {"bitmap", "head", "data"}, size : Nat \ {0}]
Asked == {"read", "again", "next", "return"}
Reading == {"idle"} \cup Asked

\* The number of the byte that segment k begins with, or would.
First(k) == IF k = 1 THEN 1 ELSE segs[k - 1][1] + Len(segs[k - 1])

\* The segments hold the bytes in order, and only the last can be empty.
SegsInv ==
  /\ Len(segs) >= 1
  /\ \A k \in 1..(Len(segs) - 1) : segs[k] # <<>>
  /\ \A k \in 1..Len(segs) : \A i \in 1..Len(segs[k]) : segs[k][i] = First(k) + i - 1
  /\ pc = "write" => total + 1 = First(Len(segs)) + Len(segs[Len(segs)])

\* The read in progress: what it has brought continues what the reads before it
\* have returned, and a small one is done with one Read.
RequestInv ==
  /\ todo \in Seq(Request) /\ buffer \in Seq(Nat) /\ out \in Seq(Nat) /\ currentfilesize \in Nat
  /\ pc \in {"write", "open"} => out = <<>>
  /\ pc \in Asked => /\ todo # <<>> /\ size = todo[1].size
                     /\ \A i \in 1..Len(buffer) : buffer[i] = Len(out) + i
  /\ pc = "return" /\ ifeof => buffer = <<>>
  /\ pc \in {"read", "again"} =>
       /\ ~ifeof /\ index = Len(buffer) /\ index < size
       /\ size < MY_DEFINE_BUFFER_SIZE => index = 0
  /\ ReadsInOrder

\* The handle is at the byte after what was returned and what is in the buffer of
\* the read in progress.  Only at its end a segment is left.
CursorInv ==
  /\ pc \in Reading /\ ~ifeof =>
       /\ currentfileseg < Len(segs) /\ pos <= Len(segs[currentfileseg + 1])
       /\ Len(out) + (IF pc = "idle" THEN 0 ELSE Len(buffer)) + 1 = First(currentfileseg + 1) + pos
  /\ pc = "next" => ~ifeof /\ buffer = <<>> /\ Left = 0

\* Offset o of segment k is where the image goes on after offset b of segment a:
\* the same place, or the beginning of the next segment when a ends at b.
Follows(k, o, a, b) == (k = a /\ o = b) \/ (k = a + 1 /\ o = 0 /\ b = Len(segs[a]))

\* Request i lies at offset off[i] of segment seg[i] and does not leave it.
Laid(seg, off) ==
  \A i \in 1..Len(todo) :
    /\ off[i] + todo[i].size <= Len(segs[seg[i]])
    /\ Follows(seg[i + 1], off[i + 1], seg[i], off[i] + todo[i].size)

\* The first request lies where the handle is, or was when the request began.
Stands(seg, off) ==
  /\ pc \in {"write", "open"} => seg[1] = 1 /\ off[1] = 0
  /\ pc = "write" => /\ seg[Len(todo) + 1] = Len(segs)
                     /\ off[Len(todo) + 1] = Len(segs[Len(segs)])
  /\ pc = "idle" => Follows(seg[1], off[1], currentfileseg + 1, pos)
  /\ pc = "read" => \/ seg[1] = currentfileseg + 1 /\ off[1] + index = pos
                    \/ index = 0 /\ Follows(seg[1], off[1], currentfileseg + 1, pos)
  /\ pc = "again" => seg[1] = currentfileseg + 1 /\ off[1] + index = pos
  /\ pc = "next" => seg[1] = currentfileseg + 2 /\ off[1] = 0
  /\ pc = "return" => Follows(seg[2], off[2], currentfileseg + 1, pos)

\* A complete image has a place for every request that is left.
LaidInv ==
  ~cut /\ pc # "done" =>
    /\ \E seg \in [1..(Len(todo) + 1) -> 1..Len(segs)], off \in [1..(Len(todo) + 1) -> Nat] :
         Laid(seg, off) /\ Stands(seg, off)
    /\ pc \in Reading => ~ifeof
    /\ pc = "return" => Len(buffer) = size

\* The inductive invariant.
IInv == TypeOK /\ SegsInv /\ RequestInv /\ CursorInv /\ LaidInv
=============================================================================
