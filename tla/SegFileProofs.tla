--------------------------- MODULE SegFileProofs ---------------------------
(***************************************************************************)
(* Splitting an image into segments and joining them, proved for every     *)
(* SPLIT_SIZE, every buffer size and every sequence of records.            *)
(***************************************************************************)
EXTENDS SegFile, RankTheorems

-----------------------------------------------------------------------------
(***************************************************************************)
(* Sequences.                                                              *)
(***************************************************************************)

\* A sequence with one element replaced.
LEMMA ExceptSeq ==
  ASSUME NEW S, NEW s \in Seq(S), NEW k \in 1..Len(s), NEW e \in S
  PROVE  /\ [s EXCEPT ![k] = e] \in Seq(S)
         /\ Len([s EXCEPT ![k] = e]) = Len(s)
         /\ [s EXCEPT ![k] = e][k] = e
         /\ \A j \in 1..Len(s) : j # k => [s EXCEPT ![k] = e][j] = s[j]
OBVIOUS

\* One sequence behind another.
LEMMA ConcatSeq ==
  ASSUME NEW S, NEW s \in Seq(S), NEW t \in Seq(S)
  PROVE  /\ s \o t \in Seq(S) /\ Len(s \o t) = Len(s) + Len(t)
         /\ \A j \in 1..Len(s) : (s \o t)[j] = s[j]
         /\ \A j \in 1..Len(t) : (s \o t)[Len(s) + j] = t[j]
         /\ \A j \in (Len(s) + 1)..(Len(s) + Len(t)) : (s \o t)[j] = t[j - Len(s)]
OBVIOUS

\* One element behind a sequence.
LEMMA AppendSeq ==
  ASSUME NEW S, NEW s \in Seq(S), NEW e \in S
  PROVE  /\ Append(s, e) \in Seq(S) /\ Len(Append(s, e)) = Len(s) + 1
         /\ \A j \in 1..Len(s) : Append(s, e)[j] = s[j]
         /\ Append(s, e)[Len(s) + 1] = e
OBVIOUS

\* A piece of a sequence, which may be empty.
LEMMA PieceSeq ==
  ASSUME NEW S, NEW s \in Seq(S), NEW a \in Nat, NEW b \in Nat, b <= Len(s), a <= b
  PROVE  /\ SubSeq(s, a + 1, b) \in Seq(S) /\ Len(SubSeq(s, a + 1, b)) = b - a
         /\ \A j \in 1..(b - a) : SubSeq(s, a + 1, b)[j] = s[a + j]
OBVIOUS

\* All but the first element.
LEMMA TailSeq ==
  ASSUME NEW S, NEW s \in Seq(S), s # <<>>
  PROVE  /\ Tail(s) \in Seq(S) /\ Len(Tail(s)) = Len(s) - 1 /\ Len(s) \in Nat \ {0}
         /\ \A j \in 1..(Len(s) - 1) : Tail(s)[j] = s[j + 1]
OBVIOUS

-----------------------------------------------------------------------------
(***************************************************************************)
(* Init and the steps that only move the pc.                               *)
(***************************************************************************)

\* IInv holds before the first record.
LEMMA InitIInv == Init => IInv
<1> SUFFICES ASSUME Init PROVE IInv
  OBVIOUS
<1> USE DEF Init
<1>1. /\ segs \in Seq(Seq(Nat)) /\ Len(segs) = 1 /\ segs[1] = <<>> /\ Len(segs[1]) = 0
      /\ \A k \in 1..Len(segs) : k = 1
  OBVIOUS
<1>2. TypeOK
  <2>1. pc = "write" /\ total = 0 /\ currentfileseg = 0 /\ pos = 0
    OBVIOUS
  <2>2. size = 0 /\ index = 0 /\ Len(buffer) = 0
    OBVIOUS
  <2>3. ifeof \in BOOLEAN
    OBVIOUS
  <2> HIDE DEF Init
  <2> QED BY <1>1, <2>1, <2>2, <2>3 DEF TypeOK
<1>3. SegsInv
  BY <1>1 DEF SegsInv, First
<1>4. RequestInv
  BY DEF RequestInv, ReadsInOrder, Asked
<1>5. CursorInv
  BY DEF CursorInv, Reading, Asked
<1>6. LaidInv
  <2> DEFINE seg == [i \in 1..(Len(todo) + 1) |-> 1]
             off == [i \in 1..(Len(todo) + 1) |-> 0]
  <2>1. Len(todo) = 0
    OBVIOUS
  <2>2. /\ seg \in [1..(Len(todo) + 1) -> 1..Len(segs)] /\ off \in [1..(Len(todo) + 1) -> Nat]
        /\ seg[1] = 1 /\ off[1] = 0
    BY <1>1, <2>1
  <2> HIDE DEF seg, off
  <2>3. Laid(seg, off)
    BY <2>1 DEF Laid
  <2>4. Stands(seg, off)
    BY <1>1, <2>1, <2>2 DEF Stands
  <2> QED BY <2>2, <2>3, <2>4 DEF LaidInv, Reading, Asked
<1> QED BY <1>2, <1>3, <1>4, <1>5, <1>6 DEF IInv

\* Places stay what they are as long as segments and requests do.
LEMMA SameLaid ==
  ASSUME UNCHANGED <<segs, todo>>, NEW seg, NEW off
  PROVE  /\ Laid(seg, off) <=> Laid(seg, off)'
         /\ \A k, o, a, b : Follows(k, o, a, b) <=> Follows(k, o, a, b)'
BY DEF Laid, Follows

\* LaidInv after a step that moves the handle only.
LEMMA SameImage ==
  ASSUME LaidInv, UNCHANGED <<segs, todo, cut>>, ~cut, pc # "done",
         pc' \in Reading => ~ifeof', pc' = "return" => Len(buffer') = size',
         \A seg \in [1..(Len(todo) + 1) -> 1..Len(segs)], off \in [1..(Len(todo) + 1) -> Nat] :
           Laid(seg, off) /\ Stands(seg, off) => Stands(seg, off)'
  PROVE  LaidInv'
<1>1. PICK seg \in [1..(Len(todo) + 1) -> 1..Len(segs)], off \in [1..(Len(todo) + 1) -> Nat] :
        Laid(seg, off) /\ Stands(seg, off)
  BY DEF LaidInv
<1>2. /\ seg \in [1..(Len(todo') + 1) -> 1..Len(segs')] /\ off \in [1..(Len(todo') + 1) -> Nat]
      /\ Laid(seg, off)' /\ Stands(seg, off)'
  BY <1>1, SameLaid
<1> QED BY <1>2 DEF LaidInv, Reading, Asked

\* The byte a segment begins with is a number.
LEMMA FirstIsNumber ==
  ASSUME TypeOK, SegsInv, NEW c \in 1..Len(segs)
  PROVE  First(c) \in Int
<1>0. segs \in Seq(Seq(Nat))
  BY DEF TypeOK
<1>1. CASE c = 1
  BY <1>1 DEF First
<1>2. CASE c # 1
  <2>1. c - 1 \in 1..(Len(segs) - 1) /\ c - 1 \in 1..Len(segs)
    BY <1>0, <1>2
  <2>2. segs[c - 1] \in Seq(Nat) /\ segs[c - 1] # <<>>
    BY <1>0, <2>1 DEF SegsInv
  <2>3. segs[c - 1][1] \in Nat /\ Len(segs[c - 1]) \in Nat
    BY <2>2
  <2> QED BY <1>2, <2>3 DEF First
<1> QED BY <1>1, <1>2

\* A run that has ended keeps nothing but the bytes it has returned.
LEMMA EndStep ==
  ASSUME IInv, pc' = "done", UNCHANGED <<segs, total, todo, cut, handle, size, index, buffer, out>>
  PROVE  IInv'
<1>1. TypeOK'
  BY DEF IInv, TypeOK, handle
<1>2. SegsInv'
  BY DEF IInv, SegsInv, First
<1>3. RequestInv'
  BY DEF IInv, RequestInv, ReadsInOrder, Asked, handle
<1>4. CursorInv'
  BY DEF CursorInv, Reading, Asked
<1>5. LaidInv'
  BY DEF LaidInv
<1> QED BY <1>1, <1>2, <1>3, <1>4, <1>5 DEF IInv

\* Stuttering.
LEMMA StutterIInv ==
  ASSUME IInv, UNCHANGED vars
  PROVE  IInv'
<1>1. TypeOK'
  BY DEF IInv, TypeOK, vars, handle
<1>2. SegsInv'
  BY DEF IInv, SegsInv, First, vars
<1>3. RequestInv'
  BY DEF IInv, RequestInv, ReadsInOrder, Asked, vars, handle
<1>4. CursorInv'
  BY DEF IInv, CursorInv, Reading, Asked, vars, handle, First, Left
<1>5. LaidInv'
  <2>1. SUFFICES ASSUME ~cut, pc # "done" PROVE LaidInv'
    BY DEF LaidInv, vars
  <2>2. \A seg, off : Stands(seg, off) => Stands(seg, off)'
    BY DEF Stands, Follows, vars, handle
  <2> QED BY <2>1, <2>2, SameImage DEF IInv, LaidInv, Reading, Asked, vars, handle
<1> QED BY <1>1, <1>2, <1>3, <1>4, <1>5 DEF IInv

\* FileWriteFails: the image is given up.
LEMMA FileWriteFailsStep == IInv /\ FileWriteFails => IInv'
BY EndStep DEF FileWriteFails

\* SegFileReadFails: the restore ends.
LEMMA SegFileReadFailsStep == IInv /\ SegFileReadFails => IInv'
BY EndStep DEF SegFileReadFails

\* Finish: everything was read.
LEMMA FinishStep == IInv /\ Finish => IInv'
BY EndStep DEF Finish

\* EndWrite: the image is complete.
LEMMA EndWriteStep == IInv /\ EndWrite => IInv'
<1> SUFFICES ASSUME IInv, EndWrite PROVE IInv'
  OBVIOUS
<1> USE DEF EndWrite
<1>1. TypeOK'
  BY DEF IInv, TypeOK, handle
<1>2. SegsInv'
  BY DEF IInv, SegsInv, First
<1>3. RequestInv'
  BY DEF IInv, RequestInv, ReadsInOrder, Asked, handle
<1>4. CursorInv'
  BY DEF CursorInv, Reading, Asked
<1>5. LaidInv'
  <2>1. SUFFICES ASSUME ~cut PROVE LaidInv'
    BY DEF LaidInv
  <2>2. \A seg, off : Stands(seg, off) => Stands(seg, off)'
    BY DEF Stands
  <2> QED BY <2>1, <2>2, SameImage DEF IInv, Reading, Asked
<1> QED BY <1>1, <1>2, <1>3, <1>4, <1>5 DEF IInv

\* FileOpen: the handle is at the first byte.
LEMMA FileOpenStep == IInv /\ FileOpen => IInv'
<1> SUFFICES ASSUME IInv, FileOpen PROVE IInv'
  OBVIOUS
<1> USE DEF FileOpen
<1>0. TypeOK /\ SegsInv /\ RequestInv /\ LaidInv
  BY DEF IInv
<1>1. TypeOK'
  BY <1>0 DEF TypeOK
<1>2. SegsInv'
  BY <1>0 DEF SegsInv, First
<1>3. RequestInv'
  BY <1>0 DEF RequestInv, ReadsInOrder, Asked
<1>4. CursorInv'
  <2>1. Len(out') = 0 /\ Len(segs) >= 1 /\ Len(segs[1]) \in Nat
    BY <1>0 DEF RequestInv, SegsInv, TypeOK
  <2>2. First(1)' = 1
    BY DEF First
  <2> QED BY <2>1, <2>2 DEF CursorInv, Reading, Asked
<1>5. LaidInv'
  <2>1. SUFFICES ASSUME ~cut PROVE LaidInv'
    BY DEF LaidInv
  <2>2. \A seg, off : Stands(seg, off) => Stands(seg, off)'
    BY DEF Stands, Follows
  <2> QED BY <1>0, <2>1, <2>2, SameImage DEF Reading, Asked
<1> QED BY <1>1, <1>2, <1>3, <1>4, <1>5 DEF IInv

\* FileRead: the request begins, at the end of the image it is over at once.
LEMMA FileReadStep == IInv /\ FileRead => IInv'
<1> SUFFICES ASSUME IInv, FileRead PROVE IInv'
  OBVIOUS
<1> USE DEF FileRead
<1>0. TypeOK /\ SegsInv /\ RequestInv /\ CursorInv /\ LaidInv
  BY DEF IInv
<1>a. /\ todo \in Seq(Request) /\ todo # <<>> /\ Head(todo) = todo[1] /\ todo[1] \in Request
      /\ size' = todo[1].size /\ size' \in Nat \ {0} /\ buffer' = <<>> /\ Len(buffer') = 0 /\ index' = 0
      /\ pc' \in {"read", "return"} /\ (pc' = "return" <=> ifeof)
  <2>1. todo \in Seq(Request) /\ todo # <<>> /\ ifeof \in BOOLEAN
    BY <1>0 DEF RequestInv, TypeOK
  <2>2. Head(todo) = todo[1] /\ todo[1] \in Request
    BY <2>1
  <2>3. todo[1].size \in Nat \ {0}
    BY <2>2 DEF Request
  <2> QED BY <2>1, <2>2, <2>3
<1>b. UNCHANGED <<segs, total, todo, cut, currentfilesize, currentfileseg, pos, ifeof, out>>
  BY DEF handle
<1>1. TypeOK'
  BY <1>0, <1>a, <1>b DEF TypeOK
<1>2. SegsInv'
  BY <1>0, <1>a, <1>b DEF SegsInv, First
<1>3. RequestInv'
  BY <1>0, <1>a, <1>b DEF RequestInv, ReadsInOrder, Asked
<1>4. CursorInv'
  BY <1>0, <1>a, <1>b DEF CursorInv, Reading, Asked, First
<1>5. LaidInv'
  <2>1. SUFFICES ASSUME ~cut PROVE LaidInv'
    BY <1>b DEF LaidInv
  <2>2. ~ifeof /\ pc' = "read"
    BY <1>0, <1>a, <2>1 DEF LaidInv, Reading
  <2>3. \A seg, off : Stands(seg, off) => Stands(seg, off)'
    BY <1>a, <1>b, <2>2 DEF Stands, Follows
  <2> QED BY <1>0, <1>a, <1>b, <2>1, <2>2, <2>3, SameImage DEF Reading, Asked
<1> QED BY <1>1, <1>2, <1>3, <1>4, <1>5 DEF IInv

-----------------------------------------------------------------------------
(***************************************************************************)
(* Writing.                                                                *)
(***************************************************************************)

\* What FileWrite(n) does to the L segments, the last of which has z bytes: it gets
\* the n bytes after the total, and an empty one may follow it.
Grown(n, L, z) ==
  /\ L \in Nat \ {0} /\ z \in Nat /\ segs' \in Seq(Seq(Nat))
  /\ Len(segs') = L \/ (Len(segs') = L + 1 /\ segs'[L + 1] = <<>>)
  /\ \A k \in 1..(L - 1) : segs'[k] = segs[k]
  /\ segs[L] \in Seq(Nat) /\ segs'[L] \in Seq(Nat) /\ Len(segs'[L]) = z + n
  /\ \A i \in 1..z : segs'[L][i] = segs[L][i]
  /\ \A i \in (z + 1)..(z + n) : segs'[L][i] = total + i - z

\* FileWrite does that, whether it splits or not.
LEMMA WrittenSegs ==
  ASSUME TypeOK, SegsInv, NEW n \in Nat \ {0}, FileWrite(n),
         NEW L \in Nat, L = Len(segs), NEW z \in Nat, z = Len(segs[L])
  PROVE  Grown(n, L, z)
<1>1. segs \in Seq(Seq(Nat)) /\ L \in Nat \ {0} /\ total \in Nat /\ segs[L] \in Seq(Nat) /\ z \in Nat
  BY DEF TypeOK, SegsInv
<1>b. PICK b : b = Bytes(n)
  OBVIOUS
<1>2. b \in Seq(Nat) /\ Len(b) = n /\ \A i \in 1..n : b[i] = total + i
  BY <1>1, <1>b DEF Bytes
<1>e. PICK e : e = segs[L] \o b
  OBVIOUS
<1>s. PICK s : s = [segs EXCEPT ![L] = e]
  OBVIOUS
<1>3. segs' = Append(s, <<>>) \/ segs' = s
  BY <1>b, <1>e, <1>s DEF FileWrite
<1>4. /\ e \in Seq(Nat) /\ Len(e) = z + n
      /\ \A i \in 1..z : e[i] = segs[L][i]
      /\ \A i \in (z + 1)..(z + n) : e[i] = b[i - z]
  <2>1. PICK a \in Seq(Nat) : a = segs[L]
    BY <1>1
  <2>2. /\ e \in Seq(Nat) /\ Len(e) = Len(a) + Len(b)
        /\ \A i \in 1..Len(a) : e[i] = a[i]
        /\ \A i \in (Len(a) + 1)..(Len(a) + Len(b)) : e[i] = b[i - Len(a)]
    <3>1. e = a \o b
      BY <1>e, <2>1
    <3>2. /\ a \o b \in Seq(Nat) /\ Len(a \o b) = Len(a) + Len(b)
          /\ \A i \in 1..Len(a) : (a \o b)[i] = a[i]
          /\ \A i \in (Len(a) + 1)..(Len(a) + Len(b)) : (a \o b)[i] = b[i - Len(a)]
      <4>1. a \in Seq(Nat) /\ b \in Seq(Nat)
        BY <1>2, <2>1
      <4>2. a \o b \in Seq(Nat)
        BY <4>1, ConcatSeq
      <4>3. Len(a \o b) = Len(a) + Len(b)
        BY <4>1, ConcatSeq
      <4>4. \A i \in 1..Len(a) : (a \o b)[i] = a[i]
        BY <4>1, ConcatSeq
      <4>5. \A i \in (Len(a) + 1)..(Len(a) + Len(b)) : (a \o b)[i] = b[i - Len(a)]
        BY <4>1, ConcatSeq
      <4> QED BY <4>2, <4>3, <4>4, <4>5
    <3> QED BY <3>1, <3>2, Zenon
  <2> QED BY <1>2, <2>1, <2>2
<1>5. \A i \in (z + 1)..(z + n) : e[i] = total + i - z
  <2> TAKE i \in (z + 1)..(z + n)
  <2>1. i - z \in 1..n
    BY <1>1
  <2> QED BY <1>1, <1>2, <1>4, <2>1
<1>6. /\ s \in Seq(Seq(Nat)) /\ Len(s) = L /\ s[L] = e
      /\ \A k \in 1..(L - 1) : s[k] = segs[k]
  <2>1. L \in 1..Len(segs)
    BY <1>1
  <2> QED BY <1>1, <1>4, <1>s, <2>1, ExceptSeq
<1>7. /\ segs' \in Seq(Seq(Nat)) /\ \A k \in 1..L : segs'[k] = s[k]
      /\ Len(segs') = L \/ (Len(segs') = L + 1 /\ segs'[L + 1] = <<>>)
  <2>1. CASE segs' = s
    BY <1>6, <2>1
  <2>2. CASE segs' = Append(s, <<>>)
    <3>1. <<>> \in Seq(Nat)
      OBVIOUS
    <3> QED BY <1>6, <2>2, <3>1, AppendSeq
  <2> QED BY <1>3, <2>1, <2>2
<1>8. segs'[L] = e /\ \A k \in 1..(L - 1) : segs'[k] = segs[k]
  BY <1>1, <1>6, <1>7
<1> QED BY <1>1, <1>4, <1>5, <1>7, <1>8 DEF Grown

\* The segments stay in order.
LEMMA WrittenInOrder ==
  ASSUME TypeOK, SegsInv, pc = "write", pc' = "write", NEW n \in Nat \ {0}, FileWrite(n),
         total' = total + n
  PROVE  SegsInv'
<1>0. PICK L \in Nat \ {0} : L = Len(segs)
  BY DEF TypeOK, SegsInv
<1>z. PICK z \in Nat : z = Len(segs[L])
  BY <1>0 DEF TypeOK
<1>a. Grown(n, L, z)
  BY <1>0, <1>z, WrittenSegs
<1>1. /\ L \in Nat \ {0} /\ z \in Nat /\ segs' \in Seq(Seq(Nat))
      /\ Len(segs') = L \/ (Len(segs') = L + 1 /\ segs'[L + 1] = <<>>)
      /\ \A k \in 1..(L - 1) : segs'[k] = segs[k]
      /\ segs[L] \in Seq(Nat) /\ segs'[L] \in Seq(Nat) /\ Len(segs'[L]) = z + n
      /\ \A i \in 1..z : segs'[L][i] = segs[L][i]
      /\ \A i \in (z + 1)..(z + n) : segs'[L][i] = total + i - z
  BY <1>a DEF Grown
<1>2. z \in Nat /\ total \in Nat
  BY <1>z, <1>1 DEF TypeOK
<1>3. \A k \in 1..L : First(k)' = First(k)
  <2> TAKE k \in 1..L
  <2>1. k # 1 => k - 1 \in 1..(L - 1)
    BY <1>1
  <2> QED BY <1>1, <2>1 DEF First
<1>4. First(L) \in Int /\ total + 1 = First(L) + z
  <2>1. total + 1 = First(L) + z
    BY <1>0, <1>z DEF SegsInv
  <2>2. L \in 1..Len(segs)
    BY <1>0
  <2> QED BY <2>1, <2>2, FirstIsNumber
<1>f. PICK F \in Int : F = First(L)
  BY <1>4
<1>g. total + 1 = F + z
  BY <1>4, <1>f
<1>5. \A k \in 1..L : \A i \in 1..Len(segs'[k]) : segs'[k][i] = First(k) + i - 1
  <2> TAKE k \in 1..L
  <2> TAKE i \in 1..Len(segs'[k])
  <2>1. CASE k # L
    <3>1. k \in 1..(L - 1)
      BY <1>1, <2>1
    <3>2. segs'[k] = segs[k] /\ i \in 1..Len(segs[k]) /\ k \in 1..Len(segs)
      BY <1>0, <1>1, <3>1
    <3> QED BY <3>2 DEF SegsInv
  <2>2. CASE k = L /\ i <= z
    BY <1>0, <1>z, <1>1, <1>2, <2>2 DEF SegsInv
  <2>3. CASE k = L /\ i > z
    <3>1. i \in (z + 1)..(z + n)
      BY <1>1, <1>2, <2>3
    <3>2. segs'[k][i] = total + i - z
      BY <1>1, <2>3, <3>1
    <3>3. i \in Int /\ total + i - z = F + i - 1
      BY <1>2, <1>g, <3>1
    <3> QED BY <1>f, <2>3, <3>2, <3>3
  <2> QED BY <1>2, <2>1, <2>2, <2>3
<1>6. \A k \in 1..(L - 1) : segs'[k] # <<>>
  BY <1>0, <1>1 DEF SegsInv
<1>7. segs'[L] # <<>> /\ segs'[L][1] = First(L)
  <2>1. Len(segs'[L]) # 0 /\ 1 \in 1..Len(segs'[L])
    BY <1>1, <1>2
  <2>2. segs'[L][1] = First(L) + 1 - 1
    BY <1>1, <1>5, <2>1
  <2> QED BY <1>1, <1>4, <2>1, <2>2
<1>8. Len(segs') = L + 1 => First(L + 1)' = F + z + n
  <2>1. L + 1 # 1 /\ (L + 1) - 1 = L
    BY <1>1
  <2>2. First(L + 1)' = segs'[L][1] + Len(segs'[L])
    BY <2>1 DEF First
  <2>3. segs'[L][1] = F /\ Len(segs'[L]) = z + n
    BY <1>1, <1>7, <1>f
  <2> QED BY <1>2, <2>2, <2>3
<1>9. CASE Len(segs') = L
  <2>1. \A k \in 1..(Len(segs') - 1) : segs'[k] # <<>>
    BY <1>1, <1>6, <1>9
  <2>2. \A k \in 1..Len(segs') : \A i \in 1..Len(segs'[k]) : segs'[k][i] = First(k)' + i - 1
    BY <1>3, <1>5, <1>9
  <2>3. total' + 1 = First(Len(segs))' + Len(segs'[Len(segs')])
    <3>1. L \in 1..L
      BY <1>1
    <3>2. First(Len(segs))' = F
      BY <1>3, <1>9, <1>f, <3>1
    <3>3. Len(segs'[Len(segs')]) = z + n
      BY <1>1, <1>9
    <3> QED BY <1>2, <1>g, <3>2, <3>3
  <2> QED BY <1>1, <1>9, <2>1, <2>2, <2>3 DEF SegsInv
<1>10. CASE Len(segs') = L + 1
  <2>1. \A k \in 1..(Len(segs') - 1) : segs'[k] # <<>>
    BY <1>1, <1>6, <1>7, <1>10
  <2>2. segs'[L + 1] = <<>> /\ Len(segs'[L + 1]) = 0
    BY <1>1, <1>10
  <2>3. \A k \in 1..Len(segs') : \A i \in 1..Len(segs'[k]) : segs'[k][i] = First(k)' + i - 1
    <3> TAKE k \in 1..Len(segs')
    <3>1. k \in 1..L \/ k = L + 1
      BY <1>1, <1>10
    <3> QED BY <1>3, <1>5, <2>2, <3>1
  <2>4. total' + 1 = First(Len(segs))' + Len(segs'[Len(segs')])
    BY <1>2, <1>g, <1>8, <1>10, <2>2
  <2> QED BY <1>1, <1>10, <2>1, <2>3, <2>4 DEF SegsInv
<1> QED BY <1>1, <1>9, <1>10

\* A place in a segment stays one, and what follows it still does.
LEMMA OldPlaces ==
  ASSUME NEW n \in Nat \ {0}, NEW L \in Nat, L = Len(segs), NEW z \in Nat, z = Len(segs[L]),
         TypeOK, Grown(n, L, z), NEW a \in 1..L
  PROVE  /\ Len(segs[a]) \in Nat /\ Len(segs'[a]) \in Nat /\ Len(segs[a]) <= Len(segs'[a])
         /\ \A k \in 1..L : \A o, b : Follows(k, o, a, b) => Follows(k, o, a, b)'
<1>1. /\ L \in Nat \ {0} /\ \A k \in 1..(L - 1) : segs'[k] = segs[k]
      /\ Len(segs'[L]) = z + n /\ segs[a] \in Seq(Nat)
  BY DEF Grown, TypeOK
<1>2. /\ Len(segs[a]) \in Nat /\ Len(segs'[a]) \in Nat /\ Len(segs[a]) <= Len(segs'[a])
      /\ a # L => segs'[a] = segs[a]
  <2>1. CASE a = L
    BY <1>1, <2>1
  <2>2. CASE a # L
    <3>1. a \in 1..(L - 1)
      BY <1>1, <2>2
    <3> QED BY <1>1, <3>1
  <2> QED BY <2>1, <2>2
<1>3. ASSUME NEW k \in 1..L, NEW o, NEW b, Follows(k, o, a, b) PROVE Follows(k, o, a, b)'
  <2>1. k = a + 1 => a # L
    OBVIOUS
  <2> QED BY <1>2, <1>3, <2>1 DEF Follows
<1> QED BY <1>2, <1>3

\* The M requests and one or two more that take n bytes together.
Added(n, M) ==
  /\ n \in Nat \ {0} /\ todo \in Seq(Request) /\ todo' \in Seq(Request) /\ M = Len(todo)
  /\ \A i \in 1..M : todo'[i] = todo[i]
  /\ \/ Len(todo') = M + 1 /\ todo'[M + 1].size = n
     \/ /\ Len(todo') = M + 2 /\ HeadSize \in Nat /\ n - HeadSize \in Nat
        /\ todo'[M + 1].size = HeadSize /\ todo'[M + 2].size = n - HeadSize

\* A record adds its requests.
LEMMA NewRequests ==
  ASSUME NEW n \in Sizes, NEW r \in Record(n), todo \in Seq(Request), todo' = todo \o r,
         NEW M \in Nat, M = Len(todo)
  PROVE  Added(n, M)
<1>1. n \in Nat \ {0} /\ HeadSize \in Nat \ {0} /\ n - HeadSize \in Nat \ {0}
  BY SizesAssumption
<1>2. CASE r = <<[kind |-> "bitmap", size |-> n]>>
  <2>1. r \in Seq(Request) /\ Len(r) = 1 /\ r[1].size = n
    BY <1>1, <1>2 DEF Request
  <2>2. todo \o r \in Seq(Request) /\ Len(todo \o r) = Len(todo) + Len(r)
    BY <2>1, ConcatSeq
  <2>3. \A i \in 1..M : (todo \o r)[i] = todo[i]
    BY <2>1, ConcatSeq
  <2>4. (todo \o r)[M + 1] = r[1]
    BY <2>1, ConcatSeq
  <2> QED BY <1>1, <2>1, <2>2, <2>3, <2>4 DEF Added
<1>3. CASE r = <<[kind |-> "head", size |-> HeadSize], [kind |-> "data", size |-> n - HeadSize]>>
  <2>1. r \in Seq(Request) /\ Len(r) = 2 /\ r[1].size = HeadSize /\ r[2].size = n - HeadSize
    BY <1>1, <1>3 DEF Request
  <2>2. todo \o r \in Seq(Request) /\ Len(todo \o r) = Len(todo) + Len(r)
    BY <2>1, ConcatSeq
  <2>3. \A i \in 1..M : (todo \o r)[i] = todo[i]
    BY <2>1, ConcatSeq
  <2>4. (todo \o r)[M + 1] = r[1] /\ (todo \o r)[M + 2] = r[2]
    BY <2>1, ConcatSeq
  <2> QED BY <1>1, <2>1, <2>2, <2>3, <2>4 DEF Added
<1> QED BY <1>2, <1>3 DEF Record

\* The record lies in one segment, and so do its requests.
LEMMA WrittenLaid ==
  ASSUME NEW n \in Nat, NEW M \in Nat
  PROVE  TypeOK /\ SegsInv /\ LaidInv /\ ~cut /\ pc = "write" /\ pc' = "write" /\ Added(n, M)
           /\ FileWrite(n) => LaidInv'
<1>0. SUFFICES ASSUME TypeOK, SegsInv, LaidInv, ~cut, pc = "write", pc' = "write", Added(n, M),
                      FileWrite(n)
               PROVE  LaidInv'
  OBVIOUS
<1>1. M = Len(todo)
  BY <1>0 DEF Added
<1>2. PICK L : L \in Nat \ {0} /\ L = Len(segs)
  <2>1. segs \in Seq(Seq(Nat)) /\ Len(segs) >= 1
    BY <1>0 DEF TypeOK, SegsInv
  <2>2. Len(segs) \in Nat \ {0}
    BY <2>1
  <2> QED BY <2>2
<1>3. PICK z : z \in Nat /\ z = Len(segs[L])
  <2>1. segs \in Seq(Seq(Nat)) /\ L \in 1..Len(segs)
    BY <1>0, <1>2 DEF TypeOK
  <2>2. segs[L] \in Seq(Nat)
    BY <2>1
  <2> QED BY <2>2
<1>4. /\ n \in Nat \ {0} /\ todo \in Seq(Request) /\ todo' \in Seq(Request)
      /\ \A i \in 1..M : todo'[i] = todo[i]
      /\ \/ Len(todo') = M + 1 /\ todo'[M + 1].size = n
         \/ /\ Len(todo') = M + 2 /\ HeadSize \in Nat /\ n - HeadSize \in Nat
            /\ todo'[M + 1].size = HeadSize /\ todo'[M + 2].size = n - HeadSize
  BY <1>0 DEF Added
<1>5. Grown(n, L, z)
  BY <1>0, <1>2, <1>3, <1>4, WrittenSegs
<1>6. PICK seg, off : /\ seg \in [1..(M + 1) -> 1..L] /\ off \in [1..(M + 1) -> Nat]
                      /\ Laid(seg, off) /\ Stands(seg, off)
  BY <1>0, <1>1, <1>2 DEF LaidInv
<1>7. seg[1] = 1 /\ off[1] = 0 /\ seg[M + 1] = L /\ off[M + 1] = z
  BY <1>0, <1>1, <1>2, <1>3, <1>6 DEF Stands
<1>8. PICK K, y : K \in L..(L + 1) /\ y \in Nat /\ K = Len(segs') /\ y = Len(segs'[K])
  <2>1. segs' \in Seq(Seq(Nat)) /\ Len(segs') \in L..(L + 1)
    <3>1. segs' \in Seq(Seq(Nat)) /\ (Len(segs') = L \/ Len(segs') = L + 1)
      BY <1>5 DEF Grown
    <3> QED BY <1>2, <3>1
  <2>2. Len(segs'[Len(segs')]) \in Nat
    BY <1>2, <2>1
  <2> QED BY <2>1, <2>2
<1>9. Len(segs'[L]) = z + n /\ Follows(K, y, L, z + n)'
  BY <1>2, <1>5, <1>8 DEF Grown, Follows
<1>10. \A i \in 1..M :
         /\ off[i] + todo'[i].size <= Len(segs'[seg[i]])
         /\ Follows(seg[i + 1], off[i + 1], seg[i], off[i] + todo[i].size)'
  <2> TAKE i \in 1..M
  <2>1. /\ seg[i] \in 1..L /\ seg[i + 1] \in 1..L /\ off[i] \in Nat
        /\ todo[i].size \in Nat /\ todo'[i] = todo[i]
    <3>1. todo[i] \in Request /\ todo'[i] = todo[i]
      BY <1>1, <1>4
    <3>2. i \in 1..(M + 1) /\ i + 1 \in 1..(M + 1)
      OBVIOUS
    <3>3. seg[i] \in 1..L /\ seg[i + 1] \in 1..L /\ off[i] \in Nat
      BY <1>6, <3>2
    <3> QED BY <3>1, <3>3 DEF Request
  <2>2. /\ off[i] + todo[i].size <= Len(segs[seg[i]])
        /\ Follows(seg[i + 1], off[i + 1], seg[i], off[i] + todo[i].size)
    BY <1>1, <1>6 DEF Laid
  <2>3. /\ Len(segs[seg[i]]) \in Nat /\ Len(segs'[seg[i]]) \in Nat
        /\ Len(segs[seg[i]]) <= Len(segs'[seg[i]])
        /\ \A k \in 1..L : \A o, b : Follows(k, o, seg[i], b) => Follows(k, o, seg[i], b)'
    BY <1>0, <1>2, <1>3, <1>4, <1>5, <2>1, OldPlaces
  <2>4. off[i] + todo[i].size <= Len(segs'[seg[i]])
    <3>1. off[i] + todo[i].size \in Nat
      BY <2>1
    <3> QED BY <2>2, <2>3, <3>1
  <2>5. PICK m : m = todo[i].size /\ m = todo'[i].size
    BY <2>1
  <2>6. Follows(seg[i + 1], off[i + 1], seg[i], off[i] + m)'
    BY <2>1, <2>2, <2>3, <2>5
  <2> QED BY <2>4, <2>5, <2>6
<1>11. CASE Len(todo') = M + 1 /\ todo'[M + 1].size = n
  <2>1. PICK seg1 : /\ seg1 \in [1..(M + 2) -> 1..K]
                    /\ (\A i \in 1..(M + 1) : seg1[i] = seg[i]) /\ seg1[M + 2] = K
    <3> DEFINE f == [i \in 1..(M + 2) |-> IF i = M + 2 THEN K ELSE seg[i]]
    <3>1. f \in [1..(M + 2) -> 1..K] /\ (\A i \in 1..(M + 1) : f[i] = seg[i]) /\ f[M + 2] = K
      BY <1>2, <1>6, <1>8
    <3> QED BY <3>1
  <2>2. PICK off1 : /\ off1 \in [1..(M + 2) -> Nat]
                    /\ (\A i \in 1..(M + 1) : off1[i] = off[i]) /\ off1[M + 2] = y
    <3> DEFINE f == [i \in 1..(M + 2) |-> IF i = M + 2 THEN y ELSE off[i]]
    <3>1. f \in [1..(M + 2) -> Nat] /\ (\A i \in 1..(M + 1) : f[i] = off[i]) /\ f[M + 2] = y
      BY <1>6, <1>8
    <3> QED BY <3>1
  <2>3. ASSUME NEW i \in 1..(M + 1)
        PROVE  /\ off1[i] + todo'[i].size <= Len(segs'[seg1[i]])
               /\ Follows(seg1[i + 1], off1[i + 1], seg1[i], off1[i] + todo[i].size)'
    <3>1. CASE i = M + 1
      <4>1. seg1[i] = L /\ off1[i] = z /\ seg1[i + 1] = K /\ off1[i + 1] = y
        BY <1>7, <2>1, <2>2, <3>1
      <4>2. todo'[i].size = n
        BY <1>11, <3>1
      <4>3. z + n <= z + n
        BY <1>3
      <4> QED BY <1>9, <4>1, <4>2, <4>3
    <3>2. CASE i # M + 1
      <4>1. i \in 1..M /\ i + 1 \in 1..(M + 1)
        BY <3>2
      <4>2. seg1[i] = seg[i] /\ off1[i] = off[i] /\ seg1[i + 1] = seg[i + 1] /\ off1[i + 1] = off[i + 1]
        BY <2>1, <2>2, <4>1
      <4> QED BY <1>10, <4>1, <4>2
    <3> QED BY <3>1, <3>2
  <2>4. 1 \in 1..(M + 1) /\ 1..Len(todo') = 1..(M + 1) /\ Len(todo') + 1 = M + 2
    BY <1>11
  <2>5. Laid(seg1, off1)'
    BY <2>3, <2>4, Zenon DEF Laid
  <2>6. Stands(seg1, off1)'
    <3>1. seg1[1] = 1 /\ off1[1] = 0
      BY <1>7, <2>1, <2>2, <2>4
    <3>2. seg1[Len(todo') + 1] = Len(segs') /\ off1[Len(todo') + 1] = Len(segs'[Len(segs')])
      BY <1>8, <2>1, <2>2, <2>4
    <3> QED BY <1>0, <3>1, <3>2 DEF Stands
  <2>7. seg1 \in [1..(Len(todo') + 1) -> 1..Len(segs')] /\ off1 \in [1..(Len(todo') + 1) -> Nat]
    BY <1>8, <2>1, <2>2, <2>4, Zenon
  <2> QED BY <1>0, <2>5, <2>6, <2>7 DEF LaidInv, Reading, Asked
<1>12. CASE /\ Len(todo') = M + 2 /\ HeadSize \in Nat /\ n - HeadSize \in Nat
            /\ todo'[M + 1].size = HeadSize /\ todo'[M + 2].size = n - HeadSize
  <2>0. /\ z + HeadSize \in Nat /\ z + HeadSize <= z + n /\ z + n <= z + n
        /\ (z + HeadSize) + (n - HeadSize) = z + n
    <3>1. \A a, b, h \in Nat : b - h \in Nat =>
            /\ a + h \in Nat /\ a + h <= a + b /\ a + b <= a + b /\ (a + h) + (b - h) = a + b
      OBVIOUS
    <3>2. z \in Nat /\ n \in Nat
      BY <1>3
    <3> QED BY <1>12, <3>1, <3>2
  <2>1. PICK seg1 : /\ seg1 \in [1..(M + 3) -> 1..K] /\ \A i \in 1..(M + 1) : seg1[i] = seg[i]
                    /\ seg1[M + 2] = L /\ seg1[M + 3] = K
    <3> DEFINE f == [i \in 1..(M + 3) |-> IF i = M + 3 THEN K ELSE IF i = M + 2 THEN L ELSE seg[i]]
    <3>1. /\ f \in [1..(M + 3) -> 1..K] /\ (\A i \in 1..(M + 1) : f[i] = seg[i])
          /\ f[M + 2] = L /\ f[M + 3] = K
      BY <1>2, <1>6, <1>8
    <3> QED BY <3>1
  <2>2. PICK off1 : /\ off1 \in [1..(M + 3) -> Nat] /\ \A i \in 1..(M + 1) : off1[i] = off[i]
                    /\ off1[M + 2] = z + HeadSize /\ off1[M + 3] = y
    <3>1. PICK x : x \in Nat /\ x = z + HeadSize
      BY <2>0
    <3> DEFINE f == [i \in 1..(M + 3) |-> IF i = M + 3 THEN y ELSE IF i = M + 2 THEN x ELSE off[i]]
    <3>2. /\ f \in [1..(M + 3) -> Nat] /\ (\A i \in 1..(M + 1) : f[i] = off[i])
          /\ f[M + 2] = x /\ f[M + 3] = y
      BY <1>6, <1>8, <3>1
    <3> QED BY <3>1, <3>2
  <2>3. ASSUME NEW i \in 1..(M + 2)
        PROVE  /\ off1[i] + todo'[i].size <= Len(segs'[seg1[i]])
               /\ Follows(seg1[i + 1], off1[i + 1], seg1[i], off1[i] + todo[i].size)'
    <3>1. CASE i = M + 2
      <4>1. seg1[i] = L /\ off1[i] = z + HeadSize /\ seg1[i + 1] = K /\ off1[i + 1] = y
        BY <2>1, <2>2, <3>1
      <4>2. todo'[i].size = n - HeadSize
        BY <1>12, <3>1
      <4>3. off1[i] + todo'[i].size = z + n
        BY <2>0, <4>1, <4>2
      <4> QED BY <1>9, <2>0, <4>1, <4>3
    <3>2. CASE i = M + 1
      <4>1. seg1[i] = L /\ off1[i] = z /\ seg1[i + 1] = L /\ off1[i + 1] = z + HeadSize
        BY <1>7, <2>1, <2>2, <3>2
      <4>2. todo'[i].size = HeadSize
        BY <1>12, <3>2
      <4> QED BY <1>9, <2>0, <4>1, <4>2 DEF Follows
    <3>3. CASE i # M + 1 /\ i # M + 2
      <4>1. i \in 1..M /\ i + 1 \in 1..(M + 1) /\ i \in 1..(M + 1)
        BY <3>3
      <4>2. seg1[i] = seg[i] /\ off1[i] = off[i] /\ seg1[i + 1] = seg[i + 1] /\ off1[i + 1] = off[i + 1]
        BY <2>1, <2>2, <4>1
      <4> QED BY <1>10, <4>1, <4>2
    <3> QED BY <3>1, <3>2, <3>3
  <2>4. 1 \in 1..(M + 1) /\ 1..Len(todo') = 1..(M + 2) /\ Len(todo') + 1 = M + 3
    BY <1>12
  <2>5. Laid(seg1, off1)'
    BY <2>3, <2>4, Zenon DEF Laid
  <2>6. Stands(seg1, off1)'
    <3>1. seg1[1] = 1 /\ off1[1] = 0
      BY <1>7, <2>1, <2>2, <2>4
    <3>2. seg1[Len(todo') + 1] = Len(segs') /\ off1[Len(todo') + 1] = Len(segs'[Len(segs')])
      BY <1>8, <2>1, <2>2, <2>4
    <3> QED BY <1>0, <3>1, <3>2 DEF Stands
  <2>7. seg1 \in [1..(Len(todo') + 1) -> 1..Len(segs')] /\ off1 \in [1..(Len(todo') + 1) -> Nat]
    BY <1>8, <2>1, <2>2, <2>4, Zenon
  <2> QED BY <1>0, <2>5, <2>6, <2>7 DEF LaidInv, Reading, Asked
<1> QED BY <1>4, <1>11, <1>12

\* WriteRecord.
LEMMA WriteRecordStep == IInv /\ WriteRecord => IInv'
<1>0. SUFFICES ASSUME IInv, WriteRecord PROVE IInv'
  OBVIOUS
<1>1. TypeOK /\ SegsInv /\ RequestInv /\ CursorInv /\ LaidInv /\ pc = "write" /\ pc' = "write"
  BY <1>0 DEF IInv, WriteRecord
<1>2. PICK n, r : /\ n \in Sizes /\ r \in Record(n) /\ FileWrite(n)
                  /\ total' = total + n /\ todo' = todo \o r
  BY <1>0 DEF WriteRecord
<1>3. UNCHANGED <<cut, pos, ifeof, size, index, buffer, out>>
  BY <1>0 DEF WriteRecord
<1>4. PICK M : M \in Nat /\ M = Len(todo) /\ todo \in Seq(Request)
  BY <1>1 DEF RequestInv
<1>5. Added(n, M)
  BY <1>2, <1>4, NewRequests
<1>6. n \in Nat \ {0} /\ todo' \in Seq(Request)
  BY <1>5 DEF Added
<1>7. SegsInv'
  BY <1>1, <1>2, <1>6, WrittenInOrder
<1>8. segs' \in Seq(Seq(Nat))
  <2>1. PICK L : L \in Nat \ {0} /\ L = Len(segs)
    <3>1. segs \in Seq(Seq(Nat)) /\ Len(segs) >= 1
      BY <1>1 DEF TypeOK, SegsInv
    <3>2. Len(segs) \in Nat \ {0}
      BY <3>1
    <3> QED BY <3>2
  <2>2. PICK z : z \in Nat /\ z = Len(segs[L])
    <3>1. segs[L] \in Seq(Nat)
      BY <1>1, <2>1 DEF TypeOK
    <3> QED BY <3>1
  <2>3. Grown(n, L, z)
    BY <1>1, <1>2, <1>6, <2>1, <2>2, WrittenSegs
  <2> QED BY <2>3 DEF Grown
<1>9. currentfilesize' \in Nat /\ currentfileseg' \in Nat /\ total' \in Nat
  <2>1. currentfilesize \in Nat /\ currentfileseg \in Nat /\ total \in Nat
    BY <1>1 DEF TypeOK, RequestInv
  <2>2. currentfilesize' = 0 \/ currentfilesize' = currentfilesize + n
    BY <1>2 DEF FileWrite
  <2>3. currentfileseg' = currentfileseg + 1 \/ currentfileseg' = currentfileseg
    BY <1>2 DEF FileWrite
  <2> QED BY <1>2, <1>6, <2>1, <2>2, <2>3
<1>10. TypeOK'
  BY <1>1, <1>3, <1>8, <1>9 DEF TypeOK
<1>11. RequestInv'
  BY <1>1, <1>3, <1>6, <1>9 DEF RequestInv, ReadsInOrder, Asked
<1>12. CursorInv'
  BY <1>1 DEF CursorInv, Reading, Asked
<1>13. LaidInv'
  <2>1. CASE cut
    BY <1>3, <2>1 DEF LaidInv
  <2>2. CASE ~cut
    BY <1>1, <1>2, <1>4, <1>5, <1>6, <2>2, WrittenLaid
  <2> QED BY <2>1, <2>2
<1> QED BY <1>7, <1>10, <1>11, <1>12, <1>13 DEF IInv

-----------------------------------------------------------------------------
(***************************************************************************)
(* Losing the end.                                                         *)
(***************************************************************************)

\* What is left of an image holds its bytes in order.
LEMMA LoseEndStep == IInv /\ LoseEnd => IInv'
<1>0. SUFFICES ASSUME IInv, LoseEnd PROVE IInv'
  OBVIOUS
<1>1. /\ TypeOK /\ SegsInv /\ RequestInv /\ pc = "open" /\ pc' = "open" /\ cut'
      /\ segs \in Seq(Seq(Nat))
  BY <1>0 DEF IInv, LoseEnd, TypeOK
<1>2. PICK k, n : /\ k \in 1..Len(segs) /\ n \in 0..Len(segs[k])
                  /\ segs' = Append(SubSeq(segs, 1, k - 1), SubSeq(segs[k], 1, n))
  BY <1>0 DEF LoseEnd
<1>3. UNCHANGED <<total, todo, currentfilesize, currentfileseg, pos, ifeof, size, index, buffer, out>>
  BY <1>0 DEF LoseEnd, handle
<1>4. /\ k \in Nat \ {0} /\ n \in Nat /\ segs[k] \in Seq(Nat) /\ Len(segs[k]) \in Nat
      /\ Len(segs) \in Nat /\ k <= Len(segs) /\ n <= Len(segs[k])
  BY <1>1, <1>2
<1>5. PICK b : b = SubSeq(segs, 1, k - 1)
  OBVIOUS
<1>6. PICK e : e = SubSeq(segs[k], 1, n)
  OBVIOUS
<1>7. b \in Seq(Seq(Nat)) /\ Len(b) = k - 1 /\ \A j \in 1..(k - 1) : b[j] = segs[j]
  <2>1. k - 1 \in Nat /\ k - 1 <= Len(segs) /\ 0 <= k - 1 /\ 0 \in Nat
    BY <1>4
  <2>2. /\ SubSeq(segs, 0 + 1, k - 1) \in Seq(Seq(Nat)) /\ Len(SubSeq(segs, 0 + 1, k - 1)) = (k - 1) - 0
        /\ \A j \in 1..((k - 1) - 0) : SubSeq(segs, 0 + 1, k - 1)[j] = segs[0 + j]
    BY <1>1, <2>1, PieceSeq
  <2> QED BY <1>5, <2>1, <2>2
<1>8. e \in Seq(Nat) /\ Len(e) = n /\ \A j \in 1..n : e[j] = segs[k][j]
  <2>1. PICK a \in Seq(Nat) : a = segs[k] /\ n <= Len(a)
    BY <1>4
  <2>2. /\ SubSeq(a, 0 + 1, n) \in Seq(Nat) /\ Len(SubSeq(a, 0 + 1, n)) = n - 0
        /\ \A j \in 1..(n - 0) : SubSeq(a, 0 + 1, n)[j] = a[0 + j]
    BY <1>4, <2>1, PieceSeq
  <2> QED BY <1>4, <1>6, <2>1, <2>2
<1>9. /\ segs' \in Seq(Seq(Nat)) /\ Len(segs') = k /\ segs'[k] = e
      /\ \A j \in 1..(k - 1) : segs'[j] = segs[j]
  <2>1. segs' = Append(b, e)
    BY <1>2, <1>5, <1>6
  <2>2. /\ Append(b, e) \in Seq(Seq(Nat)) /\ Len(Append(b, e)) = Len(b) + 1
        /\ \A j \in 1..Len(b) : Append(b, e)[j] = b[j]
        /\ Append(b, e)[Len(b) + 1] = e
    BY <1>7, <1>8, AppendSeq
  <2> QED BY <1>4, <1>7, <2>1, <2>2
<1>10. \A j \in 1..k : First(j)' = First(j)
  <2> TAKE j \in 1..k
  <2>1. j # 1 => j - 1 \in 1..(k - 1)
    BY <1>4
  <2> QED BY <1>9, <2>1 DEF First
<1>11. SegsInv'
  <2>1. \A j \in 1..(k - 1) : segs'[j] # <<>>
    <3> TAKE j \in 1..(k - 1)
    <3>1. j \in 1..(Len(segs) - 1)
      BY <1>4
    <3> QED BY <1>1, <1>9, <3>1 DEF SegsInv
  <2>2. \A j \in 1..k : \A i \in 1..Len(segs'[j]) : segs'[j][i] = First(j)' + i - 1
    <3> TAKE j \in 1..k
    <3> TAKE i \in 1..Len(segs'[j])
    <3>1. j \in 1..Len(segs)
      BY <1>4
    <3>2. i \in 1..Len(segs[j]) /\ segs'[j][i] = segs[j][i]
      <4>1. CASE j = k
        BY <1>4, <1>8, <1>9, <4>1
      <4>2. CASE j # k
        <5>1. j \in 1..(k - 1)
          BY <1>4, <4>2
        <5> QED BY <1>9, <5>1
      <4> QED BY <4>1, <4>2
    <3>3. segs[j][i] = First(j) + i - 1
      BY <1>1, <3>1, <3>2 DEF SegsInv
    <3> QED BY <1>10, <3>2, <3>3
  <2> QED BY <1>1, <1>4, <1>9, <2>1, <2>2 DEF SegsInv
<1>12. TypeOK'
  BY <1>1, <1>3, <1>9 DEF TypeOK
<1>13. RequestInv'
  BY <1>1, <1>3 DEF RequestInv, ReadsInOrder, Asked
<1>14. CursorInv'
  BY <1>1 DEF CursorInv, Reading, Asked
<1>15. LaidInv'
  BY <1>1 DEF LaidInv
<1> QED BY <1>11, <1>12, <1>13, <1>14, <1>15 DEF IInv

-----------------------------------------------------------------------------
(***************************************************************************)
(* Reading.                                                                *)
(***************************************************************************)

\* One Read brings n bytes that the segment has and the request still wants.
ReadOf(n) ==
  /\ n \in Nat /\ n <= BufferSize /\ n <= size - index /\ pos + n <= Len(segs[currentfileseg + 1])
  /\ n = BufferSize \/ pos + n = Len(segs[currentfileseg + 1])
  /\ BufferSize \in Nat \ {0} /\ BufferSize <= size - index
  /\ size < MY_DEFINE_BUFFER_SIZE => BufferSize = size
  /\ buffer' = buffer \o SubSeq(segs[currentfileseg + 1], pos + 1, pos + n)
  /\ pos' = pos + n /\ index' = index + n
  /\ pc' = IF size >= MY_DEFINE_BUFFER_SIZE /\ index + n < size THEN pc
           ELSE IF pc = "read" /\ buffer' = <<>> THEN "next" ELSE "return"

\* SegFileRead does that.
LEMMA OneRead ==
  ASSUME IInv, SegFileRead
  PROVE  \E n : ReadOf(n)
<1>1. /\ size \in Nat /\ index \in Nat /\ index < size /\ MY_DEFINE_BUFFER_SIZE \in Nat \ {0}
      /\ size < MY_DEFINE_BUFFER_SIZE => index = 0
  BY SizesAssumption DEF IInv, TypeOK, RequestInv, SegFileRead
<1>2. /\ BufferSize \in Nat \ {0} /\ BufferSize <= size - index
      /\ size < MY_DEFINE_BUFFER_SIZE => BufferSize = size
  BY <1>1 DEF BufferSize, Lesser
<1>3. PICK l : l \in Nat /\ l = Len(segs[currentfileseg + 1])
  <2>1. segs \in Seq(Seq(Nat)) /\ currentfileseg \in Nat /\ currentfileseg < Len(segs)
    BY DEF IInv, TypeOK, CursorInv, RequestInv, SegFileRead, Reading, Asked
  <2>2. segs[currentfileseg + 1] \in Seq(Nat)
    BY <2>1
  <2> QED BY <2>2
<1>4. pos \in Nat /\ pos <= l /\ Left = l - pos
  BY <1>3 DEF IInv, TypeOK, CursorInv, RequestInv, SegFileRead, Reading, Asked, Left
<1>5. PICK n : n = Lesser(BufferSize, Left)
  OBVIOUS
<1>6. n \in Nat /\ n <= BufferSize /\ pos + n <= l /\ (n = BufferSize \/ pos + n = l)
  BY <1>2, <1>3, <1>4, <1>5 DEF Lesser
<1>7. /\ buffer' = buffer \o SubSeq(segs[currentfileseg + 1], pos + 1, pos + n)
      /\ pos' = pos + n /\ index' = index + n
      /\ pc' = IF size >= MY_DEFINE_BUFFER_SIZE /\ index + n < size THEN pc
               ELSE IF pc = "read" /\ buffer' = <<>> THEN "next" ELSE "return"
  BY <1>5 DEF SegFileRead, Rounds
<1>8. n <= size - index
  BY <1>1, <1>2, <1>6
<1> QED BY <1>2, <1>3, <1>6, <1>7, <1>8 DEF ReadOf

\* The bytes that a Read brings continue those in the buffer.
LEMMA ReadBytes ==
  ASSUME IInv, pc \in {"read", "again"}, NEW n, ReadOf(n), UNCHANGED out
  PROVE  /\ buffer' \in Seq(Nat) /\ Len(buffer') = Len(buffer) + n
         /\ \A i \in 1..Len(buffer') : buffer'[i] = Len(out) + i
<1>1. /\ segs \in Seq(Seq(Nat)) /\ currentfileseg \in Nat /\ currentfileseg < Len(segs)
      /\ pos \in Nat /\ buffer \in Seq(Nat) /\ out \in Seq(Nat)
      /\ \A i \in 1..Len(buffer) : buffer[i] = Len(out) + i
  BY DEF IInv, TypeOK, CursorInv, RequestInv, Reading, Asked
<1>2. PICK c : c \in 1..Len(segs) /\ c = currentfileseg + 1
  BY <1>1
<1>3. PICK a \in Seq(Nat) : a = segs[c]
  BY <1>1, <1>2
<1>4. Len(out) + Len(buffer) + 1 = First(c) + pos
  BY <1>2 DEF IInv, CursorInv, RequestInv, Reading, Asked
<1>5. \A i \in 1..Len(a) : a[i] = First(c) + i - 1
  BY <1>2, <1>3 DEF IInv, SegsInv
<1>6. n \in Nat /\ pos + n <= Len(a) /\ buffer' = buffer \o SubSeq(a, pos + 1, pos + n)
  BY <1>2, <1>3 DEF ReadOf
<1>7. PICK t : t = SubSeq(a, pos + 1, pos + n)
  OBVIOUS
<1>8. t \in Seq(Nat) /\ Len(t) = n /\ \A j \in 1..n : t[j] = a[pos + j]
  <2>1. PICK p, e : p = pos /\ e = pos + n
    OBVIOUS
  <2>2. p \in Nat /\ e \in Nat /\ p <= e /\ e - p = n /\ e <= Len(a)
    BY <1>1, <1>6, <2>1
  <2>3. /\ SubSeq(a, p + 1, e) \in Seq(Nat) /\ Len(SubSeq(a, p + 1, e)) = e - p
        /\ \A j \in 1..(e - p) : SubSeq(a, p + 1, e)[j] = a[p + j]
    BY <2>2, PieceSeq
  <2> QED BY <1>7, <2>1, <2>2, <2>3
<1>9. PICK x, y : x \in Nat /\ x = Len(out) /\ y \in Nat /\ y = Len(buffer)
  <2>1. Len(out) \in Nat /\ Len(buffer) \in Nat
    BY <1>1
  <2> QED BY <2>1
<1>10. \A j \in 1..n : t[j] = x + y + j
  <2> TAKE j \in 1..n
  <2>1. pos + j \in 1..Len(a)
    BY <1>1, <1>6
  <2>2. a[pos + j] = First(c) + (pos + j) - 1
    BY <1>5, <2>1
  <2>3. t[j] = First(c) + (pos + j) - 1
    BY <1>8, <2>2
  <2>4. a[pos + j] \in Nat
    BY <2>1
  <2>5. First(c) \in Int
    BY <1>2, FirstIsNumber DEF IInv
  <2>6. PICK F \in Int : F = First(c)
    BY <2>5
  <2>7. x + y + 1 = F + pos
    BY <1>4, <1>9, <2>6
  <2>8. x + y + j = F + (pos + j) - 1
    <3>1. j \in Int /\ pos \in Int
      BY <1>1
    <3> QED BY <1>9, <2>7, <3>1
  <2> QED BY <2>3, <2>6, <2>8
<1>11. /\ buffer \o t \in Seq(Nat) /\ Len(buffer \o t) = Len(buffer) + Len(t)
       /\ \A i \in 1..Len(buffer) : (buffer \o t)[i] = buffer[i]
       /\ \A i \in (Len(buffer) + 1)..(Len(buffer) + Len(t)) : (buffer \o t)[i] = t[i - Len(buffer)]
  <2>1. buffer \in Seq(Nat) /\ t \in Seq(Nat)
    BY <1>1, <1>8
  <2> QED BY <2>1, ConcatSeq
<1>12. buffer' \in Seq(Nat) /\ Len(buffer') = y + n
  BY <1>6, <1>7, <1>8, <1>9, <1>11
<1>13. \A i \in 1..(y + n) : buffer'[i] = x + i
  <2> TAKE i \in 1..(y + n)
  <2>1. CASE i <= y
    <3>1. i \in 1..y
      BY <1>9, <2>1
    <3> QED BY <1>1, <1>6, <1>7, <1>9, <1>11, <3>1
  <2>2. CASE i > y
    <3>1. i \in (y + 1)..(y + n) /\ i - y \in 1..n
      BY <1>6, <1>9, <2>2
    <3>2. buffer'[i] = t[i - y]
      BY <1>6, <1>7, <1>8, <1>9, <1>11, <3>1
    <3>3. t[i - y] = x + y + (i - y)
      BY <1>10, <3>1
    <3>4. x + y + (i - y) = x + i
      BY <1>9, <3>1
    <3> QED BY <3>2, <3>3, <3>4
  <2>3. i \in Int /\ y \in Int
    BY <1>9
  <2> QED BY <2>1, <2>2, <2>3
<1> QED BY <1>9, <1>12, <1>13

\* SegFileRead: the request goes on, is done, or has met the end of the segment.
LEMMA SegFileReadStep == IInv /\ SegFileRead => IInv'
<1>0. SUFFICES ASSUME IInv, SegFileRead PROVE IInv'
  OBVIOUS
<1>1. TypeOK /\ SegsInv /\ RequestInv /\ CursorInv /\ LaidInv /\ pc \in {"read", "again"}
  BY <1>0 DEF IInv, SegFileRead
<1>2. UNCHANGED <<segs, total, todo, cut, currentfilesize, currentfileseg, ifeof, size, out>>
  BY <1>0 DEF SegFileRead
<1>3. PICK n : ReadOf(n)
  BY <1>0, OneRead
<1>4. /\ buffer' \in Seq(Nat) /\ Len(buffer') = Len(buffer) + n
      /\ \A i \in 1..Len(buffer') : buffer'[i] = Len(out) + i
  BY <1>0, <1>1, <1>2, <1>3, ReadBytes
<1>5. PICK T : T \in Nat /\ T = Len(segs[currentfileseg + 1])
  <2>1. segs \in Seq(Seq(Nat)) /\ currentfileseg \in Nat /\ currentfileseg < Len(segs)
    BY <1>1 DEF TypeOK, CursorInv, RequestInv, Reading, Asked
  <2>2. segs[currentfileseg + 1] \in Seq(Nat)
    BY <2>1
  <2> QED BY <2>2
<1>6. /\ n \in Nat /\ n <= BufferSize /\ n <= size - index /\ pos + n <= T
      /\ n = BufferSize \/ pos + n = T
      /\ BufferSize \in Nat \ {0} /\ BufferSize <= size - index
      /\ size < MY_DEFINE_BUFFER_SIZE => BufferSize = size
      /\ pos' = pos + n /\ index' = index + n
  BY <1>3, <1>5 DEF ReadOf
<1>7. pc' = IF size >= MY_DEFINE_BUFFER_SIZE /\ index + n < size THEN pc
            ELSE IF pc = "read" /\ buffer' = <<>> THEN "next" ELSE "return"
  BY <1>3 DEF ReadOf
<1>8. /\ size \in Nat \ {0} /\ index \in Nat /\ pos \in Nat /\ currentfileseg \in Nat
      /\ index = Len(buffer) /\ index < size /\ ~ifeof /\ ifeof \in BOOLEAN
      /\ size < MY_DEFINE_BUFFER_SIZE => index = 0
      /\ MY_DEFINE_BUFFER_SIZE \in Nat
  BY <1>1, SizesAssumption DEF TypeOK, RequestInv
<1>9. index' \in Nat /\ Len(buffer') = index' /\ index' <= size
  BY <1>4, <1>6, <1>8
<1>10. /\ pc' \in {"read", "again", "next", "return"} /\ (pc' = "read" => pc = "read")
       /\ pc' = "again" => pc = "again"
       /\ pc' \in {"read", "again"} => size >= MY_DEFINE_BUFFER_SIZE /\ index' < size
       /\ pc' = "next" => pc = "read" /\ buffer' = <<>> /\ index' = 0
       /\ pc' = "return" => size < MY_DEFINE_BUFFER_SIZE \/ index' = size
  <2>1. buffer' = <<>> => Len(buffer') = 0
    OBVIOUS
  <2> QED BY <1>1, <1>6, <1>7, <1>8, <1>9, <2>1
<1>11. TypeOK'
  BY <1>1, <1>2, <1>4, <1>6, <1>8, <1>9, <1>10 DEF TypeOK
<1>12. SegsInv'
  BY <1>1, <1>2, <1>10 DEF SegsInv, First
<1>13. RequestInv'
  <2>1. pc' = "return" => ~ifeof'
    BY <1>2, <1>8
  <2>2. size >= MY_DEFINE_BUFFER_SIZE => ~(size < MY_DEFINE_BUFFER_SIZE)
    BY <1>8
  <2> QED BY <1>1, <1>2, <1>4, <1>8, <1>9, <1>10, <2>1, <2>2 DEF RequestInv, ReadsInOrder, Asked
<1>14. CursorInv'
  <2>1. PICK F : F \in Int /\ F = First(currentfileseg + 1) /\ F = First(currentfileseg + 1)'
    <3>1. currentfileseg + 1 \in 1..Len(segs)
      BY <1>1, <1>8 DEF CursorInv, Reading, Asked, TypeOK
    <3>2. First(currentfileseg + 1) \in Int
      BY <1>1, <3>1, FirstIsNumber
    <3>3. First(currentfileseg + 1)' = First(currentfileseg + 1)
      BY <1>2 DEF First
    <3> QED BY <3>2, <3>3
  <2>2. PICK x : x \in Nat /\ x = Len(out)
    <3>1. Len(out) \in Nat
      BY <1>1 DEF RequestInv
    <3> QED BY <3>1
  <2>3. x + index + 1 = F + pos /\ currentfileseg < Len(segs)
    BY <1>1, <1>8, <2>1, <2>2 DEF CursorInv, Reading, Asked
  <2>4. x + index' + 1 = F + pos'
    <3>1. \A f, y, i, p, m \in Int : y + i + 1 = f + p => y + (i + m) + 1 = f + (p + m)
      OBVIOUS
    <3>2. index \in Int /\ pos \in Int /\ n \in Int /\ x \in Int
      BY <1>6, <1>8, <2>2
    <3>3. x + (index + n) + 1 = F + (pos + n)
      BY <2>1, <2>3, <3>1, <3>2
    <3> QED BY <1>6, <3>3
  <2>5. Len(out') + Len(buffer') + 1 = First(currentfileseg + 1)' + pos'
    BY <1>2, <1>9, <2>1, <2>2, <2>4
  <2>6. pc' = "next" => Left' = 0
    <3>1. pc' = "next" => n = 0
      BY <1>6, <1>8, <1>10
    <3>2. n = 0 => pos' = T
      BY <1>6, <1>8
    <3> QED BY <1>2, <1>5, <3>1, <3>2 DEF Left
  <2>7. pos' <= Len(segs[currentfileseg + 1])'
    BY <1>2, <1>5, <1>6
  <2> QED BY <1>2, <1>8, <1>10, <2>3, <2>5, <2>6, <2>7 DEF CursorInv
<1>15. LaidInv'
  <2>1. SUFFICES ASSUME ~cut PROVE LaidInv'
    BY <1>2 DEF LaidInv
  <2>2. PICK seg, off :
          /\ seg \in [1..(Len(todo) + 1) -> 1..Len(segs)] /\ off \in [1..(Len(todo) + 1) -> Nat]
          /\ Laid(seg, off) /\ Stands(seg, off)
    BY <1>1, <2>1 DEF LaidInv
  <2>3. todo \in Seq(Request) /\ todo # <<>> /\ size = todo[1].size
    BY <1>1 DEF RequestInv, Asked
  <2>4. 1 \in 1..Len(todo) /\ 1 \in 1..(Len(todo) + 1)
    BY <2>3
  <2>5. /\ off[1] \in Nat /\ seg[1] \in 1..Len(segs) /\ off[1] + size <= Len(segs[seg[1]])
        /\ Follows(seg[2], off[2], seg[1], off[1] + size)
    <3>1. 1 + 1 = 2
      OBVIOUS
    <3>2. off[1] \in Nat /\ seg[1] \in 1..Len(segs)
      BY <2>2, <2>4
    <3>3. /\ off[1] + todo[1].size <= Len(segs[seg[1]])
          /\ Follows(seg[1 + 1], off[1 + 1], seg[1], off[1] + todo[1].size)
      BY <2>2, <2>4 DEF Laid
    <3> QED BY <2>3, <3>1, <3>2, <3>3
  <2>6. /\ Laid(seg, off)'
        /\ \A k, o, a, b : Follows(k, o, a, b) <=> Follows(k, o, a, b)'
    BY <1>2, <2>2, SameLaid
  <2>7. Stands(seg, off)' /\ (pc' = "return" => Len(buffer') = size')
    <3>1. CASE seg[1] = currentfileseg + 1 /\ off[1] + index = pos
      <4>1. n = BufferSize
        <5>1. \A o, i, z, p, m, b, t \in Int :
                o + z <= t /\ o + i = p /\ b <= z - i /\ m <= b /\ (m = b \/ p + m = t) => m = b
          OBVIOUS
        <5>2. off[1] + size <= T
          BY <1>5, <2>5, <3>1
        <5>3. /\ off[1] \in Int /\ index \in Int /\ size \in Int /\ pos \in Int /\ n \in Int
              /\ BufferSize \in Int /\ T \in Int
          BY <1>5, <1>6, <1>8, <2>5
        <5> QED BY <1>6, <3>1, <5>1, <5>2, <5>3
      <4>2. pc' # "next"
        BY <1>6, <1>8, <1>10, <4>1
      <4>3. off[1] + index' = pos'
        <5>1. \A o, i, p, m \in Int : o + i = p => o + (i + m) = p + m
          OBVIOUS
        <5>2. off[1] \in Int /\ index \in Int /\ pos \in Int /\ n \in Int
          BY <1>6, <1>8, <2>5
        <5>3. off[1] + (index + n) = pos + n
          BY <3>1, <5>1, <5>2
        <5> QED BY <1>6, <5>3
      <4>4. pc' = "return" => index' = size
        BY <1>6, <1>8, <1>10, <4>1
      <4>5. pc' = "return" => Follows(seg[2], off[2], currentfileseg + 1, pos')
        BY <2>5, <3>1, <4>3, <4>4
      <4>6. pc' = "return" => Follows(seg[2], off[2], currentfileseg + 1, pos)'
        <5>1. PICK a, b : a = currentfileseg + 1 /\ a = currentfileseg' + 1 /\ b = pos'
          BY <1>2
        <5> QED BY <2>6, <4>5, <5>1
      <4> QED BY <1>2, <1>9, <1>10, <3>1, <4>2, <4>3, <4>4, <4>6 DEF Stands
    <3>2. CASE /\ pc = "read" /\ index = 0 /\ seg[1] = currentfileseg + 2 /\ off[1] = 0 /\ pos = T
      <4>1. n = 0 /\ index' = 0 /\ pos' = pos /\ Len(buffer') = 0
        BY <1>5, <1>6, <1>8, <1>9, <3>2
      <4>2. buffer' = <<>> /\ pc' \in {"read", "next"}
        BY <1>4, <1>7, <3>2, <4>1
      <4>3. Follows(seg[1], off[1], currentfileseg + 1, pos)'
        <5>1. currentfileseg + 2 = (currentfileseg + 1) + 1
          BY <1>8
        <5> QED BY <1>2, <1>5, <3>2, <4>1, <5>1 DEF Follows
      <4> QED BY <1>2, <3>2, <4>1, <4>2, <4>3 DEF Stands
    <3>3. (currentfileseg + 1) + 1 = currentfileseg + 2
      BY <1>8
    <3>4. \/ seg[1] = currentfileseg + 1 /\ off[1] + index = pos
          \/ /\ pc = "read" /\ index = 0 /\ seg[1] = currentfileseg + 2 /\ off[1] = 0 /\ pos = T
      <4>1. CASE pc = "again"
        BY <2>2, <4>1 DEF Stands
      <4>2. CASE pc = "read" /\ index = 0 /\ Follows(seg[1], off[1], currentfileseg + 1, pos)
        BY <1>5, <1>8, <2>5, <3>3, <4>2 DEF Follows
      <4>3. CASE pc = "read" /\ ~(index = 0 /\ Follows(seg[1], off[1], currentfileseg + 1, pos))
        BY <2>2, <4>3 DEF Stands
      <4> QED BY <1>1, <4>1, <4>2, <4>3
    <3> QED BY <3>1, <3>2, <3>4
  <2>8. seg \in [1..(Len(todo') + 1) -> 1..Len(segs')] /\ off \in [1..(Len(todo') + 1) -> Nat]
    BY <1>2, <2>2
  <2> QED BY <1>2, <1>8, <2>6, <2>7, <2>8 DEF LaidInv
<1> QED BY <1>11, <1>12, <1>13, <1>14, <1>15 DEF IInv

\* NextSegment: the next segment begins with the byte after the last one.
LEMMA NextSegmentStep == IInv /\ NextSegment => IInv'
<1>0. SUFFICES ASSUME IInv, NextSegment PROVE IInv'
  OBVIOUS
<1>1. TypeOK /\ SegsInv /\ RequestInv /\ CursorInv /\ LaidInv /\ pc = "next"
  BY <1>0 DEF IInv, NextSegment
<1>2. UNCHANGED <<segs, total, todo, cut, currentfilesize, size, buffer, out>>
  BY <1>0 DEF NextSegment
<1>3. /\ currentfileseg' = currentfileseg + 1 /\ pos' = 0 /\ index' = 0
      /\ currentfileseg + 1 < Len(segs) => pc' = "again" /\ ifeof' = ifeof
      /\ ~(currentfileseg + 1 < Len(segs)) => pc' = "return" /\ ifeof' = TRUE
  BY <1>0 DEF NextSegment
<1>4. ~ifeof /\ buffer = <<>> /\ Left = 0 /\ currentfileseg < Len(segs)
  BY <1>1 DEF CursorInv, Reading, Asked
<1>5. /\ segs \in Seq(Seq(Nat)) /\ currentfileseg \in Nat /\ pos \in Nat /\ size \in Nat \ {0}
      /\ todo \in Seq(Request) /\ todo # <<>> /\ size = todo[1].size
  <2>1. todo \in Seq(Request) /\ todo # <<>> /\ size = todo[1].size
    BY <1>1 DEF RequestInv, Asked
  <2>2. todo[1] \in Request
    BY <2>1
  <2>3. size \in Nat \ {0}
    BY <2>1, <2>2 DEF Request
  <2> QED BY <1>1, <2>1, <2>3 DEF TypeOK
<1>6. pc' \in {"again", "return"} /\ (pc' = "again" => ~ifeof' /\ currentfileseg + 1 < Len(segs))
  BY <1>3, <1>4
<1>7. Len(buffer) = 0
  BY <1>4
<1>8. TypeOK'
  <2>1. ifeof' \in BOOLEAN
    BY <1>1, <1>3 DEF TypeOK
  <2>2. currentfileseg' \in Nat /\ pos' \in Nat /\ index' \in 0..size'
    BY <1>2, <1>3, <1>5
  <2> QED BY <1>1, <1>2, <1>6, <2>1, <2>2 DEF TypeOK
<1>9. SegsInv'
  BY <1>1, <1>2, <1>6 DEF SegsInv, First
<1>10. RequestInv'
  BY <1>1, <1>2, <1>3, <1>4, <1>5, <1>6, <1>7 DEF RequestInv, ReadsInOrder, Asked
<1>11. CursorInv'
  <2>1. pc' = "return" => ifeof'
    BY <1>3, <1>6
  <2>2. ASSUME pc' = "again"
        PROVE  /\ currentfileseg' < Len(segs') /\ pos' <= Len(segs[currentfileseg + 1])'
               /\ Len(out') + Len(buffer') + 1 = First(currentfileseg + 1)' + pos'
    <3>1. currentfileseg + 1 < Len(segs)
      BY <1>6, <2>2
    <3>2. PICK c : c \in 1..(Len(segs) - 1) /\ c = currentfileseg + 1
      <4>1. Len(segs) \in Nat
        BY <1>5
      <4>2. currentfileseg + 1 \in 1..(Len(segs) - 1)
        BY <1>5, <3>1, <4>1
      <4> QED BY <4>2
    <3>3. PICK a : a \in Seq(Nat) /\ a = segs[c] /\ a # <<>>
      BY <1>1, <1>5, <3>2 DEF SegsInv
    <3>4. First(c) \in Int
      <4>1. c \in 1..Len(segs)
        BY <1>5, <3>2
      <4> QED BY <1>1, <4>1, FirstIsNumber
    <3>5. Len(a) \in Nat \ {0} /\ 1 \in 1..Len(a)
      BY <3>3
    <3>6. a[1] = First(c)
      <4>1. c \in 1..Len(segs)
        BY <1>5, <3>2
      <4>2. a[1] = First(c) + 1 - 1
        BY <1>1, <3>3, <3>5, <4>1 DEF SegsInv
      <4> QED BY <3>4, <4>2
    <3>7. First(c + 1)' = a[1] + Len(a)
      <4>1. c + 1 # 1 /\ (c + 1) - 1 = c
        BY <3>2
      <4> QED BY <1>2, <3>3, <4>1 DEF First
    <3>8. pos = Len(a)
      BY <1>4, <1>5, <3>2, <3>3, <3>5 DEF Left
    <3>9. Len(out) + Len(buffer) + 1 = First(c) + pos
      BY <1>1, <1>4, <3>2 DEF CursorInv, Reading, Asked
    <3>10. Len(out) + Len(buffer) + 1 = First(c + 1)' + 0
      BY <3>4, <3>5, <3>6, <3>7, <3>8, <3>9
    <3>11. pos' <= Len(segs[currentfileseg + 1])'
      <4>1. currentfileseg' + 1 \in 1..Len(segs)
        BY <1>3, <1>5, <3>1
      <4>2. segs[currentfileseg' + 1] \in Seq(Nat)
        BY <1>5, <4>1
      <4>3. Len(segs[currentfileseg' + 1]) \in Nat
        BY <4>2
      <4> QED BY <1>2, <1>3, <4>3
    <3>12. First(currentfileseg + 1)' = First(c + 1)'
      BY <1>3, <3>2
    <3> QED BY <1>2, <1>3, <3>1, <3>10, <3>11, <3>12
  <2> QED BY <1>6, <2>1, <2>2 DEF CursorInv
<1>12. LaidInv'
  <2>1. SUFFICES ASSUME ~cut PROVE LaidInv'
    BY <1>2 DEF LaidInv
  <2>2. PICK seg, off :
          /\ seg \in [1..(Len(todo) + 1) -> 1..Len(segs)] /\ off \in [1..(Len(todo) + 1) -> Nat]
          /\ Laid(seg, off) /\ Stands(seg, off)
    BY <1>1, <2>1 DEF LaidInv
  <2>3. 1 \in 1..(Len(todo) + 1)
    BY <1>5
  <2>4. seg[1] \in 1..Len(segs) /\ seg[1] = currentfileseg + 2 /\ off[1] = 0
    BY <1>1, <2>2, <2>3 DEF Stands
  <2>5. currentfileseg + 1 < Len(segs)
    BY <1>5, <2>4
  <2>6. pc' = "again" /\ ~ifeof'
    BY <1>3, <1>4, <2>5
  <2>7. seg[1] = currentfileseg' + 1 /\ off[1] + index' = pos'
    BY <1>3, <1>5, <2>4
  <2>8. Stands(seg, off)'
    BY <2>6, <2>7 DEF Stands
  <2>9. Laid(seg, off)'
    BY <1>2, <2>2, SameLaid
  <2>10. seg \in [1..(Len(todo') + 1) -> 1..Len(segs')] /\ off \in [1..(Len(todo') + 1) -> Nat]
    BY <1>2, <2>2
  <2> QED BY <2>6, <2>8, <2>9, <2>10 DEF LaidInv
<1> QED BY <1>8, <1>9, <1>10, <1>11, <1>12 DEF IInv

\* What is left of the requests after those of a partition.
LEMMA NextPartSeq ==
  ASSUME NEW s \in Seq(Request)
  PROVE  NextPart(s) \in Seq(Request)
<1> DEFINE B == {i \in 1..Len(s) : s[i].kind = "bitmap"}
           m == CHOOSE i \in B : \A j \in B : i <= j
<1>1. CASE B = {}
  BY <1>1 DEF NextPart
<1>2. CASE B # {}
  <2>1. B \in SUBSET Nat /\ B \subseteq 1..Len(s) /\ Len(s) \in Nat
    OBVIOUS
  <2>2. m \in B
    <3> HIDE DEF B
    <3>1. IsFiniteSet(B)
      <4>1. IsFiniteSet(1..Len(s)) /\ B \in SUBSET (1..Len(s))
        BY <2>1, FS_Interval
      <4> QED BY <4>1, FS_Subset
    <3> QED BY <1>2, <2>1, <3>1, LeastNumber
  <2>3. m \in Nat \ {0} /\ m <= Len(s)
    <3> HIDE DEF B, m
    <3> QED BY <2>1, <2>2
  <2> HIDE DEF m
  <2>4. SubSeq(s, m, Len(s)) \in Seq(Request)
    BY <2>3
  <2> QED BY <1>2, <2>4 DEF NextPart, m
<1> QED BY <1>1, <1>2

\* The places of the requests after the first.
LEMMA PlacesLeft ==
  ASSUME todo \in Seq(Request), todo # <<>>, UNCHANGED segs, todo' = Tail(todo),
         NEW seg \in [1..(Len(todo) + 1) -> 1..Len(segs)],
         NEW off \in [1..(Len(todo) + 1) -> Nat], Laid(seg, off)
  PROVE  \E s \in [1..(Len(todo') + 1) -> 1..Len(segs')], o \in [1..(Len(todo') + 1) -> Nat] :
           Laid(s, o)' /\ s[1] = seg[2] /\ o[1] = off[2]
<1>1. PICK M : M \in Nat \ {0} /\ M = Len(todo)
  <2>1. Len(todo) \in Nat \ {0}
    BY TailSeq
  <2> QED BY <2>1
<1>2. Len(todo') = M - 1 /\ \A i \in 1..(M - 1) : todo'[i] = todo[i + 1]
  BY <1>1, TailSeq
<1>3. PICK s, o : s = [i \in 1..M |-> seg[i + 1]] /\ o = [i \in 1..M |-> off[i + 1]]
  OBVIOUS
<1>4. s \in [1..M -> 1..Len(segs)] /\ o \in [1..M -> Nat]
  <2>1. \A i \in 1..M : i + 1 \in 1..(M + 1)
    BY <1>1
  <2>2. \A i \in 1..M : seg[i + 1] \in 1..Len(segs) /\ off[i + 1] \in Nat
    BY <1>1, <2>1
  <2> QED BY <1>3, <2>2
<1>5. ASSUME NEW i \in 1..(M - 1)
      PROVE  /\ o[i] + todo'[i].size <= Len(segs[s[i]])
             /\ Follows(s[i + 1], o[i + 1], s[i], o[i] + todo'[i].size)
  <2>1. PICK j : j = i + 1 /\ j \in 1..M /\ i \in 1..M
    BY <1>1
  <2>2. s[i] = seg[j] /\ o[i] = off[j] /\ s[j] = seg[j + 1] /\ o[j] = off[j + 1]
    BY <1>3, <2>1
  <2>3. /\ off[j] + todo[j].size <= Len(segs[seg[j]])
        /\ Follows(seg[j + 1], off[j + 1], seg[j], off[j] + todo[j].size)
    BY <1>1, <2>1 DEF Laid
  <2>4. todo'[i] = todo[j]
    BY <1>2, <2>1
  <2> QED BY <2>1, <2>2, <2>3, <2>4
<1>6. \A k, p, a, b : Follows(k, p, a, b) <=> Follows(k, p, a, b)'
  BY DEF Follows
<1>7. Laid(s, o)'
  <2>1. SUFFICES ASSUME NEW i \in 1..(M - 1)
                 PROVE  /\ o[i] + todo'[i].size <= Len(segs'[s[i]])
                        /\ Follows(s[i + 1], o[i + 1], s[i], o[i] + todo[i].size)'
    BY <1>2 DEF Laid
  <2>2. PICK b : b = o[i] + todo'[i].size
    OBVIOUS
  <2>3. Follows(s[i + 1], o[i + 1], s[i], b)'
    BY <1>5, <1>6, <2>2
  <2> QED BY <1>5, <2>2, <2>3
<1>8. s[1] = seg[2] /\ o[1] = off[2]
  <2>1. 1 \in 1..M /\ 1 + 1 = 2
    BY <1>1
  <2> QED BY <1>3, <2>1
<1>9. s \in [1..(Len(todo') + 1) -> 1..Len(segs')] /\ o \in [1..(Len(todo') + 1) -> Nat]
  <2>1. Len(todo') + 1 = M
    BY <1>1, <1>2
  <2> QED BY <1>4, <2>1
<1> QED BY <1>7, <1>8, <1>9

\* Return: what the request has brought is handed to the caller.
LEMMA ReturnStep == IInv /\ Return => IInv'
<1>0. SUFFICES ASSUME IInv, Return PROVE IInv'
  OBVIOUS
<1>1. TypeOK /\ SegsInv /\ RequestInv /\ CursorInv /\ LaidInv /\ pc = "return"
  BY <1>0 DEF IInv, Return
<1>2. UNCHANGED <<segs, total, cut, handle, size, index, buffer>> /\ out' = out \o buffer
  BY <1>0 DEF Return
<1>3. /\ Len(buffer) = size => pc' = "idle" /\ todo' = Tail(todo)
      /\ pc' = "idle" \/ pc' = "done"
      /\ todo' = Tail(todo) \/ todo' = NextPart(todo) \/ todo' = todo
  <2>1. todo[1] \in Request /\ size = todo[1].size
    BY <1>1 DEF RequestInv, Asked
  <2>2. size # 0
    BY <2>1 DEF Request
  <2>3. buffer = <<>> => Len(buffer) # size
    BY <2>2
  <2> QED BY <1>0, <2>3 DEF Return
<1>4. /\ todo \in Seq(Request) /\ todo # <<>> /\ buffer \in Seq(Nat) /\ out \in Seq(Nat)
      /\ \A i \in 1..Len(buffer) : buffer[i] = Len(out) + i
      /\ \A i \in 1..Len(out) : out[i] = i
  BY <1>1 DEF RequestInv, Asked, ReadsInOrder
<1>5. PICK x, y : x \in Nat /\ x = Len(out) /\ y \in Nat /\ y = Len(buffer)
  <2>1. Len(out) \in Nat /\ Len(buffer) \in Nat
    BY <1>4
  <2> QED BY <2>1
<1>6. /\ out' \in Seq(Nat) /\ Len(out') = x + y
      /\ \A i \in 1..x : out'[i] = out[i]
      /\ \A i \in (x + 1)..(x + y) : out'[i] = buffer[i - x]
  <2>1. out \in Seq(Nat) /\ buffer \in Seq(Nat)
    BY <1>4
  <2> QED BY <1>2, <1>5, <2>1, ConcatSeq
<1>7. ReadsInOrder'
  <2>1. SUFFICES ASSUME NEW i \in 1..(x + y) PROVE out'[i] = i
    BY <1>6 DEF ReadsInOrder
  <2>2. CASE i <= x
    <3>1. i \in 1..x
      BY <1>5, <2>2
    <3> QED BY <1>4, <1>5, <1>6, <3>1
  <2>3. CASE ~(i <= x)
    <3>1. i \in (x + 1)..(x + y) /\ i - x \in 1..y /\ x + (i - x) = i
      BY <1>5, <2>3
    <3> QED BY <1>4, <1>5, <1>6, <3>1
  <2> QED BY <2>2, <2>3
<1>8. todo' \in Seq(Request)
  <2>1. Tail(todo) \in Seq(Request)
    BY <1>4, TailSeq
  <2>2. NextPart(todo) \in Seq(Request)
    BY <1>4, NextPartSeq
  <2> QED BY <1>3, <1>4, <2>1, <2>2
<1>9. TypeOK'
  BY <1>1, <1>2, <1>3 DEF TypeOK, handle
<1>10. SegsInv'
  BY <1>1, <1>2, <1>3 DEF SegsInv, First
<1>11. RequestInv'
  BY <1>1, <1>2, <1>3, <1>6, <1>7, <1>8 DEF RequestInv, Asked, handle
<1>12. CursorInv'
  <2>1. SUFFICES ASSUME ~ifeof, pc' = "idle" PROVE CursorInv'
    BY <1>2, <1>3 DEF CursorInv, Reading, Asked, handle
  <2>2. /\ currentfileseg < Len(segs) /\ pos <= Len(segs[currentfileseg + 1])
        /\ x + y + 1 = First(currentfileseg + 1) + pos
    BY <1>1, <1>5, <2>1 DEF CursorInv, Reading, Asked
  <2>3. First(currentfileseg + 1)' = First(currentfileseg + 1)
    BY <1>2 DEF First, handle
  <2>4. Len(out') + 0 + 1 = x + y + 1
    BY <1>5, <1>6
  <2> QED BY <1>2, <2>1, <2>2, <2>3, <2>4 DEF CursorInv, handle
<1>13. LaidInv'
  <2>1. SUFFICES ASSUME ~cut PROVE LaidInv'
    BY <1>2 DEF LaidInv
  <2>2. PICK seg, off :
          /\ seg \in [1..(Len(todo) + 1) -> 1..Len(segs)] /\ off \in [1..(Len(todo) + 1) -> Nat]
          /\ Laid(seg, off) /\ Stands(seg, off)
    BY <1>1, <2>1 DEF LaidInv
  <2>3. ~ifeof /\ Len(buffer) = size
    BY <1>1, <2>1 DEF LaidInv, Reading, Asked
  <2>4. pc' = "idle" /\ todo' = Tail(todo)
    BY <1>3, <2>3
  <2>5. PICK s, o :
          /\ s \in [1..(Len(todo') + 1) -> 1..Len(segs')] /\ o \in [1..(Len(todo') + 1) -> Nat]
          /\ Laid(s, o)' /\ s[1] = seg[2] /\ o[1] = off[2]
    <3>1. segs' = segs /\ todo \in Seq(Request) /\ todo # <<>>
      BY <1>2, <1>4
    <3>2. /\ seg \in [1..(Len(todo) + 1) -> 1..Len(segs)] /\ off \in [1..(Len(todo) + 1) -> Nat]
          /\ Laid(seg, off)
      BY <2>2
    <3>3. \E s \in [1..(Len(todo') + 1) -> 1..Len(segs')], o \in [1..(Len(todo') + 1) -> Nat] :
            Laid(s, o)' /\ s[1] = seg[2] /\ o[1] = off[2]
      BY <2>4, <3>1, <3>2, PlacesLeft
    <3> QED BY <3>3
  <2>6. Follows(s[1], o[1], currentfileseg + 1, pos)
    BY <1>1, <2>2, <2>5 DEF Stands
  <2>7. Follows(s[1], o[1], currentfileseg + 1, pos)'
    BY <1>2, <2>6 DEF Follows, handle
  <2>8. Stands(s, o)'
    BY <2>4, <2>7 DEF Stands
  <2> QED BY <1>2, <2>3, <2>4, <2>5, <2>8 DEF LaidInv, handle
<1> QED BY <1>9, <1>10, <1>11, <1>12, <1>13 DEF IInv

-----------------------------------------------------------------------------
(***************************************************************************)
(* The theorems.                                                           *)
(***************************************************************************)

\* Every step preserves IInv.
LEMMA NextIInv == IInv /\ [Next]_vars => IInv'
<1> SUFFICES ASSUME IInv, [Next]_vars PROVE IInv'
  OBVIOUS
<1>1. CASE WriteRecord
  BY <1>1, WriteRecordStep
<1>2. CASE FileWriteFails
  BY <1>2, FileWriteFailsStep
<1>3. CASE EndWrite
  BY <1>3, EndWriteStep
<1>4. CASE LoseEnd
  BY <1>4, LoseEndStep
<1>5. CASE FileOpen
  BY <1>5, FileOpenStep
<1>6. CASE FileRead
  BY <1>6, FileReadStep
<1>7. CASE SegFileRead
  BY <1>7, SegFileReadStep
<1>8. CASE SegFileReadFails
  BY <1>8, SegFileReadFailsStep
<1>9. CASE NextSegment
  BY <1>9, NextSegmentStep
<1>10. CASE Return
  BY <1>10, ReturnStep
<1>11. CASE Finish
  BY <1>11, FinishStep
<1>12. CASE UNCHANGED vars
  BY <1>12, StutterIInv
<1> QED BY <1>1, <1>2, <1>3, <1>4, <1>5, <1>6, <1>7, <1>8, <1>9, <1>10, <1>11, <1>12
        DEF Next, Step, Returned

\* The segments hold the bytes in order, the handle of a FileRead stands where
\* the one before it ended, and a complete image has a place, within one
\* segment, for every request.
THEOREM SegFileInductive == Spec => []IInv
<1>1. Init => IInv
  BY InitIInv
<1>2. IInv /\ [Next]_vars => IInv'
  BY NextIInv
<1> QED BY <1>1, <1>2, PTL DEF Spec

\* Every variable keeps its type: SegFileRead never asks for more than the
\* caller's buffer holds.
THEOREM SegFileTypeOK == Spec => []TypeOK
<1>1. IInv => TypeOK
  BY DEF IInv
<1> QED BY <1>1, SegFileInductive, PTL

\* What FileRead returns is the beginning of what FileWrite was given, also
\* across segments and for an image that has lost its end.
THEOREM SegmentsReadInOrder == Spec => []ReadsInOrder
<1>1. IInv => ReadsInOrder
  BY DEF IInv, RequestInv
<1> QED BY <1>1, SegFileInductive, PTL

\* No request straddles two segments: FileRead answers it in full.
THEOREM RequestsAnsweredWhole == Spec => []RequestsAreWhole
<1>1. IInv => RequestsAreWhole
  BY DEF IInv, LaidInv, RequestsAreWhole
<1> QED BY <1>1, SegFileInductive, PTL
=============================================================================
