------------------------------ MODULE ByteFile ------------------------------
(***************************************************************************)
(* What a file opened through utils.c promises its user: a sequence of     *)
(* bytes with a position.  A write lands at the position and a read        *)
(* returns what is there; a write that fails leaves a leading part of its  *)
(* data, after which the file is only closed.  Only what is stored is      *)
(* safe: closing the file may lose the rest, and does not say so.          *)
(***************************************************************************)
EXTENDS Integers, Sequences

CONSTANT Bytes

VARIABLES
  content,   \* the bytes of the file
  stored,    \* what of them is safe: the file as it was, or was to be, some
             \* leading part of a write ago
  lost,      \* whether the last close lost what was not stored
  pos,       \* filepos
  arg,       \* what the user asked for: the data to write, or as many zeros
             \* as it wants to read
  out,       \* what the last read returned
  state      \* "closed", "open", or "error" after an operation returned FALSE

fvars == <<content, stored, lost, pos, arg, out, state>>

\* The bytes s with d laid over them from offset p on; a gap reads as zeros.
Overwrite(s, p, d) ==
  IF d = <<>> THEN s
  ELSE [i \in 1..(IF p + Len(d) > Len(s) THEN p + Len(d) ELSE Len(s)) |->
          IF p < i /\ i <= p + Len(d) THEN d[i - p]
          ELSE IF i <= Len(s) THEN s[i] ELSE 0]

\* At most n bytes of s from offset p on.
Slice(s, p, n) == SubSeq(s, p + 1, IF p + n < Len(s) THEN p + n ELSE Len(s))

Init ==
  /\ content \in Seq(Bytes) /\ stored = content /\ lost = FALSE
  /\ pos = 0 /\ arg = <<>> /\ out = <<>> /\ state = "closed"

Open ==
  /\ state = "closed" /\ state' = "open"
  /\ pos' = 0 /\ lost' = FALSE
  /\ UNCHANGED <<content, stored, arg, out>>

SetPos ==
  /\ state = "open"
  /\ pos' \in 0..Len(content)
  /\ UNCHANGED <<content, stored, lost, arg, out, state>>

\* The bytes with the first k of the data written.
Part(k) == Overwrite(content, pos, SubSeq(arg', 1, k))

\* A write may store what was written before it and a leading part of its data.
Store == stored' = stored \/ \E k \in 0..Len(arg') : stored' = Part(k)

Write ==
  /\ state = "open"
  /\ arg' \in Seq(Bytes)
  /\ content' = Overwrite(content, pos, arg') /\ Store
  /\ pos' = pos + Len(arg')
  /\ UNCHANGED <<lost, out, state>>

WriteFails ==
  /\ state = "open" /\ state' = "error"
  /\ arg' \in Seq(Bytes)
  /\ \E k \in 0..Len(arg') : content' = Part(k)
  /\ Store
  /\ pos' \in Nat
  /\ UNCHANGED <<lost, out>>

Read ==
  /\ state = "open"
  /\ arg' \in Seq({0})
  /\ out' = Slice(content, pos, Len(arg'))
  /\ pos' = pos + Len(out')
  /\ UNCHANGED <<content, stored, lost, state>>

ReadFails ==
  /\ state = "open" /\ state' = "error"
  /\ pos' \in Nat
  /\ UNCHANGED <<content, stored, lost, arg, out>>

Closing ==
  /\ state \in {"open", "error"} /\ state' = "closed"
  /\ pos' = 0
  /\ UNCHANGED <<arg, out>>

Close == Closing /\ stored' = content /\ UNCHANGED <<content, lost>>

CloseLoses == Closing /\ content' = stored /\ lost' = TRUE /\ UNCHANGED stored

Next ==
  Open \/ SetPos \/ Write \/ WriteFails \/ Read \/ ReadFails \/ Close \/ CloseLoses

Spec == Init /\ [][Next]_fvars
=============================================================================
