----------------------------- MODULE MCSegFile -----------------------------
(***************************************************************************)
(* Records below, at and above the buffer size, segments of one to three   *)
(* records.                                                                *)
(***************************************************************************)
EXTENDS SegFile
=============================================================================
