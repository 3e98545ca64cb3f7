---------------------------- MODULE MCCheckValue ----------------------------
(***************************************************************************)
(* Instances of CheckValue for TLC: a small file, files that end at a page *)
(* and at a chunk, a sampled one, and split images, the last file of which *)
(* may be empty.                                                           *)
(***************************************************************************)
EXTENDS CheckValue

SomeLengths == {<<4>>, <<12>>, <<16>>, <<28>>, <<76>>, <<80>>, <<12, 0>>, <<28, 20>>,
                <<8, 76>>, <<76, 12>>, <<12, 8, 16>>}
=============================================================================
