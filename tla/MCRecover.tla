----------------------------- MODULE MCRecover -----------------------------
(***************************************************************************)
(* Two partitions: one of three blocks with an odd sector at the end, that *)
(* begins in the last sector of the table; one of one block right behind   *)
(* it; one sector is left over.                                            *)
(***************************************************************************)
EXTENDS Recover

Begins == <<2, 7>>
Totals == <<5, 2>>
Unlimited == -1
=============================================================================
