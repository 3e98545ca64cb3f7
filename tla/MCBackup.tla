------------------------------ MODULE MCBackup ------------------------------
(***************************************************************************)
(* Instances of Backup for TLC.                                            *)
(***************************************************************************)
EXTENDS Backup

AllFaults == FaultKinds

\* Bound: the last partition is empty or full, and of those that are not to be saved
\* nothing is in use.
MCInit ==
  /\ Init
  /\ marked[NParts] \in {{}, Blocks}
  /\ \A p \in Parts \ bIfBackup : marked[p] = {}
MCSpec == MCInit /\ [][Next]_vars /\ WF_vars(Engine) /\ WF_vars(Scan)
=============================================================================
