----------------------------- MODULE MCTaskMap -----------------------------
(***************************************************************************)
(* The instance of TaskMap for TLC: MCTaskMap.cfg gives the constants.     *)
(***************************************************************************)
EXTENDS TaskMap
=============================================================================
