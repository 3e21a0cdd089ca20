------------------------- MODULE MCStateMaintenance -------------------------
(***************************************************************************)
(* The instance of StateMaintenance for TLC. The paths have the order of   *)
(* the names data/context, data/learning_companion.db and its -wal; a      *)
(* workspace would be a second tree like the context.                      *)
(***************************************************************************)
EXTENDS StateMaintenance

CONSTANTS context, database, wal

OneTree == {context, database, wal}
ByName == [p \in OneTree |-> CASE p = context -> 1 [] p = database -> 2 [] p = wal -> 3]
=============================================================================
