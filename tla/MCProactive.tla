---------------------------- MODULE MCProactive ----------------------------
(***************************************************************************)
(* An instance of Proactive for TLC: one plan with a review and a          *)
(* check-in.                                                               *)
(***************************************************************************)
EXTENDS Proactive

CONSTANTS plan, review, checkin

OnePlan == [c \in Candidates |-> plan]
ScanOrder == <<review, checkin>>
=============================================================================
