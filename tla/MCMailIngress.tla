--------------------------- MODULE MCMailIngress ---------------------------
(***************************************************************************)
(* Instances of MailIngress for TLC.                                       *)
(***************************************************************************)
EXTENDS MailIngress, TLC

CONSTANTS m1, m2, m3, i1, i2, s1, p1

\* Two replies to one intervention, a third mail to another.
TwoAndOne == [m \in Mails |-> IF m = m3 THEN i2 ELSE i1]

OneScope == [i \in Interventions |-> s1]

\* Polls overlap whose claims may expire.
OverlapCase == crashes = 0 /\ mailbox.validity = 1

OnlyFirst == \A p \in Pollers \ {p1} : poller[p] = Idle

\* The server numbers its mails anew, with UIDs that were in use.
RenumberedCase == OnlyFirst /\ crashes <= 1

\* Bound: polls overlap, or the server gives new UIDs, or the process crashes.
OneCase == OverlapCase \/ RenumberedCase \/ (OnlyFirst /\ mailbox.validity = 1)
=============================================================================
