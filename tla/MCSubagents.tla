---------------------------- MODULE MCSubagents ----------------------------
(***************************************************************************)
(* The instance of Subagents for TLC: MCSubagents.cfg gives the constants. *)
(***************************************************************************)
EXTENDS Subagents

Setup(planned, spawns, requests, retries, calls, faults) ==
    [planned |-> planned, spawns |-> spawns, requests |-> requests,
     retries |-> retries, rounds |-> calls, faults |-> faults]

\* A delegation that is called again after a fault; three assignments, and two
\* with retries, that wait for each other; two or one, or one beside a spawned
\* child, and a request, the smaller ones with a fault.
MCSetups == {
    Setup(2, FALSE, FALSE, 0, 2, 1),
    Setup(3, FALSE, FALSE, 0, 1, 0),
    Setup(2, FALSE, FALSE, 1, 1, 0),
    Setup(2, FALSE, TRUE,  0, 1, 0),
    Setup(1, FALSE, TRUE,  1, 1, 1),
    Setup(1, TRUE,  TRUE,  0, 1, 1),
    Setup(1, TRUE,  TRUE,  0, 2, 0)}
=============================================================================
