------------------------------ MODULE MCOutbox ------------------------------
(***************************************************************************)
(* Instances of Outbox for TLC.                                            *)
(***************************************************************************)
EXTENDS Outbox

Linked(i, n, o) == [inv |-> i, note |-> n, op |-> o]

\* A browser notification with two subscriptions and a mail, of one tool call,
\* and the read-only receipt that answers the mail.
NoticeActions == 1 .. 4
\* A piece of code, and another one, each of a call of its own.
CodeActions == 5 .. 6

\* Two writes of the same file, and the undo of each.
FileActions == 7 .. 10

AllActions == NoticeActions \cup CodeActions \cup FileActions
AllDest    == <<"web_push", "web_push", "smtp", "smtp", "subprocess", "subprocess",
                "workspace_file", "workspace_file", "workspace_file", "workspace_file">>
AllBatch   == <<1, 1, 1, 2, 3, 4, 5, 6, 0, 0>>
AllLink    == <<Linked(1, 1, 0), Linked(1, 1, 0), Linked(1, 2, 0), Linked(0, 2, 0),
                Linked(2, 0, 0), Linked(3, 0, 0),
                Linked(4, 0, 1), Linked(5, 0, 2), Linked(0, 0, 1), Linked(0, 0, 2)>>
AllContent == [a \in Actions |-> IF a = 7 THEN "v1" ELSE "v2"]

\* A write of the file, a push and a piece of code.
MixedActions == 1 .. 3
MixedDest    == <<"workspace_file", "web_push", "subprocess">>
MixedBatch   == <<1, 2, 3>>
MixedLink    == <<Linked(1, 0, 1), Linked(2, 1, 0), Linked(3, 0, 0)>>

Contents2 == [a \in Actions |-> IF a = 1 THEN "v1" ELSE "v2"]
=============================================================================
