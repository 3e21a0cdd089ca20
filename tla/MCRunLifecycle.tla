--------------------------- MODULE MCRunLifecycle ---------------------------
(***************************************************************************)
(* Instances of RunLifecycle for TLC.                                      *)
(***************************************************************************)
EXTENDS RunLifecycle, TLC

\* The first call proposed needs approval; a second one would not.
FirstCall == {1}

\* Executor tasks and approval requests are interchangeable.
Symmetry == Permutations(Workers) \cup Permutations(Deciders)
=============================================================================
