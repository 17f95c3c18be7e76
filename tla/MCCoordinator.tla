---------------------------- MODULE MCCoordinator ----------------------------
(***************************************************************************)
(* Values for model checking Coordinator: sets of model values, and the    *)
(* symmetry that the safety runs use.                                      *)
(***************************************************************************)
EXTENDS Coordinator

CONSTANTS u1, u2, r1, r2, t1, t2, t3

OneUser == {u1}
TwoUsers == {u1, u2}

OneRequest == {r1}
TwoRequests == {r1, r2}

TwoTasks == {t1, t2}
ThreeTasks == {t1, t2, t3}

\* Requests are only compared for equality, and every choice of one is an \E
\* over the set.
Symmetry == Permutations(Requests)

\* The bound on tasks never stops a spawn: the system manager is spawned once,
\* and a session of a user is either listed or signalled.
ASSUME EnoughTasks == Cardinality(Tasks) >= 1 + Cardinality(Uids) * MaxLogins

=============================================================================
