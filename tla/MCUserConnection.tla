-------------------------- MODULE MCUserConnection --------------------------
(***************************************************************************)
(* Values for model checking UserConnection: two calls at the same time,   *)
(* a bus that refuses root and one that admits it.                         *)
(***************************************************************************)
EXTENDS UserConnection

CONSTANTS c1, c2, u1, u2

TwoCallers == {c1, c2}
TwoUsers == {u1, u2}
OneAllowed == {u2}
RootOrUser == {Root, u1}

=============================================================================
