---------------------------- MODULE MCOwnerCache ----------------------------
(* OwnerCache with two users. *)
EXTENDS OwnerCache

CONSTANTS p1, p2

TwoUsers == {p1, p2}
=============================================================================
