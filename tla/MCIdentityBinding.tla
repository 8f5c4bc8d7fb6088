------------------------- MODULE MCIdentityBinding --------------------------
(***************************************************************************)
(* Identity binding on small sets.                                         *)
(***************************************************************************)
EXTENDS IdentityBinding, TLC

CONSTANTS d1, d2, r1, r2, b1, b2

TwoDevices == {d1, d2}
OneRequest == {r1}
TwoRequests == {r1, r2}
OneBinder == {b1}
TwoBinders == {b1, b2}

\* The operator enters d1 at the address of the second drone to register, or
\* at the one that is configured by hand.
MoveInputs == {[id |-> d1, ip |-> ip] : ip \in {3, 4}}
=============================================================================
