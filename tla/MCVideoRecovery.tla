-------------------------- MODULE MCVideoRecovery --------------------------
(* VideoRecovery with two drones. *)
EXTENDS VideoRecovery

CONSTANTS d1, d2

TwoDrones == {d1, d2}
=============================================================================
