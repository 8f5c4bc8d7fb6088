---------------------------- MODULE MCFleetCache ----------------------------
(* FleetCache with one or two drones. *)
EXTENDS FleetCache

CONSTANTS d1, d2

OneDrone == {d1}
TwoDrones == {d1, d2}
=============================================================================
