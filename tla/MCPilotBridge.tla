--------------------------- MODULE MCPilotBridge ---------------------------
(* PilotBridge with two drones and one ground control station. *)
EXTENDS PilotBridge, TLC

CONSTANTS d1, d2, q1

TwoDrones == {d1, d2}
OneStation == {q1}

\* Drones are interchangeable, and no temporal property is checked.
Symmetric == Permutations(TwoDrones)
=============================================================================
