--------------------------- MODULE MCProvisioning ---------------------------
(***************************************************************************)
(* Provisioning on small sets of drones and of requests in flight.         *)
(***************************************************************************)
EXTENDS Provisioning, TLC

CONSTANTS d1, d2, d3, r1, r2, r3

TwoDevices == {d1, d2}
ThreeDevices == {d1, d2, d3}
OneRequest == {r1}
TwoRequests == {r1, r2}
ThreeRequests == {r1, r2, r3}

\* Handlers are interchangeable, and so are drones; no temporal property is
\* checked under it.
Symmetric == Permutations(ThreeDevices) \cup Permutations(ThreeRequests)
=============================================================================
