---------------------------- MODULE MCFocusRelay ----------------------------
(***************************************************************************)
(* Instances of FocusRelay for TLC.                                        *)
(***************************************************************************)
EXTENDS FocusRelay, TLC

CONSTANTS d1, d2, d3, w1, w2, w3, p1, p2

\* d1 and d2 are watched, d1 by three dashboards and both by the one whose
\* drones are looked up, so that it can close between the two answers; d2 and
\* d3 are flown, d3 by two pilots, and nobody watches d3.
ThreeDrones ==
  {<<w1, d1>>, <<w2, d1>>, <<w3, d1>>, <<w2, d2>>, <<p1, d2>>, <<p1, d3>>, <<p2, d3>>}

\* Two dashboards open the same drone in the same role.
SameDashboards == Permutations({w1, w3})
=============================================================================
