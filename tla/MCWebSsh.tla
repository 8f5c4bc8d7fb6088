------------------------------ MODULE MCWebSsh ------------------------------
(***************************************************************************)
(* Terminals of a few sockets.  A connection is used once: with them all   *)
(* spent the model ends.                                                   *)
(***************************************************************************)
EXTENDS WebSsh, TLC

CONSTANTS b1, b2, k1, k2, k3

OneBrowser == {b1}
TwoBrowsers == {b1, b2}
ThreeSessions == {k1, k2, k3}
AnySession == Permutations(ThreeSessions)
=============================================================================
