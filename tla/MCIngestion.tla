---------------------------- MODULE MCIngestion ----------------------------
(***************************************************************************)
(* Ingestion with a queue of two items; three contents of a frame, two of  *)
(* them with the same critical fields.                                     *)
(***************************************************************************)
EXTENDS Ingestion

CONSTANTS d1, d2

OneDrone == {d1}
TwoDrones == {d1, d2}
ThreeData == {[mode |-> 0, pos |-> 0], [mode |-> 0, pos |-> 1], [mode |-> 1, pos |-> 1]}
TwoData == {[mode |-> 0, pos |-> 0], [mode |-> 1, pos |-> 1]}
=============================================================================
