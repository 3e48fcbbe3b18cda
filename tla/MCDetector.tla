----------------------------- MODULE MCDetector -----------------------------
(***************************************************************************)
(* Instances of Detector for TLC: two frames that can be told apart come   *)
(* again and again, and two results.                                       *)
(***************************************************************************)
EXTENDS Detector

CONSTANTS f1, f2

MCFrames == {f1, f2}
=============================================================================
