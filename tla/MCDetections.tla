---------------------------- MODULE MCDetections ----------------------------
(***************************************************************************)
(* The lengths that frames have: a sequence number of up to six digits, a  *)
(* class of three to nine letters, coordinates of one to four digits.      *)
(***************************************************************************)
EXTENDS Detections

MCSequences == 1..6
MCLengths == 51..69
MCCounts == {0, 2, 400}
=============================================================================
