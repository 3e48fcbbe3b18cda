------------------------------- MODULE MCNuc -------------------------------
(***************************************************************************)
(* Instances of Nuc for TLC, in ticks of 50 ms: the timeouts of NucConfig, *)
(* and a block that is in time, just in time and too late.                 *)
(***************************************************************************)
EXTENDS Nuc

MCMoveTimes == {1, 3, 4}
MCAccumulateTimes == {2, 8, 9}
=============================================================================
