----------------------------- MODULE MCShutdown -----------------------------
(***************************************************************************)
(* Instances of Shutdown for TLC: short periods to see every overlap of    *)
(* them, and the periods of the code in ticks of 100 ms.                   *)
(***************************************************************************)
EXTENDS Shutdown
=============================================================================
