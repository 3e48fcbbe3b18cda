----------------------------- MODULE MCSpscRing -----------------------------
(***************************************************************************)
(* Instances of SpscRing for TLC.  The index space is small enough for     *)
(* both indices to wrap many times, so no bound on the number of records.  *)
(***************************************************************************)
EXTENDS SpscRing

CONSTANTS a, b, blank

MCRecords == {a, b, blank}
=============================================================================
