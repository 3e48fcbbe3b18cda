----------------------------- MODULE MCService -----------------------------
(***************************************************************************)
(* Instances of Service for TLC: the four components main.cpp adds.        *)
(***************************************************************************)
EXTENDS Service
=============================================================================
