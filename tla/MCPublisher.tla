---------------------------- MODULE MCPublisher ----------------------------
(***************************************************************************)
(* Instances of Publisher for TLC: room for a CONNECT, a health message,   *)
(* and the two packets of a clean end behind what an earlier connection    *)
(* has left.                                                               *)
(***************************************************************************)
EXTENDS Publisher
=============================================================================
