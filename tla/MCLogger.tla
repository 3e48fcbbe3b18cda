------------------------------ MODULE MCLogger ------------------------------
(***************************************************************************)
(* Instance of Logger for TLC.  The counters wrap at a few records, so     *)
(* the number of calls of the first thread is not bounded; the second one  *)
(* makes its first call at any time.                                       *)
(***************************************************************************)
EXTENDS Logger

CONSTANTS t1, t2, none

MCThreads == {t1, t2}
MCChatty == {t1}
=============================================================================
