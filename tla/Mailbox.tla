------------------------------ MODULE Mailbox ------------------------------
(***************************************************************************)
(* What the streaming thread and the inference worker may assume of what   *)
(* is between them (modules/detect), with no thread, mutex or byte in      *)
(* sight: one slot.  A frame is accepted only into an empty slot, and      *)
(* whoever works on it works on exactly that frame, once; then the slot is *)
(* empty again.  Nothing is said of frames that are not accepted.          *)
(***************************************************************************)
CONSTANTS
    Frames,   \* what may be accepted
    NoFrame

VARIABLES
    slot,     \* the accepted frame, until it is done with
    work      \* the frame that is being worked on

boxVars == <<slot, work>>

Init == slot = NoFrame /\ work = NoFrame

Accept(f) == slot = NoFrame /\ slot' = f /\ UNCHANGED work

Take == /\ slot # NoFrame /\ work = NoFrame
        /\ work' = slot
        /\ UNCHANGED slot

Done == /\ work # NoFrame
        /\ slot' = NoFrame /\ work' = NoFrame

Next == (\E f \in Frames : Accept(f)) \/ Take \/ Done

Safe == Init /\ [][Next]_boxVars
=============================================================================
