----------------------------- MODULE LogChannel -----------------------------
(***************************************************************************)
(* What one producing thread and the sink thread may assume of the ring    *)
(* between them, with no slot, index or memory order in sight: a bounded   *)
(* FIFO that never blocks.  SpscRing implements it.                        *)
(*                                                                         *)
(* The producer's idea of the free space may be out of date: `unseen' is   *)
(* the number of records the consumer has already taken that the producer  *)
(* has not observed yet.  It may therefore be told "full" by a channel     *)
(* that is not, but only by as much as it has not seen.                    *)
(***************************************************************************)
EXTENDS Naturals, Sequences

CONSTANTS
    Records,   \* what may be logged
    Capacity   \* how many records the channel holds

VARIABLES
    chan,      \* the accepted records the consumer has not taken, oldest first
    unseen,    \* records taken that the producer does not know of
    accepted,  \* the answer to the producer's last try_push
    taken      \* the record of the consumer's last try_pop that returned true

chanVars == <<chan, unseen, accepted, taken>>

Init == /\ chan = <<>>
        /\ unseen = 0
        /\ accepted = TRUE
        /\ taken \in Records

\* The producer catches up with some of what the consumer has done.
Look == /\ unseen' \in 0..unseen
        /\ UNCHANGED <<chan, accepted, taken>>

Send(r) == /\ Len(chan) + unseen < Capacity
           /\ chan' = Append(chan, r)
           /\ accepted' = TRUE
           /\ UNCHANGED <<unseen, taken>>

\* Refused because, at the producer's latest look, there was no room.
Refuse == /\ unseen' \in 0..unseen
          /\ Len(chan) + unseen' = Capacity
          /\ accepted' = FALSE
          /\ UNCHANGED <<chan, taken>>

Receive == /\ chan # <<>>
           /\ taken' = Head(chan)
           /\ chan' = Tail(chan)
           /\ unseen' = unseen + 1
           /\ UNCHANGED accepted

Next == \/ Look
        \/ \E r \in Records : Send(r)
        \/ Refuse
        \/ Receive

Safe == Init /\ [][Next]_chanVars

\* A record that was accepted does not stay in the channel for ever.
Spec == Safe /\ WF_chanVars(Receive)
=============================================================================
