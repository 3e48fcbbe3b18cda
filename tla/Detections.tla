----------------------------- MODULE Detections -----------------------------
(***************************************************************************)
(* modules/telemetry: publish_detections, which builds its payload in a    *)
(* fixed buffer.  A text is its length.                                    *)
(***************************************************************************)
EXTENDS Naturals

CONSTANTS
    Sequences,  \* how many digits the sequence number of a frame may have
    Lengths,    \* how long the text of an object may be, without its comma
    Counts      \* how many objects a frame may have, fewer than a thousand

VARIABLES
    at,      \* where the call is
    total,   \* objects.size()
    n,       \* characters so far
    written  \* objects so far

vars == <<at, total, n, written>>

Size == 2048
Reserve == 16

Init == at = "header" /\ total \in Counts /\ n = 0 /\ written = 0

Digits(c) == IF c < 10 THEN 1 ELSE IF c < 100 THEN 2 ELSE 3

\* {"v":1,"seq":,"count":,"objects":[ without the two numbers.
HeaderText == 34

\* snprintf answers how long the text is, and writes what there is room for.
Header ==
    /\ at = "header" /\ at' = "objects"
    /\ \E digits \in Sequences : n' = HeaderText + digits + Digits(total)
    /\ UNCHANGED <<total, written>>

Room == Size - n - Reserve

Object(k) ==
    /\ at = "objects" /\ written < total
    /\ IF n + Reserve < Size /\ k < Room
         THEN n' = n + k /\ written' = written + 1 /\ UNCHANGED at
         ELSE at' = "tail" /\ UNCHANGED <<n, written>>
    /\ UNCHANGED total

NextObject == \E k \in Lengths : Object(IF written = 0 THEN k ELSE k + 1)

Through == at = "objects" /\ written = total /\ at' = "tail" /\ UNCHANGED <<total, n, written>>

\* ],"truncated":true} or ],"truncated":false}
Tail == IF written < total THEN 19 ELSE 20

Close ==
    /\ at = "tail" /\ at' = "sent"
    /\ n' = n + Tail
    /\ UNCHANGED <<total, written>>

Next == Header \/ NextObject \/ Through \/ Close \/ (at = "sent" /\ UNCHANGED vars)

Spec == Init /\ [][Next]_vars

(***************************************************************************)
(* ClosedInside: a list that is too long is truncated and says so, and the *)
(* payload that is handed on ends inside the buffer, terminator included,  *)
(* whatever the lengths of the objects (publisher.cpp:231-267).            *)
(***************************************************************************)
ClosedInside == at = "sent" => n < Size
=============================================================================
