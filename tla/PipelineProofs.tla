--------------------------- MODULE PipelineProofs ---------------------------
(***************************************************************************)
(* For every size of the queue, and any number of frames and messages.     *)
(***************************************************************************)
EXTENDS Pipeline, SequenceTheorems, TLAPS

LEMMA InitInvariant == Init => IInv
<1> SUFFICES ASSUME Init PROVE IInv
  OBVIOUS
<1>1. queue = <<>> /\ bus = <<>> /\ Len(queue) = 0
  BY DEF Init
<1>2. TypeOK
  <2>1. count \in Counts
    BY DEF Init, Counts
  <2>2. queue \in Seq(Nat) /\ bus \in Seq({"error", "qos", "eos"})
    BY <1>1
  <2>3. control = "made" /\ graph = "null" /\ callback = "idle" /\ busThread = "none"
    BY DEF Init
  <2>4. attached \in BOOLEAN /\ busStop \in BOOLEAN /\ reported \in BOOLEAN
    BY DEF Init
  <2>5. age = 0 /\ posted = 0 /\ Len(queue) <= MaxBuffers
    BY <1>1, PipelineAssumption DEF Init
  <2>6. QED
    BY <2>1, <2>2, <2>3, <2>4, <2>5, PipelineAssumption DEF TypeOK
<1>3. Latest
  BY <1>1 DEF Latest
<1>4. BusThreadLives /\ Silenced
  BY DEF Init, BusThreadLives, Silenced, Teardown
<1>5. LossCounted /\ Fresh
  BY DEF Init, LossCounted, Fresh, Pending, Inside, InCallback
<1>6. QED
  BY <1>2, <1>3, <1>4, <1>5 DEF IInv

\* What a capture makes of a queue of the last frames captured.
LEMMA LeakOlder ==
    ASSUME NEW s \in Seq(Nat), NEW t, t = Leak(Older(s)),
           Len(s) <= MaxBuffers, \A i \in DOMAIN s : s[i] = Len(s) - i
    PROVE  /\ t \in Seq(Nat) /\ Len(t) <= MaxBuffers
           /\ \A i \in DOMAIN t : t[i] = Len(t) - i
<1> DEFINE o == Older(s)
<1>1. o \in Seq(Nat) /\ Len(o) = Len(s) /\ \A i \in 1..Len(s) : o[i] = Len(s) - i + 1
  <2>1. o = [i \in 1..Len(s) |-> s[i] + 1] /\ \A i \in 1..Len(s) : s[i] \in Nat
    BY DEF Older
  <2>2. o \in [1..Len(s) -> Nat] /\ Len(s) \in Nat
    BY <2>1
  <2>3. o \in Seq(Nat)
    <3>1. o \in UNION {[1..n -> Nat] : n \in Nat}
      BY <2>2, Zenon
    <3>2. Seq(Nat) = UNION {[1..n -> Nat] : n \in Nat}
      BY SeqDef, Zenon
    <3>3. QED
      BY <3>1, <3>2, Zenon
  <2>4. DOMAIN o = 1..Len(s) /\ Len(o) = Len(s)
    BY <2>2, <2>3
  <2>5. QED
    BY <2>1, <2>3, <2>4
<1>2. CASE Len(o) = MaxBuffers
  <2>1. Tail(o) \in Seq(Nat) /\ Len(Tail(o)) = Len(o) - 1
        /\ \A i \in 1..(Len(o) - 1) : Tail(o)[i] = o[i + 1]
    BY <1>1, <1>2, PipelineAssumption
  <2>2. t = Append(Tail(o), 0)
    BY <1>2 DEF Leak
  <2>3. t \in Seq(Nat) /\ Len(t) = Len(s)
    BY <1>1, <2>1, <2>2
  <2>4. \A i \in 1..Len(t) : t[i] = Len(t) - i
    BY <1>1, <2>1, <2>2, <2>3
  <2>5. DOMAIN t = 1..Len(t)
    BY <2>3
  <2>6. Len(t) <= MaxBuffers
    BY <2>3
  <2>7. QED
    BY <2>3, <2>4, <2>5, <2>6
<1>3. CASE Len(o) # MaxBuffers
  <2>1. t = Append(o, 0)
    BY <1>3 DEF Leak
  <2>2. t \in Seq(Nat) /\ Len(t) = Len(s) + 1
    BY <1>1, <2>1
  <2>3. \A i \in 1..Len(t) : t[i] = Len(t) - i
    BY <1>1, <2>1, <2>2
  <2>4. QED
    BY <1>1, <1>3, <2>2, <2>3, PipelineAssumption
<1>4. QED
  BY <1>2, <1>3

\* One counter goes up.
LEMMA CountedUp ==
    ASSUME TypeOK, NEW c \in {"in", "out", "drops"}, Counted(c)
    PROVE  /\ count'[c] = count[c] + 1
           /\ \A d \in {"in", "out", "drops"} \ {c} : count'[d] = count[d]
BY DEF Counted, TypeOK, Counts

\* And the counters stay numbers.
LEMMA CountsKept ==
    ASSUME count \in Counts, NEW c \in {"in", "out", "drops"}, Counted(c) \/ UNCHANGED count
    PROVE  count' \in Counts
BY DEF Counted, Counts

\* Every variable keeps its type.
LEMMA TypeKept == ASSUME TypeOK, Latest, [Next]_vars PROVE TypeOK'
<1> USE PipelineAssumption DEF streamVars, busVars, TypeOK, Teardown, InCallback
<1>1. CASE Capture
  BY <1>1, LeakOlder DEF Capture, Latest
<1>2. CASE PostNote
  <2>1. PICK m \in {"qos", "eos"} : Post(m)
    BY <1>2 DEF PostNote
  <2>2. bus' \in Seq({"error", "qos", "eos"}) /\ posted' \in 0..MaxMessages
    BY <2>1 DEF Post
  <2>3. QED
    BY <1>2, <2>1, <2>2 DEF PostNote, Post
<1>3. CASE Break
  BY <1>3 DEF Break, Post
<1>4. CASE Reach
  BY <1>4 DEF Reach
<1>5. CASE Take
  BY <1>5 DEF Take, StreamOnly
<1>6. CASE PullNothing
  BY <1>6 DEF PullNothing, StreamOnly
<1>7. CASE Pull
  <2>1. count' \in Counts
    BY <1>7, CountsKept DEF Pull
  <2>2. QED
    BY <1>7, <2>1 DEF Pull, StreamOnly
<1>8. CASE Transform
  <2>1. count' \in Counts
    BY <1>8, CountsKept DEF Transform
  <2>2. QED
    BY <1>8, <2>1 DEF Transform, StreamOnly
<1>9. CASE OnFrame
  <2>1. count' \in Counts
    BY <1>9, CountsKept DEF OnFrame
  <2>2. QED
    BY <1>9, <2>1 DEF OnFrame, StreamOnly
<1>10. CASE Push
  <2>1. count' \in Counts
    BY <1>10, CountsKept DEF Push
  <2>2. QED
    BY <1>10, <2>1 DEF Push, StreamOnly
<1>11. CASE BusPoll
  <2>1. CASE busStop \/ bus = <<>>
    BY <1>11, <2>1 DEF BusPoll, BusOnly
  <2>2. CASE ~busStop /\ bus # <<>>
    <3>1. Head(bus) \in {"error", "qos", "eos"} /\ Tail(bus) \in Seq({"error", "qos", "eos"})
      BY <2>2
    <3>2. busThread' = Head(bus) /\ bus' = Tail(bus)
      BY <1>11, <2>2 DEF BusPoll
    <3>3. UNCHANGED <<control, graph, attached, streamVars, posted, busStop, count, reported>>
      BY <1>11 DEF BusPoll, BusOnly
    <3>4. QED
      BY <3>1, <3>2, <3>3
  <2>3. QED
    BY <2>1, <2>2
<1>12. CASE Dispatch
  <2>1. count' \in Counts
    BY <1>12, CountsKept DEF Dispatch
  <2>2. QED
    BY <1>12, <2>1 DEF Dispatch, BusOnly
<1>13. CASE Play
  BY <1>13 DEF Play, ControlOnly
<1>14. CASE PlayFails
  BY <1>14 DEF PlayFails, ControlOnly
<1>15. CASE PlayReturns
  BY <1>15 DEF PlayReturns, ControlOnly
<1>16. CASE Stop
  BY <1>16 DEF Stop, ControlOnly
<1>17. CASE StopBus
  BY <1>17 DEF StopBus, ControlOnly
<1>18. CASE JoinBus
  BY <1>18 DEF JoinBus, ControlOnly
<1>19. CASE Detach
  BY <1>19 DEF Detach, ControlOnly
<1>20. CASE ToNull
  BY <1>20 DEF ToNull, ControlOnly
<1>21. CASE UNCHANGED vars
  BY <1>21 DEF vars
<1>22. QED
  BY <1>1, <1>2, <1>3, <1>4, <1>5, <1>6, <1>7, <1>8, <1>9, <1>10, <1>11, <1>12,
     <1>13, <1>14, <1>15, <1>16, <1>17, <1>18, <1>19, <1>20, <1>21
     DEF Next, Stream, Bus, Owner, Rest

\* The frames in the queue stay the last ones captured.
LEMMA LatestKept == ASSUME TypeOK, Latest, Fresh, [Next]_vars PROVE Latest' /\ Fresh'
<1> USE PipelineAssumption DEF streamVars, busVars, TypeOK, Latest, Fresh
<1>1. CASE Capture
  BY <1>1, LeakOlder DEF Capture
<1>2. CASE PostNote
  BY <1>2 DEF PostNote, Post
<1>3. CASE Break
  BY <1>3 DEF Break, Post
<1>4. CASE Reach
  BY <1>4 DEF Reach
<1>5. CASE Take
  BY <1>5 DEF Take, StreamOnly
<1>6. CASE PullNothing
  BY <1>6 DEF PullNothing, StreamOnly
<1>7. CASE Pull
  BY <1>7 DEF Pull, StreamOnly, Counted
<1>8. CASE Transform
  BY <1>8 DEF Transform, StreamOnly, Counted
<1>9. CASE OnFrame
  BY <1>9 DEF OnFrame, StreamOnly, Counted
<1>10. CASE Push
  BY <1>10 DEF Push, StreamOnly, Counted
<1>11. CASE BusPoll
  BY <1>11 DEF BusPoll, BusOnly
<1>12. CASE Dispatch
  BY <1>12 DEF Dispatch, BusOnly, Counted
<1>13. CASE Play
  BY <1>13 DEF Play, ControlOnly
<1>14. CASE PlayFails
  BY <1>14 DEF PlayFails, ControlOnly
<1>15. CASE PlayReturns
  BY <1>15 DEF PlayReturns, ControlOnly
<1>16. CASE Stop
  BY <1>16 DEF Stop, ControlOnly
<1>17. CASE StopBus
  BY <1>17 DEF StopBus, ControlOnly
<1>18. CASE JoinBus
  BY <1>18 DEF JoinBus, ControlOnly
<1>19. CASE Detach
  BY <1>19 DEF Detach, ControlOnly
<1>20. CASE ToNull
  BY <1>20 DEF ToNull, ControlOnly
<1>21. CASE UNCHANGED vars
  BY <1>21 DEF vars
<1>22. QED
  BY <1>1, <1>2, <1>3, <1>4, <1>5, <1>6, <1>7, <1>8, <1>9, <1>10, <1>11, <1>12,
     <1>13, <1>14, <1>15, <1>16, <1>17, <1>18, <1>19, <1>20, <1>21
     DEF Next, Stream, Bus, Owner, Rest

\* The two threads that call back are there only while the owner lets them.
LEMMA ThreadsKept ==
    ASSUME TypeOK, BusThreadLives, Silenced, [Next]_vars
    PROVE  BusThreadLives' /\ Silenced'
<1> USE DEF streamVars, busVars, TypeOK, BusThreadLives, Silenced, InCallback
<1>1. CASE Capture
  BY <1>1 DEF Capture, Leak, Older
<1>2. CASE PostNote
  BY <1>2 DEF PostNote, Post
<1>3. CASE Break
  BY <1>3 DEF Break, Post
<1>4. CASE Reach
  BY <1>4 DEF Reach
<1>5. CASE Take
  BY <1>5 DEF Take, StreamOnly
<1>6. CASE PullNothing
  BY <1>6 DEF PullNothing, StreamOnly
<1>7. CASE Pull
  BY <1>7 DEF Pull, StreamOnly, Counted
<1>8. CASE Transform
  BY <1>8 DEF Transform, StreamOnly, Counted
<1>9. CASE OnFrame
  BY <1>9 DEF OnFrame, StreamOnly, Counted
<1>10. CASE Push
  BY <1>10 DEF Push, StreamOnly, Counted
<1>11. CASE BusPoll
  BY <1>11 DEF BusPoll, BusOnly
<1>12. CASE Dispatch
  BY <1>12 DEF Dispatch, BusOnly, Counted
<1>13. CASE Play
  BY <1>13 DEF Play, ControlOnly
<1>14. CASE PlayFails
  BY <1>14 DEF PlayFails, ControlOnly
<1>15. CASE PlayReturns
  BY <1>15 DEF PlayReturns, ControlOnly
<1>16. CASE Stop
  BY <1>16 DEF Stop, ControlOnly
<1>17. CASE StopBus
  BY <1>17 DEF StopBus, ControlOnly
<1>18. CASE JoinBus
  BY <1>18 DEF JoinBus, ControlOnly
<1>19. CASE Detach
  BY <1>19 DEF Detach, ControlOnly
<1>20. CASE ToNull
  BY <1>20 DEF ToNull, ControlOnly
<1>21. CASE UNCHANGED vars
  BY <1>21 DEF vars
<1>22. QED
  BY <1>1, <1>2, <1>3, <1>4, <1>5, <1>6, <1>7, <1>8, <1>9, <1>10, <1>11, <1>12,
     <1>13, <1>14, <1>15, <1>16, <1>17, <1>18, <1>19, <1>20, <1>21
     DEF Next, Stream, Bus, Owner, Rest

\* Whatever happens to a frame, it is counted.
LEMMA LossKept == ASSUME TypeOK, LossCounted, [Next]_vars PROVE LossCounted'
<1> USE DEF streamVars, busVars, TypeOK, Counts, LossCounted, Pending, Inside, InCallback
<1>1. CASE Capture
  BY <1>1 DEF Capture, Leak, Older
<1>2. CASE PostNote
  BY <1>2 DEF PostNote, Post
<1>3. CASE Break
  BY <1>3 DEF Break, Post
<1>4. CASE Reach
  BY <1>4 DEF Reach
<1>5. CASE Take
  BY <1>5 DEF Take, StreamOnly
<1>6. CASE PullNothing
  BY <1>6 DEF PullNothing, StreamOnly
<1>7. CASE Pull
  BY <1>7, CountedUp DEF Pull, StreamOnly
<1>8. CASE Transform
  BY <1>8, CountedUp DEF Transform, StreamOnly
<1>9. CASE OnFrame
  BY <1>9, CountedUp DEF OnFrame, StreamOnly
<1>10. CASE Push
  BY <1>10, CountedUp DEF Push, StreamOnly
<1>11. CASE BusPoll
  BY <1>11 DEF BusPoll, BusOnly
<1>12. CASE Dispatch
  BY <1>12, CountedUp DEF Dispatch, BusOnly
<1>13. CASE Play
  BY <1>13 DEF Play, ControlOnly
<1>14. CASE PlayFails
  BY <1>14 DEF PlayFails, ControlOnly
<1>15. CASE PlayReturns
  BY <1>15 DEF PlayReturns, ControlOnly
<1>16. CASE Stop
  BY <1>16 DEF Stop, ControlOnly
<1>17. CASE StopBus
  BY <1>17 DEF StopBus, ControlOnly
<1>18. CASE JoinBus
  BY <1>18 DEF JoinBus, ControlOnly
<1>19. CASE Detach
  BY <1>19 DEF Detach, ControlOnly
<1>20. CASE ToNull
  BY <1>20 DEF ToNull, ControlOnly
<1>21. CASE UNCHANGED vars
  BY <1>21 DEF vars
<1>22. QED
  BY <1>1, <1>2, <1>3, <1>4, <1>5, <1>6, <1>7, <1>8, <1>9, <1>10, <1>11, <1>12,
     <1>13, <1>14, <1>15, <1>16, <1>17, <1>18, <1>19, <1>20, <1>21
     DEF Next, Stream, Bus, Owner, Rest

LEMMA NextInvariant == IInv /\ [Next]_vars => IInv'
BY TypeKept, LatestKept, ThreadsKept, LossKept DEF IInv

(***************************************************************************)
(* Invariant: the inductive invariant holds in every reachable state.      *)
(***************************************************************************)
THEOREM Invariant == Spec => []IInv
BY InitInvariant, NextInvariant, PTL DEF Spec

(***************************************************************************)
(* EachCounted: each frame that came in went out, was counted as dropped, or   *)
(* is in the callback (pipeline.cpp:179-213).                              *)
(***************************************************************************)
THEOREM EachCounted == Spec => []LossCounted
<1>1. IInv => LossCounted
  BY DEF IInv
<1>2. QED
  BY <1>1, Invariant, PTL

(***************************************************************************)
(* NotLate: a frame that is worked on was one of the last MaxBuffers when  *)
(* it left the queue (factory.cpp:11-16).                                  *)
(***************************************************************************)
THEOREM NotLate == Spec => []Fresh
<1>1. IInv => Fresh
  BY DEF IInv
<1>2. QED
  BY <1>1, Invariant, PTL

(***************************************************************************)
(* Left: when shutdown() has returned no thread is in the object           *)
(* (pipeline.cpp:217-231).                                                 *)
(***************************************************************************)
THEOREM Left == Spec => []NobodyInside
<1>1. IInv => NobodyInside
  BY DEF IInv, TypeOK, BusThreadLives, Silenced, NobodyInside, Inside, InCallback
<1>2. QED
  BY <1>1, Invariant, PTL
=============================================================================
