--------------------------- MODULE DetectorProofs ---------------------------
(***************************************************************************)
(* For every set of frames and every order of the threads: the detector    *)
(* infers on whole frames, and on each one it has accepted, and what is    *)
(* reported of the results goes forward.                                   *)
(***************************************************************************)
EXTENDS Detector, TLAPS

LEMMA InitInvariant == Init => IInv
<1>1. Init => TypeOK
  <2> SUFFICES ASSUME Init PROVE TypeOK
    OBVIOUS
  <2>1. {current, top, bottom} \subseteq AnyFrame /\ taken \in AnyFrame \X AnyFrame
    BY DEF Init, AnyFrame
  <2>2. stream = "out" /\ worker = "none" /\ owner = "up"
    BY DEF Init
  <2>3. mailboxLock = "none" /\ resultLock = "none" /\ pending = FALSE /\ stop = FALSE
    BY DEF Init
  <2>4. last = 0 /\ timed = 0 /\ report \in [list : Nat, count : Nat, time : Nat]
    BY DEF Init
  <2>5. QED
    BY <2>1, <2>2, <2>3, <2>4 DEF TypeOK
<1>2. Init => Locks
  BY DEF Init, Locks, Copying, Waiting
<1>3. Init => Contents
  BY DEF Init, Contents, Copying, Inferring, Working
<1>4. Init => Numbers
  BY DEF Init, Numbers
<1>5. QED
  BY <1>1, <1>2, <1>3, <1>4 DEF IInv

\* Every variable keeps its type.
LEMMA TypeKept == ASSUME TypeOK, [Next]_vars PROVE TypeOK'
<1> USE DEF boxVars, found, resultVars, ownerVars, TypeOK, Copying, Waiting, Inferring, Reporting,
            AnyFrame
<1>1. CASE \E f \in Frames : Process(f)
  BY <1>1 DEF Process
<1>2. CASE Offer
  BY <1>2 DEF Offer, StreamOnly
<1>3. CASE Refuse
  BY <1>3 DEF Refuse, StreamOnly
<1>4. CASE CopyTop
  BY <1>4 DEF CopyTop, StreamOnly
<1>5. CASE CopyBottom
  BY <1>5 DEF CopyBottom, StreamOnly
<1>6. CASE Post
  BY <1>6 DEF Post, StreamOnly, Notified
<1>7. CASE DrawLock
  BY <1>7 DEF DrawLock, StreamOnly
<1>8. CASE Drawn
  BY <1>8 DEF Drawn, StreamOnly
<1>9. CASE ReadList
  BY <1>9 DEF ReadList, StreamOnly
<1>10. CASE ReadCount
  BY <1>10 DEF ReadCount, StreamOnly
<1>11. CASE ReadTime
  BY <1>11 DEF ReadTime, StreamOnly
<1>12. CASE Test
  BY <1>12 DEF Test, WorkerOnly
<1>13. CASE Lock
  BY <1>13 DEF Lock, WorkerOnly
<1>14. CASE Check
  BY <1>14 DEF Check, WorkerOnly
<1>15. CASE Block
  BY <1>15 DEF Block, WorkerOnly
<1>16. CASE Timeout
  BY <1>16 DEF Timeout, WorkerOnly
<1>17. CASE LateLock
  BY <1>17 DEF LateLock, WorkerOnly
<1>18. CASE Take
  BY <1>18 DEF Take, WorkerOnly
<1>19. CASE Infer
  BY <1>19 DEF Infer, WorkerOnly
<1>20. CASE StoreLock
  BY <1>20 DEF StoreLock, WorkerOnly
<1>21. CASE Store
  BY <1>21 DEF Store, WorkerOnly
<1>22. CASE StoreTime
  BY <1>22 DEF StoreTime, WorkerOnly
<1>23. CASE Clear
  BY <1>23 DEF Clear, WorkerOnly
<1>24. CASE RequestStop
  BY <1>24 DEF RequestStop, OwnerOnly
<1>25. CASE NotifyAll
  BY <1>25 DEF NotifyAll, OwnerOnly, Notified
<1>26. CASE Join
  BY <1>26 DEF Join, OwnerOnly
<1>27. CASE UNCHANGED vars
  BY <1>27 DEF vars
<1>28. QED
  BY <1>1, <1>2, <1>3, <1>4, <1>5, <1>6, <1>7, <1>8, <1>9, <1>10, <1>11, <1>12,
     <1>13, <1>14, <1>15, <1>16, <1>17, <1>18, <1>19, <1>20, <1>21, <1>22, <1>23, <1>24,
     <1>25, <1>26, <1>27
     DEF Next, Stream, Worker

\* The mutexes are held where the positions of the threads say.
LEMMA LocksKept == ASSUME TypeOK, Locks, [Next]_vars PROVE Locks'
<1> USE DEF boxVars, found, resultVars, ownerVars, TypeOK, Locks, Copying, Waiting, Inferring,
            Reporting
<1>1. CASE \E f \in Frames : Process(f)
  BY <1>1 DEF Process
<1>2. CASE Offer
  BY <1>2 DEF Offer, StreamOnly
<1>3. CASE Refuse
  BY <1>3 DEF Refuse, StreamOnly
<1>4. CASE CopyTop
  BY <1>4 DEF CopyTop, StreamOnly
<1>5. CASE CopyBottom
  BY <1>5 DEF CopyBottom, StreamOnly
<1>6. CASE Post
  BY <1>6 DEF Post, StreamOnly, Notified
<1>7. CASE DrawLock
  BY <1>7 DEF DrawLock, StreamOnly
<1>8. CASE Drawn
  BY <1>8 DEF Drawn, StreamOnly
<1>9. CASE ReadList
  BY <1>9 DEF ReadList, StreamOnly
<1>10. CASE ReadCount
  BY <1>10 DEF ReadCount, StreamOnly
<1>11. CASE ReadTime
  BY <1>11 DEF ReadTime, StreamOnly
<1>12. CASE Test
  BY <1>12 DEF Test, WorkerOnly
<1>13. CASE Lock
  BY <1>13 DEF Lock, WorkerOnly
<1>14. CASE Check
  BY <1>14 DEF Check, WorkerOnly
<1>15. CASE Block
  BY <1>15 DEF Block, WorkerOnly
<1>16. CASE Timeout
  BY <1>16 DEF Timeout, WorkerOnly
<1>17. CASE LateLock
  BY <1>17 DEF LateLock, WorkerOnly
<1>18. CASE Take
  BY <1>18 DEF Take, WorkerOnly
<1>19. CASE Infer
  BY <1>19 DEF Infer, WorkerOnly
<1>20. CASE StoreLock
  BY <1>20 DEF StoreLock, WorkerOnly
<1>21. CASE Store
  BY <1>21 DEF Store, WorkerOnly
<1>22. CASE StoreTime
  BY <1>22 DEF StoreTime, WorkerOnly
<1>23. CASE Clear
  BY <1>23 DEF Clear, WorkerOnly
<1>24. CASE RequestStop
  BY <1>24 DEF RequestStop, OwnerOnly
<1>25. CASE NotifyAll
  BY <1>25 DEF NotifyAll, OwnerOnly, Notified
<1>26. CASE Join
  BY <1>26 DEF Join, OwnerOnly
<1>27. CASE UNCHANGED vars
  BY <1>27 DEF vars
<1>28. QED
  BY <1>1, <1>2, <1>3, <1>4, <1>5, <1>6, <1>7, <1>8, <1>9, <1>10, <1>11, <1>12,
     <1>13, <1>14, <1>15, <1>16, <1>17, <1>18, <1>19, <1>20, <1>21, <1>22, <1>23, <1>24,
     <1>25, <1>26, <1>27
     DEF Next, Stream, Worker

\* What is in the mailbox and in the worker's copy.
LEMMA ContentsKept == ASSUME TypeOK, Locks, Contents, [Next]_vars PROVE Contents'
<1> USE DetectorAssumption
        DEF boxVars, found, resultVars, ownerVars, TypeOK, Locks, Contents, Copying, Waiting,
            Inferring, Working, Reporting, AnyFrame
<1>1. CASE \E f \in Frames : Process(f)
  BY <1>1 DEF Process
<1>2. CASE Offer
  BY <1>2 DEF Offer, StreamOnly
<1>3. CASE Refuse
  BY <1>3 DEF Refuse, StreamOnly
<1>4. CASE CopyTop
  BY <1>4 DEF CopyTop, StreamOnly
<1>5. CASE CopyBottom
  BY <1>5 DEF CopyBottom, StreamOnly
<1>6. CASE Post
  BY <1>6 DEF Post, StreamOnly, Notified
<1>7. CASE DrawLock
  BY <1>7 DEF DrawLock, StreamOnly
<1>8. CASE Drawn
  BY <1>8 DEF Drawn, StreamOnly
<1>9. CASE ReadList
  BY <1>9 DEF ReadList, StreamOnly
<1>10. CASE ReadCount
  BY <1>10 DEF ReadCount, StreamOnly
<1>11. CASE ReadTime
  BY <1>11 DEF ReadTime, StreamOnly
<1>12. CASE Test
  BY <1>12 DEF Test, WorkerOnly
<1>13. CASE Lock
  BY <1>13 DEF Lock, WorkerOnly
<1>14. CASE Check
  BY <1>14 DEF Check, WorkerOnly
<1>15. CASE Block
  BY <1>15 DEF Block, WorkerOnly
<1>16. CASE Timeout
  BY <1>16 DEF Timeout, WorkerOnly
<1>17. CASE LateLock
  BY <1>17 DEF LateLock, WorkerOnly
<1>18. CASE Take
  BY <1>18 DEF Take, WorkerOnly
<1>19. CASE Infer
  BY <1>19 DEF Infer, WorkerOnly
<1>20. CASE StoreLock
  BY <1>20 DEF StoreLock, WorkerOnly
<1>21. CASE Store
  BY <1>21 DEF Store, WorkerOnly
<1>22. CASE StoreTime
  BY <1>22 DEF StoreTime, WorkerOnly
<1>23. CASE Clear
  BY <1>23 DEF Clear, WorkerOnly
<1>24. CASE RequestStop
  BY <1>24 DEF RequestStop, OwnerOnly
<1>25. CASE NotifyAll
  BY <1>25 DEF NotifyAll, OwnerOnly, Notified
<1>26. CASE Join
  BY <1>26 DEF Join, OwnerOnly
<1>27. CASE UNCHANGED vars
  BY <1>27 DEF vars
<1>28. QED
  BY <1>1, <1>2, <1>3, <1>4, <1>5, <1>6, <1>7, <1>8, <1>9, <1>10, <1>11, <1>12,
     <1>13, <1>14, <1>15, <1>16, <1>17, <1>18, <1>19, <1>20, <1>21, <1>22, <1>23, <1>24,
     <1>25, <1>26, <1>27
     DEF Next, Stream, Worker

\* The results are read in an order in which they can only get newer.
LEMMA NumbersKept == ASSUME TypeOK, Locks, Numbers, [Next]_vars PROVE Numbers'
<1> USE DEF boxVars, found, resultVars, ownerVars, TypeOK, Locks, Numbers, Copying, Reporting
<1>1. CASE \E f \in Frames : Process(f)
  BY <1>1 DEF Process
<1>2. CASE Offer
  BY <1>2 DEF Offer, StreamOnly
<1>3. CASE Refuse
  BY <1>3 DEF Refuse, StreamOnly
<1>4. CASE CopyTop
  BY <1>4 DEF CopyTop, StreamOnly
<1>5. CASE CopyBottom
  BY <1>5 DEF CopyBottom, StreamOnly
<1>6. CASE Post
  BY <1>6 DEF Post, StreamOnly, Notified
<1>7. CASE DrawLock
  BY <1>7 DEF DrawLock, StreamOnly
<1>8. CASE Drawn
  BY <1>8 DEF Drawn, StreamOnly
<1>9. CASE ReadList
  BY <1>9 DEF ReadList, StreamOnly
<1>10. CASE ReadCount
  BY <1>10 DEF ReadCount, StreamOnly
<1>11. CASE ReadTime
  BY <1>11 DEF ReadTime, StreamOnly
<1>12. CASE Test
  BY <1>12 DEF Test, WorkerOnly
<1>13. CASE Lock
  BY <1>13 DEF Lock, WorkerOnly
<1>14. CASE Check
  BY <1>14 DEF Check, WorkerOnly
<1>15. CASE Block
  BY <1>15 DEF Block, WorkerOnly
<1>16. CASE Timeout
  BY <1>16 DEF Timeout, WorkerOnly
<1>17. CASE LateLock
  BY <1>17 DEF LateLock, WorkerOnly
<1>18. CASE Take
  BY <1>18 DEF Take, WorkerOnly
<1>19. CASE Infer
  BY <1>19 DEF Infer, WorkerOnly
<1>20. CASE StoreLock
  BY <1>20 DEF StoreLock, WorkerOnly
<1>21. CASE Store
  BY <1>21 DEF Store, WorkerOnly
<1>22. CASE StoreTime
  BY <1>22 DEF StoreTime, WorkerOnly
<1>23. CASE Clear
  BY <1>23 DEF Clear, WorkerOnly
<1>24. CASE RequestStop
  BY <1>24 DEF RequestStop, OwnerOnly
<1>25. CASE NotifyAll
  BY <1>25 DEF NotifyAll, OwnerOnly, Notified
<1>26. CASE Join
  BY <1>26 DEF Join, OwnerOnly
<1>27. CASE UNCHANGED vars
  BY <1>27 DEF vars
<1>28. QED
  BY <1>1, <1>2, <1>3, <1>4, <1>5, <1>6, <1>7, <1>8, <1>9, <1>10, <1>11, <1>12,
     <1>13, <1>14, <1>15, <1>16, <1>17, <1>18, <1>19, <1>20, <1>21, <1>22, <1>23, <1>24,
     <1>25, <1>26, <1>27
     DEF Next, Stream, Worker

LEMMA NextInvariant == IInv /\ [Next]_vars => IInv'
BY TypeKept, LocksKept, ContentsKept, NumbersKept DEF IInv

(***************************************************************************)
(* Invariant: the inductive invariant holds in every reachable state.      *)
(***************************************************************************)
THEOREM Invariant == Spec => []IInv
BY InitInvariant, NextInvariant, PTL DEF Spec

(***************************************************************************)
(* Whole: no inference is ever on the halves of two frames                 *)
(* (yolo.cpp:242-266,280-284).                                             *)
(***************************************************************************)
THEOREM Whole == Spec => []WholeFrames
<1>1. IInv => WholeFrames
  BY DEF IInv, Contents, WholeFrames, Working
<1>2. QED
  BY <1>1, Invariant, PTL

(***************************************************************************)
(* Kept: an accepted frame stays in the mailbox until the worker is        *)
(* through with it (yolo.cpp:251,281-296).                                 *)
(***************************************************************************)
THEOREM Kept == Spec => NotOverwritten
<1> DEFINE Step == UNCHANGED <<top, bottom>> \/ (~pending /\ worker \notin Inferring)
<1>1. IInv /\ [Next]_vars => [Step]_vars
  <2> SUFFICES ASSUME IInv, [Next]_vars PROVE Step
    OBVIOUS
  <2>1. CASE CopyTop \/ CopyBottom
    BY <2>1 DEF CopyTop, CopyBottom, StreamOnly, Copying, Working, IInv, Contents
  <2>2. CASE ~(CopyTop \/ CopyBottom)
    <3>1. CASE UNCHANGED vars
      BY <3>1 DEF vars, boxVars
    <3>2. CASE \E f \in Frames : Process(f)
      BY <3>2 DEF Process, boxVars
    <3>3. CASE Stream
      BY <2>2, <3>3 DEF Stream, Offer, Refuse, Post, DrawLock, Drawn, ReadList, ReadCount, ReadTime,
                         boxVars
    <3>4. CASE Worker \/ Infer \/ StoreLock
      BY <3>4 DEF Worker, Test, Lock, Check, Block, Timeout, LateLock, Take, Store, StoreTime,
                  Clear, Infer, StoreLock, WorkerOnly
    <3>5. CASE RequestStop \/ NotifyAll \/ Join
      BY <3>5 DEF RequestStop, NotifyAll, Join, OwnerOnly, boxVars
    <3>6. QED
      BY <3>1, <3>2, <3>3, <3>4, <3>5 DEF Next
  <2>3. QED
    BY <2>1, <2>2
<1>2. QED
  BY <1>1, Invariant, PTL DEF Spec, NotOverwritten

-----------------------------------------------------------------------------
(***************************************************************************)
(* Implements: every behaviour of the detector is one of the one-slot      *)
(* mailbox (yolo.cpp:242-297).  A frame is accepted where `pending' is set, *)
(* taken where the worker copies it, and done with where `pending' is      *)
(* cleared; every other step leaves the slot and the work alone.           *)
(***************************************************************************)
LEMMA BoxInit == Init => Box!Init
BY DEF Init, Box!Init, Working, Inferring

LEMMA BoxStep == ASSUME IInv, [Next]_vars PROVE [Box!Next]_(Box!boxVars)
<1> USE DEF IInv, boxVars, found, resultVars, ownerVars, Nothing
<1> DEFINE slot == IF pending THEN <<top, bottom>> ELSE Nothing
           work == IF worker \in Working THEN taken ELSE Nothing
<1>1. CASE Post
  <2>1. /\ stream = "post" /\ ~pending /\ pending' = TRUE
        /\ top' = current /\ bottom' = current /\ current \in Frames
    BY <1>1 DEF Post, StreamOnly, TypeOK, Contents, Copying, AnyFrame
  <2>2. worker \notin Working /\ worker' \notin Working
    BY <1>1, <2>1 DEF Post, Notified, Contents, Working, Inferring
  <2>3. Box!Accept(<<current, current>>)
    BY <2>1, <2>2 DEF Box!Accept
  <2> QED
    BY <2>1, <2>3 DEF Box!Next
<1>2. CASE Take
  <2>1. /\ worker = "take" /\ pending' = pending /\ top' = top /\ bottom' = bottom
        /\ worker' = IF stop THEN "done" ELSE "infer"
        /\ taken' = IF stop THEN taken ELSE <<top, bottom>>
    BY <1>2 DEF Take, WorkerOnly
  <2>2. CASE stop
    BY <2>1, <2>2 DEF Box!boxVars, Working, Inferring
  <2>3. CASE ~stop
    <3>1. pending /\ top # NoFrame
      BY <2>1, <2>3 DEF Contents
    <3>2. Box!Take
      BY <2>1, <2>3, <3>1 DEF Box!Take, Working, Inferring
    <3> QED
      BY <3>2 DEF Box!Next
  <2> QED
    BY <2>2, <2>3
<1>3. CASE Clear
  <2>1. worker = "clear" /\ worker' = "test" /\ pending' = FALSE
    BY <1>3 DEF Clear, WorkerOnly
  <2>2. taken = <<top, bottom>> /\ top # NoFrame
    BY <2>1 DEF Contents, Working
  <2>3. Box!Done
    BY <2>1, <2>2 DEF Box!Done, Working, Inferring
  <2> QED
    BY <2>3 DEF Box!Next
<1>4. ASSUME UNCHANGED <<pending, taken, worker>>, pending => UNCHANGED <<top, bottom>>
      PROVE  UNCHANGED Box!boxVars
  BY <1>4 DEF Box!boxVars
<1>5. ASSUME UNCHANGED <<pending, taken, top, bottom>>, worker \in Working <=> worker' \in Working
      PROVE  UNCHANGED Box!boxVars
  BY <1>5 DEF Box!boxVars
<1>6. CASE CopyTop \/ CopyBottom
  BY <1>4, <1>6 DEF CopyTop, CopyBottom, StreamOnly, Contents, Copying
<1>7. CASE Offer \/ Refuse \/ DrawLock \/ Drawn \/ ReadList \/ ReadCount \/ ReadTime
  BY <1>4, <1>7 DEF Offer, Refuse, DrawLock, Drawn, ReadList, ReadCount, ReadTime, StreamOnly
<1>8. CASE Test \/ Lock \/ Check \/ Block \/ Timeout \/ LateLock
  BY <1>5, <1>8 DEF Test, Lock, Check, Block, Timeout, LateLock, WorkerOnly, Working, Inferring
<1>9. CASE Infer \/ StoreLock \/ Store \/ StoreTime
  BY <1>5, <1>9 DEF Infer, StoreLock, Store, StoreTime, WorkerOnly, Working, Inferring
<1>10. CASE \E f \in Frames : Process(f)
  BY <1>5, <1>10 DEF Process, Working, Inferring
<1>11. CASE RequestStop \/ Join
  BY <1>4, <1>11 DEF RequestStop, Join, OwnerOnly
<1>12. CASE NotifyAll
  BY <1>5, <1>12 DEF NotifyAll, Notified, OwnerOnly, Working, Inferring
<1>13. CASE UNCHANGED vars
  BY <1>4, <1>13 DEF vars
<1> QED
  BY <1>1, <1>2, <1>3, <1>6, <1>7, <1>8, <1>9, <1>10, <1>11, <1>12, <1>13 DEF Next, Stream, Worker

THEOREM Implements == Spec => ImplementsMailbox
<1>1. Init => Box!Init
  BY BoxInit
<1>2. IInv /\ [Next]_vars => [Box!Next]_(Box!boxVars)
  BY BoxStep
<1> QED
  BY <1>1, <1>2, Invariant, PTL DEF Spec, ImplementsMailbox, Box!Safe

(***************************************************************************)
(* Forward: a report never puts a time to detections that are newer        *)
(* (main.cpp:399-417, yolo.cpp:233-235).                                   *)
(***************************************************************************)
THEOREM Forward == Spec => []ReportsForward
<1>1. IInv => ReportsForward
  BY DEF IInv, Numbers, ReportsForward
<1>2. QED
  BY <1>1, Invariant, PTL
=============================================================================
