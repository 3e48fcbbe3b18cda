--------------------------- MODULE ServiceProofs ---------------------------
(***************************************************************************)
(* The threads around it leave the lifecycle what it is: every step of the *)
(* service is a step of App or one that App does not see, so what is       *)
(* proved of App, for every number of components, holds of the service;    *)
(* and what each thread of the service uses follows the state of the       *)
(* component that owns it.                                                 *)
(***************************************************************************)
EXTENDS Service, TLAPS

-----------------------------------------------------------------------------
(***************************************************************************)
(* App alone: its inductive invariant, and the order, single-stop and      *)
(* nothing-left properties it implies.                                     *)
(***************************************************************************)
\* What a step leaves in every component slot is one of the five states.
LEMMA TypeKept == ASSUME TypeOK, Shape, [Next]_vars PROVE TypeOK'
<1> USE AppAssumption DEF TypeOK, Components, Live, Stopping, signalVars
<1>1. CASE Hook
  BY <1>1 DEF Hook
<1>2. CASE InitOk
  BY <1>2 DEF InitOk, Shape
<1>3. CASE InitFails
  BY <1>3 DEF InitFails
<1>4. CASE StartOk
  BY <1>4 DEF StartOk, Shape
<1>5. CASE StartFails
  BY <1>5 DEF StartFails, Shape
<1>6. CASE AllUp
  BY <1>6 DEF AllUp
<1>7. CASE WaitCheck
  BY <1>7 DEF WaitCheck
<1>8. CASE WaitEnds
  <2>1. (kicks + 1) % KickModulus \in 0..(KickModulus - 1)
    OBVIOUS
  <2>2. QED
    BY <1>8, <2>1 DEF WaitEnds
<1>9. CASE StopOne
  BY <1>9 DEF StopOne
<1>10. CASE StopDone
  BY <1>10 DEF StopDone
<1>11. CASE Unhook
  BY <1>11 DEF Unhook
<1>12. CASE Destroy
  BY <1>12 DEF Destroy
<1>13. CASE RequestStop
  BY <1>13 DEF RequestStop
<1>14. CASE Exited \/ UNCHANGED vars
  BY <1>14 DEF Exited, vars
<1>15. QED
  BY <1>1, <1>2, <1>3, <1>4, <1>5, <1>6, <1>7, <1>8, <1>9, <1>10, <1>11, <1>12,
     <1>13, <1>14 DEF Next, MainStep

\* A step of the startup, the wait, a rollback or the end keeps what is said
\* of every component by the cursor and the position in main.
LEMMA ShapeKept == ASSUME IInv, [Next]_vars PROVE Shape' /\ NoneLeftUp'
<1> USE AppAssumption
        DEF IInv, TypeOK, Components, Live, Stopping, signalVars, UpTo, Shape, NoneLeftUp
<1>1. CASE Hook
  BY <1>1 DEF Hook
<1>2. CASE InitOk
  BY <1>2 DEF InitOk
<1>3. CASE InitFails
  BY <1>3 DEF InitFails
<1>4. CASE StartOk
  BY <1>4 DEF StartOk
<1>5. CASE StartFails
  BY <1>5 DEF StartFails
<1>6. CASE AllUp
  BY <1>6 DEF AllUp
<1>7. CASE WaitCheck
  BY <1>7 DEF WaitCheck
<1>8. CASE WaitEnds
  BY <1>8 DEF WaitEnds
<1>9. CASE StopOne
  BY <1>9 DEF StopOne
<1>10. CASE StopDone
  BY <1>10 DEF StopDone
<1>11. CASE Unhook
  BY <1>11 DEF Unhook
<1>12. CASE Destroy
  BY <1>12 DEF Destroy
<1>13. CASE RequestStop
  BY <1>13 DEF RequestStop
<1>14. CASE Exited \/ UNCHANGED vars
  BY <1>14 DEF Exited, vars
<1>15. QED
  BY <1>1, <1>2, <1>3, <1>4, <1>5, <1>6, <1>7, <1>8, <1>9, <1>10, <1>11, <1>12,
     <1>13, <1>14 DEF Next, MainStep

LEMMA InitInvariant == Init => IInv
<1>1. Init => TypeOK
  <2>1. Init => handler \in {"inherited", "ours", "default"} /\ comp \in [Components -> {"off"}]
    BY DEF Init
  <2>2. Init => at \in 1..(N + 1) /\ count \in 0..N /\ started \in 0..N /\ error \in 0..N
    BY AppAssumption DEF Init
  <2>3. Init => kicks \in 0..(KickModulus - 1)
    BY AppAssumption DEF Init
  <2>4. Init => stopRequested \in BOOLEAN
    BY DEF Init
  <2>5. QED
    BY <2>1, <2>2, <2>3, <2>4 DEF Init, TypeOK
<1>2. Init => Shape /\ NoneLeftUp
  BY AppAssumption DEF Init, Shape, NoneLeftUp, UpTo, Components
<1>3. QED
  BY <1>1, <1>2 DEF IInv

LEMMA NextInvariant == IInv /\ [Next]_vars => IInv'
BY TypeKept, ShapeKept DEF IInv

(***************************************************************************)
(* Lifecycle: for any number of components, whichever init() or start()    *)
(* fails and whenever a stop is asked for, the cursor, the count and the   *)
(* position in main tell what each component holds (app.cpp:28-62).        *)
(***************************************************************************)
THEOREM Lifecycle == Spec => []IInv
BY InitInvariant, NextInvariant, PTL DEF Spec

LEMMA IInvOrdered == IInv => DependencyOrder
BY AppAssumption
   DEF IInv, TypeOK, Shape, NoneLeftUp, UpTo, Components, Live, Stopping, DependencyOrder

(***************************************************************************)
(* Ordered: components come up and go down in dependency order.            *)
(***************************************************************************)
THEOREM Ordered == Spec => []DependencyOrder
BY IInvOrdered, Lifecycle, PTL

(***************************************************************************)
(* StoppedOnce: stop() reaches only components that are initialised, alive *)
(* and not stopped yet, also on the way out of a failed start().           *)
(***************************************************************************)
THEOREM StoppedOnce == Spec => []StopsOnlyLive
<1>1. IInv => StopsOnlyLive
  BY AppAssumption
     DEF IInv, TypeOK, Shape, Components, Live, Stopping, StopsOnlyLive
<1>2. QED
  BY <1>1, Lifecycle, PTL

(***************************************************************************)
(* NothingLeft: main destroys no component that was initialised and not    *)
(* stopped.                                                                *)
(***************************************************************************)
THEOREM NothingLeft == Spec => []NoneLeftUp
<1>1. IInv => NoneLeftUp
  BY DEF IInv
<1>2. QED
  BY <1>1, Lifecycle, PTL

-----------------------------------------------------------------------------
(***************************************************************************)
(* The service is an App.                                                  *)
(***************************************************************************)
LEMMA MainStepsOfApp == ASSUME Main PROVE [Next]_vars
<1>1. CASE InitComponent \/ InitComponentFails \/ StartComponent \/ StartComponentFails \/ ServiceUp
  BY <1>1 DEF InitComponent, InitComponentFails, StartComponent, StartComponentFails, ServiceUp,
              Next, MainStep
<1>2. CASE ResetPublisher \/ ResetPipeline \/ StopOther \/ JoinNuc \/ Elsewhere
  BY <1>2 DEF ResetPublisher, ResetPipeline, StopOther, JoinNuc, Elsewhere, Next, MainStep
<1>3. CASE Play \/ StopWorker \/ StopPublisher \/ StopBus \/ Detach \/ ToNull \/ LeaveMain
  BY <1>3 DEF Play, StopWorker, StopPublisher, StopBus, Detach, ToNull, LeaveMain, Inside
<1>4. QED
  BY <1>1, <1>2, <1>3 DEF Main

LEMMA OtherStepsOfApp ==
    ASSUME Worker \/ NewSample \/ Stream \/ BusTimeout \/ BusMessage \/ Dispatch \/ Nuc
    PROVE  UNCHANGED vars
<1>1. CASE Worker
  BY <1>1 DEF Worker, WorkerCheck, PublishHealth, Sample, ReadFrames, PublishSensor, WorkerWakes,
              WorkerOnly
<1>2. CASE NewSample \/ Stream
  BY <1>2 DEF NewSample, Stream, Process, OnFrame, OnQuietFrame, PublishDetections, StreamOnly
<1>3. CASE BusTimeout \/ BusMessage \/ Dispatch
  BY <1>3 DEF BusTimeout, BusMessage, Dispatch, BusOnly
<1>4. CASE Nuc
  BY <1>4 DEF Nuc, NucTimer, EmitStart, PublishStart, Correct, EmitEnd, PublishEnd, NucOnly
<1>5. QED
  BY <1>1, <1>2, <1>3, <1>4

LEMMA StepOfApp == ASSUME Hooked, [SNext]_serviceVars PROVE [Next]_vars
<1>1. CASE Main
  BY <1>1, MainStepsOfApp
<1>2. CASE Worker \/ NewSample \/ Stream \/ BusTimeout \/ BusMessage \/ Dispatch \/ Nuc
  BY <1>2, OtherStepsOfApp
<1>3. CASE Signal
  BY <1>3 DEF Signal, Next
<1>4. CASE SecondsOver
  <2>1. handler = "ours"
    BY <1>4 DEF SecondsOver, Hooked
  <2>2. CASE stopRequested = TRUE
    BY <1>4, <2>2 DEF SecondsOver, vars
  <2>3. CASE ~stopRequested
    BY <1>4, <2>1, <2>3 DEF SecondsOver, RequestStop, Next
  <2>4. CASE stopRequested # TRUE /\ stopRequested
    BY <2>4
  <2>5. QED
    BY <2>2, <2>3, <2>4
<1>5. CASE UNCHANGED serviceVars
  BY <1>5 DEF serviceVars
<1>6. QED
  BY <1>1, <1>2, <1>3, <1>4, <1>5 DEF SNext

LEMMA HookedKept == ASSUME IInv, Hooked, [SNext]_serviceVars PROVE Hooked'
<1> USE ServiceAssumption DEF Hooked
<1>1. CASE Main
  <2>1. CASE InitComponent \/ InitComponentFails \/ StartComponent \/ StartComponentFails
    BY <1>1, <2>1 DEF InitComponent, InitComponentFails, StartComponent, StartComponentFails,
                      InitOk, InitFails, StartOk, StartFails, signalVars, threadVars
  <2>2. CASE ServiceUp
    <3>1. pc = "init" /\ pc' = "check" /\ handler' = handler
      BY <2>2 DEF ServiceUp, AllUp, signalVars
    <3>2. QED
      BY <3>1
  <2>3. CASE Play \/ StopWorker \/ StopPublisher \/ StopBus \/ Detach \/ ToNull \/ LeaveMain
    BY <2>3 DEF Play, StopWorker, StopPublisher, StopBus, Detach, ToNull, LeaveMain, Inside, vars
  <2>4. CASE ResetPublisher \/ ResetPipeline \/ StopOther
    BY <2>4 DEF ResetPublisher, ResetPipeline, StopOther, StopOne, Stopping, InStop, Ended,
                signalVars, threadVars
  <2>5. CASE JoinNuc
    <3>1. timer' = timer /\ pc = "unhook" /\ pc' = "destroy"
      BY <2>5 DEF JoinNuc, Unhook, threadVars
    <3>2. QED
      BY <3>1
  <2>6. CASE Elsewhere
    <3>1. CASE Hook
      BY <2>6, <3>1 DEF Elsewhere, Hook, threadVars
    <3>2. CASE WaitCheck \/ WaitEnds
      <4>1. pc \in {"check", "wait"} => started = N
        BY DEF IInv, Shape
      <4>2. QED
        BY <2>6, <3>2, <4>1 DEF Elsewhere, WaitCheck, WaitEnds, signalVars, threadVars
    <3>3. CASE StopDone
      BY <2>6, <3>3 DEF Elsewhere, StopDone, Stopping, signalVars, threadVars
    <3>4. CASE Destroy
      BY <2>6, <3>4 DEF Elsewhere, Destroy, signalVars, threadVars
    <3>5. QED
      BY <2>6, <3>1, <3>2, <3>3, <3>4 DEF Elsewhere
  <2>7. QED
    BY <1>1, <2>1, <2>2, <2>3, <2>4, <2>5, <2>6 DEF Main
<1>2. CASE Worker \/ NewSample \/ Stream \/ BusTimeout \/ BusMessage \/ Dispatch \/ Nuc
  <2>1. UNCHANGED vars
    BY <1>2, OtherStepsOfApp
  <2>2. UNCHANGED timer
    BY <1>2 DEF Worker, WorkerCheck, PublishHealth, Sample, ReadFrames, PublishSensor, WorkerWakes,
                WorkerOnly, NewSample, Stream, Process, OnFrame, OnQuietFrame, PublishDetections,
                StreamOnly, BusTimeout, BusMessage, Dispatch, BusOnly, Nuc, NucTimer, EmitStart,
                PublishStart, Correct, EmitEnd, PublishEnd, NucOnly
  <2>3. QED
    BY <2>1, <2>2 DEF vars
<1>3. CASE Signal
  BY <1>3 DEF Signal, RequestStop, threadVars
<1>4. CASE SecondsOver
  BY <1>4 DEF SecondsOver
<1>5. CASE UNCHANGED serviceVars
  BY <1>5 DEF serviceVars, vars, threadVars
<1>6. QED
  BY <1>1, <1>2, <1>3, <1>4, <1>5 DEF SNext

\* Every variable of the service keeps its type.
LEMMA STypeKept == ASSUME STypeOK, [SNext]_serviceVars, TypeOK' PROVE STypeOK'
<1> USE DEF STypeOK, Ended, vars, signalVars, threadVars, telemetryVars, videoVars, nucVars
<1>1. CASE InitComponent
  BY <1>1 DEF InitComponent, InitOk
<1>2. CASE InitComponentFails
  BY <1>2 DEF InitComponentFails, InitFails
<1>3. CASE Play
  BY <1>3 DEF Play, Inside
<1>4. CASE StartComponent
  <2>1. worker' \in {worker, "check"} /\ running' \in {running, TRUE}
    BY <1>4, Zenon DEF StartComponent
  <2>2. bus' \in {bus, "poll"} /\ step' = "call"
    BY <1>4, Zenon DEF StartComponent
  <2>3. UNCHANGED <<pub, health, workerStop, pipeline, attached, stream, busStop, nucVars, timer>>
    BY <1>4 DEF StartComponent
  <2>4. worker' \in Ended \cup {"check", "health", "sample", "frames", "sensor", "sleep"}
        /\ bus' \in Ended \cup {"poll", "dispatch"}
    BY <2>1, <2>2
  <2>5. running' \in BOOLEAN
    BY <2>1, Zenon
  <2>6. QED
    BY <2>2, <2>3, <2>4, <2>5
<1>5. CASE StartComponentFails
  BY <1>5 DEF StartComponentFails, StartFails
<1>6. CASE ServiceUp
  BY <1>6 DEF ServiceUp, AllUp
<1>7. CASE StopWorker
  BY <1>7 DEF StopWorker, InStop, Inside
<1>8. CASE StopPublisher
  <2>1. step' = "reset" /\ running' = FALSE /\ health' \in {health, "OFFLINE"}
    BY <1>8, Zenon DEF StopPublisher, Inside
  <2>2. UNCHANGED <<pub, worker, workerStop, videoVars, nucVars, timer>>
    BY <1>8 DEF StopPublisher
  <2>3. running' \in BOOLEAN /\ attached' \in BOOLEAN /\ {workerStop', busStop', nucStop'} \subseteq BOOLEAN
    BY <2>1, <2>2
  <2>4. health' \in {"none", "OK", "OFFLINE"}
    BY <2>1
  <2>5. QED
    BY <2>1, <2>2, <2>3, <2>4
<1>9. CASE ResetPublisher
  BY <1>9 DEF ResetPublisher, InStop, StopOne
<1>10. CASE StopBus
  BY <1>10 DEF StopBus, InStop, Inside
<1>11. CASE Detach
  <2>1. step' = "null" /\ attached' = FALSE
    BY <1>11, Zenon DEF Detach, Inside
  <2>2. UNCHANGED <<telemetryVars, pipeline, stream, bus, busStop, nucVars, timer>>
    BY <1>11 DEF Detach
  <2>3. running' \in BOOLEAN /\ attached' \in BOOLEAN /\ {workerStop', busStop', nucStop'} \subseteq BOOLEAN
    BY <2>1, <2>2
  <2>4. QED
    BY <2>1, <2>2, <2>3
<1>12. CASE ToNull
  BY <1>12 DEF ToNull, InStop, Inside
<1>13. CASE ResetPipeline
  BY <1>13 DEF ResetPipeline, InStop, StopOne
<1>14. CASE StopOther
  BY <1>14 DEF StopOther, StopOne
<1>15. CASE LeaveMain
  BY <1>15 DEF LeaveMain, Inside
<1>16. CASE JoinNuc
  BY <1>16 DEF JoinNuc, Unhook
<1>17. CASE Elsewhere /\ Hook
  BY <1>17 DEF Elsewhere, Hook
<1>18. CASE Elsewhere /\ WaitCheck
  BY <1>18 DEF Elsewhere, WaitCheck
<1>19. CASE Elsewhere /\ WaitEnds
  BY <1>19 DEF Elsewhere, WaitEnds
<1>20. CASE Elsewhere /\ StopDone
  BY <1>20 DEF Elsewhere, StopDone
<1>21. CASE Elsewhere /\ Destroy
  BY <1>21 DEF Elsewhere, Destroy
<1>22. CASE Worker
  BY <1>22 DEF Worker, WorkerCheck, PublishHealth, Sample, ReadFrames, PublishSensor, WorkerWakes,
              WorkerOnly
<1>23. CASE NewSample \/ Stream
  BY <1>23 DEF NewSample, Stream, Process, OnFrame, OnQuietFrame, PublishDetections, StreamOnly
<1>24. CASE BusTimeout \/ BusMessage \/ Dispatch
  BY <1>24 DEF BusTimeout, BusMessage, Dispatch, BusOnly
<1>25. CASE Nuc
  BY <1>25 DEF Nuc, NucTimer, EmitStart, PublishStart, Correct, EmitEnd, PublishEnd, NucOnly
<1>26. CASE Signal
  BY <1>26 DEF Signal, RequestStop
<1>27. CASE SecondsOver
  BY <1>27 DEF SecondsOver
<1>28. CASE UNCHANGED serviceVars
  BY <1>28 DEF serviceVars
<1>29. QED
  BY <1>1, <1>2, <1>3, <1>4, <1>5, <1>6, <1>7, <1>8, <1>9, <1>10, <1>11, <1>12,
     <1>13, <1>14, <1>15, <1>16, <1>17, <1>18, <1>19, <1>20, <1>21, <1>22, <1>23, <1>24,
     <1>25, <1>26, <1>27, <1>28
     DEF SNext, Main, Elsewhere

\* What main has waited for stays ended while it is in the call.
LEMMA StepsKept == ASSUME SIInv, [SNext]_serviceVars PROVE StepsInOrder'
<1> USE ServiceAssumption
        DEF SIInv, STypeOK, IInv, TypeOK, Shape, StepsInOrder, FollowsComponent, Components, Live,
            Stopping, Ended, Sensor, Video, Telemetry, vars, signalVars, threadVars, telemetryVars, videoVars, nucVars
<1>1. CASE InitComponent
  BY <1>1 DEF InitComponent, InitOk
<1>2. CASE InitComponentFails
  BY <1>2 DEF InitComponentFails, InitFails
<1>3. CASE Play
  BY <1>3 DEF Play, Inside
<1>4. CASE StartComponent
  BY <1>4 DEF StartComponent, StartOk
<1>5. CASE StartComponentFails
  BY <1>5 DEF StartComponentFails, StartFails
<1>6. CASE ServiceUp
  BY <1>6 DEF ServiceUp, AllUp
<1>7. CASE StopWorker
  BY <1>7 DEF StopWorker, InStop, Inside
<1>8. CASE StopPublisher
  BY <1>8 DEF StopPublisher, InStop, Inside
<1>9. CASE ResetPublisher
  BY <1>9 DEF ResetPublisher, InStop, StopOne
<1>10. CASE StopBus
  BY <1>10 DEF StopBus, InStop, Inside
<1>11. CASE Detach
  BY <1>11 DEF Detach, InStop, Inside
<1>12. CASE ToNull
  BY <1>12 DEF ToNull, InStop, Inside
<1>13. CASE ResetPipeline
  BY <1>13 DEF ResetPipeline, InStop, StopOne
<1>14. CASE StopOther
  BY <1>14 DEF StopOther, StopOne
<1>15. CASE LeaveMain
  BY <1>15 DEF LeaveMain, Inside
<1>16. CASE JoinNuc
  BY <1>16 DEF JoinNuc, Unhook
<1>17. CASE Elsewhere /\ Hook
  BY <1>17 DEF Elsewhere, Hook
<1>18. CASE Elsewhere /\ WaitCheck
  BY <1>18 DEF Elsewhere, WaitCheck
<1>19. CASE Elsewhere /\ WaitEnds
  BY <1>19 DEF Elsewhere, WaitEnds
<1>20. CASE Elsewhere /\ StopDone
  BY <1>20 DEF Elsewhere, StopDone
<1>21. CASE Elsewhere /\ Destroy
  BY <1>21 DEF Elsewhere, Destroy
<1>22. CASE Worker
  BY <1>22 DEF Worker, WorkerCheck, PublishHealth, Sample, ReadFrames, PublishSensor, WorkerWakes,
              WorkerOnly
<1>23. CASE NewSample \/ Stream
  BY <1>23 DEF NewSample, Stream, Process, OnFrame, OnQuietFrame, PublishDetections, StreamOnly
<1>24. CASE BusTimeout \/ BusMessage \/ Dispatch
  BY <1>24 DEF BusTimeout, BusMessage, Dispatch, BusOnly
<1>25. CASE Nuc
  BY <1>25 DEF Nuc, NucTimer, EmitStart, PublishStart, Correct, EmitEnd, PublishEnd, NucOnly
<1>26. CASE Signal
  BY <1>26 DEF Signal, RequestStop
<1>27. CASE SecondsOver
  BY <1>27 DEF SecondsOver
<1>28. CASE UNCHANGED serviceVars
  BY <1>28 DEF serviceVars
<1>29. QED
  BY <1>1, <1>2, <1>3, <1>4, <1>5, <1>6, <1>7, <1>8, <1>9, <1>10, <1>11, <1>12,
     <1>13, <1>14, <1>15, <1>16, <1>17, <1>18, <1>19, <1>20, <1>21, <1>22, <1>23, <1>24,
     <1>25, <1>26, <1>27, <1>28
     DEF SNext, Main, Elsewhere

\* What a component holds follows its state.
LEMMA FollowsKept == ASSUME SIInv, [SNext]_serviceVars PROVE FollowsComponent'
<1> USE ServiceAssumption
        DEF SIInv, STypeOK, IInv, TypeOK, Shape, NoneLeftUp, UpTo, StepsInOrder, FollowsComponent,
            Components, Live, Stopping, Ended, Sensor, Video, Telemetry, vars, signalVars, threadVars, telemetryVars, videoVars, nucVars
<1>1. CASE InitComponent
  BY <1>1 DEF InitComponent, InitOk
<1>2. CASE InitComponentFails
  BY <1>2 DEF InitComponentFails, InitFails
<1>3. CASE Play
  BY <1>3 DEF Play, Inside
<1>4. CASE StartComponent
  BY <1>4 DEF StartComponent, StartOk
<1>5. CASE StartComponentFails
  BY <1>5 DEF StartComponentFails, StartFails
<1>6. CASE ServiceUp
  BY <1>6 DEF ServiceUp, AllUp
<1>7. CASE StopWorker
  BY <1>7 DEF StopWorker, InStop, Inside
<1>8. CASE StopPublisher
  BY <1>8 DEF StopPublisher, InStop, Inside
<1>9. CASE ResetPublisher
  BY <1>9 DEF ResetPublisher, InStop, StopOne
<1>10. CASE StopBus
  BY <1>10 DEF StopBus, InStop, Inside
<1>11. CASE Detach
  BY <1>11 DEF Detach, InStop, Inside
<1>12. CASE ToNull
  BY <1>12 DEF ToNull, InStop, Inside
<1>13. CASE ResetPipeline
  BY <1>13 DEF ResetPipeline, InStop, StopOne
<1>14. CASE StopOther
  BY <1>14 DEF StopOther, StopOne
<1>15. CASE LeaveMain
  BY <1>15 DEF LeaveMain, Inside
<1>16. CASE JoinNuc
  BY <1>16 DEF JoinNuc, Unhook
<1>17. CASE Elsewhere /\ Hook
  BY <1>17 DEF Elsewhere, Hook
<1>18. CASE Elsewhere /\ WaitCheck
  BY <1>18 DEF Elsewhere, WaitCheck
<1>19. CASE Elsewhere /\ WaitEnds
  BY <1>19 DEF Elsewhere, WaitEnds
<1>20. CASE Elsewhere /\ StopDone
  BY <1>20 DEF Elsewhere, StopDone
<1>21. CASE Elsewhere /\ Destroy
  BY <1>21 DEF Elsewhere, Destroy
<1>22. CASE Worker
  BY <1>22 DEF Worker, WorkerCheck, PublishHealth, Sample, ReadFrames, PublishSensor, WorkerWakes,
              WorkerOnly
<1>23. CASE NewSample \/ Stream
  BY <1>23 DEF NewSample, Stream, Process, OnFrame, OnQuietFrame, PublishDetections, StreamOnly
<1>24. CASE BusTimeout \/ BusMessage \/ Dispatch
  BY <1>24 DEF BusTimeout, BusMessage, Dispatch, BusOnly
<1>25. CASE Nuc
  BY <1>25 DEF Nuc, NucTimer, EmitStart, PublishStart, Correct, EmitEnd, PublishEnd, NucOnly
<1>26. CASE Signal
  BY <1>26 DEF Signal, RequestStop
<1>27. CASE SecondsOver
  BY <1>27 DEF SecondsOver
<1>28. CASE UNCHANGED serviceVars
  BY <1>28 DEF serviceVars
<1>29. QED
  BY <1>1, <1>2, <1>3, <1>4, <1>5, <1>6, <1>7, <1>8, <1>9, <1>10, <1>11, <1>12,
     <1>13, <1>14, <1>15, <1>16, <1>17, <1>18, <1>19, <1>20, <1>21, <1>22, <1>23, <1>24,
     <1>25, <1>26, <1>27, <1>28
     DEF SNext, Main, Elsewhere

LEMMA SInitInvariant == SInit => SIInv
<1> SUFFICES ASSUME SInit PROVE SIInv
  OBVIOUS
<1>1. IInv /\ pc = "hook" /\ comp = [i \in Components |-> "off"]
  BY InitInvariant DEF SInit, Init
<1>2. STypeOK
  <2>1. running = FALSE /\ attached = FALSE /\ workerStop = FALSE /\ busStop = FALSE /\ nucStop = FALSE
    BY DEF SInit
  <2>2. step = "call" /\ pub = "none" /\ health = "none" /\ worker = "none" /\ pipeline = "none"
    BY DEF SInit
  <2>3. stream = "none" /\ bus = "none" /\ nuc = "none" /\ timer = "none"
    BY DEF SInit
  <2>4. TypeOK
    BY <1>1 DEF IInv
  <2>5. QED
    BY <2>1, <2>2, <2>3, <2>4 DEF STypeOK, Ended
<1>3. Hooked /\ StepsInOrder
  BY <1>1 DEF SInit, Hooked, StepsInOrder
<1>4. FollowsComponent
  <2>1. comp[Telemetry] = "off" /\ comp[Video] = "off"
    BY <1>1, ServiceAssumption DEF Components, Telemetry, Video
  <2>2. QED
    BY <1>1, <2>1 DEF SInit, FollowsComponent, Live, Ended
<1>5. QED
  BY <1>1, <1>2, <1>3, <1>4 DEF SIInv

LEMMA SNextInvariant == SIInv /\ [SNext]_serviceVars => SIInv'
<1> SUFFICES ASSUME SIInv, [SNext]_serviceVars PROVE SIInv'
  OBVIOUS
<1>1. IInv' /\ TypeOK'
  BY StepOfApp, NextInvariant DEF SIInv, IInv
<1>2. Hooked'
  BY HookedKept DEF SIInv
<1>3. STypeOK'
  BY <1>1, STypeKept DEF SIInv
<1>4. QED
  BY <1>1, <1>2, <1>3, StepsKept, FollowsKept DEF SIInv

(***************************************************************************)
(* ServiceInvariant: what main, its components and their threads leave in  *)
(* order between any two steps.                                            *)
(***************************************************************************)
THEOREM ServiceInvariant == SSpec => []SIInv
BY SInitInvariant, SNextInvariant, PTL DEF SSpec

(***************************************************************************)
(* Composition: the service, with all its threads and with the calls of    *)
(* its components taken apart, is a behaviour of App (main.cpp:528-626).   *)
(***************************************************************************)
THEOREM Composition == SSpec => Spec
<1>1. SIInv /\ [SNext]_serviceVars => [Next]_vars
  BY StepOfApp DEF SIInv
<1>2. SInit => Init
  BY DEF SInit
<1>3. QED
  BY <1>1, <1>2, ServiceInvariant, PTL DEF SSpec, Spec

(***************************************************************************)
(* ServiceOrdered: so in the whole service the components come up and go   *)
(* down in dependency order.                                               *)
(***************************************************************************)
THEOREM ServiceOrdered == SSpec => []DependencyOrder
BY Composition, Ordered, PTL

(***************************************************************************)
(* ServiceStopsOnce: and each is stopped only when it is initialised,      *)
(* alive and not stopped yet.                                              *)
(***************************************************************************)
THEOREM ServiceStopsOnce == SSpec => []StopsOnlyLive
BY Composition, StoppedOnce, PTL

(***************************************************************************)
(* ThreadsInLife: no thread of a component finds what it uses destroyed:   *)
(* the worker runs while telemetry is up, hence while video, added before  *)
(* it, is (main.cpp:382-391,476-484,501-514, pipeline.cpp:217-231).        *)
(***************************************************************************)
THEOREM ThreadsInLife == SSpec => []OwnThreadsInLife
<1>1. SIInv => OwnThreadsInLife
  <2> SUFFICES ASSUME SIInv PROVE OwnThreadsInLife
    OBVIOUS
  <2>1. worker \notin Ended => comp[Telemetry] = "up"
    BY DEF SIInv, FollowsComponent
  <2>2. comp[Telemetry] = "up" => comp[Video] = "up"
    <3>1. DependencyOrder
      BY IInvOrdered DEF SIInv
    <3>2. Telemetry \in Components /\ Video \in 1..(Telemetry - 1)
      BY ServiceAssumption DEF Components, Telemetry, Video
    <3>3. QED
      BY <3>1, <3>2 DEF DependencyOrder, Live
  <2>3. QED
    BY <2>1, <2>2 DEF SIInv, STypeOK, FollowsComponent, OwnThreadsInLife, Live, Ended
<1>2. QED
  BY <1>1, ServiceInvariant, PTL

(***************************************************************************)
(* Announced: a stopped unit is retained as OFFLINE: the worker has been   *)
(* joined when the client says so (main.cpp:501-514, publisher.cpp:104).   *)
(***************************************************************************)
THEOREM Announced == SSpec => []OfflineLast
<1>1. SIInv => OfflineLast
  BY DEF SIInv, STypeOK, FollowsComponent, OfflineLast, Live
<1>2. QED
  BY <1>1, ServiceInvariant, PTL

(***************************************************************************)
(* AllThreadsEnd: every thread has returned when main's variables go.      *)
(***************************************************************************)
THEOREM AllThreadsEnd == SSpec => []NoThreadLeft
<1>1. SIInv => NoThreadLeft
  <2> SUFFICES ASSUME SIInv, pc \in {"destroy", "dtor", "exited"}
               PROVE  {worker, bus, nuc, timer} \subseteq Ended /\ stream = "none"
    BY DEF NoThreadLeft
  <2>1. comp[Telemetry] \notin Live /\ comp[Video] \notin Live
    BY ServiceAssumption
       DEF SIInv, IInv, Shape, NoneLeftUp, Components, Telemetry, Video, Live
  <2>2. timer # "sleep"
    BY DEF SIInv, Hooked
  <2>3. QED
    BY <2>1, <2>2 DEF SIInv, STypeOK, FollowsComponent, Live, Ended
<1>2. QED
  BY <1>1, ServiceInvariant, PTL
=============================================================================
