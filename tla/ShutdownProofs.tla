--------------------------- MODULE ShutdownProofs ---------------------------
(***************************************************************************)
(* The bound on the exit, for every length of the waits, of --seconds, of  *)
(* a NUC and of an inference.                                              *)
(***************************************************************************)
EXTENDS Shutdown, TLAPS

\* The constants are numbers, and the longer of two is at least each.
LEMMA Numbers ==
    /\ WatchdogPeriod \in Nat /\ SamplePeriod \in Nat /\ BusPoll \in Nat /\ NucSlice \in Nat
    /\ NucTime \in Nat /\ Inference \in Nat /\ DetectorPoll \in Nat /\ Seconds \in Nat
    /\ Awake \in Nat /\ Awake >= WatchdogPeriod /\ Awake >= Seconds
    /\ PipelineDown \in Nat /\ PipelineDown = Awake + SamplePeriod + BusPoll
    /\ NucWork \in Nat /\ NucWork >= NucTime /\ NucWork >= NucSlice
    /\ Work \in Nat /\ Work >= NucWork + DetectorPoll /\ Work >= Inference
<1>1. /\ WatchdogPeriod \in Nat /\ SamplePeriod \in Nat /\ BusPoll \in Nat /\ NucSlice \in Nat
      /\ NucTime \in Nat /\ Inference \in Nat /\ DetectorPoll \in Nat /\ Seconds \in Nat
  BY ShutdownAssumption
<1>2. QED
  BY <1>1 DEF Awake, PipelineDown, NucWork, Work, Longer

LEMMA InitInvariant == Init => IInv
<1> SUFFICES ASSUME Init PROVE IInv
  OBVIOUS
<1>1. TypeOK
  <2>1. /\ main \in Waits /\ stop \in BOOLEAN /\ nuc \in {"sleeps", "corrects", "done"}
        /\ detector \in {"none", "waits", "infers", "done"}
    BY DEF Init, Waits
  <2>2. wake \in Nat /\ timer \in Nat /\ since \in Nat
    BY Numbers DEF Init
  <2>3. sample \in Nat /\ poll \in Nat /\ detectorLeft \in Nat /\ nucLeft \in Nat
    BY Numbers DEF Init
  <2>4. QED
    BY <2>1, <2>2, <2>3 DEF TypeOK
<1>2. Ranges
  BY Numbers DEF Init, Ranges
<1>3. WaitsEnd
  BY Numbers DEF Init, WaitsEnd
<1>4. QED
  BY <1>1, <1>2, <1>3 DEF IInv

\* A wait that main starts now, or goes on with, ends in time.
LEMMA NextInvariant == IInv /\ [Next]_vars => IInv'
<1> SUFFICES ASSUME IInv, [Next]_vars PROVE IInv'
  OBVIOUS
<1> USE Numbers DEF IInv, TypeOK, Waits, Ranges, WaitsEnd, nucVars, detectorVars
<1>1. CASE RequestStop
  BY <1>1 DEF RequestStop
<1>2. CASE Wake
  BY <1>2 DEF Wake
<1>3. CASE JoinTimer
  BY <1>3 DEF JoinTimer
<1>4. CASE SampleTaken
  BY <1>4 DEF SampleTaken
<1>5. CASE JoinWorker
  BY <1>5 DEF JoinWorker
<1>6. CASE BusPolled
  BY <1>6 DEF BusPolled, WorkerLives
<1>7. CASE StopPipeline
  BY <1>7 DEF StopPipeline
<1>8. CASE NucSleepsOn
  BY <1>8 DEF NucSleepsOn
<1>9. CASE NucReturns
  BY <1>9 DEF NucReturns
<1>10. CASE JoinNuc
  BY <1>10 DEF JoinNuc
<1>11. CASE JoinDetector
  BY <1>11 DEF JoinDetector
<1>12. CASE DetectorLoops
  BY <1>12 DEF DetectorLoops
<1>13. CASE DetectorReturns
  BY <1>13 DEF DetectorReturns
<1>14. CASE Infer
  <2>1. detector' = "infers" /\ detectorLeft' \in Nat /\ detectorLeft' <= Inference
    BY <1>14 DEF Infer
  <2>2. main \notin {"nuc", "yolo", "exited"}
    BY <1>14 DEF Infer, PipelineLives
  <2>3. UNCHANGED <<main, stop, since, wake, timer, sample, poll, nuc, nucLeft>>
    BY <1>14 DEF Infer
  <2>4. QED
    BY <2>1, <2>2, <2>3
<1>15. CASE Tick
  <2>1. TypeOK'
    BY <1>15 DEF Tick, Down
  <2>2. Ranges'
    BY <1>15 DEF Tick, Down
  <2>3. WaitsEnd'
    BY <1>15 DEF Tick, Down, NobodyDue, WorkerLives, PipelineLives
  <2>4. QED
    BY <2>1, <2>2, <2>3
<1>16. CASE UNCHANGED vars
  BY <1>16 DEF vars
<1>17. QED
  BY <1>1, <1>2, <1>3, <1>4, <1>5, <1>6, <1>7, <1>8,
     <1>9, <1>10, <1>11, <1>12, <1>13, <1>14, <1>15, <1>16
     DEF Next, Step

(***************************************************************************)
(* Invariant: the inductive invariant holds in every reachable state.      *)
(***************************************************************************)
THEOREM Invariant == Spec => []IInv
BY InitInvariant, NextInvariant, PTL DEF Spec

(***************************************************************************)
(* Bounded: a stop request is followed by the exit within the longer of    *)
(* the watchdog period and --seconds, a sleep of the telemetry worker, a   *)
(* poll of the bus, and the longer of an inference and of a NUC with the   *)
(* timed wait of the inference worker; 3.1 s as main.cpp sets them, with   *)
(* an inference of a second.                                               *)
(***************************************************************************)
THEOREM Bounded == Spec => []ExitBound
<1>1. IInv => ExitBound
  BY Numbers DEF IInv, TypeOK, Waits, Ranges, WaitsEnd, ExitBound
<1>2. QED
  BY <1>1, Invariant, PTL
=============================================================================
