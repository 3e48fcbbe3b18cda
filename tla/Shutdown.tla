------------------------------ MODULE Shutdown ------------------------------
(***************************************************************************)
(* How long the service takes from the stop request to the exit: the waits *)
(* and joins of main, in time, against the sleeps, timed waits and work of *)
(* the threads it joins (main.cpp, with video, detection, a broker, --nuc  *)
(* and --seconds).                                                         *)
(*                                                                         *)
(* Time is counted in ticks, and nobody is held up: a tick passes only     *)
(* when every thread is inside a sleep, a timed wait or its work.  What a  *)
(* client library or GStreamer needs to end its own threads is not         *)
(* counted.                                                                *)
(***************************************************************************)
EXTENDS Naturals

CONSTANTS
    WatchdogPeriod,  \* App::wait_for_stop's timed wait
    SamplePeriod,    \* the telemetry worker's sleep
    BusPoll,         \* the bus thread's timed pop
    NucSlice,        \* the NUC timer's sleep
    NucTime,         \* the longest NUC
    Inference,       \* the longest inference
    DetectorPoll,    \* the timed wait of the inference worker
    Seconds          \* --seconds, 0 if not given

ASSUME ShutdownAssumption ==
    {WatchdogPeriod, SamplePeriod, BusPoll, NucSlice, NucTime, Inference, DetectorPoll, Seconds}
        \subseteq Nat

VARIABLES
    main,         \* what the main thread is waiting for
    stop,         \* stop_requested_
    since,        \* ticks since the stop was requested
    wake,         \* ticks to the end of wait_for_stop's timed wait
    timer,        \* ticks to the end of --seconds
    sample,       \* ticks to the end of the telemetry worker's sleep
    poll,         \* ticks to the end of the bus thread's timed pop
    nuc,          \* the NUC timer's thread: sleeps, corrects, or has returned
    nucLeft,      \* ticks to the end of that
    detector,     \* the inference worker: not started, waits, infers, has returned
    detectorLeft  \* ticks to the end of that

nucVars == <<nuc, nucLeft>>
detectorVars == <<detector, detectorLeft>>
vars == <<main, stop, since, wake, timer, sample, poll, nucVars, detectorVars>>

Longer(a, b) == IF a > b THEN a ELSE b

\* What main waits for, in order; the bus thread and the frames end at "bus".
Waits == {"stop", "timer", "worker", "bus", "nuc", "yolo", "exited"}
WorkerLives == main \in {"stop", "timer", "worker"}
PipelineLives == main \in {"stop", "timer", "worker", "bus"}

TypeOK ==
    /\ main \in Waits /\ stop \in BOOLEAN
    /\ nuc \in {"sleeps", "corrects", "done"}
    /\ detector \in {"none", "waits", "infers", "done"}
    /\ since \in Nat /\ wake \in Nat /\ timer \in Nat /\ sample \in Nat
    /\ poll \in Nat /\ nucLeft \in Nat /\ detectorLeft \in Nat

\* The service is up: main enters the wait, --seconds begins, and the other
\* threads are somewhere in what they do.
Init ==
    /\ main = "stop" /\ stop = FALSE /\ since = 0
    /\ wake = WatchdogPeriod /\ timer = Seconds
    /\ sample \in 0..SamplePeriod /\ poll \in 0..BusPoll
    /\ nuc \in {"sleeps", "done"} /\ nucLeft \in 0..NucSlice
    /\ \/ detector = "none" /\ detectorLeft = 0
       \/ detector = "waits" /\ detectorLeft \in 0..DetectorPoll
       \/ detector = "infers" /\ detectorLeft \in 0..Inference

-----------------------------------------------------------------------------
\* A signal, or the end of --seconds.
RequestStop ==
    /\ ~stop
    /\ stop' = TRUE
    /\ UNCHANGED <<main, since, wake, timer, sample, poll, nucVars, detectorVars>>

\* The timed wait is over.  The block of the --seconds thread is left by
\* joining it.
Wake ==
    /\ main = "stop" /\ wake = 0
    /\ IF stop
         THEN main' = "timer" /\ UNCHANGED wake
         ELSE wake' = WatchdogPeriod /\ UNCHANGED main
    /\ UNCHANGED <<stop, since, timer, sample, poll, nucVars, detectorVars>>

JoinTimer ==
    /\ main = "timer" /\ timer = 0
    /\ main' = "worker"
    /\ UNCHANGED <<stop, since, wake, timer, sample, poll, nucVars, detectorVars>>

\* The worker sees the stop token only between two sleeps.
SampleTaken ==
    /\ main \in {"stop", "timer"} /\ sample = 0
    /\ sample' = SamplePeriod
    /\ UNCHANGED <<main, stop, since, wake, timer, poll, nucVars, detectorVars>>

JoinWorker ==
    /\ main = "worker" /\ sample = 0
    /\ main' = "bus"
    /\ UNCHANGED <<stop, since, wake, timer, sample, poll, nucVars, detectorVars>>

BusPolled ==
    /\ WorkerLives /\ poll = 0
    /\ poll' = BusPoll
    /\ UNCHANGED <<main, stop, since, wake, timer, sample, nucVars, detectorVars>>

\* The bus thread is joined and the pipeline set to NULL: no more frames.
\* The sensor and the log stop at once, and main returns.
StopPipeline ==
    /\ main = "bus" /\ poll = 0
    /\ main' = "nuc"
    /\ UNCHANGED <<stop, since, wake, timer, sample, poll, nucVars, detectorVars>>

\* Mutated: frames go on to be offered when the pipeline is gone.
InferAlways ==
    /\ detector \in {"none", "waits"}
    /\ detector' = "infers" /\ detectorLeft' \in 1..Inference
    /\ UNCHANGED <<main, stop, since, wake, timer, sample, poll, nucVars>>

\* A frame is offered while the inference worker is idle; the first one
\* starts it.
Infer ==
    /\ PipelineLives /\ detector \in {"none", "waits"}
    /\ detector' = "infers" /\ detectorLeft' \in 1..Inference
    /\ UNCHANGED <<main, stop, since, wake, timer, sample, poll, nucVars>>

\* After an inference, or 100 ms without a frame, it waits (again).
DetectorLoops ==
    /\ detector \in {"waits", "infers"} /\ detectorLeft = 0 /\ main # "yolo"
    /\ detector' = "waits" /\ detectorLeft' = DetectorPoll
    /\ UNCHANGED <<main, stop, since, wake, timer, sample, poll, nucVars>>

\* Its stop token is set by stop_worker only; it looks at it after each wait
\* and each inference.
DetectorReturns ==
    /\ detector \in {"waits", "infers"} /\ detectorLeft = 0 /\ main = "yolo"
    /\ detector' = "done"
    /\ UNCHANGED <<main, stop, since, wake, timer, sample, poll, nucVars, detectorLeft>>

\* The NUC timer sleeps on, or runs a NUC; its stop token is set only when
\* main returns.
NucSleepsOn ==
    /\ nuc = "sleeps" /\ nucLeft = 0 /\ main # "nuc"
    /\ \/ nucLeft' = NucSlice /\ UNCHANGED nuc
       \/ nucLeft' \in 0..NucTime /\ nuc' = "corrects"
    /\ UNCHANGED <<main, stop, since, wake, timer, sample, poll, detectorVars>>

\* Mutated: the NUC timer does not see its stop token while it sleeps.
NucReturnsCorrected ==
    /\ nucLeft = 0
    /\ nuc = "corrects"
    /\ nuc' = "done"
    /\ UNCHANGED <<main, stop, since, wake, timer, sample, poll, nucLeft, detectorVars>>

NucReturns ==
    /\ nucLeft = 0
    /\ nuc = "corrects" \/ (nuc = "sleeps" /\ main = "nuc")
    /\ nuc' = "done"
    /\ UNCHANGED <<main, stop, since, wake, timer, sample, poll, nucLeft, detectorVars>>

\* main's locals are destroyed: the NUC timer is joined, and the worker of the
\* detector, if there is one, told to stop.  notify_all without the mutex wakes
\* it, unless it falls between its predicate and its wait.
JoinNuc ==
    /\ main = "nuc" /\ nuc = "done"
    /\ main' = "yolo"
    /\ \/ detector = "waits" /\ detector' = "done"
       \/ UNCHANGED detector
    /\ UNCHANGED <<stop, since, wake, timer, sample, poll, nucVars, detectorLeft>>

JoinDetector ==
    /\ main = "yolo" /\ detector \in {"none", "done"}
    /\ main' = "exited"
    /\ UNCHANGED <<stop, since, wake, timer, sample, poll, nucVars, detectorVars>>

-----------------------------------------------------------------------------
Down(n) == IF n > 0 THEN n - 1 ELSE 0

\* Nobody has a sleep, a timed wait or some work that is over.
NobodyDue ==
    /\ main # "exited"
    /\ main = "stop" => wake > 0
    /\ main = "timer" => timer > 0
    /\ ~stop /\ Seconds > 0 => timer > 0
    /\ WorkerLives => sample > 0
    /\ PipelineLives => poll > 0
    /\ nuc # "done" => nucLeft > 0
    /\ main = "nuc" => nuc # "done"
    /\ detector \in {"waits", "infers"} => detectorLeft > 0
    /\ main = "yolo" => detector \in {"waits", "infers"}

Tick ==
    /\ NobodyDue
    /\ since' = IF stop THEN since + 1 ELSE since
    /\ wake' = Down(wake) /\ timer' = Down(timer) /\ sample' = Down(sample)
    /\ poll' = Down(poll) /\ nucLeft' = Down(nucLeft) /\ detectorLeft' = Down(detectorLeft)
    /\ UNCHANGED <<main, stop, nuc, detector>>

Step ==
    \/ Wake \/ JoinTimer \/ SampleTaken \/ JoinWorker \/ BusPolled \/ StopPipeline
    \/ NucSleepsOn \/ NucReturns \/ DetectorLoops \/ DetectorReturns
    \/ JoinNuc \/ JoinDetector

Next ==
    \/ RequestStop \/ Step \/ Infer \/ Tick
    \/ main = "exited" /\ UNCHANGED vars

Spec == Init /\ [][Next]_vars

\* Threads run, and the clock does.  --seconds ends; nobody has to signal.
FairSpec ==
    /\ Spec
    /\ WF_vars(Step) /\ WF_vars(Tick)
    /\ WF_vars(RequestStop /\ Seconds > 0 /\ timer = 0)

-----------------------------------------------------------------------------
(***************************************************************************)
(* ExitBound: from the stop request to the exit it takes at most one       *)
(* watchdog period or what is left of --seconds, one sleep of the         *)
(* telemetry worker, one poll of the bus, and then the longer of: an       *)
(* inference; and a NUC followed by the timed wait of an idle inference    *)
(* worker that missed its notification.  The waits that main makes one     *)
(* after the other add up, those that go on beside it do not               *)
(* (main.cpp:482,600-626, app.cpp:71, pipeline.cpp:98, yolo.cpp:275,       *)
(* 301-307).                                                               *)
(***************************************************************************)
Awake == Longer(WatchdogPeriod, Seconds)
PipelineDown == Awake + SamplePeriod + BusPoll
NucWork == Longer(NucTime, NucSlice)
Work == Longer(NucWork + DetectorPoll, Inference)

ExitBound == since <= PipelineDown + Work

(***************************************************************************)
(* Exits: main gets through every wait, whatever the others are doing when *)
(* the stop is requested.                                                  *)
(***************************************************************************)
Exits == stop ~> main = "exited"

(***************************************************************************)
(* WithinTwoSeconds: "On SIGTERM the service shall stop all components and *)
(* exit with code 0 within 2 s" (docs/01_SOFTWARE_REQUIREMENTS.md:5),      *)
(* with ticks of 100 ms.                                                   *)
(***************************************************************************)
WithinTwoSeconds == since <= 20

-----------------------------------------------------------------------------
(***************************************************************************)
(* The inductive invariant of ExitBound: what main waits for is over       *)
(* before the sum of the waits so far is.                                  *)
(***************************************************************************)
Ranges ==
    /\ wake <= WatchdogPeriod /\ timer <= Seconds /\ sample <= SamplePeriod
    /\ poll <= BusPoll /\ nucLeft <= NucWork
    /\ detector = "waits" => detectorLeft <= DetectorPoll
    /\ detector = "infers" => detectorLeft <= Inference

WaitsEnd ==
    /\ ~stop => since = 0 /\ main = "stop"
    /\ timer > 0 => since + timer <= Seconds
    /\ main = "stop" => since + wake <= WatchdogPeriod
    /\ main = "timer" => since + timer <= Awake
    /\ main = "worker" => since + sample <= Awake + SamplePeriod
    /\ main = "bus" => since + poll <= PipelineDown
    /\ main = "nuc" => since + nucLeft <= PipelineDown + NucWork
    /\ main \in {"nuc", "yolo"} /\ detector = "infers" =>
           since + detectorLeft <= PipelineDown + Inference
    /\ main = "yolo" /\ detector = "waits" =>
           since + detectorLeft <= PipelineDown + NucWork + DetectorPoll
    /\ main \in {"yolo", "exited"} => since <= PipelineDown + Work

IInv == TypeOK /\ Ranges /\ WaitsEnd
=============================================================================
