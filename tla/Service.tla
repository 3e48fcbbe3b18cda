------------------------------ MODULE Service ------------------------------
(***************************************************************************)
(* main.cpp: the service as main wires it, with video, detection and a     *)
(* broker, and the threads its components run.                             *)
(*                                                                         *)
(* The main thread is App's: each of its steps here is a step of App, with *)
(* what the component called does at that moment, or a step inside a call. *)
(* Beside it run the telemetry worker, GStreamer's streaming thread, the   *)
(* pipeline's bus thread, the NUC timer and the --seconds timer.           *)
(***************************************************************************)
EXTENDS App

Sensor == 2      \* the order of the App::add calls; 1 is the LogService
Video == 3
Telemetry == 4

ASSUME ServiceAssumption == N = 4

VARIABLES
    step,        \* how far the main thread is inside the call it makes
    pub,         \* TelemetryService::pub_
    running,     \* the publisher's running_
    health,      \* the last health message handed to the client (retained)
    worker,      \* the telemetry worker
    workerStop,  \* its stop token
    pipeline,    \* VideoService::pipeline_
    attached,    \* the appsink has its callbacks
    stream,      \* the streaming thread
    bus,         \* the bus thread
    busStop,
    nuc,         \* the NUC timer's thread
    nucStop,
    timer        \* the --seconds thread

telemetryVars == <<pub, running, health, worker, workerStop>>
videoVars == <<pipeline, attached, stream, bus, busStop>>
nucVars == <<nuc, nucStop>>
threadVars == <<telemetryVars, videoVars, nucVars, timer>>
serviceVars == <<vars, step, threadVars>>

Ended == {"none", "done"}   \* a thread that was never created, or has returned

STypeOK ==
    /\ TypeOK
    /\ step \in {"call", "preroll", "join", "reset", "null"}
    /\ pub \in {"none", "live"} /\ running \in BOOLEAN
    /\ health \in {"none", "OK", "OFFLINE"}
    /\ worker \in Ended \cup {"check", "health", "sample", "frames", "sensor", "sleep"}
    /\ pipeline \in {"none", "live"} /\ attached \in BOOLEAN
    /\ stream \in {"none", "idle", "frame", "deliver", "publish"}
    /\ bus \in Ended \cup {"poll", "dispatch"}
    /\ nuc \in Ended \cup {"sleep", "emitStart", "publishStart", "correct", "emitEnd", "publishEnd"}
    /\ timer \in Ended \cup {"sleep"}
    /\ {workerStop, busStop, nucStop} \subseteq BOOLEAN

SInit ==
    /\ Init
    /\ step = "call"
    /\ pub = "none" /\ running = FALSE /\ health = "none" /\ worker = "none"
    /\ pipeline = "none" /\ attached = FALSE /\ stream = "none" /\ bus = "none"
    /\ nuc = "none" /\ timer = "none"
    /\ workerStop = FALSE /\ busStop = FALSE /\ nucStop = FALSE

\* The main thread, inside a call it has made: App sees nothing.
Inside(from, to) == step = from /\ step' = to /\ UNCHANGED vars

-----------------------------------------------------------------------------
(***************************************************************************)
(* Startup: init() and start() of each component.                          *)
(***************************************************************************)
InitComponent ==
    /\ InitOk
    /\ pub' = IF at = Telemetry THEN "live" ELSE pub
    /\ pipeline' = IF at = Video THEN "live" ELSE pipeline
    /\ attached' = (attached \/ at = Video)
    /\ UNCHANGED <<step, running, health, worker, workerStop, stream, bus, busStop, nucVars, timer>>

\* LogService cannot fail.  The others may: the power-on BIT, the model and
\* the graph, the client.
InitComponentFails == InitFails /\ at >= Sensor /\ UNCHANGED <<step, threadVars>>

\* Pipeline::play sets PLAYING: the streaming thread exists from here on.
Play ==
    /\ pc = "start" /\ at = Video
    /\ Inside("call", "preroll")
    /\ stream' = "idle"
    /\ UNCHANGED <<telemetryVars, pipeline, attached, bus, busStop, nucVars, timer>>

StartComponent ==
    /\ StartOk
    /\ step = IF at = Video THEN "preroll" ELSE "call"
    /\ step' = "call"
    /\ bus' = IF at = Video THEN "poll" ELSE bus
    /\ IF at = Telemetry
         THEN running' = TRUE /\ worker' = "check"
         ELSE UNCHANGED <<running, worker>>
    /\ UNCHANGED <<pub, health, workerStop, pipeline, attached, stream, busStop, nucVars, timer>>

\* The block does not run, the graph does not reach PLAYING, no network thread.
StartComponentFails ==
    /\ StartFails /\ at >= Sensor
    /\ step' = "call"
    /\ UNCHANGED threadVars

\* With or without --nuc, with or without --seconds.
ServiceUp ==
    /\ AllUp
    /\ nuc' \in {nuc, "sleep"}
    /\ timer' \in {timer, "sleep"}
    /\ UNCHANGED <<step, telemetryVars, videoVars, nucStop>>

-----------------------------------------------------------------------------
(***************************************************************************)
(* Teardown: stop() of each component.  The --seconds timer is joined when *)
(* its block is left, before app.stop(); the NUC timer when main returns.  *)
(***************************************************************************)
InStop(i) == pc \in Stopping /\ count = i /\ timer \in Ended

StopWorker ==
    /\ InStop(Telemetry)
    /\ worker # "none" /\ Inside("call", "join")
    /\ workerStop' = TRUE
    /\ UNCHANGED <<pub, running, health, worker, videoVars, nucVars, timer>>

\* Mutated: the worker is asked to stop and not waited for.
StopPublisherUnjoined ==
    /\ InStop(Telemetry)
    /\ Inside("join", "reset") \/ (Inside("call", "reset") /\ worker = "none")
    /\ running' = FALSE
    /\ health' = IF running THEN "OFFLINE" ELSE health
    /\ UNCHANGED <<pub, worker, workerStop, videoVars, nucVars, timer>>

\* Mutated: running_ is tested after it has been cleared.
StopPublisherSilent ==
    /\ InStop(Telemetry)
    /\ \/ Inside("join", "reset") /\ worker = "done"
       \/ Inside("call", "reset") /\ worker = "none"
    /\ running' = FALSE
    /\ UNCHANGED <<pub, health, worker, workerStop, videoVars, nucVars, timer>>

\* Publisher::stop says OFFLINE, if the client was ever started.
StopPublisher ==
    /\ InStop(Telemetry)
    /\ \/ Inside("join", "reset") /\ worker = "done"
       \/ Inside("call", "reset") /\ worker = "none"
    /\ running' = FALSE
    /\ health' = IF running THEN "OFFLINE" ELSE health
    /\ UNCHANGED <<pub, worker, workerStop, videoVars, nucVars, timer>>

ResetPublisher ==
    /\ InStop(Telemetry) /\ StopOne
    /\ step = "reset" /\ step' = "call"
    /\ pub' = "none"
    /\ UNCHANGED <<running, health, worker, workerStop, videoVars, nucVars, timer>>

StopBus ==
    /\ InStop(Video)
    /\ bus # "none" /\ Inside("call", "join")
    /\ busStop' = TRUE
    /\ UNCHANGED <<telemetryVars, pipeline, attached, stream, bus, nucVars, timer>>

Detach ==
    /\ InStop(Video)
    /\ \/ Inside("join", "null") /\ bus = "done"
       \/ Inside("call", "null") /\ bus = "none"
    /\ attached' = FALSE
    /\ UNCHANGED <<telemetryVars, pipeline, stream, bus, busStop, nucVars, timer>>

\* gst_element_set_state(NULL) returns when the streaming thread is gone.
ToNull ==
    /\ InStop(Video) /\ stream \in {"none", "idle"}
    /\ Inside("null", "reset")
    /\ stream' = "none"
    /\ UNCHANGED <<telemetryVars, pipeline, attached, bus, busStop, nucVars, timer>>

ResetPipeline ==
    /\ InStop(Video) /\ StopOne
    /\ step = "reset" /\ step' = "call"
    /\ pipeline' = "none"
    /\ UNCHANGED <<telemetryVars, attached, stream, bus, busStop, nucVars, timer>>

\* SensorService and LogService stop in one call each.
StopOther ==
    /\ StopOne /\ count < Video /\ timer \in Ended
    /\ UNCHANGED <<step, threadVars>>

LeaveMain ==
    /\ pc = "unhook" /\ nuc # "none" /\ ~nucStop
    /\ Inside("call", "join")
    /\ nucStop' = TRUE
    /\ UNCHANGED <<telemetryVars, videoVars, nuc, timer>>

\* Mutated: the NUC timer is detached.
DetachNuc ==
    /\ Unhook
    /\ step' = "call"
    /\ UNCHANGED threadVars

JoinNuc ==
    /\ Unhook /\ nuc \in Ended
    /\ step = IF nuc = "none" THEN "call" ELSE "join"
    /\ step' = "call"
    /\ UNCHANGED threadVars

Elsewhere ==
    /\ Hook \/ WaitCheck \/ WaitEnds \/ StopDone \/ Destroy
    /\ UNCHANGED <<step, threadVars>>

-----------------------------------------------------------------------------
(***************************************************************************)
(* The telemetry worker: health, then a sample of the others, once a       *)
(* second.  The sampler reads the frame count through pipeline_.           *)
(***************************************************************************)
WorkerOnly == UNCHANGED <<vars, step, pub, running, workerStop, videoVars, nucVars, timer>>

\* Mutated: the worker does not look at its stop token.
WorkerForEver ==
    /\ worker = "check" /\ worker' = "health"
    /\ UNCHANGED health /\ WorkerOnly

WorkerCheck ==
    /\ worker = "check"
    /\ worker' = IF workerStop THEN "done" ELSE "health"
    /\ UNCHANGED health /\ WorkerOnly

PublishHealth ==
    /\ worker = "health" /\ worker' = "sample"
    /\ health' = "OK"
    /\ WorkerOnly

Sample ==
    /\ worker = "sample"
    /\ worker' = IF pipeline = "live" THEN "frames" ELSE "sensor"
    /\ UNCHANGED health /\ WorkerOnly

ReadFrames ==
    /\ worker = "frames" /\ worker' = "sensor"
    /\ UNCHANGED health /\ WorkerOnly

PublishSensor ==
    /\ worker = "sensor" /\ worker' = "sleep"
    /\ UNCHANGED health /\ WorkerOnly

WorkerWakes ==
    /\ worker = "sleep" /\ worker' = "check"
    /\ UNCHANGED health /\ WorkerOnly

Worker == WorkerCheck \/ PublishHealth \/ Sample \/ ReadFrames \/ PublishSensor \/ WorkerWakes

-----------------------------------------------------------------------------
(***************************************************************************)
(* The streaming thread: a sample enters the callback while it is          *)
(* attached, passes the detector, and on_frame hands the detections to     *)
(* telemetry, which looks whether pub_ is engaged and then uses it.        *)
(***************************************************************************)
StreamOnly(from, to) ==
    /\ stream = from /\ stream' = to
    /\ UNCHANGED <<vars, step, telemetryVars, pipeline, attached, bus, busStop, nucVars, timer>>

NewSample == attached /\ StreamOnly("idle", "frame")
Process == StreamOnly("frame", "deliver")
OnFrame == StreamOnly("deliver", IF pub = "live" THEN "publish" ELSE "idle")
\* Not the one frame in fps that is reported.
OnQuietFrame == StreamOnly("deliver", "idle")
PublishDetections == StreamOnly("publish", "idle")

Stream == Process \/ OnFrame \/ OnQuietFrame \/ PublishDetections

\* The bus thread reports to VideoService, which logs.
BusOnly(from, to) ==
    /\ bus = from /\ bus' = to
    /\ UNCHANGED <<vars, step, telemetryVars, pipeline, attached, stream, busStop, nucVars, timer>>

BusTimeout == BusOnly("poll", IF busStop THEN "done" ELSE "poll")
BusMessage == ~busStop /\ BusOnly("poll", "dispatch")
Dispatch == BusOnly("dispatch", "poll")

-----------------------------------------------------------------------------
(***************************************************************************)
(* The NUC timer: unless stopped while it sleeps, SensorService::run_nuc   *)
(* with an event before and one after, each sent if pub_ is engaged.       *)
(***************************************************************************)
NucOnly(from, to) ==
    /\ nuc = from /\ nuc' = to
    /\ UNCHANGED <<vars, step, telemetryVars, videoVars, nucStop, timer>>

NucTimer == NucOnly("sleep", IF nucStop THEN "done" ELSE "emitStart")
EmitStart == NucOnly("emitStart", IF pub = "live" THEN "publishStart" ELSE "correct")
PublishStart == NucOnly("publishStart", "correct")
Correct == NucOnly("correct", "emitEnd")
EmitEnd == NucOnly("emitEnd", IF pub = "live" THEN "publishEnd" ELSE "done")
PublishEnd == NucOnly("publishEnd", "done")

Nuc == NucTimer \/ EmitStart \/ PublishStart \/ Correct \/ EmitEnd \/ PublishEnd

-----------------------------------------------------------------------------
\* SIGTERM or SIGINT, and the end of --seconds.
Signal == RequestStop /\ UNCHANGED <<step, threadVars>>

SecondsOver ==
    /\ timer = "sleep" /\ timer' = "done"
    /\ stopRequested' = TRUE
    /\ UNCHANGED <<pc, at, count, started, comp, error, kicks, handler>>
    /\ UNCHANGED <<step, telemetryVars, videoVars, nucVars>>

Main ==
    \/ InitComponent \/ InitComponentFails \/ Play \/ StartComponent \/ StartComponentFails
    \/ ServiceUp \/ StopWorker \/ StopPublisher \/ ResetPublisher \/ StopBus \/ Detach
    \/ ToNull \/ ResetPipeline \/ StopOther \/ LeaveMain \/ JoinNuc \/ Elsewhere

SNext ==
    \/ Main \/ Worker \/ NewSample \/ Stream \/ BusTimeout \/ BusMessage \/ Dispatch
    \/ Nuc \/ Signal \/ SecondsOver
    \/ Exited /\ UNCHANGED serviceVars

SSpec == SInit /\ [][SNext]_serviceVars

\* Every thread runs on: its sleeps end and its calls return.  Nobody has to
\* send a signal, a frame or a bus message.
SFairSpec ==
    /\ SSpec
    /\ WF_serviceVars(Main) /\ WF_serviceVars(Worker) /\ WF_serviceVars(Stream)
    /\ WF_serviceVars(BusTimeout) /\ WF_serviceVars(Dispatch)
    /\ WF_serviceVars(Nuc) /\ WF_serviceVars(SecondsOver)

-----------------------------------------------------------------------------
(***************************************************************************)
(* OwnThreadsInLife: a thread a component runs finds what it uses without  *)
(* looking, or after looking, alive: the worker its publisher and the      *)
(* pipeline it samples, the streaming and the bus thread their pipeline.   *)
(* It rests on the order of main and on every join and wait in the stop()  *)
(* functions (main.cpp:382-391,476-484,501-514, pipeline.cpp:217-231).     *)
(***************************************************************************)
OwnThreadsInLife ==
    /\ worker \in {"health", "sensor"} => pub = "live"
    /\ worker = "frames" => pipeline = "live"
    /\ stream # "none" \/ bus \notin Ended => pipeline = "live"

(***************************************************************************)
(* OfflineLast: what the broker retains of a unit that was stopped in      *)
(* order is OFFLINE: no OK of the worker comes after it (main.cpp:501-514, *)
(* publisher.cpp:104-106).                                                 *)
(***************************************************************************)
OfflineLast == health # "none" /\ pub = "none" => health = "OFFLINE"

(***************************************************************************)
(* NoThreadLeft: when main destroys the components every thread that was   *)
(* handed a reference to one of them, or to the logger, has returned.      *)
(***************************************************************************)
NoThreadLeft ==
    pc \in {"destroy", "dtor", "exited"} =>
        {worker, bus, nuc, timer} \subseteq Ended /\ stream = "none"

(***************************************************************************)
(* ServiceStops: once a stop is asked for, main returns: no join and no    *)
(* wait of the teardown is for a thread that waits for main.               *)
(***************************************************************************)
ServiceStops == stopRequested ~> pc = "exited"

-----------------------------------------------------------------------------
(***************************************************************************)
(* PublisherInLife: "cross-component communication via mailboxes or        *)
(* atomics, never shared mutable state without a documented owner"         *)
(* (docs/02_ARCHITECTURE.md:44): a thread that has found pub_ engaged      *)
(* never uses a publisher that main has destroyed meanwhile.               *)
(***************************************************************************)
PublisherInLife ==
    stream = "publish" \/ nuc \in {"publishStart", "publishEnd"} => pub = "live"

-----------------------------------------------------------------------------
(***************************************************************************)
(* The inductive invariant.  Why the --seconds thread is a caller of       *)
(* request_stop() App knows: the handlers are installed from before        *)
(* start() until main has joined it.                                       *)
(***************************************************************************)
Hooked ==
    /\ pc \notin {"hook", "destroy", "dtor", "exited"} => handler = "ours"
    /\ timer = "sleep" => pc \in {"check", "wait"} \/ (pc = "stop" /\ count = N)

\* How far main is in a call, and what it has waited for so far.
StepsInOrder ==
    /\ step = "preroll" => pc = "start" /\ at = Video
    /\ step \in {"join", "reset", "null"} =>
         \/ pc \in Stopping /\ count \in {Video, Telemetry}
         \/ pc = "unhook" /\ step = "join"
    /\ step = "null" => count = Video /\ bus \in Ended
    /\ step = "reset" /\ count = Telemetry => worker \in Ended /\ ~running
    /\ step = "reset" /\ count = Video => stream = "none" /\ bus \in Ended

\* What a component holds, and which of its threads run, follows its state.
FollowsComponent ==
    /\ pub = "live" <=> comp[Telemetry] \in Live
    /\ pipeline = "live" <=> comp[Video] \in Live
    /\ running => comp[Telemetry] = "up"
    /\ worker \notin Ended \/ health = "OK" => running
    /\ stream # "none" => comp[Video] \in Live
    /\ bus \notin Ended => comp[Video] = "up"
    /\ pc \in {"destroy", "dtor", "exited"} => nuc \in Ended

SIInv == IInv /\ STypeOK /\ Hooked /\ StepsInOrder /\ FollowsComponent
=============================================================================
