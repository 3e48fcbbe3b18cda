------------------------------ MODULE Pipeline ------------------------------
(***************************************************************************)
(* modules/video: Pipeline::Impl on the graph that launch_string           *)
(* describes.                                                              *)
(*                                                                         *)
(* The streaming thread takes frames out of the leaky queue behind the     *)
(* source and is in on_new_sample with one at a time.  The bus thread      *)
(* hands the messages of the elements to the BusSink.  The owner plays and *)
(* stops the pipeline.                                                     *)
(*                                                                         *)
(* GStreamer is modelled from how pipeline.cpp and factory.cpp use it.  A  *)
(* frame is the number of captures since its own.  The pixels, the caps    *)
(* and the texts of the messages are left out.                             *)
(***************************************************************************)
EXTENDS Naturals, Sequences

CONSTANTS
    MaxBuffers,   \* QueueSpec::max_buffers
    MaxFrames,    \* frames counted in, and
    MaxMessages   \* messages posted, in one run of the model

ASSUME PipelineAssumption ==
    MaxBuffers \in Nat \ {0} /\ MaxFrames \in Nat /\ MaxMessages \in Nat

VARIABLES
    control,   \* where the owner is
    graph,     \* the state of the GStreamer graph
    attached,  \* the appsink has its callbacks
    queue,     \* the queue between source and appsink, oldest first
    callback,  \* where the streaming thread is in on_new_sample
    age,       \* of the frame it is in with, when it was pulled
    count,     \* frames_in_, frames_out_, drops_
    bus,       \* messages on the bus
    posted,    \* how many were
    busThread, \* where the bus thread is
    busStop,   \* its stop token
    reported   \* on_bus was called with an error

streamVars == <<queue, callback, age>>
busVars == <<bus, posted, busThread, busStop, reported>>
vars == <<control, graph, attached, streamVars, count, busVars>>

Teardown == {"stop", "join", "detach", "null", "stopped"}
InCallback == {"transform", "deliver", "push"}
Counts == [in : Nat, out : Nat, drops : Nat]

TypeOK ==
    /\ control \in {"made", "play", "playing", "failed"} \cup Teardown
    /\ graph \in {"null", "changing", "playing", "broken"}
    /\ attached \in BOOLEAN
    /\ queue \in Seq(Nat) /\ Len(queue) <= MaxBuffers
    /\ callback \in {"idle", "pull", "ended"} \cup InCallback
    /\ age \in Nat /\ count \in Counts
    /\ bus \in Seq({"error", "qos", "eos"}) /\ posted \in 0..MaxMessages
    /\ busThread \in {"none", "poll", "error", "qos", "eos", "done"}
    /\ busStop \in BOOLEAN /\ reported \in BOOLEAN

\* create has built the graph and installed the callbacks.
Init ==
    /\ control = "made" /\ graph = "null" /\ attached = TRUE
    /\ queue = <<>> /\ callback = "idle" /\ age = 0
    /\ count = [in |-> 0, out |-> 0, drops |-> 0]
    /\ bus = <<>> /\ posted = 0 /\ busThread = "none" /\ busStop = FALSE /\ reported = FALSE

-----------------------------------------------------------------------------
(***************************************************************************)
(* The graph: the source captures whatever becomes of its frames, and an   *)
(* element may report, or fail, at any time.                               *)
(***************************************************************************)
Older(s) == [i \in DOMAIN s |-> s[i] + 1]

\* Mutated: leaky=upstream, a full queue refuses what is new.
LeakNewest(s) == IF Len(s) = MaxBuffers THEN s ELSE Append(s, 0)

\* leaky=downstream: a full queue forgets its oldest frame.
Leak(s) == Append(IF Len(s) = MaxBuffers THEN Tail(s) ELSE s, 0)

Capture ==
    /\ graph # "null"
    /\ queue' = Leak(Older(queue))
    /\ UNCHANGED <<control, graph, attached, callback, age, count, busVars>>

Post(m) ==
    /\ graph # "null" /\ posted < MaxMessages
    /\ bus' = Append(bus, m) /\ posted' = posted + 1
    /\ UNCHANGED <<control, attached, streamVars, count, busThread, busStop, reported>>

PostNote == (Post("qos") \/ Post("eos")) /\ UNCHANGED graph

Break == graph # "broken" /\ Post("error") /\ graph' = "broken"

\* All elements have reached PLAYING.
Reach ==
    /\ graph = "changing" /\ graph' = "playing"
    /\ UNCHANGED <<control, attached, streamVars, count, busVars>>

-----------------------------------------------------------------------------
(***************************************************************************)
(* The streaming thread: on_new_sample.                                    *)
(***************************************************************************)
StreamOnly(from, to) ==
    /\ callback = from /\ callback' = to
    /\ UNCHANGED <<control, graph, attached, busVars>>

Counted(c) == count' = [count EXCEPT ![c] = @ + 1]

\* Without callbacks the appsink keeps the newest frame and nobody pulls it.
Take ==
    /\ queue # <<>> /\ graph # "null"
    /\ queue' = Tail(queue) /\ age' = Head(queue)
    /\ StreamOnly("idle", IF attached THEN "pull" ELSE "idle")
    /\ UNCHANGED count

\* No sample while the graph goes to NULL, no buffer in it, or it cannot be
\* mapped: not a frame that has been counted.
PullNothing ==
    /\ StreamOnly("pull", "idle") \/ (control = "null" /\ StreamOnly("pull", "ended"))
    /\ UNCHANGED <<queue, age, count>>

\* With or without a transform (--detect).
Pull ==
    /\ count.in < MaxFrames
    /\ StreamOnly("pull", "transform") \/ StreamOnly("pull", "deliver")
    /\ Counted("in")
    /\ UNCHANGED <<queue, age>>

\* A transform that fails is counted as a drop, and the frame goes on.
Transform ==
    /\ StreamOnly("transform", "deliver")
    /\ Counted("drops") \/ UNCHANGED count
    /\ UNCHANGED <<queue, age>>

\* on_frame: ok, stop or drop.
OnFrame ==
    /\ \/ StreamOnly("deliver", "push") /\ UNCHANGED count
       \/ StreamOnly("deliver", "ended") /\ UNCHANGED count
       \/ StreamOnly("deliver", "idle") /\ Counted("drops")
    /\ UNCHANGED <<queue, age>>

\* Mutated: a frame that is refused is not counted.
PushSilently ==
    /\ StreamOnly("push", "idle")
    /\ Counted("out") \/ UNCHANGED count
    /\ UNCHANGED <<queue, age>>

\* gst_app_src_push_buffer takes the frame or refuses it.
Push ==
    /\ StreamOnly("push", "idle")
    /\ Counted("out") \/ Counted("drops")
    /\ UNCHANGED <<queue, age>>

Stream == Take \/ PullNothing \/ Pull \/ Transform \/ OnFrame \/ Push

-----------------------------------------------------------------------------
(***************************************************************************)
(* The bus thread.                                                         *)
(***************************************************************************)
BusOnly ==
    UNCHANGED <<control, graph, attached, streamVars, posted, busStop>>

\* Mutated: the thread ends when there is nothing to report.
BusPollOnce ==
    /\ busThread = "poll"
    /\ IF busStop \/ bus = <<>>
         THEN busThread' = "done" /\ UNCHANGED bus
         ELSE busThread' = Head(bus) /\ bus' = Tail(bus)
    /\ UNCHANGED <<count, reported>> /\ BusOnly

\* Mutated: the token is looked at only after a message.
BusPollForEver ==
    /\ busThread = "poll" /\ bus # <<>>
    /\ IF busStop THEN busThread' = "done" /\ UNCHANGED bus
                  ELSE busThread' = Head(bus) /\ bus' = Tail(bus)
    /\ UNCHANGED <<count, reported>> /\ BusOnly

\* The token, and then a message within 100 ms or another look at the token.
BusPoll ==
    /\ busThread = "poll"
    /\ IF busStop \/ bus = <<>>
         THEN busThread' = (IF busStop THEN "done" ELSE "poll") /\ UNCHANGED bus
         ELSE busThread' = Head(bus) /\ bus' = Tail(bus)
    /\ UNCHANGED <<count, reported>> /\ BusOnly

Dispatch ==
    /\ busThread \in {"error", "qos", "eos"} /\ busThread' = "poll"
    /\ reported' = (reported \/ busThread = "error")
    /\ IF busThread = "qos" THEN Counted("drops") ELSE UNCHANGED count
    /\ UNCHANGED bus /\ BusOnly

-----------------------------------------------------------------------------
(***************************************************************************)
(* The owner: play, stats and shutdown.                                    *)
(***************************************************************************)
ControlOnly(from, to) ==
    /\ control = from /\ control' = to
    /\ UNCHANGED <<queue, age, count, posted, reported>>

Play ==
    /\ \/ ControlOnly("made", "failed") /\ graph' = "broken"
       \/ ControlOnly("made", "play") /\ graph' = "changing"
    /\ UNCHANGED <<attached, callback, bus, busThread, busStop>>

\* gst_element_get_state: a graph that fails may say so; one that does not
\* get to PLAYING is waited for three seconds.
PlayFails ==
    /\ graph = "broken" /\ ControlOnly("play", "failed")
    /\ UNCHANGED <<graph, attached, callback, bus, busThread, busStop>>

PlayReturns ==
    /\ ControlOnly("play", "playing")
    /\ busThread' = "poll"
    /\ UNCHANGED <<graph, attached, callback, bus, busStop>>

\* stop(), or the destructor.
Stop ==
    /\ \E c \in {"made", "playing", "failed"} : ControlOnly(c, "stop")
    /\ UNCHANGED <<graph, attached, callback, bus, busThread, busStop>>

\* Mutated: the thread is asked to stop, and left to it.
StopBusUnjoined ==
    /\ ControlOnly("stop", "detach")
    /\ busStop' = (busThread # "none")
    /\ UNCHANGED <<graph, attached, callback, bus, busThread>>

StopBus ==
    /\ ControlOnly("stop", IF busThread = "none" THEN "detach" ELSE "join")
    /\ busStop' = (busThread # "none")
    /\ UNCHANGED <<graph, attached, callback, bus, busThread>>

JoinBus ==
    /\ busThread = "done" /\ ControlOnly("join", "detach")
    /\ UNCHANGED <<graph, attached, callback, bus, busThread, busStop>>

Detach ==
    /\ ControlOnly("detach", "null")
    /\ attached' = FALSE
    /\ UNCHANGED <<graph, callback, bus, busThread, busStop>>

\* The state change waits for the streaming thread; the bus is flushed.
ToNull ==
    /\ callback \in {"idle", "ended"} /\ ControlOnly("null", "stopped")
    /\ graph' = "null" /\ bus' = <<>>
    /\ UNCHANGED <<attached, callback, busThread, busStop>>

Rest == control = "stopped" /\ UNCHANGED vars

-----------------------------------------------------------------------------
Bus == BusPoll \/ Dispatch
Owner == PlayFails \/ PlayReturns \/ StopBus \/ JoinBus \/ Detach \/ ToNull

Next ==
    \/ Capture \/ PostNote \/ Break \/ Reach
    \/ Stream \/ Bus
    \/ Play \/ Owner \/ Stop
    \/ Rest

Spec == Init /\ [][Next]_vars

\* The threads run and the calls of the streaming thread return.  Nobody has
\* to play, to stop or to capture.
FairSpec == Spec /\ WF_vars(Stream) /\ WF_vars(Bus) /\ WF_vars(Owner)

-----------------------------------------------------------------------------
(***************************************************************************)
(* Properties.                                                             *)
(***************************************************************************)
Inside == callback \in InCallback

\* The frame that has been counted in, and for which nothing else has been
\* counted yet, or never will be because on_frame said stop.
Pending == IF Inside \/ callback = "ended" THEN 1 ELSE 0

\* The frames waiting are the last ones captured, without a gap.
Latest == \A i \in DOMAIN queue : queue[i] = Len(queue) - i

\* The bus thread is there from the return of play() to the join.
BusThreadLives ==
    /\ busThread = "none" => control \notin {"playing", "join"}
    /\ busThread \in {"poll", "error", "qos", "eos"} => control \in {"playing", "stop", "join"}
    /\ busThread = "done" => busStop
    /\ busStop => control \in {"join", "detach", "null", "stopped"}

\* Nobody can be called any more once the state change has returned.
Silenced ==
    /\ control \in {"null", "stopped"} => ~attached
    /\ control = "stopped" => graph = "null" /\ callback \in {"idle", "ended"}

\* No frame gets lost behind the callback without being counted: each one in
\* is one out, a drop, or the one being worked on, whatever the transform, the
\* sink and the appsrc make of it and however many messages about drops the
\* bus thread counts at the same time (pipeline.cpp:137, 179-213).
LossCounted == count.in <= count.out + count.drops + Pending

\* Under overload the pipeline loses frames and does not get late: a frame
\* that reaches the callback is one of the last MaxBuffers captured at that
\* time (factory.cpp:11-16, spec.hpp:50-51).
Fresh == callback # "idle" => age < MaxBuffers

\* What the owner, the streaming thread and the bus thread leave in order
\* between any two of their steps (pipeline.cpp:62-231).
IInv ==
    /\ TypeOK
    /\ Latest /\ BusThreadLives /\ Silenced
    /\ LossCounted /\ Fresh

\* When shutdown() has returned and the members go, neither thread is inside
\* the object, nor can one come in (pipeline.cpp:217-231).
NobodyInside ==
    control = "stopped" =>
        /\ busThread \in {"none", "done"}
        /\ ~attached /\ ~Inside /\ callback # "pull"

\* A graph that breaks is noticed: play() fails, or on_bus gets the error
\* unless the owner stops the pipeline first, even if the message was there
\* before the bus thread (pipeline.cpp:62-77, 94-128).
FailureSurfaces ==
    (graph = "broken" /\ control \in {"play", "playing"})
        ~> (reported \/ control = "failed" \/ control \in Teardown)

\* shutdown() comes to its end, whatever is in the callback or on the bus.
ShutdownReturns == control = "stop" ~> control = "stopped"
=============================================================================
