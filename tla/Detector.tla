------------------------------ MODULE Detector ------------------------------
(***************************************************************************)
(* modules/detect: Yolo with its inference on a thread of its own          *)
(* (YoloConfig::async), and the one-slot mailbox between them.             *)
(*                                                                         *)
(* The streaming thread is in process(): it offers the frame, which may be *)
(* refused, and draws the boxes it has; then, once a second, on_frame of   *)
(* main.cpp reports the detections.  The worker takes the frame out of the *)
(* mailbox, infers, and stores what it found.  The owner destroys the      *)
(* detector when no more frames come.                                      *)
(*                                                                         *)
(* A frame is copied row by row: here in two halves, so that one that is   *)
(* half in the mailbox can be told.  Results are numbered in the order in  *)
(* which they are stored; 0 is that there is none yet.                     *)
(***************************************************************************)
EXTENDS Naturals

CONSTANTS
    Frames, NoFrame,
    MaxResults  \* inferences that find something, in one run of the model

ASSUME DetectorAssumption == NoFrame \notin Frames /\ MaxResults \in Nat

VARIABLES
    stream,      \* where the streaming thread is in process()
    current,     \* the frame it is in with
    worker,      \* where the worker is
    mailboxLock, \* who holds mailbox_mutex_
    top, bottom, \* mailbox_
    pending,     \* pending_
    taken,       \* the worker's own copy, its two halves
    resultLock,  \* who holds mutex_
    last,        \* which result last_ is
    timed,       \* which one inference_us_ is about
    report,      \* which ones the latest report has of each
    owner,       \* where the owner is
    stop         \* the worker's stop token

boxVars == <<mailboxLock, top, bottom, pending>>
found == <<last, timed, report>>
resultVars == <<resultLock, found>>
ownerVars == <<owner, stop>>
vars == <<stream, current, worker, boxVars, taken, resultVars, ownerVars>>

Copying == {"top", "bottom", "post"}
Waiting == {"check", "block", "take"}  \* in the wait, with the mutex
Inferring == {"infer", "store", "storing"}
Working == Inferring \cup {"timing", "clear"}
Reporting == {"list", "count", "time"}
AnyFrame == Frames \cup {NoFrame}

TypeOK ==
    /\ stream \in {"out", "try", "draw", "drawing"} \cup Copying \cup Reporting
    /\ worker \in {"none", "test", "lock", "asleep", "late", "timing", "clear", "done"}
                    \cup Waiting \cup Inferring
    /\ {current, top, bottom} \subseteq AnyFrame
    /\ taken \in AnyFrame \X AnyFrame
    /\ mailboxLock \in {"none", "stream", "worker"}
    /\ resultLock \in {"none", "stream", "worker"}
    /\ owner \in {"up", "notify", "join", "gone"}
    /\ pending \in BOOLEAN /\ stop \in BOOLEAN
    /\ last \in Nat /\ timed \in Nat /\ report \in [list : Nat, count : Nat, time : Nat]

Init ==
    /\ stream = "out" /\ current = NoFrame /\ worker = "none"
    /\ mailboxLock = "none" /\ top = NoFrame /\ bottom = NoFrame /\ pending = FALSE
    /\ taken = <<NoFrame, NoFrame>>
    /\ resultLock = "none" /\ last = 0 /\ timed = 0
    /\ report = [list |-> 0, count |-> 0, time |-> 0]
    /\ owner = "up" /\ stop = FALSE

-----------------------------------------------------------------------------
(***************************************************************************)
(* The streaming thread: process() and offer().                            *)
(***************************************************************************)
\* The first frame starts the worker.
Process(f) ==
    /\ stream = "out" /\ owner = "up"
    /\ stream' = "try" /\ current' = f
    /\ worker' = IF worker = "none" THEN "test" ELSE worker
    /\ UNCHANGED <<boxVars, taken, resultVars, ownerVars>>

StreamOnly(from, to) ==
    /\ stream = from /\ stream' = to
    /\ UNCHANGED <<current, taken, ownerVars>>

\* Mutated: the mailbox is claimed, and filled without its lock.
OfferClaims ==
    /\ mailboxLock = "none" /\ ~pending
    /\ pending' = TRUE
    /\ StreamOnly("try", "top")
    /\ UNCHANGED <<worker, mailboxLock, top, bottom, resultVars>>

\* Mutated: it is not asked whether the worker still has the last one.
OfferAnyway ==
    /\ mailboxLock = "none"
    /\ mailboxLock' = "stream"
    /\ StreamOnly("try", "top")
    /\ UNCHANGED <<worker, top, bottom, pending, resultVars>>

Offer ==
    /\ mailboxLock = "none" /\ ~pending
    /\ mailboxLock' = "stream"
    /\ StreamOnly("try", "top")
    /\ UNCHANGED <<worker, top, bottom, pending, resultVars>>

\* The worker has the mutex or the last frame, or try_lock fails for no reason.
Refuse ==
    /\ StreamOnly("try", "draw")
    /\ UNCHANGED <<worker, boxVars, resultVars>>

CopyTop ==
    /\ StreamOnly("top", "bottom")
    /\ top' = current
    /\ UNCHANGED <<worker, mailboxLock, bottom, pending, resultVars>>

CopyBottom ==
    /\ StreamOnly("bottom", "post")
    /\ bottom' = current
    /\ UNCHANGED <<worker, mailboxLock, top, pending, resultVars>>

\* A worker that sleeps is woken, and has to get the mutex again.
Notified == worker' = IF worker = "asleep" THEN "lock" ELSE worker

Post ==
    /\ StreamOnly("post", "draw")
    /\ pending' = TRUE /\ Notified
    /\ mailboxLock' = "none"
    /\ UNCHANGED <<top, bottom, resultVars>>

DrawLock ==
    /\ resultLock = "none"
    /\ StreamOnly("draw", "drawing")
    /\ resultLock' = "stream"
    /\ UNCHANGED <<worker, boxVars, found>>

\* process() returns; with or without telemetry, or not this frame.
Drawn ==
    /\ \E next \in {"list", "count", "out"} : StreamOnly("drawing", next)
    /\ resultLock' = "none"
    /\ UNCHANGED <<worker, boxVars, found>>

\* last() for the list that is published ...
ReadList ==
    /\ resultLock = "none" /\ StreamOnly("list", "count")
    /\ report' = [report EXCEPT !.list = last]
    /\ UNCHANGED <<worker, boxVars, resultLock, last, timed>>

\* ... last() once more for the number that is logged ...
ReadCount ==
    /\ resultLock = "none" /\ StreamOnly("count", "time")
    /\ report' = [report EXCEPT !.count = last]
    /\ UNCHANGED <<worker, boxVars, resultLock, last, timed>>

\* ... and last_inference(), an atomic that no mutex is taken for.
ReadTime ==
    /\ StreamOnly("time", "out")
    /\ report' = [report EXCEPT !.time = timed]
    /\ UNCHANGED <<worker, boxVars, resultLock, last, timed>>

Stream ==
    \/ Offer \/ Refuse \/ CopyTop \/ CopyBottom \/ Post \/ DrawLock \/ Drawn
    \/ ReadList \/ ReadCount \/ ReadTime

-----------------------------------------------------------------------------
(***************************************************************************)
(* The worker.                                                             *)
(***************************************************************************)
WorkerOnly(from, to) ==
    /\ worker = from /\ worker' = to
    /\ UNCHANGED <<stream, current, top, bottom, ownerVars>>

Test ==
    /\ WorkerOnly("test", IF stop THEN "done" ELSE "lock")
    /\ UNCHANGED <<mailboxLock, pending, taken, resultVars>>

Lock ==
    /\ mailboxLock = "none"
    /\ WorkerOnly("lock", "check")
    /\ mailboxLock' = "worker"
    /\ UNCHANGED <<pending, taken, resultVars>>

\* The predicate of wait_for ...
Check ==
    /\ WorkerOnly("check", IF pending \/ stop THEN "take" ELSE "block")
    /\ UNCHANGED <<mailboxLock, pending, taken, resultVars>>

\* ... and the wait, which releases the mutex as it begins.
Block ==
    /\ WorkerOnly("block", "asleep")
    /\ mailboxLock' = "none"
    /\ UNCHANGED <<pending, taken, resultVars>>

\* Mutated: the wait is not timed.
TimeoutNever ==
    /\ pending
    /\ WorkerOnly("asleep", "late")
    /\ UNCHANGED <<mailboxLock, pending, taken, resultVars>>

Timeout ==
    /\ WorkerOnly("asleep", "late")
    /\ UNCHANGED <<mailboxLock, pending, taken, resultVars>>

\* After a timeout the predicate is asked once more, and the loop goes round.
LateLock ==
    /\ mailboxLock = "none"
    /\ WorkerOnly("late", IF pending \/ stop THEN "take" ELSE "test")
    /\ mailboxLock' = IF pending \/ stop THEN "worker" ELSE "none"
    /\ UNCHANGED <<pending, taken, resultVars>>

\* Mutated: the results are locked for as long as the inference takes.
TakeWithResults ==
    /\ WorkerOnly("take", IF stop THEN "done" ELSE "infer")
    /\ taken' = IF stop THEN taken ELSE <<top, bottom>>
    /\ mailboxLock' = "none" /\ resultLock' = "worker"
    /\ UNCHANGED <<pending, found>>

Take ==
    /\ WorkerOnly("take", IF stop THEN "done" ELSE "infer")
    /\ taken' = IF stop THEN taken ELSE <<top, bottom>>
    /\ mailboxLock' = "none"
    /\ UNCHANGED <<pending, resultVars>>

\* The inference, as long as it takes; OpenCV may refuse the frame.
Infer ==
    /\ (last < MaxResults /\ WorkerOnly("infer", "store")) \/ WorkerOnly("infer", "clear")
    /\ UNCHANGED <<mailboxLock, pending, taken, resultVars>>

StoreLock ==
    /\ resultLock = "none"
    /\ WorkerOnly("store", "storing")
    /\ resultLock' = "worker"
    /\ UNCHANGED <<mailboxLock, pending, taken, found>>

\* Mutated: the mutex covers the list and not the time.
StoreUnlocks ==
    /\ WorkerOnly("storing", "timing")
    /\ last' = last + 1
    /\ resultLock' = "none"
    /\ UNCHANGED <<mailboxLock, pending, taken, timed, report>>

Store ==
    /\ WorkerOnly("storing", "timing")
    /\ last' = last + 1
    /\ UNCHANGED <<mailboxLock, pending, taken, resultLock, timed, report>>

StoreTime ==
    /\ WorkerOnly("timing", "clear")
    /\ timed' = last
    /\ resultLock' = "none"
    /\ UNCHANGED <<mailboxLock, pending, taken, last, report>>

\* Mutated: the mailbox is not free again.
ClearNothing ==
    /\ mailboxLock = "none"
    /\ WorkerOnly("clear", "test")
    /\ UNCHANGED <<mailboxLock, pending, taken, resultVars>>

Clear ==
    /\ mailboxLock = "none"
    /\ WorkerOnly("clear", "test")
    /\ pending' = FALSE
    /\ UNCHANGED <<mailboxLock, taken, resultVars>>

Worker ==
    \/ Test \/ Lock \/ Check \/ Block \/ Timeout \/ LateLock \/ Take
    \/ Store \/ StoreTime \/ Clear

-----------------------------------------------------------------------------
(***************************************************************************)
(* The destructor, when the streaming thread is gone: stop_worker.         *)
(***************************************************************************)
OwnerOnly(from, to) ==
    /\ owner = from /\ owner' = to
    /\ UNCHANGED <<stream, current, boxVars, taken, resultVars>>

RequestStop ==
    /\ stream = "out"
    /\ OwnerOnly("up", IF worker = "none" THEN "gone" ELSE "notify")
    /\ stop' = (worker # "none")
    /\ UNCHANGED worker

\* Without the mutex: the worker may be between its predicate and the wait.
NotifyAll ==
    /\ OwnerOnly("notify", "join")
    /\ Notified
    /\ UNCHANGED stop

Join ==
    /\ worker = "done"
    /\ OwnerOnly("join", "gone")
    /\ UNCHANGED <<worker, stop>>

Next ==
    \/ \E f \in Frames : Process(f)
    \/ Stream \/ Worker \/ Infer \/ StoreLock
    \/ RequestStop \/ NotifyAll \/ Join
    \/ owner = "gone" /\ UNCHANGED vars

Spec == Init /\ [][Next]_vars

\* The threads run and the timed wait ends; the streaming thread, which is
\* in process() for a moment per frame, does not starve the worker of mutex_.
\* No frame has to come, nobody has to destroy the detector, and an inference
\* need not end.
FairSpec ==
    /\ Spec
    /\ WF_vars(Stream) /\ WF_vars(Worker) /\ SF_vars(StoreLock)
    /\ WF_vars(NotifyAll \/ Join)

-----------------------------------------------------------------------------
(***************************************************************************)
(* WholeFrames: what the worker infers on, and what the boxes are about,   *)
(* is one frame, never the halves of two (yolo.cpp:242-266,280-284).       *)
(***************************************************************************)
WholeFrames == worker \in Inferring => taken[1] = taken[2] /\ taken[1] # NoFrame

(***************************************************************************)
(* NotOverwritten: a frame that was accepted is inferred on: the mailbox   *)
(* is not written again until the worker is through with it, whatever the  *)
(* order of the offers, the takes and the timeouts (yolo.cpp:251,281-296). *)
(***************************************************************************)
NotOverwritten ==
    [][UNCHANGED <<top, bottom>> \/ (~pending /\ worker \notin Inferring)]_vars

(***************************************************************************)
(* ImplementsMailbox: with its two threads, its mutex and its copies the   *)
(* detector is the one slot of Mailbox: a frame that was accepted is taken *)
(* once, whole, and done with before another one is accepted, whatever the *)
(* order of the offers, the timeouts and a stop (yolo.cpp:242-297).        *)
(***************************************************************************)
Nothing == <<NoFrame, NoFrame>>
Box == INSTANCE Mailbox WITH
    Frames <- {<<f, f>> : f \in Frames},
    NoFrame <- Nothing,
    slot <- IF pending THEN <<top, bottom>> ELSE Nothing,
    work <- IF worker \in Working THEN taken ELSE Nothing
ImplementsMailbox == Box!Safe

\* The network always answers.
InferenceEnds == worker = "infer" ~> worker # "infer"

(***************************************************************************)
(* Answered: an accepted frame makes room for the next one, if the network *)
(* answers and the detector stays (yolo.cpp:293-296).                      *)
(***************************************************************************)
Answered == InferenceEnds => (pending ~> ~pending \/ owner # "up")

(***************************************************************************)
(* Destroyed: the destructor returns, wherever the worker is when it is    *)
(* asked to stop; a notification that falls between its predicate and its  *)
(* wait is lost, and the wait is timed for that (yolo.cpp:275,301-307).    *)
(***************************************************************************)
Destroyed == InferenceEnds => (stop ~> owner = "gone")

(***************************************************************************)
(* StreamReturns: process() returns even if an inference never does: the   *)
(* capture is not held up by the detector (yolo.hpp:47-51).                *)
(***************************************************************************)
StreamReturns == stream # "out" ~> stream = "out"

(***************************************************************************)
(* ReportsForward: on_frame asks three times, and an inference may end in  *)
(* between: the number it logs may be newer than the list it publishes and *)
(* the time newer than both, never older; a time is never shown with       *)
(* detections that came after it (main.cpp:399-417, yolo.cpp:233-235).     *)
(***************************************************************************)
ReportsForward ==
    stream \notin {"count", "time"} =>
        report.list <= report.count /\ report.count <= report.time

-----------------------------------------------------------------------------
(***************************************************************************)
(* The inductive invariant: who holds which mutex, and what the mailbox    *)
(* and the worker's copy hold, and what has been read of the results.     *)
(***************************************************************************)
Locks ==
    /\ mailboxLock = "stream" <=> stream \in Copying
    /\ mailboxLock = "worker" <=> worker \in Waiting
    /\ resultLock = "stream" <=> stream = "drawing"
    /\ resultLock = "worker" <=> worker \in {"storing", "timing"}

Contents ==
    /\ stream \in Copying => ~pending
    /\ stream # "out" => current # NoFrame /\ owner = "up"
    /\ stream = "bottom" => top = current
    /\ stream = "post" => top = current /\ bottom = current
    /\ pending => top = bottom /\ top # NoFrame
    /\ worker \in Working => pending /\ taken = <<top, bottom>>
    /\ worker = "take" => pending \/ stop

Numbers ==
    /\ last = timed \/ (worker = "timing" /\ last = timed + 1)
    /\ report.list <= last /\ report.count <= timed
    /\ stream # "count" => report.list <= report.count
    /\ stream # "time" => report.count <= report.time

IInv == TypeOK /\ Locks /\ Contents /\ Numbers
=============================================================================
