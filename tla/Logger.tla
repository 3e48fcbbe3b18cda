------------------------------- MODULE Logger -------------------------------
(***************************************************************************)
(* framework/log/src/logger.cpp: the logger.  Every thread that logs gets  *)
(* a ring of its own at its first call; the sink thread empties all the    *)
(* rings into the output file, and once a second reports how many records  *)
(* were dropped.  drain_now may also be called by the thread that owns the *)
(* logger (`main'), and the destructor calls it.                           *)
(*                                                                         *)
(* A ring is the channel LogChannel, which SpscRing implements: what the   *)
(* properties here tell apart of it is how many records it holds, and how  *)
(* many taken ones its thread does not know of yet.                        *)
(* The counters are std::uint64_t and wrap, at CounterModulus.  written_   *)
(* is only ever shown by stats() and left out.                             *)
(*                                                                         *)
(* producers_mutex_ is held by the sink or by main for the whole of        *)
(* drain_now and of the summing loop of report_drops.  A thread that       *)
(* registers holds it for one step.                                        *)
(*                                                                         *)
(* Calls below the level filter return at once and change nothing; the     *)
(* record's stamps (ts_mono_ns, seq) and its text are left out.            *)
(***************************************************************************)
EXTENDS Naturals, Sequences, FiniteSetsExt

CONSTANTS
    Threads,         \* the threads that log
    NoThread,
    Chatty,          \* a bound for TLC: the other threads log only once
    Capacity,        \* kRingCapacity
    CounterModulus   \* 2^64

ASSUME LoggerAssumption ==
    /\ Capacity \in Nat \ {0}
    /\ CounterModulus \in Nat /\ CounterModulus >= Capacity + 2
    /\ Chatty \subseteq Threads /\ NoThread \notin Threads

VARIABLES
    callPc,      \* where each thread's log() call is
    queued,      \* how many records its ring holds
    unseen,      \* records taken that the thread does not know of
    dropped,     \* Producer::dropped
    producers,   \* producers_, in order of registration
    mutex,       \* who holds producers_mutex_
    pos,         \* the loop variable of whoever iterates over producers_
    held,        \* whose record drain_now has popped and not written yet
    busy,        \* drain_now has popped something (n > 0)
    unwritten,   \* the calls of each thread that are not a line of the file
    total,       \* the local sum of report_drops
    reported,    \* reported_drops_
    sinkPc,      \* where the sink thread is; "none": sink_ is not joinable
    leaving,     \* the sink thread is past its loop
    stop,        \* its stop token
    mainPc       \* what the owner of the logger is doing

threadVars == <<callPc, queued, unseen, dropped, producers>>
drainVars == <<mutex, pos, held, busy>>
reportVars == <<total, reported>>
controlVars == <<sinkPc, leaving, stop, mainPc>>
vars == <<threadVars, drainVars, unwritten, reportVars, controlVars>>

Counter == 0..(CounterModulus - 1)
Plus(i, n) == IF i + n >= CounterModulus THEN i + n - CounterModulus ELSE i + n
Minus(i, n) == IF i < n THEN i + CounterModulus - n ELSE i - n

\* The threads whose thread_local pointer is set.
Registered == {producers[k] : k \in 1..Len(producers)}

Drainers == {"sink", "main"}
InDestructor == mainPc \in {"lastJoin", "lastDrain", "gone"}

TypeOK ==
    /\ callPc \in [Threads -> {"idle", "register", "push", "count"}]
    /\ queued \in [Threads -> 0..Capacity]
    /\ unseen \in [Threads -> 0..Capacity]
    /\ dropped \in [Threads -> Counter]
    /\ producers \in Seq(Threads)
    /\ mutex \in Drainers \cup {"free"}
    /\ pos \in Nat \ {0}
    /\ held \in Threads \cup {NoThread}
    /\ busy \in BOOLEAN
    /\ unwritten \in [Threads -> Counter]
    /\ total \in Counter
    /\ reported \in Counter
    /\ sinkPc \in {"none", "loop", "drain", "timer", "sum", "print", "pause", "done"}
    /\ leaving \in BOOLEAN
    /\ stop \in BOOLEAN
    /\ mainPc \in {"run", "drain", "join", "lastJoin", "lastDrain", "gone"}

Init ==
    /\ callPc = [t \in Threads |-> "idle"]
    /\ queued = [t \in Threads |-> 0]
    /\ unseen = [t \in Threads |-> 0]
    /\ dropped = [t \in Threads |-> 0]
    /\ producers = <<>>
    /\ mutex = "free" /\ pos = 1 /\ held = NoThread /\ busy = FALSE
    /\ unwritten = [t \in Threads |-> 0]
    /\ total = 0 /\ reported = 0
    /\ sinkPc = "none" /\ leaving = FALSE /\ stop = FALSE
    /\ mainPc = "run"

-----------------------------------------------------------------------------
(***************************************************************************)
(* log() on thread t.  The owner of the logger destroys it only when       *)
(* nobody is in log() and nobody will call it again.                       *)
(***************************************************************************)
Call(t) ==
    /\ callPc[t] = "idle" /\ ~InDestructor
    /\ t \in Registered => t \in Chatty
    /\ unwritten' = [unwritten EXCEPT ![t] = Plus(@, 1)]
    /\ callPc' = [callPc EXCEPT ![t] = IF t \in Registered THEN "push" ELSE "register"]
    /\ UNCHANGED <<queued, unseen, dropped, producers, drainVars, reportVars, controlVars>>

Register(t) ==
    /\ callPc[t] = "register"
    /\ mutex = "free"
    /\ producers' = Append(producers, t)
    /\ callPc' = [callPc EXCEPT ![t] = "push"]
    /\ UNCHANGED <<queued, unseen, dropped, drainVars, unwritten, reportVars, controlVars>>

\* An acquire load of read_ sees some of what has been taken meanwhile.
Look(t) ==
    /\ callPc[t] = "push"
    /\ \E u \in 0..unseen[t] : u < unseen[t] /\ unseen' = [unseen EXCEPT ![t] = u]
    /\ UNCHANGED <<callPc, queued, dropped, producers, drainVars, unwritten, reportVars,
                   controlVars>>

\* try_push, by what the thread has seen.
Push(t) ==
    /\ callPc[t] = "push"
    /\ IF queued[t] + unseen[t] < Capacity
         THEN /\ queued' = [queued EXCEPT ![t] = @ + 1]
              /\ callPc' = [callPc EXCEPT ![t] = "idle"]
         ELSE /\ callPc' = [callPc EXCEPT ![t] = "count"]
              /\ UNCHANGED queued
    /\ UNCHANGED <<unseen, dropped, producers, drainVars, unwritten, reportVars, controlVars>>

\* Mutated: the refused record is not counted.
CountDropSilently(t) ==
    /\ callPc[t] = "count"
    /\ callPc' = [callPc EXCEPT ![t] = "idle"]
    /\ UNCHANGED <<queued, unseen, dropped, producers, drainVars, unwritten, reportVars,
                   controlVars>>

CountDrop(t) ==
    /\ callPc[t] = "count"
    /\ dropped' = [dropped EXCEPT ![t] = Plus(@, 1)]
    /\ callPc' = [callPc EXCEPT ![t] = "idle"]
    /\ UNCHANGED <<queued, unseen, producers, drainVars, unwritten, reportVars, controlVars>>

-----------------------------------------------------------------------------
(***************************************************************************)
(* drain_now: under the mutex, for each ring in turn, pop and write until  *)
(* a try_pop finds it empty.                                               *)
(***************************************************************************)
Draining(d) == IF d = "sink" THEN sinkPc = "drain" ELSE mainPc \in {"drain", "lastDrain"}

DrainLock(d) ==
    /\ Draining(d)
    /\ mutex = "free"
    /\ mutex' = d
    /\ pos' = 1 /\ held' = NoThread /\ busy' = FALSE
    /\ UNCHANGED <<threadVars, unwritten, reportVars, controlVars>>

DrainPop(d) ==
    /\ Draining(d) /\ mutex = d /\ held = NoThread
    /\ pos <= Len(producers)
    /\ queued[producers[pos]] > 0
    /\ queued' = [queued EXCEPT ![producers[pos]] = @ - 1]
    /\ unseen' = [unseen EXCEPT ![producers[pos]] = @ + 1]
    /\ held' = producers[pos]
    /\ UNCHANGED <<callPc, dropped, producers, mutex, pos, busy, unwritten,
                   reportVars, controlVars>>

\* write_record
DrainWrite(d) ==
    /\ Draining(d) /\ mutex = d /\ held # NoThread
    /\ unwritten' = [unwritten EXCEPT ![held] = Minus(@, 1)]
    /\ busy' = TRUE
    /\ held' = NoThread
    /\ UNCHANGED <<threadVars, mutex, pos, reportVars, controlVars>>

\* Mutated: one record of each ring is enough.
DrainNextRingEarly(d) ==
    /\ Draining(d) /\ mutex = d /\ held = NoThread
    /\ pos <= Len(producers)
    /\ pos' = pos + 1
    /\ UNCHANGED <<threadVars, mutex, held, busy, unwritten, reportVars, controlVars>>

\* The acquire load of write_ may not see the newest records yet.  The last
\* drain sees them all: whoever logged was done before the destructor began.
DrainNextRing(d) ==
    /\ Draining(d) /\ mutex = d /\ held = NoThread
    /\ pos <= Len(producers)
    /\ queued[producers[pos]] = 0 \/ mainPc # "lastDrain"
    /\ pos' = pos + 1
    /\ UNCHANGED <<threadVars, mutex, held, busy, unwritten, reportVars, controlVars>>

\* Mutated: start over, under the mutex, until there was something.
DrainReturnBusy(d) ==
    /\ Draining(d) /\ mutex = d /\ held = NoThread
    /\ pos > Len(producers)
    /\ mutex' = IF busy THEN "free" ELSE mutex
    /\ pos' = 1
    /\ IF d = "sink"
         THEN /\ sinkPc' = IF ~busy THEN sinkPc ELSE IF leaving THEN "sum" ELSE "timer"
              /\ UNCHANGED mainPc
         ELSE /\ mainPc' = IF ~busy THEN mainPc ELSE IF mainPc = "drain" THEN "run" ELSE "gone"
              /\ UNCHANGED sinkPc
    /\ UNCHANGED <<threadVars, held, busy, unwritten, reportVars, leaving, stop>>

DrainReturn(d) ==
    /\ Draining(d) /\ mutex = d /\ held = NoThread
    /\ pos > Len(producers)
    /\ mutex' = "free"
    /\ pos' = 1
    /\ IF d = "sink"
         THEN /\ sinkPc' = IF leaving THEN "sum" ELSE "timer"
              /\ UNCHANGED mainPc
         ELSE /\ mainPc' = IF mainPc = "drain" THEN "run" ELSE "gone"
              /\ UNCHANGED sinkPc
    /\ UNCHANGED <<threadVars, held, busy, unwritten, reportVars, leaving, stop>>

Drain(d) == DrainPop(d) \/ DrainWrite(d) \/ DrainNextRing(d) \/ DrainReturn(d)

-----------------------------------------------------------------------------
(***************************************************************************)
(* sink_loop: drain, report the drops when a second has passed, sleep when *)
(* there was nothing; after a stop request, drain and report once more.    *)
(***************************************************************************)
\* Mutated: the stop token is not looked at.
SinkLoopForEver ==
    /\ sinkPc = "loop"
    /\ sinkPc' = "drain"
    /\ UNCHANGED <<threadVars, drainVars, unwritten, reportVars, leaving, stop, mainPc>>

SinkLoop ==
    /\ sinkPc = "loop"
    /\ sinkPc' = "drain"
    /\ leaving' = stop
    /\ UNCHANGED <<threadVars, drainVars, unwritten, reportVars, stop, mainPc>>

NextPass == IF busy THEN "loop" ELSE "pause"

SinkTimer(due) ==
    /\ sinkPc = "timer"
    /\ sinkPc' = IF due THEN "sum" ELSE NextPass
    /\ UNCHANGED <<threadVars, drainVars, unwritten, reportVars, leaving, stop, mainPc>>

SinkWake ==
    /\ sinkPc = "pause"
    /\ sinkPc' = "loop"
    /\ UNCHANGED <<threadVars, drainVars, unwritten, reportVars, leaving, stop, mainPc>>

\* Mutated: report_drops takes no lock.
SumUnlocked ==
    /\ sinkPc = "sum"
    /\ mutex # "sink"
    /\ mutex' = "sink"
    /\ pos' = 1 /\ total' = 0
    /\ UNCHANGED <<threadVars, held, busy, unwritten, reported, controlVars>>

\* report_drops: the counters are read one after the other.
SumLock ==
    /\ sinkPc = "sum"
    /\ mutex = "free"
    /\ mutex' = "sink"
    /\ pos' = 1 /\ total' = 0
    /\ UNCHANGED <<threadVars, held, busy, unwritten, reported, controlVars>>

SumAdd ==
    /\ sinkPc = "sum" /\ mutex = "sink"
    /\ pos <= Len(producers)
    /\ total' = Plus(total, dropped[producers[pos]])
    /\ pos' = pos + 1
    /\ UNCHANGED <<threadVars, mutex, held, busy, unwritten, reported, controlVars>>

SumReturn ==
    /\ sinkPc = "sum" /\ mutex = "sink"
    /\ pos > Len(producers)
    /\ mutex' = "free"
    /\ pos' = 1
    /\ sinkPc' = "print"
    /\ UNCHANGED <<threadVars, held, busy, unwritten, reportVars, leaving, stop, mainPc>>

\* Mutated: the report is printed and not remembered.
SinkPrintOnly ==
    /\ sinkPc = "print"
    /\ total' = 0
    /\ sinkPc' = IF leaving THEN "done" ELSE NextPass
    /\ UNCHANGED <<threadVars, drainVars, unwritten, reported, leaving, stop, mainPc>>

SinkPrint ==
    /\ sinkPc = "print"
    /\ reported' = total
    /\ total' = 0
    /\ sinkPc' = IF leaving THEN "done" ELSE NextPass
    /\ UNCHANGED <<threadVars, drainVars, unwritten, leaving, stop, mainPc>>

SinkStep == SinkLoop \/ (\E due \in BOOLEAN : SinkTimer(due)) \/ SinkWake
                \/ SumAdd \/ SumReturn \/ SinkPrint

-----------------------------------------------------------------------------
(***************************************************************************)
(* The owner: start(), stop(), drain_now() and the destructor.             *)
(***************************************************************************)
Start ==
    /\ mainPc = "run" /\ sinkPc = "none"
    /\ sinkPc' = "loop"
    /\ stop' = FALSE /\ leaving' = FALSE
    /\ UNCHANGED <<threadVars, drainVars, unwritten, reportVars, mainPc>>

Stop ==
    /\ mainPc = "run" /\ sinkPc # "none"
    /\ stop' = TRUE
    /\ mainPc' = "join"
    /\ UNCHANGED <<threadVars, drainVars, unwritten, reportVars, sinkPc, leaving>>

Join ==
    /\ mainPc \in {"join", "lastJoin"} /\ sinkPc = "done"
    /\ sinkPc' = "none"
    /\ mainPc' = IF mainPc = "join" THEN "run" ELSE "lastDrain"
    /\ UNCHANGED <<threadVars, drainVars, unwritten, reportVars, leaving, stop>>

DrainNow ==
    /\ mainPc = "run"
    /\ mainPc' = "drain"
    /\ UNCHANGED <<threadVars, drainVars, unwritten, reportVars, sinkPc, leaving, stop>>

\* Mutated: the destructor drains only when it has stopped the sink.
DestroyStopped ==
    /\ mainPc = "run"
    /\ \A t \in Threads : callPc[t] = "idle"
    /\ IF sinkPc = "none"
         THEN /\ mainPc' = "gone"
              /\ UNCHANGED stop
         ELSE /\ mainPc' = "lastJoin"
              /\ stop' = TRUE
    /\ UNCHANGED <<threadVars, drainVars, unwritten, reportVars, sinkPc, leaving>>

\* ~Logger: stop() and then drain_now().
Destroy ==
    /\ mainPc = "run"
    /\ \A t \in Threads : callPc[t] = "idle"
    /\ IF sinkPc = "none"
         THEN /\ mainPc' = "lastDrain"
              /\ UNCHANGED stop
         ELSE /\ mainPc' = "lastJoin"
              /\ stop' = TRUE
    /\ UNCHANGED <<threadVars, drainVars, unwritten, reportVars, sinkPc, leaving>>

\* The logger is gone; nothing happens any more.
Gone == mainPc = "gone" /\ UNCHANGED vars

Next ==
    \/ \E t \in Threads : Call(t) \/ Register(t) \/ Look(t) \/ Push(t) \/ CountDrop(t)
    \/ \E d \in Drainers : DrainLock(d) \/ Drain(d)
    \/ SinkStep \/ SumLock
    \/ Start \/ Stop \/ Join \/ DrainNow \/ Destroy
    \/ Gone

Spec == Init /\ [][Next]_vars

(***************************************************************************)
(* Every thread that can step does; who asks for the mutex gets it if it   *)
(* keeps coming free (the sink sleeps a millisecond after every drain that *)
(* found nothing); seconds pass; a record becomes visible to a sink that   *)
(* keeps looking.  Nobody has to log, and the owner need not call          *)
(* anything.  A thread registers once, and the sink is at one of its two   *)
(* locks: one condition for all of them says as much as one for each.      *)
(***************************************************************************)
Fairness ==
    /\ \A t \in Threads : WF_vars(Push(t) \/ CountDrop(t))
    /\ SF_vars(\E t \in Threads : Register(t))
    /\ SF_vars(DrainLock("main")) /\ SF_vars(DrainLock("sink") \/ SumLock)
    /\ \A d \in Drainers : WF_vars(Drain(d))
    /\ SF_vars(DrainPop("sink")) /\ SF_vars(SinkTimer(TRUE))
    /\ WF_vars(SinkStep) /\ WF_vars(Join)

FairSpec == Spec /\ Fairness

-----------------------------------------------------------------------------
(***************************************************************************)
(* Accounted: every call of log() is, at every moment, exactly one of: a   *)
(* line of the file, a counted drop, a record in the thread's ring, the    *)
(* record the drain is writing, or a call still under way: those that are  *)
(* not lines are the others, per thread and modulo the counters' width.    *)
(***************************************************************************)
Busy(b) == IF b THEN 1 ELSE 0
Pending(t) == queued[t] + Busy(callPc[t] # "idle") + Busy(held = t)
Accounted ==
    \A t \in Threads : unwritten[t] = Plus(dropped[t], Pending(t))

(***************************************************************************)
(* NothingLeft: once the destructor has returned, every call of log() ever *)
(* made is a line of the file or a counted drop: whatever was still in a   *)
(* ring when the sink ended, or was pushed after, the last drain wrote.    *)
(***************************************************************************)
NothingLeft ==
    mainPc = "gone" =>
        \A t \in Threads : /\ queued[t] = 0
                           /\ unwritten[t] = dropped[t]

(***************************************************************************)
(* OneConsumer: the two possible callers of drain_now never are in a ring  *)
(* at the same time, and the sum of report_drops is not disturbed either:  *)
(* a record is held, or a loop over producers_ has moved, only under the   *)
(* mutex.  The rings are single-consumer.                                  *)
(***************************************************************************)
OneConsumer ==
    /\ held # NoThread => mutex \in Drainers /\ Draining(mutex)
    /\ pos > 1 => mutex \in Drainers
    /\ mutex = "sink" => sinkPc \in {"drain", "sum"}
    /\ mutex = "main" => mainPc \in {"drain", "lastDrain"}

(***************************************************************************)
(* What the last drain relies on: nobody logs any more, a record is only   *)
(* ever in a registered ring, and the rings already visited stay empty.    *)
(* And what a thread may not have seen leaves its ring within its size.    *)
(***************************************************************************)
RingsBounded == \A t \in Threads : queued[t] + unseen[t] <= Capacity
RingsRegistered ==
    \A t \in Threads :
        queued[t] > 0 \/ callPc[t] \in {"push", "count"} => t \in Registered
SilentAtEnd == InDestructor => \A t \in Threads : callPc[t] = "idle"
EmptiedAtEnd ==
    /\ mainPc = "lastDrain" /\ mutex = "main" =>
           \A k \in 1..Len(producers) : k < pos => queued[producers[k]] = 0
    /\ mainPc = "gone" => held = NoThread /\ \A t \in Threads : queued[t] = 0

IInv == /\ TypeOK /\ Accounted /\ OneConsumer
        /\ RingsBounded /\ RingsRegistered /\ SilentAtEnd /\ EmptiedAtEnd

\* From some moment on, the registered threads are out of log().
Quiet == <>[](\A t \in Threads : callPc[t] \in {"idle", "register"})

(***************************************************************************)
(* StopReturns: if the threads fall silent, stop() and the destructor      *)
(* return: the sink ends its loop and its last drain.                      *)
(***************************************************************************)
StopReturns == Quiet => (mainPc \in {"join", "lastJoin"} ~> mainPc \in {"run", "gone"})

(***************************************************************************)
(* FirstCallReturns: if the threads already registered fall silent, a      *)
(* first call gets through the registration.                               *)
(***************************************************************************)
FirstCallReturns ==
    Quiet => \A t \in Threads : callPc[t] = "register" ~> callPc[t] # "register"

Total(f) == FoldSet(LAMBDA t, sum : Plus(f[t], sum), 0, Threads)

(***************************************************************************)
(* CatchesUp: if the threads fall silent while the sink runs, everything   *)
(* they logged gets written and every drop reported.                       *)
(***************************************************************************)
CatchesUp ==
    Quiet /\ <>[](sinkPc # "none" /\ ~stop)
        => <>[](/\ \A t \in Threads : queued[t] = 0
                /\ reported = Total(dropped))
=============================================================================
