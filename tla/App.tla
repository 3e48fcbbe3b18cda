-------------------------------- MODULE App --------------------------------
(***************************************************************************)
(* framework/app: the order in which components come up and go down, and   *)
(* the stop request that may arrive at any moment; with the frame main()   *)
(* puts around it (main.cpp:587-626).                                      *)
(*                                                                         *)
(* Components are numbered in the order of App::add.  What a component     *)
(* does inside init(), start() and stop() is not seen here: each call is   *)
(* one step, with the outcome it returns.                                  *)
(***************************************************************************)
EXTENDS Naturals

CONSTANTS
    N,             \* how many components were added
    KickModulus    \* 2^64: kicks_ wraps

ASSUME AppAssumption == N \in Nat /\ KickModulus \in Nat /\ KickModulus >= 2

VARIABLES
    pc,             \* where the main thread is
    at,             \* the component App::start is at
    count,          \* the loop variable of stop_through
    started,        \* started_
    comp,           \* what each component holds
    error,          \* whose status start() returned; 0: it returned ok
    stopRequested,  \* stop_requested_
    kicks,          \* kicks_
    handler         \* the disposition of SIGTERM and SIGINT

vars == <<pc, at, count, started, comp, error, stopRequested, kicks, handler>>

Components == 1..N
Live == {"ready", "up"}   \* init() returned ok, stop() has not been called
Stopping == {"rollback", "stop", "dtor"}

TypeOK ==
    /\ pc \in {"hook", "init", "start", "check", "wait", "unhook", "destroy", "exited"}
                \cup Stopping
    /\ at \in 1..(N + 1)
    /\ count \in 0..N
    /\ started \in 0..N
    /\ comp \in [Components -> {"off", "down", "gone"} \cup Live]
    /\ error \in 0..N
    /\ stopRequested \in BOOLEAN
    /\ kicks \in 0..(KickModulus - 1)
    /\ handler \in {"inherited", "ours", "default"}

Init ==
    /\ pc = "hook" /\ at = 1 /\ count = 0 /\ started = 0
    /\ comp = [i \in Components |-> "off"]
    /\ error = 0 /\ stopRequested = FALSE /\ kicks = 0
    /\ handler = "inherited"

signalVars == <<stopRequested, handler>>

-----------------------------------------------------------------------------
(***************************************************************************)
(* SignalStop, and whoever asks for the end: the handler of SIGTERM and    *)
(* SIGINT, or a thread that calls request_stop().                          *)
(***************************************************************************)
Hook ==
    /\ pc = "hook"
    /\ handler' = "ours"
    /\ pc' = "init"
    /\ UNCHANGED <<at, count, started, comp, error, stopRequested, kicks>>

RequestStop ==
    /\ handler = "ours" /\ ~stopRequested
    /\ stopRequested' = TRUE
    /\ UNCHANGED <<pc, at, count, started, comp, error, kicks, handler>>

\* SIG_DFL, whatever was there before.
Unhook ==
    /\ pc = "unhook"
    /\ handler' = "default"
    /\ pc' = "destroy"
    /\ UNCHANGED <<at, count, started, comp, error, stopRequested, kicks>>

-----------------------------------------------------------------------------
(***************************************************************************)
(* App::start.                                                             *)
(***************************************************************************)
InitOk ==
    /\ pc = "init" /\ at <= N
    /\ comp' = [comp EXCEPT ![at] = "ready"]
    /\ started' = at
    /\ pc' = "start"
    /\ UNCHANGED <<at, count, error, kicks, signalVars>>

\* Mutated forms, which TLC must refute, stand before what they mutate.
\* Here: the component whose init() failed is rolled back too.
InitFailsStopsIt ==
    /\ pc = "init" /\ at <= N
    /\ error' = at
    /\ count' = at
    /\ pc' = "rollback"
    /\ UNCHANGED <<at, started, comp, kicks, signalVars>>

\* init() of the component at hand failed: it is not among those rolled back.
InitFails ==
    /\ pc = "init" /\ at <= N
    /\ error' = at
    /\ count' = at - 1
    /\ pc' = "rollback"
    /\ UNCHANGED <<at, started, comp, kicks, signalVars>>

StartOk ==
    /\ pc = "start"
    /\ comp' = [comp EXCEPT ![at] = "up"]
    /\ at' = at + 1
    /\ pc' = "init"
    /\ UNCHANGED <<count, started, error, kicks, signalVars>>

\* Mutated: the component whose start() failed is not rolled back.
StartFailsLeavesIt ==
    /\ pc = "start"
    /\ error' = at
    /\ count' = at - 1
    /\ pc' = "rollback"
    /\ UNCHANGED <<at, started, comp, kicks, signalVars>>

StartFails ==
    /\ pc = "start"
    /\ error' = at
    /\ count' = started
    /\ pc' = "rollback"
    /\ UNCHANGED <<at, started, comp, kicks, signalVars>>

AllUp ==
    /\ pc = "init" /\ at > N
    /\ pc' = "check"
    /\ UNCHANGED <<at, count, started, comp, error, kicks, signalVars>>

-----------------------------------------------------------------------------
(***************************************************************************)
(* App::wait_for_stop: the flag is polled between timed waits.             *)
(***************************************************************************)
WaitCheck ==
    /\ pc = "check"
    /\ IF stopRequested
         THEN /\ pc' = "stop"
              /\ count' = started
         ELSE /\ pc' = "wait"
              /\ UNCHANGED count
    /\ UNCHANGED <<at, started, comp, error, kicks, signalVars>>

\* Mutated: the watchdog is not kicked.
WaitEndsUnkicked ==
    /\ pc = "wait"
    /\ IF stopRequested
         THEN pc' = "stop" /\ count' = started
         ELSE pc' = "check" /\ UNCHANGED count
    /\ UNCHANGED <<at, started, comp, error, kicks, signalVars>>

WaitEnds ==
    /\ pc = "wait"
    /\ IF stopRequested
         THEN /\ pc' = "stop"
              /\ count' = started
              /\ UNCHANGED kicks
         ELSE /\ pc' = "check"
              /\ kicks' = (kicks + 1) % KickModulus
              /\ UNCHANGED count
    /\ UNCHANGED <<at, started, comp, error, signalVars>>

-----------------------------------------------------------------------------
(***************************************************************************)
(* stop_through, called by a failing start(), by stop() and, in the end,   *)
(* by the destructor: ~App runs after the destructors of the components,   *)
(* which main declares after the App.                                      *)
(***************************************************************************)
\* Mutated: components stop in the order they started.
StopOneForward ==
    /\ pc \in Stopping /\ count > 0
    /\ comp' = [comp EXCEPT ![started + 1 - count] = "down"]
    /\ count' = count - 1
    /\ UNCHANGED <<pc, at, started, error, kicks, signalVars>>

StopOne ==
    /\ pc \in Stopping /\ count > 0
    /\ comp' = [comp EXCEPT ![count] = "down"]
    /\ count' = count - 1
    /\ UNCHANGED <<pc, at, started, error, kicks, signalVars>>

\* Mutated: started_ is not reset.
StopDoneKeepsCount ==
    /\ pc \in Stopping /\ count = 0
    /\ pc' = IF pc = "dtor" THEN "exited" ELSE "unhook"
    /\ UNCHANGED <<at, count, started, comp, error, kicks, signalVars>>

StopDone ==
    /\ pc \in Stopping /\ count = 0
    /\ started' = 0
    /\ pc' = IF pc = "dtor" THEN "exited" ELSE "unhook"
    /\ UNCHANGED <<at, count, comp, error, kicks, signalVars>>

Destroy ==
    /\ pc = "destroy"
    /\ comp' = [i \in Components |-> "gone"]
    /\ count' = started
    /\ pc' = "dtor"
    /\ UNCHANGED <<at, started, error, kicks, signalVars>>

\* main has returned: 0 if error = 0, else 1.
Exited == pc = "exited" /\ UNCHANGED vars

MainStep ==
    \/ Hook \/ InitOk \/ InitFails \/ StartOk \/ StartFails \/ AllUp
    \/ WaitCheck \/ WaitEnds \/ StopOne \/ StopDone \/ Unhook \/ Destroy

Next == MainStep \/ RequestStop \/ Exited

Spec == Init /\ [][Next]_vars

-----------------------------------------------------------------------------
(***************************************************************************)
(* DependencyOrder: a component holds its resources only while every       *)
(* component added before it is up: while starting, while rolling back     *)
(* after any failure, and while stopping (app.hpp:24-25, SRS-LC-01).       *)
(***************************************************************************)
DependencyOrder ==
    \A i \in Components : comp[i] \in Live => \A j \in 1..(i - 1) : comp[j] = "up"

(***************************************************************************)
(* StopsOnlyLive: stop() is called on a component only if its init() has   *)
(* returned ok and stop() has not been called since: never on the one      *)
(* whose init() failed, never twice by start()'s rollback and ~App, and    *)
(* never on one that main has already destroyed (app.cpp:20,56-62).        *)
(***************************************************************************)
StopsOnlyLive == pc \in Stopping /\ count > 0 => comp[count] \in Live

(***************************************************************************)
(* NoneLeftUp: when main is about to destroy the components, whichever way *)
(* it got there, each one that was initialised has been stopped, and after *)
(* a failure those behind the failing one were never touched.              *)
(***************************************************************************)
NoneLeftUp ==
    pc \in {"unhook", "destroy"} =>
        \A i \in Components : /\ comp[i] \notin Live
                              /\ error # 0 /\ i > error => comp[i] = "off"
                              /\ error = 0 => comp[i] = "down"

(***************************************************************************)
(* WatchdogKicked: while main waits and nobody asks for a stop, the        *)
(* watchdog is kicked again and again (SRS-LC-04).                         *)
(***************************************************************************)
WatchdogKicked == <>[](pc \in {"check", "wait"}) => []<><<WaitEnds>>_kicks

-----------------------------------------------------------------------------
(***************************************************************************)
(* The inductive invariant: what the cursor, the count and the position in *)
(* main say about every component.                                         *)
(***************************************************************************)
UpTo(n) == \A i \in Components : IF i <= n THEN comp[i] = "up" ELSE comp[i] = "off"

Shape ==
    /\ pc = "hook" => at = 1 /\ started = 0
    /\ pc \in {"hook", "init"} => started = at - 1 /\ UpTo(at - 1) /\ error = 0
    /\ pc = "start" =>
         /\ at <= N /\ started = at /\ error = 0
         /\ \A i \in Components :
              comp[i] = IF i < at THEN "up" ELSE IF i = at THEN "ready" ELSE "off"
    /\ pc \in {"check", "wait"} => started = N /\ UpTo(N) /\ error = 0
    /\ pc \in {"rollback", "stop"} =>
         /\ pc = "stop" <=> error = 0
         /\ \A i \in Components :
              /\ i < count => comp[i] = "up"
              /\ i = count => comp[i] \in Live
              /\ i > count => comp[i] \in {"down", "off"}
              /\ error # 0 /\ i > error => comp[i] = "off"
              /\ error = 0 /\ i > count => comp[i] = "down"
         /\ error # 0 => count <= error
    /\ pc \in {"unhook", "destroy", "dtor", "exited"} => started = 0
    /\ pc = "dtor" => count = 0
    /\ pc \in {"dtor", "exited"} => \A i \in Components : comp[i] = "gone"

IInv == TypeOK /\ Shape /\ NoneLeftUp
=============================================================================
