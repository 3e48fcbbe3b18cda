----------------------------- MODULE Publisher -----------------------------
(***************************************************************************)
(* modules/telemetry: Publisher::Impl, the client library's network        *)
(* thread, and what the broker makes of it: the retained health message    *)
(* and the last will behind it.                                            *)
(*                                                                         *)
(* The library and the broker are modelled from how publisher.cpp uses     *)
(* them.  What reaches the broker is a prefix of what was sent: the        *)
(* connection may be lost at any time.  The counters of stats() are left   *)
(* out; nothing is decided on them.                                        *)
(***************************************************************************)
EXTENDS Naturals, Sequences

CONSTANT MaxWire   \* packets on their way to the broker

ASSUME PublisherAssumption == MaxWire \in Nat /\ MaxWire > 2

Callers == {"health", "event", "owner"}  \* the worker, other threads, stop()

VARIABLES
    client,   \* how far the owner is
    will,     \* the will is set
    net,      \* the network thread
    leaving,  \* mosquitto_disconnect was called: it does not reconnect
    caller,   \* where each caller is in publish()
    warned,   \* warned_
    warns,    \* warnings since the flag was armed
    wire,     \* packets on their way to the broker
    session,  \* the broker has a session of this client
    retained  \* what it retains on the health topic

callVars == <<caller, warned, warns>>
brokerVars == <<session, retained>>
vars == <<client, will, net, leaving, callVars, wire, brokerVars>>

Packets == {"CONNECT", "OK", "OFFLINE", "DISCONNECT"}
Linked == {"connecting", "up"}
Stopped == {"failed", "stopped", "crashed"}

TypeOK ==
    /\ client \in {"new", "created", "running", "offline", "disconnect", "join"} \cup Stopped
    /\ net \in {"none", "down", "ended"} \cup Linked
    /\ caller \in [Callers -> {"idle", "failed"}]
    /\ wire \in Seq(Packets) /\ Len(wire) <= MaxWire
    /\ session \in {"none", "open"}
    /\ retained \in {"nothing", "OK", "OFFLINE"}
    /\ {will, leaving, warned} \subseteq BOOLEAN
    /\ warns \in Nat

Init ==
    /\ client = "new" /\ will = FALSE /\ net = "none" /\ leaving = FALSE
    /\ caller = [c \in Callers |-> "idle"] /\ warned = FALSE /\ warns = 0
    /\ wire = <<>> /\ session = "none" /\ retained = "nothing"

-----------------------------------------------------------------------------
(***************************************************************************)
(* create, start and stop.                                                 *)
(***************************************************************************)
\* Mutated: the last will is forgotten.
ConstructWithoutWill ==
    /\ client = "new" /\ client' = "created"
    /\ UNCHANGED <<will, net, leaving, callVars, wire, brokerVars>>

Construct ==
    /\ client = "new" /\ client' = "created"
    /\ will' = TRUE
    /\ UNCHANGED <<net, leaving, callVars, wire, brokerVars>>

\* The connection is made in the background; only the thread may fail.
Start ==
    /\ client = "created"
    /\ \/ client' = "running" /\ net' = "down"
       \/ client' = "failed" /\ UNCHANGED net
    /\ UNCHANGED <<will, leaving, callVars, wire, brokerVars>>

\* The worker has been joined.
Stop ==
    /\ client = "running" /\ caller["health"] = "idle"
    /\ client' = "offline"
    /\ UNCHANGED <<will, net, leaving, callVars, wire, brokerVars>>

Room == Len(wire) < MaxWire
Failed(c) == caller' = [caller EXCEPT ![c] = "failed"]

\* Mutated: the will is relied upon.
PublishOfflineNot ==
    /\ client = "offline"
    /\ client' = "disconnect"
    /\ UNCHANGED <<will, net, leaving, callVars, wire, brokerVars>>

PublishOffline ==
    /\ client = "offline"
    /\ client' = "disconnect"
    /\ IF net \in Linked
         THEN Room /\ wire' = Append(wire, "OFFLINE") /\ UNCHANGED caller
         ELSE Failed("owner") /\ UNCHANGED wire
    /\ UNCHANGED <<will, net, leaving, warned, warns, brokerVars>>

Disconnect ==
    /\ client = "disconnect" /\ caller["owner"] = "idle"
    /\ client' = "join" /\ leaving' = TRUE
    /\ IF net \in Linked THEN Room /\ wire' = Append(wire, "DISCONNECT") ELSE UNCHANGED wire
    /\ UNCHANGED <<will, net, callVars, brokerVars>>

LoopStop ==
    /\ client = "join" /\ net = "ended"
    /\ client' = "stopped"
    /\ UNCHANGED <<will, net, leaving, callVars, wire, brokerVars>>

-----------------------------------------------------------------------------
(***************************************************************************)
(* publish, and the warning when it fails.                                 *)
(***************************************************************************)
\* Mutated: the health message is not retained.
PublishHealthUnretained ==
    /\ client = "running" /\ caller["health"] = "idle"
    /\ IF net \in Linked THEN UNCHANGED caller ELSE Failed("health")
    /\ UNCHANGED <<client, will, net, leaving, warned, warns, wire, brokerVars>>

PublishHealth ==
    /\ client = "running" /\ caller["health"] = "idle"
    /\ IF net \in Linked
         THEN Room /\ wire' = Append(wire, "OK") /\ UNCHANGED caller
         ELSE Failed("health") /\ UNCHANGED wire
    /\ UNCHANGED <<client, will, net, leaving, warned, warns, brokerVars>>

\* An event, or detections, that cannot be sent.  One that can is not traced.
EventFails ==
    /\ client \in {"running", "offline", "disconnect", "join"}
    /\ caller["event"] = "idle" /\ net \notin Linked
    /\ Failed("event")
    /\ UNCHANGED <<client, will, net, leaving, warned, warns, wire, brokerVars>>

\* Mutated: the flag is tested and not set.
WarnAgain(c) ==
    /\ caller[c] = "failed"
    /\ caller' = [caller EXCEPT ![c] = "idle"]
    /\ warns' = IF warned THEN warns ELSE warns + 1
    /\ UNCHANGED <<client, will, net, leaving, warned, wire, brokerVars>>

Warn(c) ==
    /\ caller[c] = "failed"
    /\ caller' = [caller EXCEPT ![c] = "idle"]
    /\ warns' = IF warned THEN warns ELSE warns + 1
    /\ warned' = TRUE
    /\ UNCHANGED <<client, will, net, leaving, wire, brokerVars>>

-----------------------------------------------------------------------------
(***************************************************************************)
(* The library's thread and the connection.                                *)
(***************************************************************************)
Connect ==
    /\ net = "down" /\ ~leaving /\ Room
    /\ net' = "connecting" /\ wire' = Append(wire, "CONNECT")
    /\ UNCHANGED <<client, will, leaving, callVars, brokerVars>>

\* on_connect: the warning is armed again.
OnConnect ==
    /\ net = "connecting" /\ session = "open"
    /\ \A i \in DOMAIN wire : wire[i] # "CONNECT"
    /\ net' = "up"
    /\ warned' = FALSE /\ warns' = 0
    /\ UNCHANGED <<client, will, leaving, caller, wire, brokerVars>>

Prefixes(s) == {SubSeq(s, 1, n) : n \in 0..Len(s)}

\* What has not arrived yet may be lost with the connection, even after its
\* end.
LinkLost ==
    /\ net \in Linked \/ wire # <<>>
    /\ wire' \in Prefixes(wire)
    /\ net' = IF net \in Linked THEN "down" ELSE net
    /\ UNCHANGED <<client, will, leaving, callVars, brokerVars>>

NetEnds ==
    /\ leaving /\ net \in Linked \cup {"down"}
    /\ net' = "ended"
    /\ UNCHANGED <<client, will, leaving, callVars, wire, brokerVars>>

\* The unit loses its power.
Crash ==
    /\ client \notin {"new", "created"} \cup Stopped
    /\ client' = "crashed" /\ net' = "ended"
    /\ wire' \in Prefixes(wire)
    /\ caller' = [c \in Callers |-> "idle"]
    /\ UNCHANGED <<will, leaving, warned, warns, brokerVars>>

-----------------------------------------------------------------------------
(***************************************************************************)
(* The broker.                                                             *)
(***************************************************************************)
AfterWill == IF session = "open" /\ will THEN "OFFLINE" ELSE retained

\* A second CONNECT of the same client ends the session of the first.
Receive ==
    /\ wire # <<>>
    /\ wire' = Tail(wire)
    /\ CASE Head(wire) = "CONNECT" ->
              session' = "open" /\ retained' = AfterWill
         [] Head(wire) = "DISCONNECT" ->
              session' = "none" /\ UNCHANGED retained
         [] OTHER ->
              /\ retained' = IF session = "open" THEN Head(wire) ELSE retained
              /\ UNCHANGED session
    /\ UNCHANGED <<client, will, net, leaving, callVars>>

\* The broker hears nothing of the client any more.
KeepaliveExpires ==
    /\ session = "open"
    /\ IF wire = <<>> THEN net \notin Linked ELSE Head(wire) = "CONNECT"
    /\ session' = "none" /\ retained' = AfterWill
    /\ UNCHANGED <<client, will, net, leaving, callVars, wire>>

-----------------------------------------------------------------------------
Owner == Construct \/ Start \/ PublishOffline \/ Disconnect \/ LoopStop
Network == Connect \/ OnConnect \/ NetEnds

Next ==
    \/ Owner \/ Stop \/ PublishHealth \/ EventFails \/ \E c \in Callers : Warn(c)
    \/ Network \/ LinkLost \/ Crash
    \/ Receive \/ KeepaliveExpires
    \/ client \in Stopped /\ UNCHANGED vars

Spec == Init /\ [][Next]_vars

\* The threads of the unit run as long as it does, and the broker does.
FairSpec ==
    /\ Spec
    /\ WF_vars(Owner) /\ WF_vars(Network) /\ WF_vars(PublishHealth)
    /\ WF_vars(\E c \in Callers : Warn(c))
    /\ WF_vars(Receive) /\ WF_vars(KeepaliveExpires)

-----------------------------------------------------------------------------
(***************************************************************************)
(* BackedOK: an OK is never retained without a session behind it, whose    *)
(* will can take it back: when a clean end has made the broker forget the  *)
(* will, OFFLINE has arrived before it, however the connection came and    *)
(* went in between (publisher.cpp:71-79,104-107).                          *)
(***************************************************************************)
BackedOK == retained = "OK" => session = "open"

(***************************************************************************)
(* WarnOnce: between two connections at most one warning, from whichever   *)
(* of the failing threads comes first (publisher.cpp:123-129).             *)
(***************************************************************************)
WarnOnce == warns <= 1

(***************************************************************************)
(* GoneIsSeen: a unit that has stopped, or lost its power, is not shown as *)
(* OK for ever (publisher.cpp:71-73,104-106).                              *)
(***************************************************************************)
GoneIsSeen == client \in {"stopped", "crashed"} ~> [](retained # "OK")

(***************************************************************************)
(* AliveIsSeen: a unit that runs and stays connected is shown as OK: no    *)
(* will of an earlier connection stands for ever.                          *)
(***************************************************************************)
AliveIsSeen == <>[](client = "running" /\ net = "up") => <>[](retained = "OK")

-----------------------------------------------------------------------------
(***************************************************************************)
(* The inductive invariant: why a clean end leaves no OK behind.           *)
(***************************************************************************)
\* A will stands behind every session, and nothing is sent before it is set.
WillFirst ==
    IF client = "new" THEN net = "none" /\ session = "none" /\ wire = <<>> ELSE will

\* The client sends nothing behind its DISCONNECT.
DisconnectLast ==
    \A i \in DOMAIN wire : wire[i] = "DISCONNECT" =>
        i = Len(wire) /\ leaving /\ client \in {"join"} \cup Stopped

\* Whatever OK is retained, or on its way, has behind it what takes it back:
\* OFFLINE, or the CONNECT that makes the broker publish the will.
TakenBack ==
    LET Back == {"OFFLINE", "CONNECT"}
    IN  /\ \A i \in DOMAIN wire : wire[i] = "OK" => \E j \in DOMAIN wire : j > i /\ wire[j] \in Back
        /\ retained = "OK" => \E j \in DOMAIN wire : wire[j] \in Back

\* So it is when a client that has said OFFLINE still has its connection, and
\* when its DISCONNECT is on its way.
OfflineFirst ==
    (\/ client \in {"disconnect", "join"} /\ net \in Linked
     \/ \E i \in DOMAIN wire : wire[i] = "DISCONNECT") => TakenBack

\* The flag says whether there has been a warning.
WarnedOf == IF warned THEN warns <= 1 ELSE warns = 0

IInv == TypeOK /\ WillFirst /\ DisconnectLast /\ OfflineFirst /\ BackedOK /\ WarnedOf
=============================================================================
