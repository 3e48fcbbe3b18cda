-------------------------- MODULE PublisherProofs --------------------------
(***************************************************************************)
(* For any number of packets under way, and connections that come and go   *)
(* at any moment: what the broker retains of a unit has a session behind   *)
(* it, and the unit warns once.                                            *)
(***************************************************************************)
EXTENDS Publisher, SequenceTheorems, TLAPS

-----------------------------------------------------------------------------
(***************************************************************************)
(* What sending, losing and receiving make of the wire.                    *)
(***************************************************************************)
LEMMA Sent ==
    ASSUME NEW s \in Seq(Packets), NEW p \in Packets, NEW t, t = Append(s, p)
    PROVE  /\ t \in Seq(Packets) /\ Len(t) = Len(s) + 1 /\ Len(t) \in Nat
           /\ DOMAIN t = 1..Len(t) /\ DOMAIN s = 1..Len(s)
           /\ \A i \in 1..Len(s) : t[i] = s[i]
           /\ t[Len(t)] = p
OBVIOUS

LEMMA Lost ==
    ASSUME NEW s \in Seq(Packets), NEW t \in Prefixes(s)
    PROVE  /\ t \in Seq(Packets) /\ Len(t) <= Len(s)
           /\ DOMAIN t = 1..Len(t) /\ DOMAIN s = 1..Len(s)
           /\ \A i \in 1..Len(t) : t[i] = s[i]
<1>1. PICK n \in 0..Len(s) : t = SubSeq(s, 1, n)
  BY DEF Prefixes
<1>2. t \in Seq(Packets) /\ Len(t) = n /\ \A i \in 1..n : t[i] = s[i]
  BY <1>1
<1>3. QED
  BY <1>1, <1>2

LEMMA Arrived ==
    ASSUME NEW s \in Seq(Packets), s # <<>>, NEW t, t = Tail(s)
    PROVE  /\ t \in Seq(Packets) /\ Len(t) = Len(s) - 1 /\ Len(t) \in Nat
           /\ DOMAIN t = 1..Len(t) /\ DOMAIN s = 1..Len(s)
           /\ \A i \in 1..Len(t) : t[i] = s[i + 1]
           /\ Head(s) = s[1] /\ Head(s) \in Packets
<1>1. t \in Seq(Packets) /\ Len(t) = Len(s) - 1 /\ Len(t) \in Nat
  OBVIOUS
<1>2. DOMAIN t = 1..Len(t) /\ DOMAIN s = 1..Len(s)
  BY <1>1
<1>3. \A i \in 1..Len(t) : t[i] = s[i + 1]
  BY <1>1
<1>4. Head(s) = s[1] /\ Head(s) \in Packets
  OBVIOUS
<1>5. QED
  BY <1>1, <1>2, <1>3, <1>4

-----------------------------------------------------------------------------
LEMMA InitInvariant == Init => IInv
<1> SUFFICES ASSUME Init PROVE IInv
  OBVIOUS
<1>1. wire = <<>> /\ wire \in Seq(Packets) /\ Len(wire) = 0 /\ DOMAIN wire = {}
  BY DEF Init
<1>2. TypeOK
  <2>1. caller \in [Callers -> {"idle", "failed"}]
    BY DEF Init
  <2>2. {will, leaving, warned} \subseteq BOOLEAN
    BY DEF Init
  <2>3. QED
    BY <1>1, <2>1, <2>2, PublisherAssumption DEF Init, TypeOK
<1>3. WillFirst /\ DisconnectLast /\ OfflineFirst
  BY <1>1 DEF Init, WillFirst, DisconnectLast, OfflineFirst
<1>4. BackedOK /\ WarnedOf
  BY DEF Init, BackedOK, WarnedOf
<1>5. QED
  BY <1>2, <1>3, <1>4 DEF IInv

\* What an action that sends does to the wire, in a room of MaxWire.
LEMMA SendTypes ==
    ASSUME TypeOK, Room, NEW p \in Packets, wire' = Append(wire, p)
    PROVE  wire' \in Seq(Packets) /\ Len(wire') <= MaxWire
<1>1. wire' \in Seq(Packets) /\ Len(wire') = Len(wire) + 1 /\ Len(wire) \in Nat
  BY Sent DEF TypeOK
<1>2. QED
  BY <1>1, PublisherAssumption DEF Room

\* Every variable keeps its type.
LEMMA TypeKept == ASSUME TypeOK, WarnedOf, [Next]_vars PROVE TypeOK'
<1> USE DEF TypeOK, callVars, brokerVars, Linked, Stopped
<1>1. CASE Construct \/ Start \/ Stop \/ LoopStop
  BY <1>1 DEF Construct, Start, Stop, LoopStop
<1>2. CASE PublishOffline \/ Disconnect \/ PublishHealth \/ Connect
  <2>1. wire' \in Seq(Packets) /\ Len(wire') <= MaxWire
    <3>1. wire' = wire \/ (Room /\ \E p \in Packets : wire' = Append(wire, p))
      BY <1>2 DEF PublishOffline, Disconnect, PublishHealth, Connect, Packets
    <3>2. QED
      BY <3>1, SendTypes
  <2>2. caller' \in [Callers -> {"idle", "failed"}]
    BY <1>2 DEF PublishOffline, Disconnect, PublishHealth, Connect, Failed
  <2>3. client' \in {"running", "disconnect", "join", client} /\ net' \in {net, "connecting"}
    BY <1>2 DEF PublishOffline, Disconnect, PublishHealth, Connect
  <2>4. leaving' \in BOOLEAN /\ UNCHANGED <<will, warned, warns, brokerVars>>
    BY <1>2 DEF PublishOffline, Disconnect, PublishHealth, Connect
  <2>5. QED
    BY <2>1, <2>2, <2>3, <2>4
<1>3. CASE EventFails
  BY <1>3 DEF EventFails, Failed
<1>4. CASE \E c \in Callers : Warn(c)
  BY <1>4 DEF Warn, WarnedOf
<1>5. CASE OnConnect
  BY <1>5 DEF OnConnect
<1>6. CASE NetEnds
  BY <1>6 DEF NetEnds
<1>7. CASE LinkLost
  <2>1. wire' \in Seq(Packets) /\ Len(wire') <= MaxWire
    BY <1>7, Lost, PublisherAssumption DEF LinkLost
  <2>2. QED
    BY <1>7, <2>1 DEF LinkLost
<1>8. CASE Crash
  <2>1. wire' \in Seq(Packets) /\ Len(wire') <= MaxWire
    BY <1>8, Lost, PublisherAssumption DEF Crash
  <2>2. QED
    BY <1>8, <2>1 DEF Crash
<1>9. CASE Receive
  <2>1. wire' \in Seq(Packets) /\ Len(wire') <= MaxWire /\ Head(wire) \in Packets
    BY <1>9, Arrived, PublisherAssumption DEF Receive
  <2>2. session' \in {"none", "open"}
    BY <1>9 DEF Receive
  <2>3. retained' \in {"nothing", "OK", "OFFLINE"}
    BY <1>9, <2>1 DEF Receive, AfterWill, Packets
  <2>4. QED
    BY <1>9, <2>1, <2>2, <2>3 DEF Receive
<1>10. CASE KeepaliveExpires
  BY <1>10 DEF KeepaliveExpires, AfterWill
<1>11. CASE UNCHANGED vars
  BY <1>11 DEF vars
<1>12. QED
  BY <1>1, <1>2, <1>3, <1>4, <1>5, <1>6, <1>7, <1>8, <1>9, <1>10, <1>11 DEF Next, Owner, Network

\* There is a will before there is anything it could be the will of.
LEMMA WillKept == ASSUME WillFirst, [Next]_vars PROVE WillFirst'
<1>1. CASE Construct
  BY <1>1 DEF Construct, WillFirst
<1>2. CASE client # "new"
  <2>1. ~Construct
    BY <1>2 DEF Construct
  <2>2. UNCHANGED will
    BY <2>1 DEF Next, Owner, Network, Start, Stop, PublishOffline, Disconnect, LoopStop,
                PublishHealth, EventFails, Warn, Connect, OnConnect, NetEnds, LinkLost, Crash,
                Receive, KeepaliveExpires, vars
  <2>3. client' # "new"
    <3>1. CASE Owner \/ Stop \/ Crash
      BY <3>1, <2>1 DEF Owner, Start, PublishOffline, Disconnect, LoopStop, Stop, Crash
    <3>2. CASE ~(Owner \/ Stop \/ Crash)
      BY <3>2, <1>2 DEF Next, Network, PublishHealth, EventFails, Warn, Connect, OnConnect,
                        NetEnds, LinkLost, Receive, KeepaliveExpires, vars
    <3>3. QED
      BY <3>1, <3>2
  <2>4. QED
    BY <1>2, <2>2, <2>3 DEF WillFirst
<1>3. CASE client = "new" /\ ~Construct
  <2>1. net = "none" /\ session = "none" /\ wire = <<>>
    BY <1>3 DEF WillFirst
  <2>2. UNCHANGED <<client, net, session, wire>>
    BY <1>3, <2>1
       DEF Next, Owner, Network, Start, Stop, PublishOffline, Disconnect, LoopStop, PublishHealth,
           EventFails, Warn, Connect, OnConnect, NetEnds, LinkLost, Crash, Receive,
           KeepaliveExpires, vars, Linked, brokerVars
  <2>3. QED
    BY <1>3, <2>1, <2>2 DEF WillFirst
<1>4. QED
  BY <1>1, <1>2, <1>3

\* An armed flag means no warning yet, a set one means one.
LEMMA WarnedKept == ASSUME TypeOK, WarnedOf, [Next]_vars PROVE WarnedOf'
<1>1. CASE \E c \in Callers : Warn(c)
  BY <1>1 DEF Warn, WarnedOf, TypeOK
<1>2. CASE OnConnect
  BY <1>2 DEF OnConnect, WarnedOf
<1>3. CASE ~OnConnect /\ ~\E c \in Callers : Warn(c)
  <2>1. UNCHANGED <<warned, warns>>
    BY <1>3 DEF Next, Owner, Network, Construct, Start, Stop, PublishOffline, Disconnect, LoopStop,
                PublishHealth, EventFails, Connect, NetEnds, LinkLost, Crash, Receive,
                KeepaliveExpires, vars, callVars
  <2>2. QED
    BY <2>1 DEF WarnedOf
<1>4. QED
  BY <1>1, <1>2, <1>3

-----------------------------------------------------------------------------
\* The steps that touch neither the wire nor what the broker has.
Aside ==
    \/ Construct \/ Start \/ Stop \/ LoopStop \/ EventFails \/ (\E c \in Callers : Warn(c))
    \/ OnConnect \/ NetEnds \/ UNCHANGED vars

LEMMA AsideKeeps == ASSUME Aside PROVE UNCHANGED <<wire, session, retained>>
BY DEF Aside, Construct, Start, Stop, LoopStop, EventFails, Warn, OnConnect, NetEnds, vars, brokerVars

LEMMA Cases ==
    ASSUME [Next]_vars
    PROVE  \/ Aside \/ PublishOffline \/ Disconnect \/ PublishHealth \/ Connect
           \/ LinkLost \/ Crash \/ Receive \/ KeepaliveExpires
BY DEF Aside, Next, Owner, Network

\* Nothing is sent behind a DISCONNECT.
LEMMA DisconnectKept == ASSUME TypeOK, DisconnectLast, [Next]_vars PROVE DisconnectLast'
<1> SUFFICES ASSUME NEW i \in DOMAIN wire', wire'[i] = "DISCONNECT"
             PROVE  i = Len(wire') /\ leaving' /\ client' \in {"join"} \cup Stopped
  BY DEF DisconnectLast
<1>1. CASE Aside
  <2>1. i = Len(wire) /\ leaving /\ client \in {"join"} \cup Stopped
    BY <1>1, AsideKeeps DEF DisconnectLast
  <2>2. leaving' = leaving /\ client' \in {"stopped", client}
    BY <1>1, <2>1 DEF Aside, Construct, Start, Stop, LoopStop, EventFails, Warn, OnConnect, NetEnds,
                      vars, Stopped
  <2>3. QED
    BY <1>1, <2>1, <2>2, AsideKeeps DEF Stopped
<1>3. ASSUME NEW p \in Packets \ {"DISCONNECT"}, wire' = Append(wire, p)
      PROVE  leaving /\ client \in {"join"} \cup Stopped
  <2>1. i \in DOMAIN wire /\ wire[i] = "DISCONNECT"
    BY <1>3, Sent DEF TypeOK
  <2>2. QED
    BY <2>1 DEF DisconnectLast
<1>4. CASE PublishOffline
  <2>1. CASE UNCHANGED wire
    <3>1. i = Len(wire) /\ client \in {"join"} \cup Stopped
      BY <2>1 DEF DisconnectLast
    <3>2. QED
      BY <1>4, <3>1 DEF PublishOffline, Stopped
  <2>2. CASE wire' = Append(wire, "OFFLINE")
    BY <1>3, <1>4, <2>2 DEF PublishOffline, Stopped, Packets
  <2>3. QED
    BY <1>4, <2>1, <2>2 DEF PublishOffline
<1>5. CASE Disconnect
  <2>1. leaving' /\ client' = "join"
    BY <1>5 DEF Disconnect
  <2>2. CASE UNCHANGED wire
    BY <2>1, <2>2 DEF DisconnectLast
  <2>3. CASE wire' = Append(wire, "DISCONNECT")
    <3>1. i \in DOMAIN wire => wire[i] = "DISCONNECT"
      BY <2>3, Sent DEF TypeOK, Packets
    <3>2. i \notin DOMAIN wire
      BY <1>5, <3>1 DEF Disconnect, DisconnectLast, Stopped
    <3>3. i = Len(wire')
      BY <2>3, <3>2, Sent DEF TypeOK, Packets
    <3>4. QED
      BY <2>1, <3>3
  <2>4. QED
    BY <1>5, <2>2, <2>3 DEF Disconnect
<1>6. CASE PublishHealth
  <2>1. client = "running" /\ client \notin {"join"} \cup Stopped
    BY <1>6 DEF PublishHealth, Stopped
  <2>2. CASE UNCHANGED wire
    BY <2>1, <2>2 DEF DisconnectLast
  <2>3. CASE wire' = Append(wire, "OK")
    BY <1>3, <2>1, <2>3 DEF Packets
  <2>4. QED
    BY <1>6, <2>2, <2>3 DEF PublishHealth
<1>7. CASE Connect
  BY <1>3, <1>7 DEF Connect, Packets
<1>8. CASE LinkLost \/ Crash
  <2>1. wire' \in Prefixes(wire) /\ UNCHANGED leaving
    BY <1>8 DEF LinkLost, Crash
  <2>2. i \in DOMAIN wire /\ wire[i] = "DISCONNECT" /\ i <= Len(wire') /\ Len(wire') <= Len(wire)
    BY <2>1, Lost DEF TypeOK
  <2>3. i = Len(wire) /\ leaving /\ client \in {"join"} \cup Stopped
    BY <2>2 DEF DisconnectLast
  <2>4. client' \in {client, "crashed"}
    BY <1>8 DEF LinkLost, Crash
  <2>5. i = Len(wire')
    BY <2>1, <2>2, <2>3, Lost DEF TypeOK
  <2>6. QED
    BY <2>1, <2>3, <2>4, <2>5 DEF Stopped
<1>9. CASE Receive
  <2>1. wire # <<>> /\ wire' = Tail(wire) /\ UNCHANGED <<leaving, client>>
    BY <1>9 DEF Receive
  <2>2. i \in 1..Len(wire') /\ Len(wire') = Len(wire) - 1 /\ wire[i + 1] = "DISCONNECT"
    BY <2>1, Arrived DEF TypeOK
  <2>3. i + 1 \in DOMAIN wire
    BY <2>1, <2>2, Arrived DEF TypeOK
  <2>4. i + 1 = Len(wire) /\ leaving /\ client \in {"join"} \cup Stopped
    BY <2>2, <2>3 DEF DisconnectLast
  <2>5. QED
    BY <2>1, <2>2, <2>4, Arrived DEF TypeOK
<1>10. CASE KeepaliveExpires
  BY <1>10 DEF KeepaliveExpires, DisconnectLast
<1>11. QED
  BY <1>1, <1>4, <1>5, <1>6, <1>7, <1>8, <1>9, <1>10, Cases

-----------------------------------------------------------------------------
(***************************************************************************)
(* What takes an OK back stays behind it.                                  *)
(***************************************************************************)
LEMMA BackSent ==
    ASSUME TypeOK, wire' = Append(wire, "OFFLINE") \/ wire' = Append(wire, "CONNECT")
    PROVE  TakenBack'
<1> DEFINE n == Len(wire')
<1>1. n \in Nat /\ DOMAIN wire' = 1..n /\ n \in 1..n /\ wire'[n] \in {"OFFLINE", "CONNECT"}
  BY Sent DEF TypeOK, Packets
<1> HIDE DEF n
<1>2. \A i \in DOMAIN wire' : wire'[i] = "OK" => n > i
  <2> SUFFICES ASSUME NEW i \in 1..n, wire'[i] = "OK" PROVE n > i
    BY <1>1
  <2>1. i # n
    BY <1>1
  <2>2. QED
    BY <1>1, <2>1
<1>3. QED
  BY <1>1, <1>2 DEF TakenBack, n

LEMMA DisconnectSent ==
    ASSUME TypeOK, TakenBack, wire' = Append(wire, "DISCONNECT"), retained' = retained
    PROVE  TakenBack'
<1>1. /\ DOMAIN wire = 1..Len(wire) /\ DOMAIN wire' = 1..(Len(wire) + 1) /\ Len(wire) \in Nat
      /\ \A i \in DOMAIN wire : i \in DOMAIN wire' /\ wire'[i] = wire[i]
      /\ wire'[Len(wire) + 1] = "DISCONNECT"
  BY Sent DEF TypeOK, Packets
<1>2. \A i \in DOMAIN wire' : wire'[i] = "OK" => i \in DOMAIN wire /\ wire[i] = "OK"
  BY <1>1
<1>3. QED
  BY <1>1, <1>2 DEF TakenBack

LEMMA BackArrived ==
    ASSUME TypeOK, WillFirst, BackedOK, TakenBack, Receive
    PROVE  TakenBack'
<1> DEFINE Back == {"OFFLINE", "CONNECT"}
<1>1. /\ Len(wire) \in Nat /\ DOMAIN wire = 1..Len(wire) /\ Len(wire') = Len(wire) - 1
      /\ DOMAIN wire' = 1..Len(wire') /\ Head(wire) = wire[1] /\ 1 \in DOMAIN wire
      /\ \A i \in DOMAIN wire' : wire'[i] = wire[i + 1]
  <2>1. wire # <<>> /\ wire' = Tail(wire)
    BY DEF Receive
  <2>2. QED
    BY <2>1, Arrived DEF TypeOK
\* What is behind a packet stays behind it.
<1>2. ASSUME NEW j \in DOMAIN wire, j > 1
      PROVE  j - 1 \in DOMAIN wire' /\ wire'[j - 1] = wire[j]
  BY <1>1, <1>2
<1>3. ASSUME NEW i \in DOMAIN wire', wire'[i] = "OK"
      PROVE  \E j \in DOMAIN wire' : j > i /\ wire'[j] \in Back
  <2>1. i + 1 \in DOMAIN wire /\ wire[i + 1] = "OK" /\ i >= 1
    BY <1>1, <1>3
  <2>2. PICK j \in DOMAIN wire : j > i + 1 /\ wire[j] \in Back
    BY <2>1 DEF TakenBack
  <2>3. j - 1 \in DOMAIN wire' /\ wire'[j - 1] = wire[j] /\ j - 1 > i
    BY <1>1, <1>2, <2>1, <2>2
  <2>4. QED
    BY <2>2, <2>3
<1>4. ASSUME retained' = "OK" PROVE \E j \in DOMAIN wire' : wire'[j] \in Back
  <2>1. CASE Head(wire) = "OK"
    <3>1. PICK j \in DOMAIN wire : j > 1 /\ wire[j] \in Back
      BY <1>1, <2>1 DEF TakenBack
    <3>2. QED
      BY <1>2, <3>1
  <2>2. CASE Head(wire) = "DISCONNECT"
    <3>1. retained = "OK"
      BY <1>4, <2>2 DEF Receive
    <3>2. PICK j \in DOMAIN wire : wire[j] \in Back
      BY <3>1 DEF TakenBack
    <3>3. j > 1
      BY <1>1, <2>2, <3>2
    <3>4. QED
      BY <1>2, <3>2, <3>3
  \* A CONNECT or an OFFLINE that meets a session leaves OFFLINE, and without
  \* a session there was no OK.
  <2>3. CASE Head(wire) = "CONNECT"
    <3>1. will
      BY <1>1 DEF WillFirst
    <3>2. retained' = IF session = "open" THEN "OFFLINE" ELSE retained
      BY <2>3, <3>1 DEF Receive, AfterWill
    <3>3. QED
      BY <1>4, <3>2 DEF BackedOK
  <2>4. CASE Head(wire) = "OFFLINE"
    <3>1. retained' = IF session = "open" THEN "OFFLINE" ELSE retained
      BY <2>4 DEF Receive
    <3>2. QED
      BY <1>4, <3>1 DEF BackedOK
  <2>5. Head(wire) \in Packets
    BY Arrived DEF TypeOK, Receive
  <2>6. QED
    BY <2>1, <2>2, <2>3, <2>4, <2>5 DEF Packets
<1>5. QED
  BY <1>3, <1>4 DEF TakenBack

\* A client that has said OFFLINE, or hung up, leaves no OK behind.
LEMMA OfflineKept ==
    ASSUME TypeOK, WillFirst, DisconnectLast, OfflineFirst, BackedOK, [Next]_vars
    PROVE  OfflineFirst'
<1> DEFINE HungUp == \E i \in DOMAIN wire : wire[i] = "DISCONNECT"
           Leaves == client \in {"disconnect", "join"} /\ net \in Linked
<1>1. CASE Aside
  <2>1. TakenBack' = TakenBack /\ HungUp' = HungUp
    BY <1>1, AsideKeeps DEF TakenBack
  <2>2. Leaves' => Leaves
    BY <1>1 DEF Aside, Construct, Start, Stop, LoopStop, EventFails, Warn, OnConnect, NetEnds, vars,
                Linked
  <2>3. QED
    BY <2>1, <2>2 DEF OfflineFirst
<1>2. CASE PublishOffline
  <2>1. CASE net \in Linked
    BY <1>2, <2>1, BackSent DEF PublishOffline, OfflineFirst
  <2>2. CASE net \notin Linked
    <3>1. UNCHANGED <<wire, retained, net>>
      BY <1>2, <2>2 DEF PublishOffline, brokerVars
    <3>2. TakenBack' = TakenBack /\ HungUp' = HungUp /\ ~Leaves'
      BY <2>2, <3>1 DEF TakenBack, Linked
    <3>3. QED
      BY <3>2 DEF OfflineFirst
  <2>3. QED
    BY <2>1, <2>2
<1>3. CASE Disconnect
  <2>1. UNCHANGED <<net, retained>> /\ client = "disconnect"
    BY <1>3 DEF Disconnect, brokerVars
  <2>2. CASE net \in Linked
    <3>1. TakenBack /\ wire' = Append(wire, "DISCONNECT")
      BY <1>3, <2>1, <2>2 DEF Disconnect, OfflineFirst
    <3>2. QED
      BY <2>1, <3>1, DisconnectSent DEF OfflineFirst
  <2>3. CASE net \notin Linked
    <3>1. UNCHANGED wire
      BY <1>3, <2>3 DEF Disconnect
    <3>2. TakenBack' = TakenBack /\ HungUp' = HungUp /\ ~Leaves'
      BY <2>1, <2>3, <3>1 DEF TakenBack, Linked
    <3>3. QED
      BY <3>2 DEF OfflineFirst
  <2>4. QED
    BY <2>2, <2>3
<1>4. CASE PublishHealth
  <2>1. client = "running" /\ client' = "running" /\ UNCHANGED retained
    BY <1>4 DEF PublishHealth, brokerVars
  <2>2. ~HungUp /\ ~Leaves'
    BY <2>1 DEF DisconnectLast, Stopped
  <2>3. ~HungUp'
    <3>1. wire' = wire \/ wire' = Append(wire, "OK")
      BY <1>4 DEF PublishHealth
    <3>2. CASE wire' = wire
      BY <2>2, <3>2
    <3>3. CASE wire' = Append(wire, "OK")
      BY <2>2, <3>3, Sent DEF TypeOK, Packets
    <3>4. QED
      BY <3>1, <3>2, <3>3
  <2>4. QED
    BY <2>2, <2>3 DEF OfflineFirst
<1>5. CASE Connect
  BY <1>5, BackSent DEF Connect, OfflineFirst
\* A loss takes the DISCONNECT before anything else.
<1>6. CASE LinkLost \/ Crash
  <2>1. wire' \in Prefixes(wire) /\ UNCHANGED retained
    BY <1>6 DEF LinkLost, Crash, brokerVars
  <2>2. ~Leaves'
    BY <1>6 DEF LinkLost, Crash, Linked
  <2>3. ASSUME HungUp' PROVE HungUp /\ UNCHANGED wire
    <3>1. PICK i \in DOMAIN wire' : wire'[i] = "DISCONNECT"
      BY <2>3
    <3>2. i \in DOMAIN wire /\ wire[i] = "DISCONNECT" /\ i \in 1..Len(wire')
      BY <2>1, <3>1, Lost DEF TypeOK
    <3>3. i = Len(wire)
      BY <3>2 DEF DisconnectLast
    <3>4. Len(wire') = Len(wire) /\ wire' \in Seq(Packets) /\ \A k \in 1..Len(wire) : wire'[k] = wire[k]
      BY <2>1, <3>2, <3>3, Lost DEF TypeOK
    <3>5. UNCHANGED wire
      BY <3>4, SeqEqual DEF TypeOK
    <3>6. QED
      BY <3>2, <3>5
  <2>4. ASSUME HungUp' PROVE TakenBack'
    BY <2>1, <2>3, <2>4 DEF OfflineFirst, TakenBack
  <2>5. QED
    BY <2>2, <2>4 DEF OfflineFirst
<1>7. CASE Receive
  <2>1. Leaves' = Leaves
    BY <1>7 DEF Receive
  <2>2. HungUp' => HungUp
    <3>1. wire # <<>> /\ wire' = Tail(wire)
      BY <1>7 DEF Receive
    <3>2. \A i \in DOMAIN wire' : i + 1 \in DOMAIN wire /\ wire'[i] = wire[i + 1]
      BY <3>1, Arrived DEF TypeOK
    <3>3. QED
      BY <3>2
  <2>3. QED
    BY <1>7, <2>1, <2>2, BackArrived DEF OfflineFirst
<1>8. CASE KeepaliveExpires
  <2>1. UNCHANGED <<wire, client, net>>
    BY <1>8 DEF KeepaliveExpires, callVars
  <2>2. retained' = "OFFLINE"
    <3>1. will
      BY <1>8 DEF KeepaliveExpires, WillFirst
    <3>2. QED
      BY <1>8, <3>1 DEF KeepaliveExpires, AfterWill
  <2>3. QED
    BY <2>1, <2>2 DEF OfflineFirst, TakenBack
<1>9. QED
  BY <1>1, <1>2, <1>3, <1>4, <1>5, <1>6, <1>7, <1>8, Cases

\* An OK is retained only as long as the session lasts.
LEMMA BackedKept ==
    ASSUME TypeOK, WillFirst, DisconnectLast, OfflineFirst, BackedOK, [Next]_vars
    PROVE  BackedOK'
<1>1. CASE Aside
  BY <1>1, AsideKeeps DEF BackedOK
<1>2. CASE PublishOffline \/ Disconnect \/ PublishHealth \/ Connect \/ LinkLost \/ Crash
  BY <1>2 DEF PublishOffline, Disconnect, PublishHealth, Connect, LinkLost, Crash, BackedOK, brokerVars
<1>3. CASE Receive
  <2>1. CASE Head(wire) = "DISCONNECT"
    <3>1. DOMAIN wire = 1..Len(wire) /\ 1 \in DOMAIN wire /\ wire[1] = "DISCONNECT"
      BY <1>3, <2>1, Arrived DEF Receive, TypeOK
    <3>2. Len(wire) = 1
      BY <3>1 DEF DisconnectLast
    <3>3. TakenBack
      BY <3>1 DEF OfflineFirst
    <3>4. retained # "OK"
      BY <3>1, <3>2, <3>3 DEF TakenBack
    <3>5. QED
      BY <1>3, <2>1, <3>4 DEF Receive, BackedOK
  <2>2. CASE Head(wire) # "DISCONNECT"
    BY <1>3, <2>2 DEF Receive, BackedOK
  <2>3. QED
    BY <2>1, <2>2
<1>4. CASE KeepaliveExpires
  <2>1. will
    BY <1>4 DEF KeepaliveExpires, WillFirst
  <2>2. QED
    BY <1>4, <2>1 DEF KeepaliveExpires, AfterWill, BackedOK
<1>5. QED
  BY <1>1, <1>2, <1>3, <1>4, Cases

LEMMA NextInvariant == IInv /\ [Next]_vars => IInv'
BY TypeKept, WillKept, DisconnectKept, OfflineKept, BackedKept, WarnedKept DEF IInv

-----------------------------------------------------------------------------
(***************************************************************************)
(* Invariant: the will comes before the first packet, nothing after the    *)
(* DISCONNECT, and before a DISCONNECT each OK has been taken back         *)
(* (publisher.cpp:71-129).                                                 *)
(***************************************************************************)
THEOREM Invariant == Spec => []IInv
BY InitInvariant, NextInvariant, PTL DEF Spec

(***************************************************************************)
(* Backed: an OK that the broker retains has a session behind it, however  *)
(* connections and packets are lost (publisher.cpp:71-79,104-107).         *)
(***************************************************************************)
THEOREM Backed == Spec => []BackedOK
<1>1. IInv => BackedOK
  BY DEF IInv
<1>2. QED
  BY <1>1, Invariant, PTL

(***************************************************************************)
(* Warned: between two connections the failing threads warn once           *)
(* (publisher.cpp:123-129).                                                *)
(***************************************************************************)
THEOREM Warned == Spec => []WarnOnce
<1>1. IInv => WarnOnce
  BY DEF IInv, TypeOK, WarnedOf, WarnOnce
<1>2. QED
  BY <1>1, Invariant, PTL
=============================================================================
