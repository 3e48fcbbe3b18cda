---------------------------- MODULE LoggerProofs ----------------------------
(***************************************************************************)
(* Proofs about Logger for any set of threads, ring capacity and counter   *)
(* width: the inductive invariant, the accounting of every call of log(),  *)
(* and that the destructor leaves nothing in a ring.                       *)
(*                                                                         *)
(* Each conjunct of IInv is carried by a lemma of its own, with one step   *)
(* per action that can disturb it.                                         *)
(***************************************************************************)
EXTENDS Logger, TLAPS

LEMMA CounterFacts ==
    /\ Capacity \in Nat /\ CounterModulus \in Nat /\ CounterModulus >= Capacity + 2
    /\ NoThread \notin Threads
    /\ 0 \in Counter
    /\ \A i \in Counter : Plus(i, 1) \in Counter
    /\ \A i, j \in Counter : Plus(i, j) \in Counter
    /\ \A i \in Counter : Minus(i, 1) \in Counter
BY LoggerAssumption DEF Counter, Plus, Minus

LEMMA InitInvariant == Init => IInv
<1> SUFFICES ASSUME Init PROVE IInv
  OBVIOUS
<1>1. TypeOK
  <2>1. 0 \in Counter /\ 0 \in 0..Capacity
    BY CounterFacts
  <2>2. producers \in Seq(Threads)
    BY DEF Init
  <2>3. pos \in Nat \ {0} /\ mutex \in Drainers \cup {"free"} /\ held \in Threads \cup {NoThread}
    BY DEF Init
  <2>4. busy \in BOOLEAN /\ leaving \in BOOLEAN /\ stop \in BOOLEAN
    BY DEF Init
  <2> QED
    BY <2>1, <2>2, <2>3, <2>4 DEF Init, TypeOK
<1>2. Accounted
  BY CounterFacts DEF Init, Accounted, Pending, Busy, Plus
<1>3. RingsBounded
  BY CounterFacts DEF Init, RingsBounded
<1> QED
  BY <1>1, <1>2, <1>3 DEF Init, IInv, OneConsumer, RingsRegistered, SilentAtEnd, EmptiedAtEnd,
                          InDestructor

-----------------------------------------------------------------------------
(***************************************************************************)
(* Types.                                                                  *)
(***************************************************************************)
LEMMA NextTypes == TypeOK /\ RingsBounded /\ [Next]_vars => TypeOK'
<1> SUFFICES ASSUME TypeOK, RingsBounded, [Next]_vars PROVE TypeOK'
  OBVIOUS
<1> USE CounterFacts DEF TypeOK, threadVars, drainVars, reportVars, controlVars
<1>1. ASSUME NEW t \in Threads, Call(t) PROVE TypeOK'
  BY <1>1 DEF Call
<1>2. ASSUME NEW t \in Threads, Register(t) PROVE TypeOK'
  BY <1>2 DEF Register
<1>3. ASSUME NEW t \in Threads, Push(t) PROVE TypeOK'
  <2>1. UNCHANGED <<unseen, dropped, producers, drainVars, unwritten, reportVars, controlVars>>
    BY <1>3 DEF Push
  <2>2. queued' \in [Threads -> 0..Capacity]
    <3>1. CASE queued[t] + unseen[t] < Capacity
      <4>1. queued[t] + 1 \in 0..Capacity
        BY <3>1
      <4> QED
        BY <1>3, <3>1, <4>1 DEF Push
    <3>2. CASE ~(queued[t] + unseen[t] < Capacity)
      BY <1>3, <3>2 DEF Push
    <3> QED
      BY <3>1, <3>2
  <2>3. callPc' \in [Threads -> {"idle", "register", "push", "count"}]
    BY <1>3 DEF Push
  <2> QED
    BY <2>1, <2>2, <2>3
<1>3a. ASSUME NEW t \in Threads, Look(t) PROVE TypeOK'
  BY <1>3a DEF Look
<1>4. ASSUME NEW t \in Threads, CountDrop(t) PROVE TypeOK'
  BY <1>4 DEF CountDrop
<1>5. ASSUME NEW d \in Drainers, DrainLock(d) PROVE TypeOK'
  <2>1. pos' \in Nat \ {0} /\ mutex' \in Drainers \cup {"free"}
    BY <1>5 DEF DrainLock
  <2>2. held' \in Threads \cup {NoThread}
    BY <1>5 DEF DrainLock
  <2>3. busy' \in BOOLEAN
    BY <1>5 DEF DrainLock
  <2> QED
    BY <1>5, <2>1, <2>2, <2>3 DEF DrainLock
<1>6. ASSUME NEW d \in Drainers, DrainPop(d) PROVE TypeOK'
  <2>1. producers[pos] \in Threads
    BY <1>6 DEF DrainPop
  <2>2. queued[producers[pos]] - 1 \in 0..Capacity /\ unseen[producers[pos]] + 1 \in 0..Capacity
    <3>1. /\ queued[producers[pos]] \in 0..Capacity /\ unseen[producers[pos]] \in 0..Capacity
          /\ queued[producers[pos]] + unseen[producers[pos]] <= Capacity
      BY <2>1 DEF RingsBounded
    <3>2. queued[producers[pos]] > 0
      BY <1>6 DEF DrainPop
    <3> HIDE DEF TypeOK
    <3> QED
      BY <3>1, <3>2
  <2>3. queued' \in [Threads -> 0..Capacity] /\ unseen' \in [Threads -> 0..Capacity]
    BY <1>6, <2>1, <2>2 DEF DrainPop
  <2>4. held' \in Threads
    BY <1>6, <2>1 DEF DrainPop
  <2>5. UNCHANGED <<callPc, dropped, producers, mutex, pos, busy, unwritten, reportVars,
                    controlVars>>
    BY <1>6 DEF DrainPop
  <2> QED
    BY <2>3, <2>4, <2>5
<1>7. ASSUME NEW d \in Drainers, DrainWrite(d) PROVE TypeOK'
  BY <1>7 DEF DrainWrite
<1>8. ASSUME NEW d \in Drainers, DrainNextRing(d) PROVE TypeOK'
  BY <1>8 DEF DrainNextRing
<1>9. ASSUME NEW d \in Drainers, DrainReturn(d) PROVE TypeOK'
  BY <1>9 DEF DrainReturn
<1>10. CASE SinkLoop
  BY <1>10 DEF SinkLoop
<1>11. ASSUME NEW due \in BOOLEAN, SinkTimer(due) PROVE TypeOK'
  BY <1>11 DEF SinkTimer, NextPass
<1>12. CASE SinkWake
  BY <1>12 DEF SinkWake
<1>13. CASE SumLock
  BY <1>13 DEF SumLock, Drainers
<1>14. CASE SumAdd
  <2>1. producers[pos] \in Threads
    BY <1>14 DEF SumAdd
  <2>2. Plus(total, dropped[producers[pos]]) \in Counter
    BY <2>1
  <2> QED
    BY <1>14, <2>2 DEF SumAdd
<1>15. CASE SumReturn
  BY <1>15 DEF SumReturn
<1>16. CASE SinkPrint
  BY <1>16 DEF SinkPrint, NextPass
<1>17. CASE Start
  BY <1>17 DEF Start
<1>18. CASE Stop
  BY <1>18 DEF Stop
<1>19. CASE Join
  BY <1>19 DEF Join
<1>20. CASE DrainNow
  BY <1>20 DEF DrainNow
<1>21. CASE Destroy
  BY <1>21 DEF Destroy
<1>22. CASE UNCHANGED vars
  BY <1>22 DEF vars
<1> QED
  BY <1>1, <1>2, <1>3, <1>3a, <1>4, <1>5, <1>6, <1>7, <1>8, <1>9, <1>10, <1>11, <1>12, <1>13,
     <1>14, <1>15, <1>16, <1>17, <1>18, <1>19, <1>20, <1>21, <1>22
     DEF Next, Drain, SinkStep, Gone

-----------------------------------------------------------------------------
(***************************************************************************)
(* The lock: who holds producers_mutex_ is where it is held.               *)
(***************************************************************************)
LEMMA NextLock == TypeOK /\ OneConsumer /\ [Next]_vars => OneConsumer'
<1> SUFFICES ASSUME TypeOK, OneConsumer, [Next]_vars PROVE OneConsumer'
  OBVIOUS
<1> USE DEF OneConsumer, Draining, threadVars, drainVars, reportVars, controlVars
<1>0. mutex \in Drainers \cup {"free"} /\ Drainers = {"sink", "main"}
  BY DEF TypeOK, Drainers
<1>1. ASSUME NEW t \in Threads, Call(t) \/ Register(t) \/ Look(t) \/ Push(t) \/ CountDrop(t)
      PROVE  OneConsumer'
  BY <1>1 DEF Call, Register, Look, Push, CountDrop
<1>2. ASSUME NEW d \in Drainers, DrainLock(d) PROVE OneConsumer'
  BY <1>2, <1>0 DEF DrainLock
<1>3. ASSUME NEW d \in Drainers, DrainPop(d) PROVE OneConsumer'
  BY <1>3, <1>0 DEF DrainPop
<1>4. ASSUME NEW d \in Drainers, DrainWrite(d) PROVE OneConsumer'
  BY <1>4, <1>0 DEF DrainWrite
<1>5. ASSUME NEW d \in Drainers, DrainNextRing(d) PROVE OneConsumer'
  BY <1>5, <1>0 DEF DrainNextRing
<1>6. ASSUME NEW d \in Drainers, DrainReturn(d) PROVE OneConsumer'
  BY <1>6, <1>0 DEF DrainReturn
<1>7. CASE SinkLoop
  BY <1>7, <1>0 DEF SinkLoop
<1>8. ASSUME NEW due \in BOOLEAN, SinkTimer(due) PROVE OneConsumer'
  BY <1>8, <1>0 DEF SinkTimer
<1>9. CASE SinkWake
  BY <1>9, <1>0 DEF SinkWake
<1>10. CASE SumLock
  BY <1>10, <1>0 DEF SumLock
<1>11. CASE SumAdd
  BY <1>11, <1>0 DEF SumAdd
<1>12. CASE SumReturn
  BY <1>12, <1>0 DEF SumReturn
<1>13. CASE SinkPrint
  BY <1>13, <1>0 DEF SinkPrint
<1>14. CASE Start
  BY <1>14, <1>0 DEF Start
<1>15. CASE Stop
  BY <1>15, <1>0 DEF Stop
<1>16. CASE Join
  BY <1>16, <1>0 DEF Join
<1>17. CASE DrainNow
  BY <1>17, <1>0 DEF DrainNow
<1>18. CASE Destroy
  BY <1>18, <1>0 DEF Destroy
<1>19. CASE UNCHANGED vars
  BY <1>19 DEF vars
<1> QED
  BY <1>1, <1>2, <1>3, <1>4, <1>5, <1>6, <1>7, <1>8, <1>9, <1>10, <1>11, <1>12, <1>13,
     <1>14, <1>15, <1>16, <1>17, <1>18, <1>19
     DEF Next, Drain, SinkStep, Gone

-----------------------------------------------------------------------------
(***************************************************************************)
(* The accounts.  Two facts of wrapping addition, then the actions that    *)
(* move a call from one column to another.                                 *)
(***************************************************************************)
LEMMA OneMorePending ==
    ASSUME NEW d \in Counter, NEW n \in Nat, n <= Capacity + 1
    PROVE  Plus(Plus(d, n), 1) = Plus(d, n + 1)
BY LoggerAssumption DEF Plus, Counter

LEMMA SettlePending ==
    ASSUME NEW d \in Counter, NEW n \in Nat, n <= Capacity + 1
    PROVE  /\ Minus(Plus(d, n + 1), 1) = Plus(d, n)
           /\ Plus(Plus(d, 1), n) = Plus(d, n + 1)
BY LoggerAssumption DEF Plus, Minus, Counter

LEMMA NextAccounts == TypeOK /\ OneConsumer /\ Accounted /\ [Next]_vars => Accounted'
<1> SUFFICES ASSUME TypeOK, OneConsumer, Accounted, [Next]_vars PROVE Accounted'
  OBVIOUS
<1> USE DEF threadVars, drainVars, reportVars, controlVars
<1>0. ASSUME NEW u \in Threads
      PROVE  /\ unwritten[u] = Plus(dropped[u], Pending(u))
             /\ dropped[u] \in Counter
             /\ queued[u] \in Nat /\ queued[u] <= Capacity
             /\ Capacity \in Nat
             /\ u # NoThread
  BY CounterFacts DEF TypeOK, Accounted
\* A step that leaves a thread's numbers alone leaves its account alone.
<1>s. ASSUME NEW u \in Threads,
             unwritten'[u] = unwritten[u], dropped'[u] = dropped[u],
             Pending(u)' = Pending(u)
      PROVE  unwritten'[u] = Plus(dropped'[u], Pending(u)')
  BY <1>0, <1>s
<1>1. ASSUME NEW t \in Threads, Call(t) PROVE Accounted'
  <2> SUFFICES ASSUME NEW u \in Threads
               PROVE  unwritten'[u] = Plus(dropped'[u], Pending(u)')
    BY DEF Accounted
  <2>1. CASE u # t
    <3>1. Pending(u)' = Pending(u) /\ unwritten'[u] = unwritten[u]
      BY <1>1, <2>1 DEF Call, Pending, Busy, TypeOK
    <3> QED
      BY <1>1, <1>s, <3>1 DEF Call
  <2>2. CASE u = t
    <3>1. /\ Pending(u)' = Pending(u) + 1 /\ Pending(u) \in Nat
          /\ Pending(u) <= Capacity + 1
      BY <1>0, <1>1, <2>2 DEF Call, Pending, Busy, TypeOK
    <3>2. unwritten'[u] = Plus(unwritten[u], 1)
      BY <1>1, <2>2 DEF Call, TypeOK
    <3> QED
      BY <1>0, <1>1, <3>1, <3>2, OneMorePending DEF Call
  <2> QED
    BY <2>1, <2>2
<1>2. ASSUME NEW t \in Threads, Register(t) PROVE Accounted'
  <2> SUFFICES ASSUME NEW u \in Threads
               PROVE  unwritten'[u] = Plus(dropped'[u], Pending(u)')
    BY DEF Accounted
  <2>1. Pending(u)' = Pending(u)
    BY <1>2 DEF Register, Pending, Busy, TypeOK
  <2> QED
    BY <1>2, <1>s, <2>1 DEF Register
<1>3. ASSUME NEW t \in Threads, Push(t) PROVE Accounted'
  <2> SUFFICES ASSUME NEW u \in Threads
               PROVE  unwritten'[u] = Plus(dropped'[u], Pending(u)')
    BY DEF Accounted
  <2>1. CASE queued[t] + unseen[t] < Capacity
    <3>1. /\ queued'[u] = queued[u] + Busy(u = t) /\ held' = held
          /\ callPc[t] # "idle" /\ callPc'[t] = "idle"
          /\ u # t => callPc'[u] = callPc[u]
      BY <1>0, <1>3, <2>1 DEF Push, Busy, TypeOK
    <3>2. Pending(u)' = Pending(u)
      BY <1>0, <3>1 DEF Pending, Busy
    <3> QED
      BY <1>3, <1>s, <3>2 DEF Push
  <2>2. CASE ~(queued[t] + unseen[t] < Capacity)
    <3>1. Pending(u)' = Pending(u)
      BY <1>3, <2>2 DEF Push, Pending, Busy, TypeOK
    <3> QED
      BY <1>3, <1>s, <3>1 DEF Push
  <2> QED
    BY <2>1, <2>2
<1>4. ASSUME NEW t \in Threads, CountDrop(t) PROVE Accounted'
  <2> SUFFICES ASSUME NEW u \in Threads
               PROVE  unwritten'[u] = Plus(dropped'[u], Pending(u)')
    BY DEF Accounted
  <2>1. CASE u # t
    <3>1. Pending(u)' = Pending(u) /\ dropped'[u] = dropped[u]
      BY <1>4, <2>1 DEF CountDrop, Pending, Busy, TypeOK
    <3> QED
      BY <1>4, <1>s, <3>1 DEF CountDrop
  <2>2. CASE u = t
    <3>1. /\ Pending(u) = Pending(u)' + 1 /\ Pending(u)' \in Nat
          /\ Pending(u)' <= Capacity + 1
      BY <1>0, <1>4, <2>2 DEF CountDrop, Pending, Busy, TypeOK
    <3>2. dropped'[u] = Plus(dropped[u], 1)
      BY <1>4, <2>2 DEF CountDrop, TypeOK
    <3> QED
      BY <1>0, <1>4, <3>1, <3>2, SettlePending DEF CountDrop
  <2> QED
    BY <2>1, <2>2
<1>5. ASSUME NEW d \in Drainers, DrainPop(d) PROVE Accounted'
  <2> SUFFICES ASSUME NEW u \in Threads
               PROVE  unwritten'[u] = Plus(dropped'[u], Pending(u)')
    BY DEF Accounted
  <2>1. producers[pos] \in Threads
    BY <1>5 DEF DrainPop, TypeOK
  <2>2. Pending(u)' = Pending(u)
    BY <1>0, <1>5, <2>1 DEF DrainPop, Pending, Busy, TypeOK
  <2> QED
    BY <1>5, <1>s, <2>2 DEF DrainPop
<1>6. ASSUME NEW d \in Drainers, DrainWrite(d) PROVE Accounted'
  <2> SUFFICES ASSUME NEW u \in Threads
               PROVE  unwritten'[u] = Plus(dropped'[u], Pending(u)')
    BY DEF Accounted
  <2>1. CASE u # held
    <3>1. Pending(u)' = Pending(u) /\ unwritten'[u] = unwritten[u]
      BY <1>0, <1>6, <2>1 DEF DrainWrite, Pending, Busy, TypeOK
    <3> QED
      BY <1>6, <1>s, <3>1 DEF DrainWrite
  <2>2. CASE u = held
    <3>1. /\ Pending(u) = Pending(u)' + 1 /\ Pending(u)' \in Nat
          /\ Pending(u)' <= Capacity + 1
      BY <1>0, <1>6, <2>2 DEF DrainWrite, Pending, Busy, TypeOK
    <3>2. unwritten'[u] = Minus(unwritten[u], 1)
      BY <1>6, <2>2 DEF DrainWrite, TypeOK
    <3> QED
      BY <1>0, <1>6, <3>1, <3>2, SettlePending DEF DrainWrite
  <2> QED
    BY <2>1, <2>2
\* DrainLock sets held, but the lock was free and nothing was held.
<1>7. ASSUME NEW d \in Drainers, DrainLock(d) PROVE Accounted'
  <2>1. held' = held
    BY <1>7 DEF DrainLock, OneConsumer, Drainers
  <2> QED
    BY <1>7, <2>1 DEF DrainLock, Accounted, Pending
<1>8. ASSUME UNCHANGED <<callPc, queued, dropped, held, unwritten>> PROVE Accounted'
  BY <1>8 DEF Accounted, Pending
<1> QED
  <2>1. ASSUME NEW d \in Drainers, DrainNextRing(d) \/ DrainReturn(d) PROVE Accounted'
    BY <1>8, <2>1 DEF DrainNextRing, DrainReturn
  <2>5. ASSUME NEW t \in Threads, Look(t) PROVE Accounted'
    BY <1>8, <2>5 DEF Look
  <2>2. CASE SinkStep \/ SumLock
    BY <1>8, <2>2 DEF SinkStep, SinkLoop, SinkTimer, SinkWake, SumLock, SumAdd, SumReturn,
                      SinkPrint
  <2>3. CASE Start \/ Stop \/ Join \/ DrainNow \/ Destroy
    BY <1>8, <2>3 DEF Start, Stop, Join, DrainNow, Destroy
  <2>4. CASE UNCHANGED vars
    BY <1>8, <2>4 DEF vars
  <2> QED
    BY <1>1, <1>2, <1>3, <1>4, <1>5, <1>6, <1>7, <2>1, <2>2, <2>3, <2>4, <2>5
       DEF Next, Drain, Gone

-----------------------------------------------------------------------------
(***************************************************************************)
(* What the last drain relies on.                                          *)
(***************************************************************************)
LEMMA NextRegistered == TypeOK /\ RingsRegistered /\ [Next]_vars => RingsRegistered'
<1> SUFFICES ASSUME TypeOK, RingsRegistered, [Next]_vars PROVE RingsRegistered'
  OBVIOUS
<1> USE DEF threadVars, drainVars, reportVars, controlVars
<1>0. producers \in Seq(Threads)
  BY DEF TypeOK
<1>1. ASSUME NEW t \in Threads, Call(t) PROVE RingsRegistered'
  BY <1>1 DEF Call, RingsRegistered, Registered, TypeOK
<1>2. ASSUME NEW t \in Threads, Register(t) PROVE RingsRegistered'
  <2>1. producers' = Append(producers, t)
    BY <1>2 DEF Register
  <2>2. /\ Len(producers') = Len(producers) + 1 /\ Len(producers) \in Nat
        /\ producers'[Len(producers) + 1] = t
        /\ \A k \in 1..Len(producers) : producers'[k] = producers[k]
    BY <1>0, <2>1
  <2>3. t \in Registered' /\ Registered \subseteq Registered'
    BY <2>2 DEF Registered
  <2> QED
    BY <1>2, <2>3 DEF Register, RingsRegistered, TypeOK
<1>3. ASSUME NEW t \in Threads, Push(t) \/ CountDrop(t) PROVE RingsRegistered'
  <2>1. producers' = producers /\ callPc[t] \in {"push", "count"}
    BY <1>3 DEF Push, CountDrop
  <2>2. Registered' = Registered /\ t \in Registered
    BY <2>1 DEF RingsRegistered, Registered
  <2>3. ASSUME NEW u \in Threads, u # t
        PROVE  queued'[u] = queued[u] /\ callPc'[u] = callPc[u]
    <3>1. CASE Push(t)
      BY <2>3, <3>1 DEF Push, TypeOK
    <3>2. CASE CountDrop(t)
      BY <2>3, <3>2 DEF CountDrop, TypeOK
    <3> QED
      BY <1>3, <3>1, <3>2
  <2> QED
    BY <2>2, <2>3 DEF RingsRegistered
<1>4. ASSUME NEW d \in Drainers, DrainPop(d) PROVE RingsRegistered'
  <2>1. /\ Registered' = Registered
        /\ producers[pos] \in Registered
        /\ \A u \in Threads : u # producers[pos] => queued'[u] = queued[u]
        /\ callPc' = callPc
    BY <1>4, <1>0 DEF DrainPop, Registered, TypeOK
  <2> QED
    BY <2>1 DEF RingsRegistered
<1>5. ASSUME UNCHANGED <<callPc, queued, producers>> PROVE RingsRegistered'
  BY <1>5 DEF RingsRegistered, Registered
<1> QED
  <2>1. ASSUME NEW d \in Drainers,
               DrainLock(d) \/ DrainWrite(d) \/ DrainNextRing(d) \/ DrainReturn(d)
        PROVE  RingsRegistered'
    BY <1>5, <2>1 DEF DrainLock, DrainWrite, DrainNextRing, DrainReturn
  <2>5. ASSUME NEW t \in Threads, Look(t) PROVE RingsRegistered'
    BY <1>5, <2>5 DEF Look
  <2>2. CASE SinkStep \/ SumLock
    BY <1>5, <2>2 DEF SinkStep, SinkLoop, SinkTimer, SinkWake, SumLock, SumAdd, SumReturn,
                      SinkPrint
  <2>3. CASE Start \/ Stop \/ Join \/ DrainNow \/ Destroy
    BY <1>5, <2>3 DEF Start, Stop, Join, DrainNow, Destroy
  <2>4. CASE UNCHANGED vars
    BY <1>5, <2>4 DEF vars
  <2> QED
    BY <1>1, <1>2, <1>3, <1>4, <2>1, <2>2, <2>3, <2>4, <2>5 DEF Next, Drain, Gone

\* A ring and what its thread has not seen of it stay within its size.
LEMMA NextBounded == TypeOK /\ RingsBounded /\ [Next]_vars => RingsBounded'
<1> SUFFICES ASSUME TypeOK, RingsBounded, [Next]_vars, NEW u \in Threads
             PROVE  queued'[u] + unseen'[u] <= Capacity
  BY DEF RingsBounded
<1> USE DEF threadVars, drainVars, reportVars, controlVars
<1>0. /\ queued[u] \in Nat /\ unseen[u] \in Nat /\ queued[u] + unseen[u] <= Capacity
      /\ queued \in [Threads -> 0..Capacity] /\ unseen \in [Threads -> 0..Capacity]
      /\ Capacity \in Nat
  BY CounterFacts DEF TypeOK, RingsBounded
<1>1. ASSUME NEW t \in Threads, Push(t) PROVE queued'[u] + unseen'[u] <= Capacity
  BY <1>0, <1>1 DEF Push
<1>2. ASSUME NEW t \in Threads, Look(t) PROVE queued'[u] + unseen'[u] <= Capacity
  BY <1>0, <1>2 DEF Look
<1>3. ASSUME NEW d \in Drainers, DrainPop(d) PROVE queued'[u] + unseen'[u] <= Capacity
  <2>1. producers[pos] \in Threads
    BY <1>3 DEF DrainPop, TypeOK
  <2> QED
    BY <1>0, <1>3, <2>1 DEF DrainPop
<1>4. ASSUME UNCHANGED <<queued, unseen>> PROVE queued'[u] + unseen'[u] <= Capacity
  BY <1>0, <1>4
<1> QED
  <2>1. ASSUME NEW t \in Threads, Call(t) \/ Register(t) \/ CountDrop(t)
        PROVE  UNCHANGED <<queued, unseen>>
    BY <2>1 DEF Call, Register, CountDrop
  <2>2. ASSUME NEW d \in Drainers, DrainLock(d) \/ DrainWrite(d) \/ DrainNextRing(d) \/ DrainReturn(d)
        PROVE  UNCHANGED <<queued, unseen>>
    BY <2>2 DEF DrainLock, DrainWrite, DrainNextRing, DrainReturn
  <2>3. CASE SinkStep \/ SumLock
    BY <1>4, <2>3 DEF SinkStep, SinkLoop, SinkTimer, SinkWake, SumLock, SumAdd, SumReturn, SinkPrint
  <2>4. CASE Start \/ Stop \/ Join \/ DrainNow \/ Destroy
    BY <1>4, <2>4 DEF Start, Stop, Join, DrainNow, Destroy
  <2>5. CASE UNCHANGED vars
    BY <1>4, <2>5 DEF vars
  <2> QED
    BY <1>1, <1>2, <1>3, <1>4, <2>1, <2>2, <2>3, <2>4, <2>5 DEF Next, Drain, Gone

LEMMA NextSilent == TypeOK /\ SilentAtEnd /\ [Next]_vars => SilentAtEnd'
<1> SUFFICES ASSUME TypeOK, SilentAtEnd, [Next]_vars PROVE SilentAtEnd'
  OBVIOUS
<1> USE DEF SilentAtEnd, InDestructor, threadVars, drainVars, reportVars, controlVars
<1>1. ASSUME NEW t \in Threads, Call(t) \/ Register(t) \/ Look(t) \/ Push(t) \/ CountDrop(t)
      PROVE  SilentAtEnd'
  BY <1>1 DEF Call, Register, Look, Push, CountDrop
<1>2. ASSUME NEW d \in Drainers, DrainLock(d) \/ Drain(d) PROVE SilentAtEnd'
  BY <1>2 DEF DrainLock, Drain, DrainPop, DrainWrite, DrainNextRing, DrainReturn, Draining
<1>3. CASE SinkStep \/ SumLock
  BY <1>3 DEF SinkStep, SinkLoop, SinkTimer, SinkWake, SumLock, SumAdd, SumReturn, SinkPrint
<1>4. CASE Start \/ Stop \/ Join \/ DrainNow
  BY <1>4 DEF Start, Stop, Join, DrainNow
<1>5. CASE Destroy
  BY <1>5 DEF Destroy
<1>6. CASE UNCHANGED vars
  BY <1>6 DEF vars
<1> QED
  BY <1>1, <1>2, <1>3, <1>4, <1>5, <1>6 DEF Next, Gone

\* When main reaches the end of the last drain, every ring is empty.
LEMMA LastReturn ==
    ASSUME TypeOK, RingsRegistered, EmptiedAtEnd,
           mainPc = "lastDrain", mutex = "main", pos > Len(producers)
    PROVE  \A t \in Threads : queued[t] = 0
<1> SUFFICES ASSUME NEW t \in Threads, queued[t] # 0 PROVE FALSE
  OBVIOUS
<1>1. queued[t] > 0 /\ producers \in Seq(Threads) /\ pos \in Nat
  BY DEF TypeOK
<1>2. PICK k \in 1..Len(producers) : producers[k] = t
  BY <1>1 DEF RingsRegistered, Registered
<1>3. queued[producers[k]] = 0
  BY <1>1, <1>2 DEF EmptiedAtEnd
<1> QED
  BY <1>2, <1>3

LEMMA NextEmptied ==
    TypeOK /\ OneConsumer /\ RingsRegistered /\ SilentAtEnd /\ EmptiedAtEnd /\ [Next]_vars
        => EmptiedAtEnd'
<1> SUFFICES ASSUME TypeOK, OneConsumer, RingsRegistered, SilentAtEnd, EmptiedAtEnd, [Next]_vars
             PROVE  EmptiedAtEnd'
  OBVIOUS
<1> USE DEF threadVars, drainVars, reportVars, controlVars
<1>0. /\ producers \in Seq(Threads) /\ pos \in Nat /\ pos >= 1
      /\ queued \in [Threads -> 0..Capacity] /\ Capacity \in Nat
      /\ NoThread \notin Threads
      /\ Drainers = {"sink", "main"}
  BY CounterFacts DEF TypeOK, Drainers
<1>1. ASSUME NEW t \in Threads, Call(t) \/ Register(t) \/ Look(t) \/ Push(t) \/ CountDrop(t)
      PROVE  EmptiedAtEnd'
  <2>1. mainPc' = mainPc /\ ~InDestructor
    BY <1>1 DEF Call, Register, Look, Push, CountDrop, SilentAtEnd
  <2> QED
    BY <2>1 DEF EmptiedAtEnd, InDestructor
<1>2. ASSUME NEW d \in Drainers, DrainLock(d) PROVE EmptiedAtEnd'
  <2>1. held = NoThread
    BY <1>0, <1>2 DEF DrainLock, OneConsumer
  <2> QED
    BY <1>0, <1>2, <2>1 DEF DrainLock, EmptiedAtEnd
<1>3. ASSUME NEW d \in Drainers, DrainPop(d) PROVE EmptiedAtEnd'
  <2>1. producers[pos] \in Threads /\ queued[producers[pos]] > 0
    BY <1>0, <1>3 DEF DrainPop
  <2>2. mainPc # "gone"
    BY <2>1 DEF EmptiedAtEnd
  <2>3. \A u \in Threads : queued[u] = 0 => queued'[u] = 0
    BY <1>0, <1>3, <2>1 DEF DrainPop
  <2>4. \A k \in 1..Len(producers) : producers[k] \in Threads
    BY <1>0
  <2> QED
    BY <1>3, <2>2, <2>3, <2>4 DEF DrainPop, EmptiedAtEnd
<1>4. ASSUME NEW d \in Drainers, DrainWrite(d) PROVE EmptiedAtEnd'
  BY <1>4 DEF DrainWrite, EmptiedAtEnd
<1>5. ASSUME NEW d \in Drainers, DrainNextRing(d) PROVE EmptiedAtEnd'
  <2>1. ASSUME mainPc' = "lastDrain", mutex' = "main",
               NEW k \in 1..Len(producers'), k < pos'
        PROVE  queued'[producers'[k]] = 0
    <3>1. /\ mainPc = "lastDrain" /\ mutex = "main" /\ producers' = producers
          /\ queued' = queued /\ pos' = pos + 1 /\ queued[producers[pos]] = 0
      BY <1>5, <2>1 DEF DrainNextRing
    <3>2. k = pos \/ k < pos
      BY <1>0, <2>1, <3>1
    <3> QED
      BY <2>1, <3>1, <3>2 DEF EmptiedAtEnd
  <2>2. mainPc' = "gone" => held' = NoThread /\ \A t \in Threads : queued'[t] = 0
    BY <1>5 DEF DrainNextRing, EmptiedAtEnd
  <2> QED
    BY <2>1, <2>2 DEF EmptiedAtEnd
<1>6. ASSUME NEW d \in Drainers, DrainReturn(d) PROVE EmptiedAtEnd'
  <2>1. CASE mainPc' = "gone" /\ mainPc # "gone"
    <3>1. /\ mainPc = "lastDrain" /\ mutex = "main" /\ pos > Len(producers)
          /\ held' = NoThread /\ queued' = queued
      BY <1>0, <1>6, <2>1 DEF DrainReturn, Draining
    <3>2. \A t \in Threads : queued[t] = 0
      BY <3>1, LastReturn
    <3> QED
      BY <2>1, <3>1, <3>2 DEF EmptiedAtEnd
  <2>2. CASE ~(mainPc' = "gone" /\ mainPc # "gone")
    BY <1>0, <1>6, <2>2 DEF DrainReturn, EmptiedAtEnd
  <2> QED
    BY <2>1, <2>2
<1>7. CASE SumLock \/ SumAdd \/ SumReturn
  <2>1. mutex' # "main" /\ UNCHANGED <<held, queued, mainPc>>
    BY <1>7 DEF SumLock, SumAdd, SumReturn
  <2> QED
    BY <2>1 DEF EmptiedAtEnd
<1>8. ASSUME UNCHANGED <<mutex, pos, held, queued, producers>>,
             mainPc' \in {"lastDrain", "gone"} => mainPc' = mainPc \/ mutex # "main",
             mainPc' = "gone" => mainPc = "gone"
      PROVE  EmptiedAtEnd'
  BY <1>8 DEF EmptiedAtEnd
<1>9. CASE SinkLoop \/ (\E due \in BOOLEAN : SinkTimer(due)) \/ SinkWake \/ SinkPrint
  BY <1>8, <1>9 DEF SinkLoop, SinkTimer, SinkWake, SinkPrint
<1>10. CASE Start \/ Stop \/ DrainNow
  BY <1>8, <1>10 DEF Start, Stop, DrainNow
\* main takes the lock only after it has entered the last drain.
<1>11. CASE Join \/ Destroy
  <2>1. mutex # "main"
    BY <1>11 DEF Join, Destroy, OneConsumer
  <2> QED
    BY <1>8, <1>11, <2>1 DEF Join, Destroy
<1>12. CASE UNCHANGED vars
  BY <1>8, <1>12 DEF vars
<1> QED
  BY <1>1, <1>2, <1>3, <1>4, <1>5, <1>6, <1>7, <1>9, <1>10, <1>11, <1>12
     DEF Next, Drain, SinkStep, Gone

-----------------------------------------------------------------------------
LEMMA NextInvariant == IInv /\ [Next]_vars => IInv'
BY NextTypes, NextLock, NextAccounts, NextBounded, NextRegistered, NextSilent, NextEmptied DEF IInv

(***************************************************************************)
(* Invariant: the inductive invariant holds in every reachable state; with *)
(* it the types, and OneConsumer: producers_mutex_ makes the two callers   *)
(* of drain_now (logger.cpp:138) a single consumer of every ring.          *)
(***************************************************************************)
THEOREM Invariant == Spec => []IInv
BY InitInvariant, NextInvariant, PTL DEF Spec

(***************************************************************************)
(* SingleConsumer: see OneConsumer.                                        *)
(***************************************************************************)
THEOREM SingleConsumer == Spec => []OneConsumer
<1>1. IInv => OneConsumer
  BY DEF IInv
<1> QED
  BY <1>1, Invariant, PTL

(***************************************************************************)
(* Accounting: no call of log() is ever lost or counted twice, for any     *)
(* number of threads, any capacity, and across the wrap of the counters    *)
(* (logger.cpp:92-149).                                                    *)
(***************************************************************************)
THEOREM Accounting == Spec => []Accounted
<1>1. IInv => Accounted
  BY DEF IInv
<1> QED
  BY <1>1, Invariant, PTL

(***************************************************************************)
(* Complete: when the destructor has returned, every call is a line of the *)
(* file or a counted drop (logger.cpp:56-60).                              *)
(***************************************************************************)
THEOREM Complete == Spec => []NothingLeft
<1>1. IInv => NothingLeft
  <2> SUFFICES ASSUME IInv, mainPc = "gone", NEW t \in Threads
               PROVE  queued[t] = 0 /\ unwritten[t] = dropped[t]
    BY DEF NothingLeft
  <2>1. queued[t] = 0 /\ held = NoThread /\ callPc[t] = "idle"
    BY DEF IInv, EmptiedAtEnd, SilentAtEnd, InDestructor
  <2>2. Pending(t) = 0
    BY <2>1, CounterFacts DEF Pending, Busy
  <2>3. dropped[t] \in Counter
    BY DEF IInv, TypeOK
  <2>4. Plus(dropped[t], 0) = dropped[t]
    BY <2>3, LoggerAssumption DEF Plus, Counter
  <2> QED
    BY <2>1, <2>2, <2>4 DEF IInv, Accounted
<1> QED
  BY <1>1, Invariant, PTL

-----------------------------------------------------------------------------
(***************************************************************************)
(* The rings of the logger are channels.  What a channel keeps and the     *)
(* logger forgets, the answer to a thread's last try_push, is recorded in  *)
(* a history variable beside the specification.                            *)
(***************************************************************************)
VARIABLE answer

RecordedInit == Init /\ answer = [t \in Threads |-> TRUE]

Recorded ==
    answer' = [t \in Threads |->
                 IF callPc[t] = "push" /\ callPc'[t] # "push" THEN callPc'[t] = "idle"
                                                             ELSE answer[t]]

RecordedVars == <<vars, answer>>
RecordedSpec == RecordedInit /\ [][Next /\ Recorded]_RecordedVars

\* The ring of thread t, whose records are all alike.
Ring(t) == INSTANCE LogChannel WITH
    Records <- {t},
    chan <- [i \in 1..queued[t] |-> t],
    unseen <- unseen[t],
    accepted <- answer[t],
    taken <- t

LEMMA AlikeIsSeq ==
    ASSUME NEW r, NEW n \in Nat
    PROVE  /\ [i \in 1..n |-> r] \in Seq({r})
           /\ Len([i \in 1..n |-> r]) = n
           /\ Append([i \in 1..n |-> r], r) = [i \in 1..(n + 1) |-> r]
           /\ n > 0 => /\ [i \in 1..n |-> r] # <<>>
                       /\ Head([i \in 1..n |-> r]) = r
                       /\ Tail([i \in 1..n |-> r]) = [i \in 1..(n - 1) |-> r]
           /\ n = 0 => [i \in 1..n |-> r] = <<>>
<1> DEFINE s == [i \in 1..n |-> r]
<1>1. s \in [1..n -> {r}]
  OBVIOUS
<1>2. s \in Seq({r})
  BY <1>1
<1>3. Len(s) = n
  BY <1>2
<1>4. QED
  BY <1>2, <1>3

LEMMA RingInit ==
    ASSUME RecordedInit, NEW t \in Threads
    PROVE  Ring(t)!Init
<1>1. queued[t] = 0 /\ unseen[t] = 0 /\ answer[t] = TRUE
  BY DEF RecordedInit, Init
<1>2. [i \in 1..0 |-> t] = <<>>
  BY AlikeIsSeq
<1> QED
  BY <1>1, <1>2 DEF Ring!Init

(***************************************************************************)
(* What a step of the logger can do to the ring of thread t: leave it      *)
(* alone, let the thread catch up, accept a record, refuse one, or take    *)
(* one out.                                                                *)
(***************************************************************************)
Kept(t) == /\ queued'[t] = queued[t] /\ unseen'[t] = unseen[t]
           /\ callPc[t] = "push" => callPc'[t] = "push"
CaughtUp(t) == /\ queued'[t] = queued[t] /\ unseen'[t] \in 0..unseen[t]
               /\ callPc'[t] = "push"
Accepted(t) == /\ queued[t] + unseen[t] < Capacity
               /\ queued'[t] = queued[t] + 1 /\ unseen'[t] = unseen[t]
               /\ callPc[t] = "push" /\ callPc'[t] = "idle"
Refused(t) == /\ queued[t] + unseen[t] = Capacity
              /\ queued'[t] = queued[t] /\ unseen'[t] = unseen[t]
              /\ callPc[t] = "push" /\ callPc'[t] = "count"
TakenOut(t) == /\ queued[t] > 0
               /\ queued'[t] = queued[t] - 1 /\ unseen'[t] = unseen[t] + 1
               /\ callPc'[t] = callPc[t]
Effect(t) == Kept(t) \/ CaughtUp(t) \/ Accepted(t) \/ Refused(t) \/ TakenOut(t)

LEMMA StepOnRing ==
    ASSUME TypeOK, RingsBounded, [Next]_vars, NEW t \in Threads
    PROVE  Effect(t)
<1> USE DEF threadVars, drainVars, reportVars, controlVars
<1>0. /\ queued[t] \in Nat /\ unseen[t] \in Nat /\ queued[t] + unseen[t] <= Capacity
      /\ queued \in [Threads -> 0..Capacity] /\ unseen \in [Threads -> 0..Capacity]
      /\ callPc \in [Threads -> {"idle", "register", "push", "count"}]
      /\ Capacity \in Nat
  BY CounterFacts DEF TypeOK, RingsBounded
<1>1. ASSUME UNCHANGED <<callPc, queued, unseen>> PROVE Effect(t)
  BY <1>1 DEF Effect, Kept
<1>2. ASSUME NEW u \in Threads, Call(u) \/ Register(u) \/ CountDrop(u) PROVE Effect(t)
  BY <1>0, <1>2 DEF Call, Register, CountDrop, Effect, Kept
<1>3. ASSUME NEW u \in Threads, Look(u) PROVE Effect(t)
  <2>1. CASE u = t
    BY <1>0, <1>3, <2>1 DEF Look, Effect, CaughtUp
  <2>2. CASE u # t
    BY <1>0, <1>3, <2>2 DEF Look, Effect, Kept
  <2> QED
    BY <2>1, <2>2
<1>4. ASSUME NEW u \in Threads, Push(u) PROVE Effect(t)
  <2>1. CASE u = t /\ queued[t] + unseen[t] < Capacity
    BY <1>0, <1>4, <2>1 DEF Push, Effect, Accepted
  <2>2. CASE u = t /\ ~(queued[t] + unseen[t] < Capacity)
    BY <1>0, <1>4, <2>2 DEF Push, Effect, Refused
  <2>3. CASE u # t
    BY <1>0, <1>4, <2>3 DEF Push, Effect, Kept
  <2> QED
    BY <2>1, <2>2, <2>3
<1>5. ASSUME NEW d \in Drainers, DrainPop(d) PROVE Effect(t)
  <2>1. producers[pos] \in Threads
    BY <1>5 DEF DrainPop, TypeOK
  <2>2. CASE producers[pos] = t
    BY <1>0, <1>5, <2>2 DEF DrainPop, Effect, TakenOut
  <2>3. CASE producers[pos] # t
    BY <1>0, <1>5, <2>1, <2>3 DEF DrainPop, Effect, Kept
  <2> QED
    BY <2>2, <2>3
<1>6. ASSUME NEW d \in Drainers, DrainLock(d) \/ DrainWrite(d) \/ DrainNextRing(d) \/ DrainReturn(d)
      PROVE  Effect(t)
  BY <1>1, <1>6 DEF DrainLock, DrainWrite, DrainNextRing, DrainReturn
<1>7. CASE SinkStep \/ SumLock
  BY <1>1, <1>7 DEF SinkStep, SinkLoop, SinkTimer, SinkWake, SumLock, SumAdd, SumReturn, SinkPrint
<1>8. CASE Start \/ Stop \/ Join \/ DrainNow \/ Destroy
  BY <1>1, <1>8 DEF Start, Stop, Join, DrainNow, Destroy
<1>9. CASE UNCHANGED vars
  BY <1>1, <1>9 DEF vars
<1> QED
  BY <1>2, <1>3, <1>4, <1>5, <1>6, <1>7, <1>8, <1>9 DEF Next, Drain, Gone

(***************************************************************************)
(* Each effect is a step of the channel, or none.                          *)
(***************************************************************************)
LEMMA RingStep ==
    ASSUME IInv, [Next /\ Recorded]_RecordedVars, NEW t \in Threads
    PROVE  [Ring(t)!Next]_(Ring(t)!chanVars)
<1> DEFINE chan(n) == [i \in 1..n |-> t]
<1>0. /\ TypeOK /\ RingsBounded
      /\ queued[t] \in Nat /\ unseen[t] \in Nat /\ Capacity \in Nat
  BY CounterFacts DEF IInv, TypeOK
<1>1. CASE UNCHANGED RecordedVars
  BY <1>1 DEF RecordedVars, vars, threadVars, Ring!chanVars
<1>2. CASE Next /\ Recorded
  <2>1. Effect(t)
    BY <1>0, <1>2, StepOnRing
  <2>2. answer'[t] = IF callPc[t] = "push" /\ callPc'[t] # "push" THEN callPc'[t] = "idle"
                                                                  ELSE answer[t]
    BY <1>2 DEF Recorded
  <2>3. Len(chan(queued[t])) = queued[t]
    BY <1>0, AlikeIsSeq
  <2>4. CASE Kept(t)
    BY <2>2, <2>4 DEF Kept, Ring!chanVars
  <2>5. CASE CaughtUp(t)
    BY <2>2, <2>5 DEF CaughtUp, Ring!Next, Ring!Look
  <2>6. CASE Accepted(t)
    <3>1. chan(queued'[t]) = Append(chan(queued[t]), t)
      BY <1>0, <2>6, AlikeIsSeq DEF Accepted
    <3>2. answer'[t] = TRUE
      BY <2>2, <2>6 DEF Accepted
    <3>3. Ring(t)!Send(t)
      BY <2>3, <2>6, <3>1, <3>2 DEF Accepted, Ring!Send
    <3> QED
      BY <3>3 DEF Ring!Next
  <2>7. CASE Refused(t)
    <3>1. answer'[t] = FALSE
      BY <2>2, <2>7 DEF Refused
    <3>2. Ring(t)!Refuse
      BY <1>0, <2>3, <2>7, <3>1 DEF Refused, Ring!Refuse
    <3> QED
      BY <3>2 DEF Ring!Next
  <2>8. CASE TakenOut(t)
    <3>1. /\ chan(queued[t]) # <<>>
          /\ Head(chan(queued[t])) = t
          /\ Tail(chan(queued[t])) = chan(queued'[t])
      BY <1>0, <2>8, AlikeIsSeq DEF TakenOut
    <3>2. answer'[t] = answer[t]
      BY <2>2, <2>8 DEF TakenOut
    <3>3. Ring(t)!Receive
      BY <2>8, <3>1, <3>2 DEF TakenOut, Ring!Receive
    <3> QED
      BY <3>3 DEF Ring!Next
  <2> QED
    BY <2>1, <2>4, <2>5, <2>6, <2>7, <2>8 DEF Effect
<1> QED
  BY <1>1, <1>2

(***************************************************************************)
(* RingsAreChannels: whatever the threads, the sink and the owner do       *)
(* (logger.cpp:92-149), the ring of each thread is the bounded channel of  *)
(* LogChannel, which SpscRing implements: records go in at its thread's    *)
(* try_push, come out in the drain, and are refused only when there is no  *)
(* room that the thread has seen.                                          *)
(***************************************************************************)
THEOREM RingsAreChannels ==
    ASSUME NEW t \in Threads
    PROVE  RecordedSpec => Ring(t)!Safe
<1>1. RecordedInit => Ring(t)!Init /\ Init
  BY RingInit DEF RecordedInit
<1>2. [Next /\ Recorded]_RecordedVars => [Next]_vars
  BY DEF RecordedVars
<1>3. IInv /\ [Next /\ Recorded]_RecordedVars => [Ring(t)!Next]_(Ring(t)!chanVars)
  BY RingStep
<1> QED
  BY <1>1, <1>2, <1>3, Invariant, PTL DEF RecordedSpec, Spec, Ring!Safe
=============================================================================
