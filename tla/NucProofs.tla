----------------------------- MODULE NucProofs -----------------------------
(***************************************************************************)
(* For every timeout, every speed of the block and every schedule of the   *)
(* thread: a NUC never leaves the shutter told to stay shut, reads the     *)
(* table of its own accumulation, keeps to its timeouts, and reports no    *)
(* shutter that was in time.                                               *)
(***************************************************************************)
EXTENDS Nuc, TLAPS

\* A timer that still runs ran before the tick.
LEMMA CountDown == \A n \in Nat : (IF n > 0 THEN n - 1 ELSE 0) > 0 => n > 0
OBVIOUS

LEMMA Together ==
  \A n, s, t, l \in Nat : n + s = t + l => (n - 1) + s = t + (l - 1)
OBVIOUS

LEMMA TooSlow == \A n, s, t, l \in Nat : n > 0 /\ l = 0 /\ n + s = t + l => t > s
OBVIOUS

LEMMA MoveTimeNat == ASSUME NumberType PROVE moveTime \in Nat
BY NucAssumption DEF NumberType

LEMMA InitInvariant == Init => IInv
<1>1. Init => ControlType
  BY DEF Init, ControlType
<1>2. Init => NumberType
  BY NucAssumption DEF Init, NumberType
<1>3. Init => BitType
  BY DEF Init, BitType
<1>4. Init => ShutterFollows /\ TableFollows
  BY DEF Init, ShutterFollows, TableFollows, Shut, Still
<1>5. Init => TimeFollows /\ MoveFollows
  BY NucAssumption DEF Init, TimeFollows, MoveFollows, Awaited, ReportsNoMove
<1>6. QED
  BY <1>1, <1>2, <1>3, <1>4, <1>5 DEF IInv, TypeOK

\* The position in run_nuc and what it returned.
LEMMA ControlKept == ASSUME ControlType, [Next]_vars PROVE ControlType'
<1> USE DEF softVars, timeVars, shutterVars, accumVars, ControlType, Polls, Deadlines, Failures
<1>1. CASE Enter
  BY <1>1 DEF Enter, ReadShutter
<1>2. CASE Close
  BY <1>2 DEF Close, WriteShutter
<1>3. CASE Accumulate
  BY <1>3 DEF Accumulate, WriteStart
<1>4. CASE PollShutter
  BY <1>4 DEF PollShutter, ReadShutter
<1>5. CASE PollDone
  BY <1>5 DEF PollDone, ReadAccumulate
<1>6. CASE BeforeDeadline
  BY <1>6 DEF BeforeDeadline
<1>7. CASE DeadlinePassed
  BY <1>7 DEF DeadlinePassed
<1>8. CASE Recover
  BY <1>8 DEF Recover, WriteShutter
<1>9. CASE SelectTable
  BY <1>9 DEF SelectTable
<1>10. CASE ReadEntry
  BY <1>10 DEF ReadEntry
<1>11. CASE TableRead
  BY <1>11 DEF TableRead
<1>12. CASE Open
  BY <1>12 DEF Open, WriteShutter
<1>13. CASE Tick
  BY <1>13 DEF Tick
<1>14. CASE Fault
  BY <1>14 DEF Fault
<1>15. CASE UNCHANGED vars
  BY <1>15 DEF vars
<1>16. QED
  BY <1>1, <1>2, <1>3, <1>4, <1>5, <1>6, <1>7,
     <1>8, <1>9, <1>10, <1>11, <1>12, <1>13, <1>14, <1>15
     DEF Next, RunNuc

\* Time, the table's index and the block's ADDR.
LEMMA NumbersKept == ASSUME IInv, [Next]_vars PROVE NumberType'
<1> USE NucAssumption
        DEF softVars, timeVars, shutterVars, accumVars, NumberType, IInv, TypeOK, TableFollows
<1>1. CASE Enter
  BY <1>1 DEF Enter, ReadShutter
<1>2. CASE Close
  BY <1>2 DEF Close, WriteShutter
<1>3. CASE Accumulate
  BY <1>3 DEF Accumulate, WriteStart
<1>4. CASE PollShutter
  BY <1>4 DEF PollShutter, ReadShutter
<1>5. CASE PollDone
  BY <1>5 DEF PollDone, ReadAccumulate
<1>6. CASE BeforeDeadline
  BY <1>6 DEF BeforeDeadline
<1>7. CASE DeadlinePassed
  BY <1>7 DEF DeadlinePassed
<1>8. CASE Recover
  BY <1>8 DEF Recover, WriteShutter
<1>9. CASE SelectTable
  BY <1>9 DEF SelectTable
<1>10. CASE ReadEntry
  BY <1>10 DEF ReadEntry
<1>11. CASE TableRead
  BY <1>11 DEF TableRead
<1>12. CASE Open
  BY <1>12 DEF Open, WriteShutter
<1>13. CASE Tick
  BY <1>13 DEF Tick
<1>14. CASE Fault
  BY <1>14 DEF Fault
<1>15. CASE UNCHANGED vars
  BY <1>15 DEF vars
<1>16. QED
  BY <1>1, <1>2, <1>3, <1>4, <1>5, <1>6, <1>7,
     <1>8, <1>9, <1>10, <1>11, <1>12, <1>13, <1>14, <1>15
     DEF Next, RunNuc

LEMMA ReadTypes == BusyRead \in BOOLEAN /\ DoneRead \in BOOLEAN
<1>1. BusyRead \in BOOLEAN
  BY DEF BusyRead
<1>2. DoneRead \in BOOLEAN
  BY DEF DoneRead
<1>3. QED
  BY <1>1, <1>2

\* The bits of the registers.
LEMMA BitsKept == ASSUME BitType, [Next]_vars PROVE BitType'
<1> USE DEF softVars, timeVars, shutterVars, accumVars, BitType
<1>1. CASE Enter
  BY <1>1, ReadTypes DEF Enter, ReadShutter
<1>2. CASE Close
  BY <1>2 DEF Close, WriteShutter
<1>3. CASE Accumulate
  BY <1>3 DEF Accumulate, WriteStart
<1>4. CASE PollShutter
  BY <1>4, ReadTypes DEF PollShutter, ReadShutter
<1>5. CASE PollDone
  BY <1>5, ReadTypes DEF PollDone, ReadAccumulate
<1>6. CASE BeforeDeadline
  BY <1>6 DEF BeforeDeadline
<1>7. CASE DeadlinePassed
  BY <1>7 DEF DeadlinePassed
<1>8. CASE Recover
  BY <1>8 DEF Recover, WriteShutter
<1>9. CASE SelectTable
  BY <1>9 DEF SelectTable
<1>10. CASE ReadEntry
  BY <1>10 DEF ReadEntry
<1>11. CASE TableRead
  BY <1>11 DEF TableRead
<1>12. CASE Open
  BY <1>12 DEF Open, WriteShutter
<1>13. CASE Tick
  BY <1>13 DEF Tick
<1>14. CASE Fault
  BY <1>14 DEF Fault
<1>15. CASE UNCHANGED vars
  BY <1>15 DEF vars
<1>16. QED
  BY <1>1, <1>2, <1>3, <1>4, <1>5, <1>6, <1>7,
     <1>8, <1>9, <1>10, <1>11, <1>12, <1>13, <1>14, <1>15
     DEF Next, RunNuc

\* The shutter follows run_nuc.
LEMMA ShutterKept == ASSUME IInv, [Next]_vars PROVE ShutterFollows'
<1> USE DEF softVars, timeVars, shutterVars, accumVars, IInv, TypeOK, ControlType, NumberType, BitType,
            ShutterFollows, Shut, Still, Polls, Deadlines, Failures, BusyRead
<1>1. CASE Enter
  BY <1>1 DEF Enter, ReadShutter
<1>2. CASE Close
  BY <1>2 DEF Close, WriteShutter
<1>3. CASE Accumulate
  BY <1>3 DEF Accumulate, WriteStart
<1>4. CASE PollShutter
  BY <1>4 DEF PollShutter, ReadShutter
<1>5. CASE PollDone
  BY <1>5 DEF PollDone, ReadAccumulate
<1>6. CASE BeforeDeadline
  BY <1>6 DEF BeforeDeadline
<1>7. CASE DeadlinePassed
  BY <1>7 DEF DeadlinePassed
<1>8. CASE Recover
  BY <1>8 DEF Recover, WriteShutter
<1>9. CASE SelectTable
  BY <1>9 DEF SelectTable
<1>10. CASE ReadEntry
  BY <1>10 DEF ReadEntry
<1>11. CASE TableRead
  BY <1>11 DEF TableRead
<1>12. CASE Open
  BY <1>12 DEF Open, WriteShutter
<1>13. CASE Tick
  <2>1. moving' = IF moving > 0 THEN moving - 1 ELSE 0
    BY <1>13 DEF Tick
  <2>2. UNCHANGED <<pc, result, close, busy>>
    BY <1>13 DEF Tick
  <2>3. moving' > 0 => moving > 0
    <3>1. moving \in Nat
      OBVIOUS
    <3>2. QED
      BY <2>1, <3>1, CountDown
  <2>4. QED
    BY <2>2, <2>3
<1>14. CASE Fault
  BY <1>14 DEF Fault
<1>15. CASE UNCHANGED vars
  BY <1>15 DEF vars
<1>16. QED
  BY <1>1, <1>2, <1>3, <1>4, <1>5, <1>6, <1>7,
     <1>8, <1>9, <1>10, <1>11, <1>12, <1>13, <1>14, <1>15
     DEF Next, RunNuc

\* The accumulation and the table follow it.
LEMMA TableKept == ASSUME IInv, [Next]_vars PROVE TableFollows'
<1> USE DEF softVars, timeVars, shutterVars, accumVars, IInv, TypeOK, ControlType, NumberType, BitType,
            TableFollows, Polls, Deadlines, DoneRead
<1>1. CASE Enter
  BY <1>1 DEF Enter, ReadShutter
<1>2. CASE Close
  BY <1>2 DEF Close, WriteShutter
<1>3. CASE Accumulate
  BY <1>3 DEF Accumulate, WriteStart
<1>4. CASE PollShutter
  BY <1>4 DEF PollShutter, ReadShutter
<1>5. CASE PollDone
  BY <1>5 DEF PollDone, ReadAccumulate
<1>6. CASE BeforeDeadline
  BY <1>6 DEF BeforeDeadline
<1>7. CASE DeadlinePassed
  BY <1>7 DEF DeadlinePassed
<1>8. CASE Recover
  BY <1>8 DEF Recover, WriteShutter
<1>9. CASE SelectTable
  BY <1>9 DEF SelectTable
<1>10. CASE ReadEntry
  BY <1>10 DEF ReadEntry
<1>11. CASE TableRead
  BY <1>11 DEF TableRead
<1>12. CASE Open
  BY <1>12 DEF Open, WriteShutter
<1>13. CASE Tick
  BY <1>13 DEF Tick
<1>14. CASE Fault
  BY <1>14 DEF Fault
<1>15. CASE UNCHANGED vars
  BY <1>15 DEF vars
<1>16. QED
  BY <1>1, <1>2, <1>3, <1>4, <1>5, <1>6, <1>7,
     <1>8, <1>9, <1>10, <1>11, <1>12, <1>13, <1>14, <1>15
     DEF Next, RunNuc

\* Each wait uses up at most its own timeout.
LEMMA TimeKept == ASSUME IInv, [Next]_vars PROVE TimeFollows'
<1> USE NucAssumption
        DEF softVars, timeVars, shutterVars, accumVars, IInv, TypeOK, ControlType, NumberType, BitType,
            TimeFollows, Polls, Deadlines, PollsInVain
<1>1. CASE Enter
  BY <1>1 DEF Enter, ReadShutter
<1>2. CASE Close
  BY <1>2 DEF Close, WriteShutter
<1>3. CASE Accumulate
  BY <1>3 DEF Accumulate, WriteStart
<1>4. CASE PollShutter
  BY <1>4 DEF PollShutter, ReadShutter
<1>5. CASE PollDone
  BY <1>5 DEF PollDone, ReadAccumulate
<1>6. CASE BeforeDeadline
  BY <1>6 DEF BeforeDeadline
<1>7. CASE DeadlinePassed
  <2>1. elapsed' = elapsed /\ left' = left /\ heldUp' = heldUp
    BY <1>7 DEF DeadlinePassed
  <2>2. pc \in Deadlines /\ pc' \in {"idle", "recover"}
    BY <1>7 DEF DeadlinePassed
  <2>3. pc' = "recover" => pc # "openingDeadline"
    BY <1>7 DEF DeadlinePassed
  <2>4. elapsed \in Nat /\ left \in Nat /\ ShutterTimeout \in Nat /\ AccumulateTimeout \in Nat
    OBVIOUS
  <2>5. QED
    BY <2>1, <2>2, <2>3, <2>4
<1>8. CASE Recover
  BY <1>8 DEF Recover, WriteShutter
<1>9. CASE SelectTable
  BY <1>9 DEF SelectTable
<1>10. CASE ReadEntry
  BY <1>10 DEF ReadEntry
<1>11. CASE TableRead
  BY <1>11 DEF TableRead
<1>12. CASE Open
  BY <1>12 DEF Open, WriteShutter
<1>13. CASE Tick
  <2>1. left' = (IF left > 0 THEN left - 1 ELSE 0) /\ pc' = pc
    BY <1>13 DEF Tick
  <2>2. elapsed' = IF pc = "idle" \/ elapsed = MaxElapsed THEN elapsed ELSE elapsed + 1
    BY <1>13 DEF Tick
  <2>3. heldUp' = (heldUp \/ (pc # "idle" /\ ~PollsInVain))
    BY <1>13 DEF Tick
  <2>4. elapsed \in Nat /\ left \in Nat /\ ShutterTimeout \in Nat /\ AccumulateTimeout \in Nat
    OBVIOUS
  <2>5. CASE pc = "idle"
    <3>1. elapsed' = elapsed /\ pc' = "idle"
      BY <2>1, <2>2, <2>5
    <3>2. ~heldUp' => ~heldUp
      BY <2>3
    <3>3. QED
      BY <2>4, <2>5, <3>1, <3>2
  <2>6. CASE heldUp'
    BY <2>6
  <2>7. CASE pc # "idle" /\ ~heldUp'
    <3>1. ~heldUp /\ left > 0 /\ pc \in Polls
      BY <2>3, <2>7
    <3>2. left' = left - 1 /\ (elapsed' = elapsed \/ elapsed' = elapsed + 1)
      BY <2>1, <2>2, <2>4, <3>1
    <3>3. CASE elapsed' = elapsed
      BY <2>1, <2>4, <3>1, <3>2, <3>3
    <3>4. CASE elapsed' = elapsed + 1
      BY <2>1, <2>4, <3>1, <3>2, <3>4
    <3>5. QED
      BY <3>2, <3>3, <3>4
  <2>8. QED
    BY <2>5, <2>6, <2>7
<1>14. CASE Fault
  BY <1>14 DEF Fault
<1>15. CASE UNCHANGED vars
  BY <1>15 DEF vars
<1>16. QED
  BY <1>1, <1>2, <1>3, <1>4, <1>5, <1>6, <1>7,
     <1>8, <1>9, <1>10, <1>11, <1>12, <1>13, <1>14, <1>15
     DEF Next, RunNuc

\* A shutter that is in time is seen to be.
LEMMA MoveKept == ASSUME IInv, [Next]_vars PROVE MoveFollows'
<1> USE NucAssumption
        DEF softVars, timeVars, shutterVars, accumVars, IInv, TypeOK, ControlType, NumberType, BitType,
            MoveFollows, Awaited, ReportsNoMove, Polls, Deadlines, PollsInVain, BusyRead
<1>1. CASE Enter
  BY <1>1 DEF Enter, ReadShutter
<1>2. CASE Close
  BY <1>2 DEF Close, WriteShutter
<1>3. CASE Accumulate
  BY <1>3 DEF Accumulate, WriteStart
<1>4. CASE PollShutter
  BY <1>4 DEF PollShutter, ReadShutter
<1>5. CASE PollDone
  BY <1>5 DEF PollDone, ReadAccumulate
<1>6. CASE BeforeDeadline
  BY <1>6 DEF BeforeDeadline
<1>7. CASE DeadlinePassed
  <2>1. UNCHANGED <<heldUp, jams, moving, moveTime>> /\ pc' \in {"idle", "recover"}
    BY <1>7 DEF DeadlinePassed
  <2>2. pc \in Deadlines /\ left = 0
    BY <1>7 DEF DeadlinePassed
  <2>3. ReportsNoMove' => pc \in {"closingDeadline", "openingDeadline"}
    <3>1. pc = "collectingDeadline" => pc' = "recover" /\ result' = "timeout"
      BY <1>7 DEF DeadlinePassed
    <3>2. QED
      BY <2>2, <3>1
  <2>4. moving \in Nat /\ moveTime \in Nat /\ ShutterTimeout \in Nat
    BY MoveTimeNat
  <2>5. ASSUME ~heldUp, ~jams, pc \in {"closingDeadline", "openingDeadline"} PROVE moveTime > ShutterTimeout
    <3>1. moving > 0 /\ moving + ShutterTimeout = moveTime + left
      BY <2>5
    <3>2. QED
      BY ONLY <2>2, <2>4, <3>1, left \in Nat, TooSlow
  <2>6. QED
    BY <2>1, <2>3, <2>5
<1>8. CASE Recover
  <2>1. pc' = "idle" /\ result' # "did not reopen"
    BY <1>8 DEF Recover, ShutterFollows
  <2>2. QED
    BY <2>1
<1>9. CASE SelectTable
  BY <1>9 DEF SelectTable
<1>10. CASE ReadEntry
  BY <1>10 DEF ReadEntry
<1>11. CASE TableRead
  BY <1>11 DEF TableRead
<1>12. CASE Open
  BY <1>12 DEF Open, WriteShutter
<1>13. CASE Tick
  <2>1. left' = (IF left > 0 THEN left - 1 ELSE 0) /\ moving' = IF moving > 0 THEN moving - 1 ELSE 0
    BY <1>13 DEF Tick
  <2>2. UNCHANGED <<pc, result, busy, moveTime, jams>>
    BY <1>13 DEF Tick
  <2>3. heldUp' = (heldUp \/ (pc # "idle" /\ ~PollsInVain))
    BY <1>13 DEF Tick
  <2>4. moving \in Nat /\ left \in Nat /\ moveTime \in Nat /\ ShutterTimeout \in Nat
    BY MoveTimeNat
  <2>5. ASSUME ~heldUp', ~jams' PROVE ~heldUp /\ ~jams /\ (pc = "idle" \/ (left > 0 /\ pc \in Polls))
    BY <2>2, <2>3, <2>5
  <2>6. ASSUME ~heldUp', ~jams', pc' \in Awaited, moving' > 0
        PROVE  moving' + ShutterTimeout = moveTime' + left'
    <3>1. moving > 0 /\ left > 0 /\ pc \in Awaited
      <4>1. moving > 0
        BY <2>1, <2>4, <2>6, CountDown
      <4>2. QED
        BY <2>2, <2>5, <2>6, <4>1
    <3>2. moving + ShutterTimeout = moveTime + left
      BY <2>5, <2>6, <3>1
    <3>3. moving' = moving - 1 /\ left' = left - 1 /\ moveTime' = moveTime
      BY <2>1, <2>2, <3>1
    <3>4. QED
      BY ONLY <2>4, <3>2, <3>3, Together
  <2>7. ~heldUp' /\ ~jams' => pc \notin {"closingDeadline", "openingDeadline"} /\ ~(pc = "recover")
    BY <2>5
  <2>8. ReportsNoMove' <=> ReportsNoMove
    BY <2>2
  <2>9. QED
    BY <2>2, <2>5, <2>6, <2>7, <2>8
<1>14. CASE Fault
  BY <1>14 DEF Fault
<1>15. CASE UNCHANGED vars
  BY <1>15 DEF vars
<1>16. QED
  BY <1>1, <1>2, <1>3, <1>4, <1>5, <1>6, <1>7,
     <1>8, <1>9, <1>10, <1>11, <1>12, <1>13, <1>14, <1>15
     DEF Next, RunNuc

LEMMA NextInvariant == IInv /\ [Next]_vars => IInv'
BY ControlKept, NumbersKept, BitsKept, ShutterKept, TableKept, TimeKept, MoveKept
   DEF IInv, TypeOK

(***************************************************************************)
(* Invariant: the inductive invariant holds in every reachable state.      *)
(***************************************************************************)
THEOREM Invariant == Spec => []IInv
BY InitInvariant, NextInvariant, PTL DEF Spec

(***************************************************************************)
(* ShutterOpens: no NUC, whichever register poll times out and wherever    *)
(* its thread is held up, leaves the channel blind (nuc.hpp:33-36).        *)
(***************************************************************************)
THEOREM ShutterOpens == Spec => []SeesAgain
<1>1. IInv => SeesAgain
  <2> SUFFICES ASSUME IInv, pc = "idle" PROVE ~close /\ (result = "ok" => ~busy /\ moving = 0)
    BY DEF SeesAgain
  <2>1. ~close
    BY DEF IInv, ShutterFollows, Shut
  <2>2. ASSUME result = "ok" PROVE ~busy /\ moving = 0
    <3>1. ~busy
      BY <2>2 DEF IInv, ShutterFollows
    <3>2. ~(moving > 0) /\ moving \in Nat
      BY <3>1 DEF IInv, TypeOK, NumberType, ShutterFollows
    <3>3. QED
      BY <3>1, <3>2
  <2>3. QED
    BY <2>1, <2>2
<1>2. QED
  BY <1>1, Invariant, PTL

(***************************************************************************)
(* OwnTable: on a block whose START clears DONE, the coefficients read are *)
(* those of this NUC's accumulation, behind a closed shutter, in order     *)
(* (nuc.hpp:82-101, isp_model.cpp:70-82).                                  *)
(***************************************************************************)
THEOREM OwnTable == ASSUME StickyDone = FALSE PROVE Spec => []TableOfThisNuc
<1>1. IInv => TableOfThisNuc
  <2> SUFFICES ASSUME IInv PROVE TableOfThisNuc
    OBVIOUS
  <2>1. ASSUME pc \in {"collecting", "address", "table"} PROVE close /\ moving = 0
    <3>1. close /\ ~busy
      BY <2>1 DEF IInv, ShutterFollows, Shut, Still
    <3>2. ~(moving > 0) /\ moving \in Nat
      BY <3>1 DEF IInv, TypeOK, NumberType, ShutterFollows
    <3>3. QED
      BY <3>1, <3>2
  <2>2. QED
    BY <2>1, StickyDone = FALSE DEF IInv, TableFollows, TableOfThisNuc
<1>2. QED
  BY <1>1, Invariant, PTL

(***************************************************************************)
(* InTime: a NUC whose thread is not held up ends within its three         *)
(* timeouts, whatever the block does (nuc.hpp:46-56).                      *)
(***************************************************************************)
THEOREM InTime == Spec => []WithinTimeouts
<1>1. IInv => WithinTimeouts
  BY DEF IInv, TimeFollows, WithinTimeouts
<1>2. QED
  BY <1>1, Invariant, PTL

(***************************************************************************)
(* NoAlarm: of a shutter that moves in time nobody hears (nuc.hpp:49-55).  *)
(***************************************************************************)
THEOREM NoAlarm == Spec => []NoFalseAlarm
<1>1. IInv => NoFalseAlarm
  BY DEF IInv, TypeOK, BitType, MoveFollows, NoFalseAlarm
<1>2. QED
  BY <1>1, Invariant, PTL
=============================================================================
