-------------------------------- MODULE Nuc --------------------------------
(***************************************************************************)
(* modules/sensor: run_nuc, against the block as framework/hal models it   *)
(* (isp_model.cpp), in time.                                               *)
(*                                                                         *)
(* Time is counted in ticks.  Each register access of run_nuc is a step,   *)
(* and so is each look at the clock: the thread may be descheduled between *)
(* any two of them; heldUp remembers whether this NUC was.                 *)
(***************************************************************************)
EXTENDS Naturals

CONSTANTS
    ShutterTimeout, AccumulateTimeout,  \* NucConfig, in ticks
    TableEntries,
    MoveTimes, AccumulateTimes,         \* how long the hardware may take
    StickyDone,  \* DONE is cleared only by writing 1 to it
    MaxElapsed   \* where the count of a NUC's ticks stops

ASSUME NucAssumption ==
    /\ ShutterTimeout \in Nat /\ AccumulateTimeout \in Nat /\ TableEntries \in Nat
    /\ MoveTimes \subseteq Nat /\ AccumulateTimes \subseteq Nat
    /\ StickyDone \in BOOLEAN /\ MaxElapsed \in Nat

VARIABLES
    pc,       \* where run_nuc is; "idle" when nobody is in it
    left,     \* ticks to the deadline of the poll
    index,    \* the table entry run_nuc expects next
    result,   \* what the last NUC returned
    elapsed,  \* ticks since run_nuc was entered
    heldUp,   \* of which some went by otherwise than polling in vain
    close, busy, fault,  \* SHUTTER
    moving,   \* ticks until the shutter stands still
    moveTime, \* what its last move takes
    jams,     \* it never does
    start, done,   \* NUC_ACC_CTRL
    accumulating,  \* ticks until the accumulation is complete
    addr      \* NUC_TABLE_ADDR

softVars == <<pc, left, index, result>>
shutterVars == <<close, busy, fault, moving, moveTime, jams>>
accumVars == <<start, done, accumulating>>
timeVars == <<elapsed, heldUp>>
vars == <<softVars, timeVars, shutterVars, accumVars, addr>>

Polls == {"closing", "collecting", "opening"}
Deadlines == {"closingDeadline", "collectingDeadline", "openingDeadline"}
Failures == {"fault", "did not close", "timeout", "did not reopen"}

ControlType ==
    /\ pc \in {"idle", "close", "accumulate", "address", "table", "open", "recover"}
                \cup Polls \cup Deadlines
    /\ result \in {"none", "ok"} \cup Failures

NumberType ==
    /\ left \in Nat /\ elapsed \in 0..MaxElapsed
    /\ index \in 0..TableEntries /\ addr \in 0..TableEntries
    /\ moving \in Nat /\ accumulating \in Nat /\ moveTime \in MoveTimes \cup {0}

BitType ==
    /\ close \in BOOLEAN /\ busy \in BOOLEAN /\ fault \in BOOLEAN /\ jams \in BOOLEAN /\ heldUp \in BOOLEAN
    /\ start \in BOOLEAN /\ done \in BOOLEAN

TypeOK == ControlType /\ NumberType /\ BitType

\* The block after its reset values are in place; it may be one that jams.
Init ==
    /\ pc = "idle" /\ left = 0 /\ index = 0 /\ result = "none" /\ elapsed = 0 /\ heldUp = FALSE
    /\ close = FALSE /\ busy = FALSE /\ fault = FALSE /\ moving = 0 /\ moveTime = 0
    /\ jams \in BOOLEAN
    /\ start = FALSE /\ done = FALSE /\ accumulating = 0
    /\ addr = 0

-----------------------------------------------------------------------------
(***************************************************************************)
(* The block: what a read of SHUTTER and of NUC_ACC_CTRL returns, after    *)
(* the side effect of the read, and what a write of them does.             *)
(***************************************************************************)
BusyRead == busy /\ (jams \/ moving > 0)
DoneRead == done \/ (start /\ accumulating = 0)

ReadShutter == busy' = BusyRead
ReadAccumulate == done' = DoneRead

WriteShutter(c) ==
    /\ close' = c /\ busy' = TRUE
    /\ \E t \in MoveTimes : moving' = t /\ moveTime' = t
    /\ UNCHANGED <<fault, jams>>

\* Mutated: START leaves DONE as it is.
WriteStartOnly ==
    /\ start' = TRUE
    /\ \E t \in AccumulateTimes : accumulating' = t
    /\ UNCHANGED done

\* START, with 0 in the DONE bit.
WriteStart ==
    /\ start' = TRUE
    /\ done' = (StickyDone /\ done)
    /\ \E t \in AccumulateTimes : accumulating' = t

\* The hardware detects a fault of the shutter, or recovers from it.
Fault ==
    /\ fault' = ~fault
    /\ UNCHANGED <<softVars, timeVars, close, busy, moving, moveTime, jams, accumVars, addr>>

-----------------------------------------------------------------------------
(***************************************************************************)
(* run_nuc.                                                                *)
(***************************************************************************)
Enter ==
    /\ pc = "idle"
    /\ elapsed' = 0 /\ heldUp' = FALSE
    /\ ReadShutter
    /\ IF fault THEN pc' = "idle" /\ result' = "fault"
                ELSE pc' = "close" /\ result' = "none"
    /\ UNCHANGED <<left, index, close, fault, moving, moveTime, jams, accumVars, addr>>

\* Mutated: a tick less for the shutter.
CloseHasty ==
    /\ pc = "close"
    /\ WriteShutter(TRUE)
    /\ pc' = "closing" /\ left' = ShutterTimeout - 1
    /\ UNCHANGED <<index, result, timeVars, accumVars, addr>>

Close ==
    /\ pc = "close"
    /\ WriteShutter(TRUE)
    /\ pc' = "closing" /\ left' = ShutterTimeout
    /\ UNCHANGED <<index, result, timeVars, accumVars, addr>>

Accumulate ==
    /\ pc = "accumulate"
    /\ WriteStart
    /\ pc' = "collecting" /\ left' = AccumulateTimeout
    /\ UNCHANGED <<index, result, timeVars, shutterVars, addr>>

\* poll_until: the predicate, then the clock, then again.
PollShutter ==
    /\ pc \in {"closing", "opening"}
    /\ ReadShutter
    /\ \/ /\ ~BusyRead /\ pc = "closing"
          /\ pc' = "accumulate" /\ UNCHANGED result
       \/ /\ ~BusyRead /\ pc = "opening"
          /\ pc' = "idle" /\ result' = "ok"
       \/ /\ BusyRead
          /\ pc' = IF pc = "closing" THEN "closingDeadline" ELSE "openingDeadline"
          /\ UNCHANGED result
    /\ UNCHANGED <<left, index, timeVars, close, fault, moving, moveTime, jams, accumVars, addr>>

PollDone ==
    /\ pc = "collecting"
    /\ ReadAccumulate
    /\ pc' = IF DoneRead THEN "address" ELSE "collectingDeadline"
    /\ UNCHANGED <<left, index, result, timeVars, shutterVars, start, accumulating, addr>>

\* Mutated: the clock is not looked at.
PollAgain ==
    /\ pc \in Deadlines
    /\ pc' = CASE pc = "closingDeadline" -> "closing"
               [] pc = "collectingDeadline" -> "collecting"
               [] pc = "openingDeadline" -> "opening"
    /\ UNCHANGED <<left, index, result, timeVars, shutterVars, accumVars, addr>>

BeforeDeadline ==
    /\ pc \in Deadlines /\ left > 0
    /\ pc' = CASE pc = "closingDeadline" -> "closing"
               [] pc = "collectingDeadline" -> "collecting"
               [] pc = "openingDeadline" -> "opening"
    /\ UNCHANGED <<left, index, result, timeVars, shutterVars, accumVars, addr>>

\* Mutated: a failure returns as it is.
DeadlineReturns ==
    /\ pc \in Deadlines /\ left = 0
    /\ pc' = "idle"
    /\ result' = CASE pc = "closingDeadline" -> "did not close"
                   [] pc = "collectingDeadline" -> "timeout"
                   [] pc = "openingDeadline" -> "did not reopen"
    /\ UNCHANGED <<left, index, timeVars, shutterVars, accumVars, addr>>

DeadlinePassed ==
    /\ pc \in Deadlines /\ left = 0
    /\ IF pc = "openingDeadline"
         THEN pc' = "idle" /\ result' = "did not reopen"
         ELSE /\ pc' = "recover"
              /\ result' = IF pc = "closingDeadline" THEN "did not close" ELSE "timeout"
    /\ UNCHANGED <<left, index, timeVars, shutterVars, accumVars, addr>>

\* open_shutter on the way out of a failure, without waiting for it.
Recover ==
    /\ pc = "recover"
    /\ WriteShutter(FALSE)
    /\ pc' = "idle"
    /\ UNCHANGED <<left, index, result, timeVars, accumVars, addr>>

SelectTable ==
    /\ pc = "address"
    /\ addr' = 0 /\ index' = 0
    /\ pc' = "table"
    /\ UNCHANGED <<left, result, timeVars, shutterVars, accumVars>>

\* A read of NUC_TABLE_DATA returns the entry ADDR selects and moves it on.
ReadEntry ==
    /\ pc = "table" /\ index < TableEntries
    /\ index' = index + 1 /\ addr' = addr + 1
    /\ UNCHANGED <<pc, left, result, timeVars, shutterVars, accumVars>>

TableRead ==
    /\ pc = "table" /\ index = TableEntries
    /\ pc' = "open"
    /\ UNCHANGED <<left, index, result, timeVars, shutterVars, accumVars, addr>>

\* Mutated: the timeout of the accumulation.
OpenPatient ==
    /\ pc = "open"
    /\ WriteShutter(FALSE)
    /\ pc' = "opening" /\ left' = AccumulateTimeout
    /\ UNCHANGED <<index, result, timeVars, accumVars, addr>>

Open ==
    /\ pc = "open"
    /\ WriteShutter(FALSE)
    /\ pc' = "opening" /\ left' = ShutterTimeout
    /\ UNCHANGED <<index, result, timeVars, accumVars, addr>>

RunNuc ==
    \/ Close \/ Accumulate \/ PollShutter \/ PollDone \/ BeforeDeadline \/ DeadlinePassed
    \/ Recover \/ SelectTable \/ ReadEntry \/ TableRead \/ Open

-----------------------------------------------------------------------------
PollsInVain ==
    /\ left > 0
    /\ \/ pc \in {"closing", "opening"} /\ BusyRead
       \/ pc = "collecting" /\ ~DoneRead

Tick ==
    /\ left' = IF left > 0 THEN left - 1 ELSE 0
    /\ moving' = IF moving > 0 THEN moving - 1 ELSE 0
    /\ accumulating' = IF accumulating > 0 THEN accumulating - 1 ELSE 0
    /\ heldUp' = (heldUp \/ (pc # "idle" /\ ~PollsInVain))
    /\ elapsed' = IF pc = "idle" \/ elapsed = MaxElapsed THEN elapsed ELSE elapsed + 1
    /\ UNCHANGED <<pc, index, result, close, busy, fault, moveTime, jams, start, done, addr>>

Next == Enter \/ RunNuc \/ Tick \/ Fault

Spec == Init /\ [][Next]_vars

\* The thread that is in run_nuc gets to run, and the clock goes on.
FairSpec == Spec /\ WF_vars(RunNuc) /\ WF_vars(Tick)

-----------------------------------------------------------------------------
(***************************************************************************)
(* SeesAgain: whichever way run_nuc returns, the shutter has been told to  *)
(* open; and when it returns ok the shutter is open and stands still       *)
(* (nuc.hpp:33-36,103-110).                                                *)
(***************************************************************************)
SeesAgain == pc = "idle" => ~close /\ (result = "ok" => ~busy /\ moving = 0)

(***************************************************************************)
(* TableOfThisNuc: the coefficients are read only when the accumulation    *)
(* that this NUC started is complete and the shutter was closed for it,    *)
(* and they are read from the first one on, in order (nuc.hpp:73-101).     *)
(***************************************************************************)
TableOfThisNuc ==
    /\ pc \in {"collecting", "address", "table"} => close /\ moving = 0
    /\ pc \in {"address", "table", "open"} => accumulating = 0
    /\ pc = "table" => addr = index

(***************************************************************************)
(* Returns: no state of the block keeps a caller in run_nuc for ever: a    *)
(* shutter that jams runs into the deadline (nuc.hpp:46-56).               *)
(***************************************************************************)
Returns == pc # "idle" ~> pc = "idle"

(***************************************************************************)
(* WithinTimeouts: on a thread that is not held up, a NUC takes at most    *)
(* its three timeouts (nuc.hpp:20-25,46-56).                               *)
(***************************************************************************)
WithinTimeouts == ~heldUp => elapsed <= 2 * ShutterTimeout + AccumulateTimeout

(***************************************************************************)
(* NoFalseAlarm: the shutter is reported not to have closed or reopened    *)
(* only if it jams, or needs longer than its timeout, or the thread was    *)
(* held up: poll_until gives up on the clock, after a read that may be     *)
(* old (nuc.hpp:49-55, docs/04_HAL_REGISTER_MAP.md:37).                    *)
(***************************************************************************)
ReportsNoMove ==
    \/ pc = "recover" /\ result = "did not close"
    \/ pc = "idle" /\ result = "did not reopen"

NoFalseAlarm == ReportsNoMove => jams \/ moveTime > ShutterTimeout \/ heldUp

-----------------------------------------------------------------------------
(***************************************************************************)
(* The inductive invariant: what the position in run_nuc says of the       *)
(* shutter, of the accumulation and the table on a block whose START       *)
(* clears DONE, and of the time on a thread that is not held up.           *)
(***************************************************************************)
Shut == {"closing", "closingDeadline", "accumulate", "collecting", "collectingDeadline",
         "address", "table", "open", "recover"}
Still == {"accumulate", "collecting", "collectingDeadline", "address", "table", "open"}

ShutterFollows ==
    /\ close <=> pc \in Shut
    /\ moving > 0 => busy
    /\ pc \in Still \/ (pc = "idle" /\ result = "ok") => ~busy
    /\ pc = "recover" => result \in {"did not close", "timeout"}

TableFollows ==
    /\ ~StickyDone => /\ done => accumulating = 0
                      /\ pc \in {"address", "table", "open"} => accumulating = 0
    /\ pc = "table" => addr = index

TimeFollows ==
    ~heldUp =>
        /\ pc = "close" => elapsed = 0
        /\ pc \in {"closing", "closingDeadline"} => elapsed + left <= ShutterTimeout
        /\ pc = "accumulate" => elapsed <= ShutterTimeout
        /\ pc \in {"collecting", "collectingDeadline"} =>
             elapsed + left <= ShutterTimeout + AccumulateTimeout
        /\ pc \in {"address", "table", "open", "recover"} =>
             elapsed <= ShutterTimeout + AccumulateTimeout
        /\ pc \in {"opening", "openingDeadline"} =>
             elapsed + left <= 2 * ShutterTimeout + AccumulateTimeout
        /\ elapsed <= 2 * ShutterTimeout + AccumulateTimeout

\* While it is polled the shutter and the deadline count down together.
Awaited == {"closing", "closingDeadline", "opening", "openingDeadline"}

MoveFollows ==
    ~heldUp /\ ~jams =>
        /\ pc \in Awaited /\ moving > 0 => moving + ShutterTimeout = moveTime + left
        /\ pc \in {"closingDeadline", "openingDeadline"} => moving > 0
        /\ ReportsNoMove => moveTime > ShutterTimeout

IInv == TypeOK /\ ShutterFollows /\ TableFollows /\ TimeFollows /\ MoveFollows
=============================================================================
