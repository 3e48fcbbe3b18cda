------------------------------ MODULE SpscRing ------------------------------
(***************************************************************************)
(* framework/log/include/optronic/log/ring.hpp: the single-producer        *)
(* single-consumer ring that carries log records from one thread to the    *)
(* sink thread.                                                            *)
(*                                                                         *)
(* Each of try_push and try_pop is three steps: the acquire load of the    *)
(* other side's index (the own index is only ever written by its owner, so *)
(* its relaxed load is exact), the copy of a 256-byte record, which takes  *)
(* a while, and the release store of the own index.                        *)
(*                                                                         *)
(* An acquire load may return any value of the other index in its          *)
(* modification order from the last value this side saw on: readSeen and   *)
(* writeSeen are those last values.                                        *)
(*                                                                         *)
(* The indices are std::size_t, free-running, and wrap at Modulus (2^64 in *)
(* the code); the slot of an index is the index modulo the capacity.       *)
(***************************************************************************)
EXTENDS Naturals, Sequences

CONSTANTS
    Records,    \* the records a thread may log
    NoRecord,   \* the contents of a slot or buffer never written
    Capacity,   \* SpscRing<Capacity>
    Modulus     \* 2^w, w the width of std::size_t

(***************************************************************************)
(* The static_asserts of ring.hpp ask for a power of two of at least 2; of *)
(* that, what makes the ring work is that Capacity divides Modulus and     *)
(* that a count of Capacity + 1 still fits.                                *)
(***************************************************************************)
ASSUME RingAssumption ==
    /\ Capacity \in Nat /\ Capacity >= 2
    /\ Modulus \in Nat
    /\ \E k \in 2..Modulus : Modulus = k * Capacity

ASSUME RecordsAssumption == NoRecord \in Records

VARIABLES
    write, read,         \* write_, read_
    slots,               \* slots_
    readSeen, writeSeen, \* read_ as the producer, write_ as the consumer, last saw it
    prodPc, item,        \* where try_push is, and its argument
    consPc, out,         \* where try_pop is, and its out parameter
    pushOk               \* the last return value of try_push

prodVars == <<write, prodPc, item, readSeen, pushOk>>
consVars == <<read, consPc, out, writeSeen>>
vars == <<write, read, slots, readSeen, writeSeen, prodPc, item, consPc, out, pushOk>>

Index == 0..(Modulus - 1)

\* Unsigned arithmetic of the index type, written without the remainder.
Inc(i) == IF i + 1 = Modulus THEN 0 ELSE i + 1
Minus(i, j) == IF i >= j THEN i - j ELSE i - j + Modulus
Plus(i, n) == IF i + n >= Modulus THEN i + n - Modulus ELSE i + n

\* Mutated forms, which TLC must refute, stand before what they mutate.
\* Here: the mask is one bit short.
SlotHalved(i) == i % (Capacity - 1)

\* i & kMask
Slot(i) == i % Capacity

\* The values of an index from `from' to `to' in its modification order.
Between(from, to) == {i \in Index : Minus(i, from) <= Minus(to, from)}

TypeOK ==
    /\ write \in Index /\ read \in Index
    /\ readSeen \in Index /\ writeSeen \in Index
    /\ slots \in [0..(Capacity - 1) -> Records]
    /\ prodPc \in {"idle", "copy", "publish"}
    /\ consPc \in {"idle", "copy", "release"}
    /\ item \in Records /\ out \in Records
    /\ pushOk \in BOOLEAN

Init ==
    /\ write = 0 /\ read = 0
    /\ readSeen = 0 /\ writeSeen = 0
    /\ slots = [s \in 0..(Capacity - 1) |-> NoRecord]
    /\ prodPc = "idle" /\ item = NoRecord
    /\ consPc = "idle" /\ out = NoRecord
    /\ pushOk = TRUE

-----------------------------------------------------------------------------
\* next - read_.load(acquire) > Capacity, with v the value the load returned.
Full(v) == Minus(Inc(write), v) > Capacity

PushAdmit(r) ==
    /\ prodPc = "idle"
    /\ \E v \in Between(readSeen, read) : ~Full(v) /\ readSeen' = v
    /\ item' = r
    /\ prodPc' = "copy"
    /\ UNCHANGED <<write, slots, pushOk, consVars>>

PushRefuse ==
    /\ prodPc = "idle"
    /\ \E v \in Between(readSeen, read) : Full(v) /\ readSeen' = v
    /\ pushOk' = FALSE
    /\ UNCHANGED <<write, slots, prodPc, item, consVars>>

PushCopy ==
    /\ prodPc = "copy"
    /\ slots' = [slots EXCEPT ![Slot(write)] = item]
    /\ prodPc' = "publish"
    /\ UNCHANGED <<write, item, readSeen, pushOk, consVars>>

PushPublish ==
    /\ prodPc = "publish"
    /\ write' = Inc(write)
    /\ pushOk' = TRUE
    /\ prodPc' = "idle"
    /\ UNCHANGED <<slots, item, readSeen, consVars>>

\* Mutated: the test looks one ahead.
EmptyLate(v) == Inc(v) = read

\* rd == write_.load(acquire), with v the value the load returned.
Empty(v) == v = read

PopAdmit ==
    /\ consPc = "idle"
    /\ \E v \in Between(writeSeen, write) : ~Empty(v) /\ writeSeen' = v
    /\ consPc' = "copy"
    /\ UNCHANGED <<read, slots, out, prodVars>>

PopEmpty ==
    /\ consPc = "idle"
    /\ \E v \in Between(writeSeen, write) : Empty(v) /\ writeSeen' = v
    /\ UNCHANGED <<read, slots, consPc, out, prodVars>>

PopCopy ==
    /\ consPc = "copy"
    /\ out' = slots[Slot(read)]
    /\ consPc' = "release"
    /\ UNCHANGED <<read, slots, writeSeen, prodVars>>

PopRelease ==
    /\ consPc = "release"
    /\ read' = Inc(read)
    /\ consPc' = "idle"
    /\ UNCHANGED <<slots, out, writeSeen, prodVars>>

Produce == (\E r \in Records : PushAdmit(r)) \/ PushRefuse \/ PushCopy \/ PushPublish
Consume == PopAdmit \/ PopEmpty \/ PopCopy \/ PopRelease
Next == Produce \/ Consume

(***************************************************************************)
(* The sink thread keeps calling try_pop, and a release store becomes      *)
(* visible to the loads that keep asking for it: if the ring stays         *)
(* non-empty, some try_pop sees it.  Nothing makes a producer log.         *)
(***************************************************************************)
Fairness == WF_vars(PopAdmit) /\ WF_vars(PopCopy) /\ WF_vars(PopRelease)

Spec == Init /\ [][Next]_vars
FairSpec == Spec /\ Fairness
-----------------------------------------------------------------------------
(***************************************************************************)
(* NoSlotRace: a record is never copied into a slot while the consumer is  *)
(* copying it out, whatever the ages of the values each side has loaded.   *)
(* The capacity test of try_push (ring.hpp:41) and the emptiness test of   *)
(* try_pop (ring.hpp:52) are all that keeps the two memcpys apart.         *)
(***************************************************************************)
NoSlotRace ==
    prodPc = "copy" /\ consPc = "copy" => Slot(write) # Slot(read)

(***************************************************************************)
(* ViewsInOrder: the four indices, true and remembered, stay in the order  *)
(* readSeen, read, writeSeen, write around the index circle and span at    *)
(* most Capacity, so that no difference ring.hpp computes of two of them   *)
(* is ever taken the wrong way round; and neither side is past its test    *)
(* unless the test still holds.  NoSlotRace follows.                       *)
(***************************************************************************)
ViewsInOrder ==
    /\ Minus(read, readSeen) + Minus(writeSeen, read) + Minus(write, writeSeen) <= Capacity
    /\ prodPc # "idle" => Minus(write, readSeen) < Capacity
    /\ consPc # "idle" => writeSeen # read

\* What try_push has copied is still there when it is published.
CopyStands == prodPc = "publish" => slots[Slot(write)] = item

IInv == TypeOK /\ ViewsInOrder /\ CopyStands

-----------------------------------------------------------------------------
(***************************************************************************)
(* The refinement.  A record is sent when its index is published and taken *)
(* when it has been copied out; until it is released its slot still counts *)
(* as unseen by the producer.                                              *)
(***************************************************************************)
Taken == IF consPc = "release" THEN Inc(read) ELSE read
Contents == [n \in 1..Minus(write, Taken) |-> slots[Slot(Plus(Taken, n - 1))]]

Channel == INSTANCE LogChannel WITH
    chan <- Contents,
    unseen <- Minus(Taken, readSeen),
    accepted <- pushOk,
    taken <- out

(***************************************************************************)
(* ImplementsChannel: through any interleaving, any staleness and any      *)
(* index wrap, the ring is the bounded FIFO of LogChannel: no record lost, *)
(* duplicated, torn or out of order, a refusal only on a view in which the *)
(* ring was full, and every accepted record taken in the end.              *)
(***************************************************************************)
ImplementsChannel == Channel!Spec
=============================================================================
