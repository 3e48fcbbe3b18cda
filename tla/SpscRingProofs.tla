--------------------------- MODULE SpscRingProofs ---------------------------
(***************************************************************************)
(* Proofs about SpscRing for every capacity, index width and set of        *)
(* records: the inductive invariant, the absence of slot races, and the    *)
(* safety half of the refinement of LogChannel.                            *)
(***************************************************************************)
EXTENDS SpscRing, SequenceTheorems, TLAPS

LEMMA ConstantFacts ==
    /\ Capacity \in Nat /\ Capacity >= 2
    /\ Modulus \in Nat /\ Modulus >= Capacity + 2
<1>1. PICK k \in 2..Modulus : Modulus = k * Capacity
  BY RingAssumption
<1>2. k * Capacity >= 2 * Capacity
  BY <1>1, RingAssumption
<1> QED
  BY <1>1, <1>2, RingAssumption

(***************************************************************************)
(* Two indices less than Capacity apart have different slots, across the   *)
(* wrap as well: this is where Capacity must divide Modulus.               *)
(***************************************************************************)
LEMMA RemainderFact ==
    ASSUME NEW i \in Nat
    PROVE  /\ i \div Capacity \in Nat
           /\ Slot(i) \in 0..(Capacity - 1)
           /\ i = Capacity * (i \div Capacity) + Slot(i)
BY ConstantFacts DEF Slot

LEMMA MultiplesApart ==
    ASSUME NEW c \in Nat, c >= 1, NEW p \in Int, NEW q \in Int, p > q
    PROVE  c * p - c * q >= c
<1>1. c * p - c * q = c * (p - q)
  OBVIOUS
<1>2. c * (p - q) >= c * 1
  OBVIOUS
<1> QED
  BY <1>1, <1>2

LEMMA SlotDistinct ==
    ASSUME NEW i \in Index, NEW j \in Index, i # j, Minus(i, j) < Capacity
    PROVE  Slot(i) # Slot(j)
<1> SUFFICES ASSUME Slot(i) = Slot(j) PROVE FALSE
  OBVIOUS
<1> DEFINE qi == i \div Capacity
           qj == j \div Capacity
<1>0. i \in Nat /\ j \in Nat
  BY ConstantFacts DEF Index
<1>1. /\ qi \in Nat /\ qj \in Nat
      /\ i - j = Capacity * qi - Capacity * qj
  <2>1. qi \in Nat /\ i = Capacity * qi + Slot(i) /\ Slot(i) \in Nat
    BY <1>0, RemainderFact, ConstantFacts
  <2>2. qj \in Nat /\ j = Capacity * qj + Slot(j)
    BY <1>0, RemainderFact
  <2> HIDE DEF qi, qj
  <2>3. Capacity * qi \in Int /\ Capacity * qj \in Int
    BY <2>1, <2>2, ConstantFacts
  <2> QED
    BY <2>1, <2>2, <2>3
<1> HIDE DEF qi, qj
<1>2. CASE i >= j
  <2>1. i - j > 0 /\ i - j < Capacity
    BY <1>0, <1>2 DEF Minus
  <2>2. CASE qi > qj
    BY <1>1, <2>1, <2>2, MultiplesApart, ConstantFacts
  <2>3. CASE qi = qj
    BY <1>1, <2>1, <2>3, ConstantFacts
  <2>4. CASE qi < qj
    <3>1. Capacity * qj - Capacity * qi >= Capacity
      BY <1>1, <2>4, MultiplesApart, ConstantFacts
    <3> QED
      BY <3>1, <1>0, <1>1, <2>1, ConstantFacts
  <2> QED
    BY <2>2, <2>3, <2>4, <1>1
<1>3. CASE i < j
  <2>1. PICK k \in Nat : k >= 2 /\ Modulus = Capacity * k
    BY RingAssumption
  <2>2. i - j + Modulus > 0 /\ i - j + Modulus < Capacity
    BY <1>0, <1>3, ConstantFacts DEF Minus, Index
  <2>3. i - j + Modulus = Capacity * (qi + k) - Capacity * qj
    BY <1>1, <2>1, ConstantFacts
  <2>4. CASE qi + k > qj
    <3>1. Capacity * (qi + k) - Capacity * qj >= Capacity
      BY <1>1, <2>1, <2>4, MultiplesApart, ConstantFacts
    <3> QED
      BY <3>1, <2>2, <2>3, <1>0, ConstantFacts
  <2>5. CASE qi + k = qj
    BY <1>1, <2>1, <2>2, <2>3, <2>5, ConstantFacts
  <2>6. CASE qi + k < qj
    <3>1. Capacity * qj - Capacity * (qi + k) >= Capacity
      BY <1>1, <2>1, <2>6, MultiplesApart, ConstantFacts
    <3> QED
      BY <3>1, <2>2, <2>3, <1>0, <1>1, <2>1, ConstantFacts
  <2> QED
    BY <2>4, <2>5, <2>6, <1>1, <2>1
<1> QED
  BY <1>0, <1>2, <1>3

-----------------------------------------------------------------------------
(***************************************************************************)
(* Arithmetic of the index circle.                                         *)
(***************************************************************************)
LEMMA IndexNat ==
    ASSUME NEW i \in Index
    PROVE  i \in Nat /\ i < Modulus
BY ConstantFacts DEF Index

LEMMA IncIndex == ASSUME NEW i \in Index PROVE Inc(i) \in Index
BY ConstantFacts DEF Index, Inc

LEMMA SlotRange == ASSUME NEW i \in Index PROVE Slot(i) \in 0..(Capacity - 1)
BY IndexNat, RemainderFact

LEMMA MinusFacts ==
    ASSUME NEW i \in Index, NEW j \in Index
    PROVE  /\ Minus(i, j) \in Nat /\ Minus(i, j) < Modulus
           /\ i # j => Minus(i, j) > 0
           /\ i = j => Minus(i, j) = 0
BY IndexNat, ConstantFacts DEF Minus

\* A distance splits at an index that lies on the way.
LEMMA Between3 ==
    ASSUME NEW i \in Index, NEW j \in Index, NEW k \in Index,
           Minus(j, i) + Minus(k, j) < Modulus
    PROVE  Minus(k, i) = Minus(j, i) + Minus(k, j)
BY IndexNat, ConstantFacts DEF Minus

LEMMA AdvanceLeft ==
    ASSUME NEW i \in Index, NEW j \in Index, Minus(i, j) + 1 < Modulus
    PROVE  Minus(Inc(i), j) = Minus(i, j) + 1
BY IndexNat, ConstantFacts DEF Inc, Minus

LEMMA AdvanceRight ==
    ASSUME NEW i \in Index, NEW j \in Index, i # j
    PROVE  Minus(i, Inc(j)) = Minus(i, j) - 1
BY IndexNat, ConstantFacts DEF Inc, Minus

LEMMA ArcSplit ==
    ASSUME NEW i \in Index, NEW j \in Index, NEW k \in Index, Minus(j, i) <= Minus(k, i)
    PROVE  Minus(k, i) = Minus(j, i) + Minus(k, j)
BY IndexNat, ConstantFacts DEF Minus

\* What a load returns lies on the way from the last value seen.
LEMMA LoadFact ==
    ASSUME NEW from \in Index, NEW to \in Index, NEW v \in Between(from, to)
    PROVE  /\ v \in Index
           /\ Minus(to, from) = Minus(v, from) + Minus(to, v)
<1>1. v \in Index /\ Minus(v, from) <= Minus(to, from)
  BY DEF Between
<1> QED
  BY <1>1, ArcSplit

(***************************************************************************)
(* The distances between the four indices add up.                          *)
(***************************************************************************)
LEMMA Distances ==
    ASSUME NEW rs \in Index, NEW rd \in Index, NEW ws \in Index, NEW wr \in Index,
           Minus(rd, rs) + Minus(ws, rd) + Minus(wr, ws) <= Capacity
    PROVE  /\ Minus(rd, rs) \in Nat /\ Minus(ws, rd) \in Nat /\ Minus(wr, ws) \in Nat
           /\ Minus(wr, rd) = Minus(ws, rd) + Minus(wr, ws)
           /\ Minus(wr, rs) = Minus(rd, rs) + Minus(ws, rd) + Minus(wr, ws)
<1>1. /\ Minus(rd, rs) \in Nat /\ Minus(ws, rd) \in Nat /\ Minus(wr, ws) \in Nat
      /\ Capacity < Modulus /\ Capacity \in Nat /\ Modulus \in Nat
  BY MinusFacts, ConstantFacts
<1>2. Minus(wr, rd) = Minus(ws, rd) + Minus(wr, ws)
  BY <1>1, Between3
<1>3. Minus(wr, rs) = Minus(rd, rs) + Minus(wr, rd)
  BY <1>1, <1>2, Between3
<1> QED
  BY <1>1, <1>2, <1>3

-----------------------------------------------------------------------------
(***************************************************************************)
(* InvariantHolds: the order of the four indices, the tests of both sides  *)
(* and the copied record survive every step of try_push and try_pop.       *)
(***************************************************************************)
LEMMA InitInvariant == Init => IInv
<1> SUFFICES ASSUME Init PROVE IInv
  OBVIOUS
<1>1. 0 \in Index
  BY ConstantFacts DEF Index
<1>2. TypeOK
  BY <1>1, RecordsAssumption, ConstantFacts DEF Init, TypeOK
<1>3. ViewsInOrder
  BY <1>1, MinusFacts, ConstantFacts DEF Init, ViewsInOrder
<1> QED
  BY <1>2, <1>3 DEF Init, IInv, CopyStands

LEMMA NextInvariant == IInv /\ [Next]_vars => IInv'
<1> SUFFICES ASSUME IInv, [Next]_vars PROVE IInv'
  OBVIOUS
<1>t. TypeOK /\ ViewsInOrder /\ CopyStands
  BY DEF IInv
<1>i. write \in Index /\ read \in Index /\ readSeen \in Index /\ writeSeen \in Index
  BY <1>t DEF TypeOK
<1> DEFINE a == Minus(read, readSeen)
           b == Minus(writeSeen, read)
           c == Minus(write, writeSeen)
<1>a. a + b + c <= Capacity
  BY <1>t DEF ViewsInOrder
<1>d. /\ a \in Nat /\ b \in Nat /\ c \in Nat
      /\ Minus(write, read) = b + c
      /\ Minus(write, readSeen) = a + b + c
  BY <1>i, <1>a, Distances
<1>n. Capacity \in Nat /\ Modulus \in Nat /\ Capacity + 2 <= Modulus
  BY ConstantFacts
<1>1. ASSUME NEW r \in Records, PushAdmit(r) PROVE IInv'
  <2>1. PICK v \in Between(readSeen, read) : ~Full(v) /\ readSeen' = v
    BY <1>1 DEF PushAdmit
  <2>2. v \in Index /\ a = Minus(v, readSeen) + Minus(read, v)
    BY <1>i, LoadFact
  <2>3. TypeOK'
    BY <1>t, <1>1, <2>1, <2>2 DEF TypeOK, PushAdmit, consVars
  <2>4. Minus(v, readSeen) \in Nat /\ Minus(read, v) \in Nat
    BY <1>i, <2>2, MinusFacts
  <2>5. Minus(read, v) + b + c <= Capacity
    BY <1>a, <1>d, <1>n, <2>2, <2>4
  <2>6. Minus(write, v) = Minus(read, v) + b + c
    BY <1>i, <2>2, <2>5, Distances
  <2>7. Minus(Inc(write), v) = Minus(write, v) + 1
    BY <1>i, <1>d, <1>n, <2>2, <2>4, <2>5, <2>6, AdvanceLeft
  <2>8. Minus(write, v) < Capacity
    BY <1>d, <1>n, <2>1, <2>4, <2>6, <2>7 DEF Full
  <2>9. ViewsInOrder'
    BY <1>t, <1>1, <2>1, <2>5, <2>8 DEF ViewsInOrder, PushAdmit, consVars
  <2> QED
    BY <1>1, <2>3, <2>9 DEF PushAdmit, CopyStands, IInv
<1>2. CASE PushRefuse
  <2>1. PICK v \in Between(readSeen, read) : readSeen' = v
    BY <1>2 DEF PushRefuse
  <2>2. v \in Index /\ a = Minus(v, readSeen) + Minus(read, v)
    BY <1>i, LoadFact
  <2>3. TypeOK'
    BY <1>t, <1>2, <2>1, <2>2 DEF TypeOK, PushRefuse, consVars
  <2>4. Minus(v, readSeen) \in Nat /\ Minus(read, v) \in Nat
    BY <1>i, <2>2, MinusFacts
  <2>5. Minus(read, v) + b + c <= Capacity
    BY <1>a, <1>d, <1>n, <2>2, <2>4
  <2>6. ViewsInOrder'
    BY <1>t, <1>2, <2>1, <2>5 DEF ViewsInOrder, PushRefuse, consVars
  <2> QED
    BY <1>2, <2>3, <2>6 DEF PushRefuse, CopyStands, IInv
<1>3. CASE PushCopy
  <2>1. Slot(write) \in 0..(Capacity - 1)
    BY <1>i, SlotRange
  <2>2. TypeOK'
    BY <1>t, <1>3, <2>1 DEF TypeOK, PushCopy, consVars
  <2>3. ViewsInOrder'
    BY <1>t, <1>3 DEF ViewsInOrder, PushCopy, consVars
  <2>4. CopyStands'
    BY <1>t, <1>3, <2>1 DEF TypeOK, PushCopy, CopyStands
  <2> QED
    BY <2>2, <2>3, <2>4 DEF IInv
<1>4. CASE PushPublish
  <2>1. TypeOK'
    BY <1>t, <1>i, <1>4, IncIndex DEF TypeOK, PushPublish, consVars
  <2>2. a + b + c < Capacity
    BY <1>t, <1>4, <1>d DEF ViewsInOrder, PushPublish
  <2>3. Minus(Inc(write), writeSeen) = c + 1
    BY <1>i, <1>d, <1>n, <2>2, AdvanceLeft
  <2>4. a + b + Minus(Inc(write), writeSeen) <= Capacity
    BY <1>d, <1>n, <2>2, <2>3
  <2>5. ViewsInOrder'
    BY <1>t, <1>4, <2>4 DEF ViewsInOrder, PushPublish, consVars
  <2> QED
    BY <1>4, <2>1, <2>5 DEF PushPublish, CopyStands, IInv
<1>5. ASSUME NEW v \in Between(writeSeen, write), writeSeen' = v,
             UNCHANGED <<read, slots, prodVars>>,
             consPc' \in {"idle", "copy"}, out' = out,
             consPc' = "copy" => v # read
      PROVE  IInv'
  <2>1. v \in Index /\ c = Minus(v, writeSeen) + Minus(write, v)
    BY <1>i, LoadFact
  <2>2. TypeOK'
    BY <1>t, <1>5, <2>1 DEF TypeOK, prodVars
  <2>3. Minus(v, writeSeen) \in Nat /\ Minus(write, v) \in Nat
    BY <1>i, <2>1, MinusFacts
  <2>4. b + Minus(v, writeSeen) < Modulus
    BY <1>a, <1>d, <1>n, <2>1, <2>3
  <2>5. Minus(v, read) = b + Minus(v, writeSeen)
    BY <1>i, <2>1, <2>4, Between3
  <2>6. a + Minus(v, read) + Minus(write, v) <= Capacity
    BY <1>a, <1>d, <1>n, <2>1, <2>3, <2>5
  <2>7. ViewsInOrder'
    BY <1>t, <1>5, <2>2, <2>6 DEF TypeOK, ViewsInOrder, prodVars
  <2> QED
    BY <1>t, <1>5, <2>2, <2>7 DEF CopyStands, prodVars, IInv
<1>6. CASE PopAdmit
  BY <1>5, <1>6, <1>t DEF PopAdmit, Empty
<1>7. CASE PopEmpty
  BY <1>5, <1>7, <1>t DEF PopEmpty
<1>8. CASE PopCopy
  <2>1. Slot(read) \in 0..(Capacity - 1)
    BY <1>i, SlotRange
  <2>2. TypeOK'
    BY <1>t, <1>8, <2>1 DEF TypeOK, PopCopy, prodVars
  <2>3. ViewsInOrder'
    BY <1>t, <1>8 DEF ViewsInOrder, PopCopy, prodVars
  <2>4. CopyStands'
    BY <1>t, <1>8 DEF PopCopy, prodVars, CopyStands
  <2> QED
    BY <2>2, <2>3, <2>4 DEF IInv
<1>9. CASE PopRelease
  <2>1. TypeOK'
    BY <1>t, <1>i, <1>9, IncIndex DEF TypeOK, PopRelease, prodVars
  <2>2. writeSeen # read
    BY <1>t, <1>9 DEF ViewsInOrder, PopRelease
  <2>3. b > 0
    BY <1>i, <2>2, MinusFacts
  <2>4. Minus(writeSeen, Inc(read)) = b - 1
    BY <1>i, <2>2, AdvanceRight
  <2>5. Minus(Inc(read), readSeen) = a + 1
    BY <1>i, <1>a, <1>d, <1>n, <2>3, AdvanceLeft
  <2>6. Minus(Inc(read), readSeen) + Minus(writeSeen, Inc(read)) + c <= Capacity
    BY <1>a, <1>d, <1>n, <2>4, <2>5
  <2>7. ViewsInOrder'
    BY <1>t, <1>9, <2>6 DEF ViewsInOrder, PopRelease, prodVars
  <2>8. CopyStands'
    BY <1>t, <1>9 DEF PopRelease, prodVars, CopyStands
  <2> QED
    BY <2>1, <2>7, <2>8 DEF IInv
<1>10. CASE UNCHANGED vars
  BY <1>t, <1>10 DEF vars, TypeOK, ViewsInOrder, CopyStands, IInv
<1> QED
  BY <1>1, <1>2, <1>3, <1>4, <1>6, <1>7, <1>8, <1>9, <1>10 DEF Next, Produce, Consume

(***************************************************************************)
(* Correct: in every reachable state the types hold, the four indices are  *)
(* in order and what was copied for publication stands (ring.hpp:35-58).   *)
(***************************************************************************)
THEOREM Correct == Spec => []IInv
BY InitInvariant, NextInvariant, PTL DEF Spec

(***************************************************************************)
(* Races: the two memcpys of ring.hpp:44 and ring.hpp:55 never meet in a   *)
(* slot, for every capacity and index width.                               *)
(***************************************************************************)
THEOREM Races == Spec => []NoSlotRace
<1>1. IInv => NoSlotRace
  <2> SUFFICES ASSUME IInv, prodPc = "copy", consPc = "copy"
               PROVE  Slot(write) # Slot(read)
    BY DEF NoSlotRace
  <2>1. write \in Index /\ read \in Index /\ readSeen \in Index /\ writeSeen \in Index
    BY DEF IInv, TypeOK
  <2>2. /\ Minus(write, readSeen) < Capacity
        /\ writeSeen # read
        /\ Minus(read, readSeen) + Minus(writeSeen, read) + Minus(write, writeSeen) <= Capacity
    BY DEF IInv, ViewsInOrder
  <2>3. Minus(writeSeen, read) > 0
    BY <2>1, <2>2, MinusFacts
  <2>4. Capacity \in Nat
    BY ConstantFacts
  <2>5. Minus(write, read) > 0 /\ Minus(write, read) < Capacity
    BY <2>1, <2>2, <2>3, <2>4, Distances
  <2>6. write # read
    BY <2>1, <2>5, MinusFacts
  <2> QED
    BY <2>1, <2>5, <2>6, SlotDistinct
<1> QED
  BY <1>1, Correct, PTL

-----------------------------------------------------------------------------
(***************************************************************************)
(* The refinement of LogChannel.  Position: a published record's slot is   *)
(* Slot(Plus(Taken, n - 1)), and no two positions of the arc share a slot. *)
(***************************************************************************)
LEMMA PlusFacts ==
    ASSUME NEW i \in Index, NEW n \in Nat, n < Modulus
    PROVE  /\ Plus(i, n) \in Index
           /\ Minus(Plus(i, n), i) = n
           /\ n + 1 < Modulus => Plus(Inc(i), n) = Plus(i, n + 1)
           /\ Plus(i, 0) = i
BY IndexNat, ConstantFacts DEF Index, Inc, Plus, Minus

LEMMA PlusMinus ==
    ASSUME NEW i \in Index, NEW j \in Index
    PROVE  Plus(i, Minus(j, i)) = j
BY IndexNat, ConstantFacts DEF Plus, Minus

LEMMA PlusToEnd ==
    ASSUME NEW i \in Index, NEW j \in Index, NEW n \in Nat, n < Minus(j, i)
    PROVE  Minus(j, Plus(i, n)) = Minus(j, i) - n
BY IndexNat, ConstantFacts DEF Plus, Minus

\* What the arc from t to w of the slots holds.
Arc(sl, t, w) == [n \in 1..Minus(w, t) |-> sl[Slot(Plus(t, n - 1))]]

LEMMA ArcSeq ==
    ASSUME NEW sl \in [0..(Capacity - 1) -> Records], NEW t \in Index, NEW w \in Index
    PROVE  /\ Arc(sl, t, w) \in Seq(Records)
           /\ Len(Arc(sl, t, w)) = Minus(w, t)
           /\ \A n \in 1..Minus(w, t) : Arc(sl, t, w)[n] = sl[Slot(Plus(t, n - 1))]
<1>1. Minus(w, t) \in Nat /\ Minus(w, t) < Modulus
  BY MinusFacts
<1>2. ASSUME NEW n \in 1..Minus(w, t) PROVE sl[Slot(Plus(t, n - 1))] \in Records
  <2>1. n - 1 \in Nat /\ n - 1 < Modulus
    BY <1>1, ConstantFacts
  <2>2. Plus(t, n - 1) \in Index
    BY <2>1, PlusFacts
  <2> QED
    BY <2>2, SlotRange
<1>3. Arc(sl, t, w) \in [1..Minus(w, t) -> Records]
  BY <1>2 DEF Arc
<1> QED
  BY <1>1, <1>3 DEF Arc

\* Copying a record into the slot at w leaves the arc up to w alone.
LEMMA ArcCopy ==
    ASSUME NEW sl \in [0..(Capacity - 1) -> Records], NEW t \in Index, NEW w \in Index,
           NEW r \in Records, Minus(w, t) < Capacity
    PROVE  Arc([sl EXCEPT ![Slot(w)] = r], t, w) = Arc(sl, t, w)
<1> DEFINE sl2 == [sl EXCEPT ![Slot(w)] = r]
<1>1. Minus(w, t) \in Nat /\ Minus(w, t) < Modulus /\ Slot(w) \in 0..(Capacity - 1)
  BY MinusFacts, SlotRange
<1>2. ASSUME NEW n \in 1..Minus(w, t)
      PROVE  sl2[Slot(Plus(t, n - 1))] = sl[Slot(Plus(t, n - 1))]
  <2> DEFINE i == Plus(t, n - 1)
  <2>1. n - 1 \in Nat /\ n - 1 < Minus(w, t)
    BY <1>1
  <2>2. i \in Index
    BY <1>1, ConstantFacts, <2>1, PlusFacts
  <2>3. Minus(w, i) = Minus(w, t) - (n - 1)
    BY <2>1, PlusToEnd
  <2>4. Minus(w, i) > 0 /\ Minus(w, i) < Capacity
    BY <1>1, <2>1, <2>3, ConstantFacts
  <2>5. w # i
    BY <2>2, <2>4, MinusFacts
  <2>6. Slot(w) # Slot(i) /\ Slot(i) \in 0..(Capacity - 1)
    BY <2>2, <2>4, <2>5, SlotDistinct, SlotRange
  <2> QED
    BY <2>6
<1> QED
  BY <1>2 DEF Arc

\* Publishing appends the record copied into the slot at w.
LEMMA ArcPublish ==
    ASSUME NEW sl \in [0..(Capacity - 1) -> Records], NEW t \in Index, NEW w \in Index,
           Minus(w, t) + 1 < Modulus
    PROVE  Arc(sl, t, Inc(w)) = Append(Arc(sl, t, w), sl[Slot(w)])
<1> DEFINE L == Minus(w, t)
           A == Arc(sl, t, w)
           B == Arc(sl, t, Inc(w))
<1>1. L \in Nat /\ L < Modulus /\ Minus(Inc(w), t) = L + 1 /\ Inc(w) \in Index
  BY MinusFacts, AdvanceLeft, IncIndex
<1>2. /\ A \in Seq(Records) /\ Len(A) = L
      /\ \A n \in 1..L : A[n] = sl[Slot(Plus(t, n - 1))]
  BY ArcSeq
<1>3. /\ B \in Seq(Records) /\ Len(B) = L + 1
      /\ \A n \in 1..(L + 1) : B[n] = sl[Slot(Plus(t, n - 1))]
  BY <1>1, ArcSeq
<1>4. Plus(t, L) = w /\ sl[Slot(w)] \in Records
  BY PlusMinus, SlotRange
<1> DEFINE C == Append(A, sl[Slot(w)])
<1>5. /\ C \in Seq(Records) /\ Len(C) = L + 1
      /\ \A n \in 1..L : C[n] = A[n]
      /\ C[L + 1] = sl[Slot(w)]
  BY <1>1, <1>2, <1>4
<1> HIDE DEF A, B, C, L
<1>6. \A n \in 1..(L + 1) : B[n] = C[n]
  <2> TAKE n \in 1..(L + 1)
  <2>1. CASE n \in 1..L
    BY <2>1, <1>1, <1>2, <1>3, <1>5
  <2>2. CASE n = L + 1
    <3>1. n - 1 = L
      BY <2>2, <1>1
    <3> QED
      BY <3>1, <2>2, <1>1, <1>3, <1>4, <1>5
  <2> QED
    BY <1>1, <2>1, <2>2
<1>7. B = C
  BY <1>1, <1>3, <1>5, <1>6, SeqEqual
<1> QED
  BY <1>7 DEF B, C, A

\* Releasing takes the oldest record off the arc.
LEMMA ArcTake ==
    ASSUME NEW sl \in [0..(Capacity - 1) -> Records], NEW t \in Index, NEW w \in Index,
           w # t
    PROVE  /\ Arc(sl, t, w) # <<>>
           /\ Head(Arc(sl, t, w)) = sl[Slot(t)]
           /\ Tail(Arc(sl, t, w)) = Arc(sl, Inc(t), w)
<1> DEFINE L == Minus(w, t)
           A == Arc(sl, t, w)
           B == Arc(sl, Inc(t), w)
<1>1. /\ L \in Nat /\ L > 0 /\ L < Modulus
      /\ Minus(w, Inc(t)) = L - 1 /\ Inc(t) \in Index
  BY MinusFacts, AdvanceRight, IncIndex
<1>2. /\ A \in Seq(Records) /\ Len(A) = L
      /\ \A n \in 1..L : A[n] = sl[Slot(Plus(t, n - 1))]
  BY ArcSeq
<1>3. /\ B \in Seq(Records) /\ Len(B) = L - 1
      /\ \A n \in 1..(L - 1) : B[n] = sl[Slot(Plus(Inc(t), n - 1))]
  <2>1. /\ B \in Seq(Records) /\ Len(B) = Minus(w, Inc(t))
        /\ \A n \in 1..Minus(w, Inc(t)) : B[n] = sl[Slot(Plus(Inc(t), n - 1))]
    BY <1>1, ArcSeq
  <2> QED
    BY <1>1, <2>1
<1>4. \A n \in 1..(L - 1) : Plus(Inc(t), n - 1) = Plus(t, n)
  <2> TAKE n \in 1..(L - 1)
  <2>1. n - 1 \in Nat /\ (n - 1) + 1 = n /\ n < Modulus
    BY <1>1, ConstantFacts
  <2> QED
    BY <2>1, PlusFacts, ConstantFacts
<1>5. Plus(t, 0) = t /\ 1 - 1 = 0
  BY PlusFacts, ConstantFacts
<1> HIDE DEF A, B, L
<1>6. A # <<>>
  BY <1>1, <1>2, EmptySeq
<1>7. Head(A) = sl[Slot(t)]
  <2>1. 1 \in 1..L
    BY <1>1
  <2>2. A[1] = sl[Slot(t)]
    BY <2>1, <1>2, <1>5
  <2> QED
    BY <2>2, <1>6, <1>2
<1>8. /\ Tail(A) \in Seq(Records) /\ Len(Tail(A)) = L - 1
      /\ \A n \in 1..(L - 1) : Tail(A)[n] = A[n + 1]
  BY <1>1, <1>2, <1>6, HeadTailProperties
<1>9. \A n \in 1..(L - 1) : Tail(A)[n] = B[n]
  <2> TAKE n \in 1..(L - 1)
  <2>1. n + 1 \in 1..L /\ (n + 1) - 1 = n
    BY <1>1
  <2> QED
    BY <2>1, <1>2, <1>3, <1>4, <1>8
<1>10. Tail(A) = B
  BY <1>1, <1>3, <1>8, <1>9, SeqEqual
<1> QED
  BY <1>6, <1>7, <1>10 DEF A, B

LEMMA ContentsIsArc == Contents = Arc(slots, Taken, write)
BY DEF Contents, Arc

LEMMA InitChannel == Init => Channel!Init
<1> SUFFICES ASSUME Init PROVE Channel!Init
  OBVIOUS
<1>1. 0 \in Index /\ Minus(0, 0) = 0
  BY ConstantFacts DEF Index, Minus
<1>2. Taken = 0
  BY DEF Init, Taken
<1>3. Contents = <<>>
  BY <1>1, <1>2 DEF Init, Contents
<1>4. Minus(Taken, readSeen) = 0
  BY <1>1, <1>2 DEF Init
<1> QED
  BY <1>3, <1>4, RecordsAssumption DEF Init, Channel!Init

\* Where the arc begins, and how long it is, in every reachable state.
LEMMA TakenFacts ==
    ASSUME IInv
    PROVE  /\ Taken \in Index
           /\ Minus(Taken, readSeen) \in Nat
           /\ Minus(write, Taken) \in Nat
           /\ Minus(write, readSeen) = Minus(Taken, readSeen) + Minus(write, Taken)
           /\ Minus(write, Taken) <= Minus(write, readSeen)
           /\ Minus(write, readSeen) <= Capacity
           /\ Minus(read, readSeen) <= Minus(Taken, readSeen)
<1>1. write \in Index /\ read \in Index /\ readSeen \in Index /\ writeSeen \in Index
  BY DEF IInv, TypeOK
<1>2. Capacity \in Nat /\ Modulus \in Nat /\ Capacity + 2 <= Modulus
  BY ConstantFacts
<1>3. Minus(read, readSeen) + Minus(writeSeen, read) + Minus(write, writeSeen) <= Capacity
  BY DEF IInv, ViewsInOrder
<1>4. /\ Minus(read, readSeen) \in Nat /\ Minus(writeSeen, read) \in Nat
      /\ Minus(write, writeSeen) \in Nat
      /\ Minus(write, read) = Minus(writeSeen, read) + Minus(write, writeSeen)
      /\ Minus(write, readSeen)
           = Minus(read, readSeen) + Minus(writeSeen, read) + Minus(write, writeSeen)
  BY <1>1, <1>3, Distances
<1>5. CASE consPc = "release"
  <2>1. Taken = Inc(read) /\ writeSeen # read
    BY <1>5 DEF Taken, IInv, ViewsInOrder
  <2>2. Minus(writeSeen, read) > 0
    BY <1>1, <2>1, MinusFacts
  <2>3. write # read
    BY <1>1, <1>4, <2>2, MinusFacts
  <2>4. Minus(write, Inc(read)) = Minus(write, read) - 1
    BY <1>1, <2>3, AdvanceRight
  <2>5. Minus(Inc(read), readSeen) = Minus(read, readSeen) + 1
    BY <1>1, <1>2, <1>3, <1>4, <2>2, AdvanceLeft
  <2>6. Inc(read) \in Index
    BY <1>1, IncIndex
  <2> QED
    BY <1>2, <1>3, <1>4, <2>1, <2>2, <2>4, <2>5, <2>6
<1>6. CASE consPc # "release"
  BY <1>1, <1>2, <1>3, <1>4, <1>6 DEF Taken
<1> QED
  BY <1>5, <1>6

(***************************************************************************)
(* Every step of the ring is a step of LogChannel or changes nothing that  *)
(* LogChannel sees.                                                        *)
(***************************************************************************)
LEMMA NextChannel ==
    ASSUME IInv, IInv', [Next]_vars
    PROVE  [Channel!Next]_(Channel!chanVars)
<1>t. /\ TypeOK /\ TypeOK'
      /\ write \in Index /\ read \in Index /\ readSeen \in Index /\ writeSeen \in Index
      /\ slots \in [0..(Capacity - 1) -> Records]
  BY DEF IInv, TypeOK
<1>n. Capacity \in Nat /\ Modulus \in Nat /\ Capacity + 2 <= Modulus
  BY ConstantFacts
<1>f. /\ Taken \in Index
      /\ Minus(Taken, readSeen) \in Nat
      /\ Minus(write, Taken) \in Nat
      /\ Minus(write, readSeen) = Minus(Taken, readSeen) + Minus(write, Taken)
      /\ Minus(write, Taken) <= Minus(write, readSeen)
      /\ Minus(write, readSeen) <= Capacity
      /\ Minus(read, readSeen) <= Minus(Taken, readSeen)
  BY TakenFacts
<1>g. Len(Contents) = Minus(write, Taken)
  BY <1>t, <1>f, ContentsIsArc, ArcSeq
<1> DEFINE look == /\ Contents' = Contents
                   /\ Taken' = Taken
                   /\ Minus(Taken', readSeen') \in 0..Minus(Taken, readSeen)
\* The two outcomes of the producer's load share this.
<1>l. ASSUME NEW v \in Between(readSeen, read), readSeen' = v,
             UNCHANGED <<write, slots, consVars>>
      PROVE  look /\ Minus(write, v) = Minus(Taken, v) + Minus(write, Taken)
                  /\ Minus(write, v) <= Capacity
  <2>1. v \in Index /\ Minus(read, readSeen) = Minus(v, readSeen) + Minus(read, v)
    BY <1>t, LoadFact
  <2>2. /\ Minus(v, readSeen) \in Nat /\ Minus(read, v) \in Nat
        /\ Minus(Taken, v) \in Nat
    BY <1>t, <1>f, <2>1, MinusFacts
  <2>3. Taken' = Taken
    BY <1>l DEF Taken, consVars
  <2>4. Contents' = Contents
    BY <1>l, <2>3 DEF Contents
  <2>5. Minus(Taken, readSeen) = Minus(v, readSeen) + Minus(Taken, v)
    <3>1. Minus(v, readSeen) <= Minus(Taken, readSeen)
      <4>1. Minus(read, readSeen) \in Nat
        BY <1>t, MinusFacts
      <4> QED
        BY <4>1, <1>f, <2>1, <2>2
    <3> QED
      BY <1>t, <1>f, <2>1, <3>1, ArcSplit
  <2>6. Minus(Taken, v) + Minus(write, Taken) <= Capacity
    BY <1>f, <1>n, <2>2, <2>5
  <2>7. Minus(write, v) = Minus(Taken, v) + Minus(write, Taken)
    BY <1>t, <1>f, <1>n, <2>1, <2>2, <2>6, Between3
  <2>8. look
    BY <1>l, <1>f, <2>2, <2>3, <2>4, <2>5
  <2> QED
    BY <2>6, <2>7, <2>8
<1>1. ASSUME NEW r \in Records, PushAdmit(r) PROVE Channel!Look
  <2>1. PICK v \in Between(readSeen, read) : readSeen' = v
    BY <1>1 DEF PushAdmit
  <2>2. look
    BY <1>1, <1>l, <2>1 DEF PushAdmit
  <2> QED
    BY <1>1, <2>2 DEF PushAdmit, consVars, Channel!Look
<1>2. CASE PushRefuse
  <2>1. PICK v \in Between(readSeen, read) : Full(v) /\ readSeen' = v
    BY <1>2 DEF PushRefuse
  <2>2. /\ look
        /\ Minus(write, v) = Minus(Taken, v) + Minus(write, Taken)
        /\ Minus(write, v) <= Capacity
    BY <1>2, <1>l, <2>1 DEF PushRefuse
  <2>3. v \in Index
    BY <2>1 DEF Between
  <2>4. Minus(write, v) \in Nat
    BY <1>t, <2>3, MinusFacts
  <2>5. Minus(Inc(write), v) = Minus(write, v) + 1
    BY <1>t, <1>n, <2>2, <2>3, <2>4, AdvanceLeft
  <2>6. Minus(write, v) = Capacity
    BY <1>n, <2>1, <2>2, <2>4, <2>5 DEF Full
  <2>7. Minus(Taken, v) \in Nat
    BY <1>f, <2>3, MinusFacts
  <2>8. Len(Contents) + Minus(Taken', readSeen') = Capacity
    BY <1>g, <1>f, <2>1, <2>2, <2>6, <2>7
  <2> QED
    BY <1>2, <2>2, <2>8 DEF PushRefuse, consVars, Channel!Refuse, Channel!Next
<1>3. CASE PushCopy
  <2>1. Minus(write, Taken) < Capacity /\ item \in Records
    BY <1>3, <1>f, <1>n, <1>t DEF PushCopy, IInv, ViewsInOrder, TypeOK
  <2>2. Taken' = Taken
    BY <1>3 DEF PushCopy, Taken, consVars
  <2>3. Arc([slots EXCEPT ![Slot(write)] = item], Taken, write) = Arc(slots, Taken, write)
    BY <1>t, <1>f, <2>1, ArcCopy
  <2>4. Contents' = Contents
    BY <1>3, <2>2, <2>3, ContentsIsArc DEF PushCopy, Contents, Arc
  <2> QED
    BY <1>3, <2>2, <2>4 DEF PushCopy, consVars, Channel!chanVars
<1>4. CASE PushPublish
  <2>1. Minus(write, readSeen) < Capacity
    BY <1>4 DEF PushPublish, IInv, ViewsInOrder
  <2>2. Taken' = Taken /\ slots' = slots /\ write' = Inc(write)
    BY <1>4 DEF PushPublish, Taken, consVars
  <2>3. slots[Slot(write)] = item /\ item \in Records
    BY <1>4, <1>t DEF PushPublish, IInv, CopyStands, TypeOK
  <2>4. Minus(write, Taken) + 1 < Modulus
    BY <1>f, <1>n, <2>1
  <2>5. Arc(slots, Taken, Inc(write)) = Append(Arc(slots, Taken, write), item)
    BY <1>t, <1>f, <2>3, <2>4, ArcPublish
  <2>6. Contents' = Append(Contents, item)
    BY <2>2, <2>5 DEF Contents, Arc
  <2>7. Len(Contents) + Minus(Taken, readSeen) < Capacity
    BY <1>f, <1>g, <2>1
  <2>8. Channel!Send(item)
    BY <1>4, <2>2, <2>6, <2>7 DEF PushPublish, consVars, Channel!Send
  <2> QED
    BY <2>3, <2>8 DEF Channel!Next
<1>5. CASE PopAdmit \/ PopEmpty
  <2>1. Taken' = Taken
    BY <1>5, <1>t DEF PopAdmit, PopEmpty, Taken, prodVars
  <2>2. Contents' = Contents
    BY <1>5, <2>1 DEF PopAdmit, PopEmpty, Contents, prodVars
  <2> QED
    BY <1>5, <2>1, <2>2 DEF PopAdmit, PopEmpty, prodVars, Channel!chanVars
<1>6. CASE PopCopy
  <2>1. Taken = read /\ Taken' = Inc(read)
    BY <1>6 DEF PopCopy, Taken
  <2>2. writeSeen # read
    BY <1>6 DEF PopCopy, IInv, ViewsInOrder
  <2>3. write # read
    <3>1. /\ Minus(write, read) = Minus(writeSeen, read) + Minus(write, writeSeen)
          /\ Minus(write, writeSeen) \in Nat
      BY <1>t, Distances DEF IInv, ViewsInOrder
    <3>2. Minus(writeSeen, read) > 0
      BY <1>t, <2>2, MinusFacts
    <3>3. Minus(write, read) > 0
      BY <1>t, <3>1, <3>2, MinusFacts
    <3> QED
      BY <1>t, <3>3, MinusFacts
  <2>4. /\ Contents # <<>>
        /\ Head(Contents) = slots[Slot(read)]
        /\ Tail(Contents) = Arc(slots, Inc(read), write)
    BY <1>t, <2>1, <2>3, ArcTake, ContentsIsArc
  <2>5. Contents' = Tail(Contents)
    BY <1>6, <2>1, <2>4 DEF PopCopy, prodVars, Contents, Arc
  <2>6. Minus(Inc(read), readSeen) = Minus(read, readSeen) + 1
    <3>1. Minus(write, read) > 0
      BY <1>t, <2>3, MinusFacts
    <3>2. Minus(read, readSeen) + 1 < Modulus
      BY <1>f, <1>n, <2>1, <3>1
    <3> QED
      BY <1>t, <3>2, AdvanceLeft
  <2>7. Minus(Taken, readSeen)' = Minus(Taken, readSeen) + 1
    BY <1>6, <2>1, <2>6 DEF PopCopy, prodVars
  <2>8. Channel!Receive
    BY <1>6, <2>4, <2>5, <2>7 DEF PopCopy, prodVars, Channel!Receive
  <2> QED
    BY <2>8 DEF Channel!Next
<1>7. CASE PopRelease
  <2>1. Taken' = Taken
    BY <1>7 DEF PopRelease, Taken
  <2>2. Contents' = Contents
    BY <1>7, <2>1 DEF PopRelease, prodVars, Contents
  <2> QED
    BY <1>7, <2>1, <2>2 DEF PopRelease, prodVars, Channel!chanVars
<1>8. CASE UNCHANGED vars
  <2>1. Taken' = Taken
    BY <1>8 DEF vars, Taken
  <2>2. Contents' = Contents
    BY <1>8, <2>1 DEF vars, Contents
  <2> QED
    BY <1>8, <2>1, <2>2 DEF vars, Channel!chanVars
<1> QED
  BY <1>1, <1>2, <1>3, <1>4, <1>5, <1>6, <1>7, <1>8 DEF Next, Produce, Consume, Channel!Next

(***************************************************************************)
(* Implements: the ring is a bounded FIFO that loses, repeats, tears and   *)
(* reorders nothing, and refuses only on a full view, for every capacity   *)
(* and index width: the safety half of ImplementsChannel.                  *)
(***************************************************************************)
THEOREM Implements == Spec => Channel!Safe
BY InitChannel, NextChannel, Correct, PTL DEF Spec, Channel!Safe
=============================================================================
