------------------------- MODULE KermitRingProofs --------------------------
(***************************************************************************)
(* Proofs about the receive ring, for every ring size and every set of     *)
(* characters.                                                             *)
(***************************************************************************)
EXTENDS KermitRing, TLAPS

USE RingAssumption DEF RingAssumption

\* A pointer stays inside the ring when it is advanced, and the slot reached
\* from p in i places is inside the ring.
LEMMA AdvanceInSlots ==
  ASSUME NEW p \in Slots
  PROVE  Advance(p) \in Slots
BY DEF Advance, Slots

LEMMA SlotAfterInSlots ==
  ASSUME NEW p \in Slots, NEW i \in 0..MNCHND
  PROVE  SlotAfter(p, i) \in Slots
BY DEF SlotAfter, Slots

\* Advancing is going one place further, from the base as well as from the
\* slot i places after it.
LEMMA AdvanceIsSlotAfter ==
  ASSUME NEW p \in Slots, NEW i \in 0..MNCHND - 1
  PROVE  /\ Advance(SlotAfter(p, i)) = SlotAfter(p, i + 1)
         /\ SlotAfter(Advance(p), i) = SlotAfter(p, i + 1)
BY DEF SlotAfter, Advance, Slots

\* Within one turn of the ring different places are different slots.
LEMMA SlotAfterInjective ==
  ASSUME NEW p \in Slots, NEW i \in 1..MNCHND, NEW j \in 1..MNCHND, i # j
  PROVE  SlotAfter(p, i) # SlotAfter(p, j)
BY DEF SlotAfter, Slots

-----------------------------------------------------------------------------
\* The empty queue of a cleared ring.
LEMMA EmptyQueue == << >> \in Seq(Byte) /\ Len(<< >>) = 0
OBVIOUS

\* The inductive invariant: the types, the count, and the ring's contents;
\* between the first and the second store of an undisturbed cfibf the ring is
\* empty, which is what lets the second store place both pointers anew.
RingInv ==
  /\ TypeOK
  /\ CountIsUnread
  /\ RingHoldsQueue
  /\ pc = "cfibf1" /\ ~raced => mnchrn = 0

LEMMA InitRingInv == Init => RingInv
<1> SUFFICES ASSUME Init PROVE RingInv
  OBVIOUS
<1>1. TypeOK
  <2>1. MNCHND - 1 \in Slots /\ 0 \in 0..MNCHND
    BY DEF Slots
  <2> QED BY <2>1, EmptyQueue DEF Init, TypeOK
<1>2. CountIsUnread
  BY EmptyQueue DEF Init, CountIsUnread
<1>3. RingHoldsQueue
  BY DEF Init, RingHoldsQueue, ReadBase, SlotAfter
<1> QED
  BY <1>1, <1>2, <1>3 DEF Init, RingInv

LEMMA MnprocRingInv ==
  ASSUME RingInv, NEW b \in Byte, Mnproc(b)
  PROVE  RingInv'
<1> USE DEF RingInv
<1>1. mnchip' = Advance(mnchip) /\ mnchip' \in Slots /\ mnchip \in Slots
  BY AdvanceInSlots DEF Mnproc, TypeOK
<1>2. mnchrn \in 0..MNCHND - 1 /\ mnchrn' = mnchrn + 1
  BY DEF Mnproc, TypeOK
<1>3. queue \in Seq(Byte) /\ queue' = Append(queue, b) /\ queue' \in Seq(Byte)
  BY DEF Mnproc, TypeOK
<1>4. TypeOK'
  BY <1>1, <1>2, <1>3 DEF Mnproc, TypeOK
<1>5. CountIsUnread'
  BY <1>2, <1>3 DEF CountIsUnread, Mnproc
<1>6. ASSUME ~raced', pc # "cfibf1"
      PROVE  /\ mnchip' = SlotAfter(ReadBase', mnchrn')
             /\ \A i \in 1..mnchrn' : mnchrs'[SlotAfter(ReadBase', i)] = queue'[i]
  <2>1. ~raced /\ ReadBase' = ReadBase /\ ReadBase \in Slots
    BY <1>6 DEF Mnproc, ReadBase, TypeOK, Slots
  <2>2. mnchip = SlotAfter(ReadBase, mnchrn)
    BY <1>6, <2>1 DEF RingHoldsQueue
  <2>3. mnchip' = SlotAfter(ReadBase, mnchrn + 1)
    BY <1>1, <1>2, <2>1, <2>2, AdvanceIsSlotAfter
  <2>4. ASSUME NEW i \in 1..mnchrn'
        PROVE  mnchrs'[SlotAfter(ReadBase', i)] = queue'[i]
    <3>1. i \in 1..MNCHND /\ mnchrn + 1 \in 1..MNCHND
      BY <1>2
    <3>2. SlotAfter(ReadBase, i) \in Slots
      BY <3>1, <2>1, SlotAfterInSlots
    <3>3. mnchrs' = [mnchrs EXCEPT ![mnchip'] = b] /\ mnchrs \in [Slots -> Byte]
      BY DEF Mnproc, TypeOK
    <3>4. CASE i = mnchrn + 1
      <4>1. mnchrs'[SlotAfter(ReadBase, i)] = b
        BY <3>2, <3>3, <3>4, <2>3
      <4>2. queue'[i] = b
        BY <1>3, <3>4 DEF CountIsUnread
      <4> QED BY <4>1, <4>2, <2>1
    <3>5. CASE i # mnchrn + 1
      <4>1. i \in 1..mnchrn
        BY <3>5, <1>2
      <4>2. SlotAfter(ReadBase, i) # mnchip'
        BY <3>1, <3>5, <2>1, <2>3, SlotAfterInjective
      <4>3. mnchrs'[SlotAfter(ReadBase, i)] = mnchrs[SlotAfter(ReadBase, i)]
        BY <3>2, <3>3, <4>2
      <4>4. mnchrs[SlotAfter(ReadBase, i)] = queue[i]
        BY <4>1, <1>6, <2>1 DEF RingHoldsQueue
      <4>5. queue'[i] = queue[i]
        BY <1>3, <4>1 DEF CountIsUnread
      <4> QED BY <4>3, <4>4, <4>5, <2>1
    <3> QED BY <3>4, <3>5
  <2> QED BY <2>1, <2>3, <2>4, <1>2
<1>7. RingHoldsQueue'
  BY <1>6 DEF RingHoldsQueue, Mnproc
<1>8. (pc = "cfibf1" /\ ~raced => mnchrn = 0)'
  BY DEF Mnproc
<1> QED BY <1>4, <1>5, <1>7, <1>8

LEMMA InchrRingInv ==
  ASSUME RingInv, Inchr
  PROVE  RingInv' /\ (~raced => al' = Head(queue))
<1> USE DEF RingInv
<1>1. mnchop' = Advance(mnchop) /\ mnchop' \in Slots /\ mnchop \in Slots
  BY AdvanceInSlots DEF Inchr, TypeOK
<1>2. mnchrn \in 1..MNCHND /\ mnchrn' = mnchrn - 1 /\ Len(queue) = mnchrn
  BY DEF Inchr, TypeOK, CountIsUnread
<1>3. /\ queue \in Seq(Byte) /\ queue' = Tail(queue) /\ queue' \in Seq(Byte)
      /\ Len(queue') = mnchrn - 1
      /\ \A i \in 1..mnchrn - 1 : queue'[i] = queue[i + 1]
      /\ Head(queue) = queue[1]
  BY <1>2 DEF Inchr, TypeOK
<1>4. TypeOK'
  BY <1>1, <1>2, <1>3 DEF Inchr, TypeOK
<1>5. CountIsUnread'
  BY <1>2, <1>3 DEF CountIsUnread, Inchr
<1>6. ASSUME ~raced
      PROVE  /\ mnchip' = SlotAfter(ReadBase', mnchrn')
             /\ \A i \in 1..mnchrn' : mnchrs'[SlotAfter(ReadBase', i)] = queue'[i]
             /\ al' = Head(queue)
  <2>1. /\ ReadBase = mnchop /\ ReadBase' = Advance(mnchop)
        /\ mnchrs' = mnchrs /\ mnchip' = mnchip
    BY <1>1 DEF ReadBase, Inchr
  <2>2. /\ mnchip = SlotAfter(mnchop, mnchrn)
        /\ \A i \in 1..mnchrn : mnchrs[SlotAfter(mnchop, i)] = queue[i]
    BY <1>6, <2>1 DEF RingHoldsQueue, Inchr
  <2>3. \A i \in 0..mnchrn - 1 : SlotAfter(Advance(mnchop), i) = SlotAfter(mnchop, i + 1)
    BY <1>1, <1>2, AdvanceIsSlotAfter
  <2>4. mnchip' = SlotAfter(ReadBase', mnchrn')
    BY <1>2, <2>1, <2>2, <2>3
  <2>5. ASSUME NEW i \in 1..mnchrn'
        PROVE  mnchrs'[SlotAfter(ReadBase', i)] = queue'[i]
    <3>1. i \in 0..mnchrn - 1 /\ i + 1 \in 1..mnchrn /\ i \in 1..mnchrn - 1
      BY <1>2
    <3> QED BY <3>1, <1>3, <2>1, <2>2, <2>3
  <2>6. SlotAfter(mnchop, 1) = Advance(mnchop)
    BY <1>1 DEF SlotAfter, Advance, Slots
  <2>7. al' = Head(queue)
    BY <1>1, <1>2, <1>3, <2>2, <2>6 DEF Inchr
  <2> QED BY <2>4, <2>5, <2>7
<1>7. RingHoldsQueue'
  BY <1>6 DEF RingHoldsQueue, Inchr
<1>8. (pc = "cfibf1" /\ ~raced => mnchrn = 0)'
  BY DEF Inchr
<1> QED BY <1>4, <1>5, <1>6, <1>7, <1>8

LEMMA MainRingInv ==
  ASSUME RingInv, Instat \/ Cfibf1 \/ Cfibf2 \/ Cfibf3
  PROVE  RingInv'
<1> USE DEF RingInv
<1>1. CASE Instat
  BY <1>1 DEF Instat, TypeOK, CountIsUnread, RingHoldsQueue, ReadBase
<1>2. CASE Cfibf1
  <2>1. TypeOK'
    <3>1. mnchrn' \in 0..MNCHND /\ queue' \in Seq(Byte)
      BY <1>2, EmptyQueue DEF Cfibf1
    <3> QED BY <1>2, <3>1 DEF Cfibf1, TypeOK
  <2>2. CountIsUnread'
    BY <1>2, EmptyQueue DEF Cfibf1, CountIsUnread
  <2>3. RingHoldsQueue' /\ mnchrn' = 0
    BY <1>2 DEF Cfibf1, RingHoldsQueue
  <2> QED BY <2>1, <2>2, <2>3
<1>3. CASE Cfibf2
  <2>1. TypeOK' /\ CountIsUnread'
    BY <1>3 DEF Cfibf2, TypeOK, CountIsUnread, Slots
  <2>2. RingHoldsQueue'
    BY <1>3 DEF Cfibf2, TypeOK, RingHoldsQueue, ReadBase, SlotAfter
  <2> QED BY <1>3, <2>1, <2>2 DEF Cfibf2
<1>4. CASE Cfibf3
  <2>1. TypeOK' /\ CountIsUnread'
    BY <1>4 DEF Cfibf3, TypeOK, CountIsUnread, Slots
  <2>2. ReadBase' = ReadBase
    BY <1>4 DEF Cfibf3, ReadBase
  <2>3. RingHoldsQueue'
    BY <1>4, <2>2 DEF Cfibf3, RingHoldsQueue
  <2> QED BY <1>4, <2>1, <2>3 DEF Cfibf3
<1> QED BY <1>1, <1>2, <1>3, <1>4

LEMMA NextRingInv == RingInv /\ [Next]_vars => RingInv'
<1> SUFFICES ASSUME RingInv, [Next]_vars PROVE RingInv'
  OBVIOUS
<1>1. CASE \E b \in Byte : Mnproc(b)
  BY <1>1, MnprocRingInv
<1>2. CASE Inchr
  BY <1>2, InchrRingInv
<1>3. CASE Instat \/ Cfibf1 \/ Cfibf2 \/ Cfibf3
  BY <1>3, MainRingInv
<1>4. CASE UNCHANGED vars
  BY <1>4 DEF vars, RingInv, TypeOK, CountIsUnread, RingHoldsQueue, ReadBase
<1> QED BY <1>1, <1>2, <1>3, <1>4 DEF Next

-----------------------------------------------------------------------------
\* The ring always holds exactly the unread characters, unless an interrupt
\* fell into the last cfibf (mnproc, inchr and cfibf of c86xibm.a86).
THEOREM RingCorrect == Spec => [](TypeOK /\ CountIsUnread /\ RingHoldsQueue)
<1>1. RingInv => TypeOK /\ CountIsUnread /\ RingHoldsQueue
  BY DEF RingInv
<1> QED BY <1>1, InitRingInv, NextRingInv, PTL DEF Spec

\* Every inchr returns the oldest unread character, unless an interrupt fell
\* into the last cfibf.
THEOREM InchrOrder == Spec => InchrInOrder
<1>1. RingInv /\ [Next]_vars => [Inchr /\ ~raced => al' = Head(queue)]_vars
  BY InchrRingInv
<1> QED BY <1>1, InitRingInv, NextRingInv, PTL DEF Spec, InchrInOrder
=============================================================================
