-------------------------- MODULE FrameBufferProofs --------------------------
(* What the buffers promise for limits, tables and numbers of any size.      *)
(*                                                                           *)
(* The slots that hold no frame of this round are empty in a buffer whose    *)
(* reset clears, and 0 is never a number to read.  The frames not yet read   *)
(* are within both limits of the reader, or are the one written last, and so *)
(* is a frame that is pushed without a reset: two of them as close as that   *)
(* do not share a slot.                                                      *)
EXTENDS FrameBuffer, NaturalTheorems

SlotRecord == [seq : Seq, touch : UNTOUCHED .. Timeout + 1, fresh : BOOLEAN]

(* Slots without a frame of this round are empty, if a reset clears. *)
StaleEmpty == buffer.clears => \A i \in Slot : slots[i].fresh \/ slots[i].seq = 0

(* What is waiting to be read is near the reader, or was written last. *)
Near(n) == n <= read + buffer.distance + buffer.jump \/ n = write
FreshNear == ~buffer.wraps => \A i \in Slot : slots[i].fresh /\ slots[i].seq >= read => Near(slots[i].seq)

(* Every frame is in the slot of its number. *)
Placed == \A i \in Slot : slots[i].fresh => slotOf(slots[i].seq) = i

IInv == TypeOK /\ StaleEmpty /\ FreshNear /\ Placed

(* The sizes of a kind of buffer. *)
LEMMA KindFacts == ASSUME buffer \in Kinds
                   PROVE  /\ buffer.slots \in Nat /\ buffer.slots > 0
                          /\ buffer.top \in Nat /\ buffer.top > 0
                          /\ buffer.jump \in Nat /\ buffer.distance \in Nat /\ Timeout \in Nat
                          /\ buffer.wraps \in BOOLEAN /\ buffer.clears \in BOOLEAN
  BY KindsAssumption DEF IsKind

(* The slot of a number is one of the slots. *)
LEMMA SlotOf == ASSUME buffer \in Kinds, NEW n \in Nat
                PROVE  slotOf(n) \in Slot
  BY KindFacts DEF slotOf, Slot

(* The invariant holds at first, whatever the kind of buffer. *)
LEMMA InitIInv == Init => IInv
<1> SUFFICES ASSUME Init PROVE IInv
  OBVIOUS
<1>1. buffer \in Kinds /\ 0 \in Seq
  BY KindFacts DEF Init, Seq
<1>2. Empty \in SlotRecord
  BY <1>1, KindFacts DEF Empty, SlotRecord, UNTOUCHED
<1>3. TypeOK
  BY <1>1, <1>2 DEF Init, TypeOK, SlotRecord
<1>4. StaleEmpty /\ FreshNear /\ Placed
  BY DEF Init, Empty, StaleEmpty, FreshNear, Placed
<1> QED
  BY <1>3, <1>4 DEF IInv

(* A push, by what it leaves in the other slots. *)
LEMMA PushIInv == ASSUME IInv, NEW n \in Seq, Push(n)
                  PROVE  IInv'
<1>1. /\ buffer \in Kinds /\ buffer' = buffer /\ write' = n /\ n \in Nat
      /\ read \in Seq /\ write \in Seq /\ read \in Nat /\ write \in Nat
  BY KindFacts DEF Push, IInv, TypeOK, Seq
<1>2. read' = IF Resets(n) THEN 0 ELSE read
  BY DEF Push
<1> DEFINE new == [seq |-> n, touch |-> 0, fresh |-> TRUE]
           old == IF Resets(n) THEN Cleared ELSE slots
<1>3. slotOf(n) \in Slot /\ Slot' = Slot
  BY <1>1, SlotOf DEF Slot
<1>4. slots \in [Slot -> SlotRecord]
  BY DEF IInv, TypeOK, SlotRecord
<1>5. Empty \in SlotRecord /\ new \in SlotRecord
  BY <1>1, KindFacts DEF Empty, SlotRecord, UNTOUCHED, Seq
<1>6. Cleared \in [Slot -> SlotRecord]
      /\ \A i \in Slot : ~Cleared[i].fresh /\ (buffer.clears => Cleared[i].seq = 0)
  BY <1>4, <1>5 DEF Cleared, SlotRecord, Empty
<1>7. old \in [Slot -> SlotRecord]
  BY <1>4, <1>6
<1>8. slots' = [old EXCEPT ![slotOf(n)] = new]
  BY DEF Push
<1>13. (Resets(n) => old = Cleared) /\ (~Resets(n) => old = slots)
  OBVIOUS
<1> HIDE DEF new, old
<1>9. slots' \in [Slot -> SlotRecord]
      /\ \A i \in Slot : slots'[i] = IF i = slotOf(n) THEN new ELSE old[i]
  BY <1>3, <1>5, <1>7, <1>8
<1>10. TypeOK'
  BY <1>1, <1>2, <1>3, <1>9, KindFacts DEF TypeOK, SlotRecord, Seq
<1>11. StaleEmpty'
  <2> SUFFICES ASSUME buffer.clears, NEW i \in Slot
               PROVE  slots'[i].fresh \/ slots'[i].seq = 0
    BY <1>1, <1>3 DEF StaleEmpty
  <2>1. CASE i = slotOf(n)
    BY <1>9, <2>1 DEF new
  <2>2. CASE i # slotOf(n) /\ Resets(n)
    BY <1>6, <1>9, <1>13, <2>2
  <2>3. CASE i # slotOf(n) /\ ~Resets(n)
    BY <1>9, <1>13, <2>3 DEF IInv, StaleEmpty
  <2> QED
    BY <2>1, <2>2, <2>3
<1>12. FreshNear'
  <2> SUFFICES ASSUME ~buffer.wraps, NEW i \in Slot, slots'[i].fresh, slots'[i].seq >= read'
               PROVE  Near(slots[i].seq)'
    BY <1>1, <1>3 DEF FreshNear
  <2>1. CASE i = slotOf(n)
    BY <1>1, <1>9, <2>1 DEF new, Near
  <2>2. CASE i # slotOf(n) /\ Resets(n)
    BY <1>6, <1>9, <1>13, <2>2
  <2>3. CASE i # slotOf(n) /\ ~Resets(n)
    <3>1. slots'[i] = slots[i] /\ read' = read /\ slots[i].seq \in Nat
      BY <1>1, <1>2, <1>4, <1>9, <1>13, <2>3, KindFacts DEF SlotRecord, Seq
    <3>2. Near(slots[i].seq)
      BY <3>1 DEF IInv, FreshNear
    <3>3. CASE slots[i].seq <= read + buffer.distance + buffer.jump
      BY <1>1, <3>1, <3>3 DEF Near
    <3>4. CASE slots[i].seq = write /\ write = 0
      BY <1>1, <3>1, <3>4, KindFacts DEF Near
    <3>5. CASE slots[i].seq = write /\ write # 0
      <4>1. Distance(write, read) <= buffer.distance
        BY <1>1, <2>3, <3>5, KindFacts DEF Resets, Distance
      <4>2. write <= read + buffer.distance
        BY <1>1, <4>1, KindFacts DEF Distance
      <4> QED
        BY <1>1, <3>1, <3>5, <4>2, KindFacts DEF Near
    <3> QED
      BY <3>2, <3>3, <3>4, <3>5 DEF Near
  <2> QED
    BY <2>1, <2>2, <2>3
<1>14. Placed'
  <2> SUFFICES ASSUME NEW i \in Slot, slots'[i].fresh
               PROVE  slotOf(slots'[i].seq) = i
    BY <1>1, <1>3 DEF Placed, slotOf
  <2>1. CASE i = slotOf(n)
    BY <1>9, <2>1 DEF new
  <2>2. CASE i # slotOf(n) /\ Resets(n)
    BY <1>6, <1>9, <1>13, <2>2
  <2>3. CASE i # slotOf(n) /\ ~Resets(n)
    BY <1>9, <1>13, <2>3 DEF IInv, Placed
  <2> QED
    BY <2>1, <2>2, <2>3
<1> QED
  BY <1>10, <1>11, <1>12, <1>14 DEF IInv

(* Nothing but a push changes what is in the slots; the reader only gets on. *)
OnlyTouches == /\ buffer' = buffer /\ write' = write /\ read' \in Nat /\ read <= read'
               /\ \A i \in Slot : slots'[i].seq = slots[i].seq /\ slots'[i].fresh = slots[i].fresh

LEMMA TouchKeeps == ASSUME IInv, TypeOK', OnlyTouches
                    PROVE  IInv'
<1>1. /\ buffer \in Kinds /\ read \in Nat /\ write \in Nat /\ Slot' = Slot
      /\ \A i \in Slot : slots[i].seq \in Nat
  BY KindFacts DEF OnlyTouches, IInv, TypeOK, Seq, Slot
<1>2. StaleEmpty' /\ Placed'
  BY <1>1 DEF OnlyTouches, IInv, StaleEmpty, Placed, slotOf
<1>3. FreshNear'
  <2> SUFFICES ASSUME ~buffer.wraps, NEW i \in Slot, slots[i].fresh, slots[i].seq >= read'
               PROVE  slots[i].seq <= read' + buffer.distance + buffer.jump \/ slots[i].seq = write
    BY <1>1 DEF OnlyTouches, FreshNear, Near
  <2>1. slots[i].seq >= read
    BY <1>1 DEF OnlyTouches
  <2>2. Near(slots[i].seq)
    BY <2>1 DEF IInv, FreshNear
  <2> QED
    BY <1>1, <2>2, KindFacts DEF OnlyTouches, Near
<1> QED
  BY <1>2, <1>3 DEF IInv

LEMMA GetTickIInv == ASSUME IInv, Get \/ Tick
                     PROVE  IInv'
<1>1. /\ buffer \in Kinds /\ read \in Seq /\ write \in Seq /\ read \in Nat /\ write \in Nat
      /\ slots \in [Slot -> SlotRecord]
  BY KindFacts DEF IInv, TypeOK, SlotRecord, Seq
<1>2. slotOf(read) \in Slot
  BY <1>1, SlotOf
<1>3. \A x \in UNTOUCHED .. Timeout + 1 : Older(x) \in UNTOUCHED .. Timeout + 1
  BY <1>1, KindFacts DEF Older, UNTOUCHED
<1>4. 0 \in UNTOUCHED .. Timeout + 1 /\ UNTOUCHED \in UNTOUCHED .. Timeout + 1
  BY <1>1, KindFacts DEF UNTOUCHED
<1>5. ASSUME NEW touch \in [Slot -> UNTOUCHED .. Timeout + 1],
             slots' = [i \in Slot |-> [slots[i] EXCEPT !.touch = touch[i]]],
             read' \in Seq, read <= read', UNCHANGED <<buffer, write>>
      PROVE  IInv'
  <2>1. TypeOK'
    BY <1>1, <1>5 DEF SlotRecord, TypeOK, Slot, Seq
  <2>2. OnlyTouches
    BY <1>1, <1>5, KindFacts DEF SlotRecord, OnlyTouches, Seq
  <2> QED
    BY <2>1, <2>2, TouchKeeps
<1>6. ASSUME NEW x \in UNTOUCHED .. Timeout + 1,
             slots' = [slots EXCEPT ![slotOf(read)].touch = x],
             read' \in Seq, read <= read', UNCHANGED <<buffer, write>>
      PROVE  IInv'
  <2>1. TypeOK'
    BY <1>1, <1>2, <1>6 DEF SlotRecord, TypeOK, Slot, Seq
  <2>2. OnlyTouches
    BY <1>1, <1>2, <1>6, KindFacts DEF SlotRecord, OnlyTouches, Seq
  <2> QED
    BY <2>1, <2>2, TouchKeeps
<1>7. ~NoneToRead => read < write /\ read + 1 \in Seq
  BY <1>1, KindFacts DEF NoneToRead, Started, Seq
<1>8. CASE GetNothing
  <2>1. Started \in Seq /\ read <= Started
    BY <1>1 DEF Started
  <2>2. TypeOK' /\ OnlyTouches
    BY <1>1, <1>8, <2>1, KindFacts DEF GetNothing, OnlyTouches, IInv, TypeOK, Seq, Slot
  <2> QED
    BY <2>2, TouchKeeps
<1>9. CASE GetFrame
  <2>1. /\ slots' = [slots EXCEPT ![slotOf(read)].touch = UNTOUCHED]
        /\ read' = read + 1 /\ UNCHANGED <<buffer, write>>
    BY <1>9 DEF GetFrame
  <2>2. read' \in Seq /\ read <= read'
    BY <1>1, <1>7, <1>9, <2>1 DEF GetFrame
  <2> QED
    BY <1>4, <1>6, <2>1, <2>2
<1>10. CASE GetMissing
  <2> DEFINE x == IF Head.touch = UNTOUCHED THEN 0 ELSE Head.touch
  <2>1. x \in UNTOUCHED .. Timeout + 1
    BY <1>1, <1>2, <1>4 DEF Head, SlotRecord
  <2>2. slots' = [slots EXCEPT ![slotOf(read)].touch = x] /\ UNCHANGED <<buffer, write>>
    BY <1>1, <1>2, <1>10 DEF GetMissing, Head
  <2>3. read' \in Seq /\ read <= read'
    BY <1>1, <1>7, <1>10 DEF GetMissing, Missing
  <2> HIDE DEF x
  <2> QED
    BY <1>6, <2>1, <2>2, <2>3
<1>11. CASE Tick
  <2> DEFINE touch == [i \in Slot |-> Older(slots[i].touch)]
  <2>1. touch \in [Slot -> UNTOUCHED .. Timeout + 1]
    BY <1>1, <1>3 DEF SlotRecord
  <2>2. slots' = [i \in Slot |-> [slots[i] EXCEPT !.touch = touch[i]]]
    BY <1>11 DEF Tick
  <2>3. read' \in Seq /\ read <= read' /\ UNCHANGED <<buffer, write>>
    BY <1>1, <1>11 DEF Tick
  <2> HIDE DEF touch
  <2> QED
    BY <1>5, <2>1, <2>2, <2>3
<1> QED
  BY <1>8, <1>9, <1>10, <1>11 DEF Get

LEMMA StepIInv == IInv /\ [Next]_vars => IInv'
<1> SUFFICES ASSUME IInv, [Next]_vars PROVE IInv'
  OBVIOUS
<1>1. CASE UNCHANGED vars
  BY <1>1 DEF vars, IInv, TypeOK, Seq, Slot, StaleEmpty, FreshNear, Near, Placed, slotOf
<1>2. ASSUME NEW n \in Seq, Push(n) PROVE IInv'
  BY <1>2, PushIInv
<1> QED
  BY <1>1, <1>2, GetTickIInv DEF Next

(* The inductive invariant holds in every reachable state.                   *)
THEOREM Invariance == Spec => []IInv
  BY InitIInv, StepIInv, PTL DEF Spec

(* The variables keep their types: the reader never passes the writer.       *)
THEOREM TypeCorrect == Spec => []TypeOK
<1>1. IInv => TypeOK
  BY DEF IInv
<1> QED
  BY <1>1, Invariance, PTL

(* A buffer whose reset clears never delivers a frame of an earlier round.   *)
THEOREM NothingOld == Spec => []OnlyOfRound
<1>1. ASSUME IInv PROVE OnlyOfRound
  <2> SUFFICES ASSUME buffer.clears, ~NoneToRead, Head.seq = read PROVE Head.fresh
    BY DEF OnlyOfRound
  <2>1. buffer \in Kinds /\ read \in Nat /\ write \in Nat
    BY <1>1, KindFacts DEF IInv, TypeOK, Seq
  <2>2. slotOf(read) \in Slot
    BY <2>1, SlotOf
  <2>3. read # 0
    BY <2>1 DEF NoneToRead, Started
  <2> QED
    BY <1>1, <2>2, <2>3 DEF IInv, StaleEmpty, Head
<1> QED
  BY <1>1, Invariance, PTL

(* Only a push moves the writer or fills a slot. *)
LEMMA OnlyPush == ASSUME IInv, [Next]_vars
                  PROVE  \/ \E n \in Seq : Push(n)
                         \/ /\ write' = write
                            /\ \A i \in Slot : slots'[i].seq = slots[i].seq
<1>1. slots \in [Slot -> SlotRecord]
  BY DEF IInv, TypeOK, SlotRecord
<1>2. CASE Get
  BY <1>1, <1>2 DEF Get, GetNothing, GetFrame, GetMissing, SlotRecord
<1>3. CASE Tick
  BY <1>1, <1>3 DEF Tick, SlotRecord
<1>4. CASE UNCHANGED vars
  BY <1>4 DEF vars
<1> QED
  BY <1>2, <1>3, <1>4 DEF Next

(* The tests of a push that resets nothing, added up. *)
LEMMA PushClose == ASSUME IInv, NEW n \in Seq, write # 0, ~Resets(n)
                   PROVE  Distance(n, read) <= buffer.distance + buffer.jump
<1>1. /\ buffer \in Kinds /\ n \in 0 .. buffer.top - 1 /\ read \in 0 .. buffer.top - 1
      /\ write \in 0 .. buffer.top - 1
  BY DEF IInv, TypeOK, Seq
<1>2. ~(Distance(n, write) > buffer.jump) /\ ~(Distance(write, read) > buffer.distance)
  BY DEF Resets
<1>3. CASE buffer.wraps
  BY <1>1, <1>2, <1>3, KindFacts DEF Distance
<1>4. CASE ~buffer.wraps
  BY <1>1, <1>2, <1>4, KindFacts DEF Distance
<1> QED
  BY <1>3, <1>4

(* Reader and writer stay within both limits of each other, across the wrap. *)
THEOREM NeverFarApart == Spec => LagBounded
<1>1. ASSUME IInv, [Next]_vars, write' # write, write # 0
      PROVE  read' = 0 \/ Distance(write', read') <= buffer.distance + buffer.jump
  <2>1. PICK n \in Seq : Push(n)
    BY <1>1, OnlyPush
  <2> QED
    BY <1>1, <2>1, PushClose DEF Push
<1>2. IInv /\ [Next]_vars =>
        [write' # write /\ write # 0 =>
           read' = 0 \/ Distance(write', read') <= buffer.distance + buffer.jump]_vars
  BY <1>1
<1> QED
  BY <1>2, Invariance, PTL DEF Spec, LagBounded

(* In a table large enough for the limits no frame is lost to another before *)
(* it is read.                                                               *)
Loses(i) == slots[i].fresh /\ slots[i].seq >= read /\ slots'[i].seq # slots[i].seq
Large == ~buffer.wraps /\ 2 * (buffer.distance + buffer.jump) < buffer.slots

THEOREM FramesKept == Spec => NothingOverwritten
<1>1. ASSUME IInv, [Next]_vars, Large, NEW i \in Slot, Loses(i), write # 0
      PROVE  read' = 0 /\ Resets(write')
  <2>1. PICK n \in Seq : Push(n)
    BY <1>1, OnlyPush DEF Loses
  <2>2. write' = n
    BY <2>1 DEF Push
  <2> SUFFICES ASSUME ~Resets(n) PROVE FALSE
    BY <2>1, <2>2 DEF Push
  <2>3. slots \in [Slot -> SlotRecord]
    BY <1>1 DEF IInv, TypeOK, SlotRecord
  <2> DEFINE m == slots[i].seq
  <2>4. /\ m \in Nat /\ n \in Nat /\ read \in Nat /\ write \in Nat /\ buffer \in Kinds
    BY <1>1, <2>3, KindFacts DEF IInv, TypeOK, SlotRecord, Seq
  <2>5. slots' = [slots EXCEPT ![slotOf(n)] = [seq |-> n, touch |-> 0, fresh |-> TRUE]]
    BY <2>1 DEF Push
  <2>6. slotOf(n) = i /\ m # n
    BY <1>1, <2>3, <2>5 DEF Loses
  <2>7. m % buffer.slots = n % buffer.slots
    BY <1>1, <2>6 DEF IInv, Placed, Loses, slotOf
  <2>8. m >= read /\ Near(m)
    BY <1>1 DEF IInv, FreshNear, Loses, Large
  <2>9. Distance(n, read) <= buffer.distance + buffer.jump
    BY <1>1, PushClose
  <2>10. Distance(n, write) <= buffer.jump
    BY <1>1, <2>4, KindFacts DEF Resets, Distance
  <2> HIDE DEF m
  <2>11. n - m < buffer.slots /\ m - n < buffer.slots
    BY <1>1, <2>4, <2>8, <2>9, <2>10, KindFacts DEF Near, Distance, Large
  <2>12. n - m >= buffer.slots \/ m - n >= buffer.slots
    <3>1. buffer.slots \in Nat /\ buffer.slots > 0
      BY <2>4, KindFacts
    <3>2. CASE m < n
      <4>1. n - m < buffer.slots => m % buffer.slots # n % buffer.slots
        BY <2>4, <3>1, <3>2, ApartInRing
      <4> QED
        BY <2>4, <2>7, <3>1, <4>1
    <3>3. CASE n < m
      <4>1. m - n < buffer.slots => n % buffer.slots # m % buffer.slots
        BY <2>4, <3>1, <3>3, ApartInRing
      <4> QED
        BY <2>4, <2>7, <3>1, <4>1
    <3> QED
      BY <2>4, <2>6, <3>2, <3>3
  <2> QED
    BY <2>4, <2>11, <2>12, KindFacts
<1>2. ASSUME IInv, [Next]_vars
      PROVE  [~buffer.wraps /\ 2 * (buffer.distance + buffer.jump) < buffer.slots =>
                \A i \in Slot :
                   slots[i].fresh /\ slots[i].seq >= read /\ slots'[i].seq # slots[i].seq =>
                     write = 0 \/ (read' = 0 /\ Resets(write'))]_vars
  BY <1>1, <1>2 DEF Loses, Large
<1> QED
  BY <1>2, Invariance, PTL DEF Spec, NothingOverwritten
=============================================================================
