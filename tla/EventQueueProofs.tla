-------------------------- MODULE EventQueueProofs --------------------------
(***************************************************************************)
(* The ring buffer of event_queue.c is the bounded first-in first-out      *)
(* queue that the engine works with, for every capacity and every kind of  *)
(* event.                                                                  *)
(***************************************************************************)
EXTENDS EventQueue, TLAPS, SequenceTheorems

\* Indices into the ring wrap around once.
LEMMA Modulo ==
  ASSUME NEW N \in Nat \ {0}, NEW h \in 0 .. N - 1, NEW k \in 0 .. N
  PROVE  (h + k) % N = IF h + k < N THEN h + k ELSE h + k - N
<1>1. PICK x \in Nat : x = h + k /\ x < 2 * N
  OBVIOUS
<1>2. x % N = IF x < N THEN x ELSE x - N
  BY <1>1
<1> QED
  BY <1>1, <1>2

\* The slot that peek and push use, and what it depends on.
LEMMA SlotOf ==
  ASSUME RingAssumption, TypeOK, NEW k \in 0 .. QUEUE_SIZE
  PROVE  (head + k) % QUEUE_SIZE = IF head + k < QUEUE_SIZE THEN head + k
                                   ELSE head + k - QUEUE_SIZE
BY Modulo DEF RingAssumption, TypeOK, Slots

\* What peek shows is a sequence of count events.
LEMMA ContentsType ==
  ASSUME RingAssumption, TypeOK
  PROVE  /\ Contents \in Seq(Events) /\ Len(Contents) = count
         /\ \A i \in 1 .. count : Contents[i] = Peek(i - 1)
<1>1. \A i \in 1 .. count : Peek(i - 1) \in Events
  <2> TAKE i \in 1 .. count
  <2>1. (head + (i - 1)) % QUEUE_SIZE \in Slots
    BY SlotOf DEF RingAssumption, TypeOK, Slots
  <2> QED
    BY <2>1 DEF Peek, TypeOK
<1>2. count \in Nat
  BY DEF RingAssumption, TypeOK
<1>3. Contents \in [1 .. count -> Events]
  BY <1>1 DEF Contents
<1> QED
  BY <1>2, <1>3 DEF Contents

(***************************************************************************)
(* The head stays a slot and the count within the capacity, so the code    *)
(* never reads or writes outside the array.                                *)
(***************************************************************************)
THEOREM RingTypeCorrect == Spec => []TypeOK
<1> USE RingAssumption
<1>1. Init => TypeOK
  <2>1. 0 \in Slots /\ 0 \in 0 .. QUEUE_SIZE
    BY DEF Slots, RingAssumption
  <2> QED
    BY <2>1 DEF Init, TypeOK
<1>2. TypeOK /\ [Next]_vars => TypeOK'
  <2> SUFFICES ASSUME TypeOK, [Next]_vars PROVE TypeOK'
    OBVIOUS
  <2>1. ASSUME NEW event \in Events, Push(event)
        PROVE  TypeOK'
    <3>1. count' \in 0 .. QUEUE_SIZE
      BY <2>1 DEF Push, TypeOK, RingAssumption
    <3> QED
      BY <2>1, <3>1 DEF Push, TypeOK
  <2>2. ASSUME NEW event \in Events, PushFull(event)
        PROVE  TypeOK'
    BY <2>2 DEF PushFull, TypeOK
  <2>3. ASSUME NEW n \in 0 .. MaxDrop, Drop(n)
        PROVE  TypeOK'
    <3> DEFINE dropped == IF n > count THEN count ELSE n
    <3>1. dropped \in 0 .. count /\ dropped \in 0 .. QUEUE_SIZE
      BY DEF TypeOK, RingAssumption
    <3> HIDE DEF dropped
    <3>2. /\ head' = (head + dropped) % QUEUE_SIZE /\ count' = count - dropped
          /\ UNCHANGED <<items, overflowed>>
      BY <2>3 DEF Drop, dropped
    <3>3. head' \in Slots
      BY <3>1, <3>2, SlotOf DEF TypeOK, Slots, RingAssumption
    <3> QED
      BY <3>1, <3>2, <3>3 DEF TypeOK, RingAssumption
  <2>4. CASE ClearOverflow
    BY <2>4 DEF ClearOverflow, TypeOK
  <2>5. CASE UNCHANGED vars
    BY <2>5 DEF vars, TypeOK
  <2> QED
    BY <2>1, <2>2, <2>3, <2>4, <2>5 DEF Next
<1> QED
  BY <1>1, <1>2, PTL DEF Spec

-----------------------------------------------------------------------------
\* A push on a ring with room appends to what peek shows.
LEMMA PushAppends ==
  ASSUME RingAssumption, TypeOK, TypeOK', NEW event \in Events, Push(event)
  PROVE  Fifo!PushAll(<<event>>)
<1>1. /\ Contents \in Seq(Events) /\ Len(Contents) = count
      /\ \A i \in 1 .. count : Contents[i] = Peek(i - 1)
      /\ count \in Nat /\ count < QUEUE_SIZE
  BY ContentsType DEF Push, TypeOK, RingAssumption
<1>2. /\ head' = head /\ count' = count + 1 /\ overflowed' = overflowed
      /\ items' = [items EXCEPT ![(head + count) % QUEUE_SIZE] = event]
  BY DEF Push
<1>3. Contents' = [i \in 1 .. count + 1 |-> IF i <= count THEN Contents[i] ELSE event]
  <2>1. Contents' = [i \in 1 .. count + 1 |-> items'[(head + (i - 1)) % QUEUE_SIZE]]
    BY <1>2 DEF Contents, Peek
  <2>2. (head + count) % QUEUE_SIZE \in Slots
    BY <1>1, SlotOf DEF RingAssumption, TypeOK, Slots
  <2>3. ASSUME NEW i \in 1 .. count + 1
        PROVE  items'[(head + (i - 1)) % QUEUE_SIZE]
                 = IF i <= count THEN Contents[i] ELSE event
    <3>1. CASE i = count + 1
      BY <1>1, <1>2, <2>2, <3>1 DEF TypeOK
    <3>2. CASE i <= count
      <4>1. i - 1 \in 0 .. QUEUE_SIZE /\ count \in 0 .. QUEUE_SIZE
        BY <1>1, <3>2 DEF RingAssumption
      <4>2. (head + (i - 1)) % QUEUE_SIZE # (head + count) % QUEUE_SIZE
        <5>1. /\ (head + (i - 1)) % QUEUE_SIZE
                   = IF head + (i - 1) < QUEUE_SIZE THEN head + (i - 1)
                     ELSE head + (i - 1) - QUEUE_SIZE
              /\ (head + count) % QUEUE_SIZE
                   = IF head + count < QUEUE_SIZE THEN head + count
                     ELSE head + count - QUEUE_SIZE
          BY <4>1, SlotOf
        <5>2. head \in 0 .. QUEUE_SIZE - 1 /\ QUEUE_SIZE \in Nat
          BY DEF RingAssumption, TypeOK, Slots
        <5> DEFINE a == (head + (i - 1)) % QUEUE_SIZE
                   b == (head + count) % QUEUE_SIZE
        <5>3. /\ a = IF head + (i - 1) < QUEUE_SIZE THEN head + (i - 1)
                     ELSE head + (i - 1) - QUEUE_SIZE
              /\ b = IF head + count < QUEUE_SIZE THEN head + count
                     ELSE head + count - QUEUE_SIZE
          BY <5>1
        <5> HIDE DEF a, b
        <5>4. a # b
          BY <1>1, <3>2, <5>2, <5>3
        <5> QED
          BY <5>4 DEF a, b
      <4>3. (head + (i - 1)) % QUEUE_SIZE \in Slots
        BY <4>1, SlotOf DEF RingAssumption, TypeOK, Slots
      <4>4. items'[(head + (i - 1)) % QUEUE_SIZE] = items[(head + (i - 1)) % QUEUE_SIZE]
        BY <1>2, <4>2, <4>3 DEF TypeOK
      <4> QED
        BY <1>1, <3>2, <4>4 DEF Peek
    <3> QED
      BY <1>1, <3>1, <3>2
  <2> QED
    BY <2>1, <2>3
<1>4. /\ Contents \o <<event>> \in Seq(Events)
      /\ Len(Contents \o <<event>>) = count + 1
      /\ \A i \in 1 .. count + 1 : (Contents \o <<event>>)[i]
           = IF i <= count THEN Contents[i] ELSE event
  BY <1>1
<1>5. /\ Fifo!Least(Len(Contents) + Len(<<event>>), QUEUE_SIZE) = count + 1
      /\ ~(Len(Contents) + Len(<<event>>) > QUEUE_SIZE)
  BY <1>1 DEF Fifo!Least, RingAssumption
<1>6. /\ Contents' \in Seq(Events) /\ Len(Contents') = count + 1
      /\ \A i \in 1 .. count + 1 : Contents'[i] = (Contents \o <<event>>)[i]
  BY <1>1, <1>3, <1>4
<1>7. Contents' = Contents \o <<event>>
  BY <1>4, <1>6, SeqEqual
<1>8. SubSeq(Contents \o <<event>>, 1, count + 1) = Contents \o <<event>>
  BY <1>1, <1>4, SubSeqFull
<1> QED
  BY <1>2, <1>5, <1>7, <1>8 DEF Fifo!PushAll, TypeOK

\* A drop removes events from the front of what peek shows.
LEMMA DropRemoves ==
  ASSUME RingAssumption, TypeOK, TypeOK', NEW n \in Nat, Drop(n)
  PROVE  \E m \in 0 .. QUEUE_SIZE : Fifo!DropFirst(m) /\ UNCHANGED overflowed
<1> DEFINE m == IF n > count THEN count ELSE n
<1>1. m \in 0 .. count /\ count \in 0 .. QUEUE_SIZE /\ QUEUE_SIZE \in Nat \ {0}
  BY DEF TypeOK, RingAssumption
<1>2. /\ head' = (head + m) % QUEUE_SIZE /\ count' = count - m
      /\ UNCHANGED <<items, overflowed>>
  BY DEF Drop
<1> HIDE DEF m
<1>3. /\ Contents \in Seq(Events) /\ Len(Contents) = count
      /\ \A i \in 1 .. count : Contents[i] = Peek(i - 1)
  BY ContentsType
<1>4. Fifo!Least(m, Len(Contents)) = m
  BY <1>1, <1>3 DEF Fifo!Least
<1>5. Contents' = [i \in 1 .. count - m |-> Contents[m + i]]
  <2>1. Contents' = [i \in 1 .. count - m |-> items[(head' + (i - 1)) % QUEUE_SIZE]]
    BY <1>2 DEF Contents, Peek
  <2>2. ASSUME NEW i \in 1 .. count - m
        PROVE  items[(head' + (i - 1)) % QUEUE_SIZE] = Contents[m + i]
    <3>1. /\ (head + m) % QUEUE_SIZE = IF head + m < QUEUE_SIZE THEN head + m
                                       ELSE head + m - QUEUE_SIZE
          /\ (head + (m + i - 1)) % QUEUE_SIZE
               = IF head + (m + i - 1) < QUEUE_SIZE THEN head + (m + i - 1)
                 ELSE head + (m + i - 1) - QUEUE_SIZE
      <4>1. m \in 0 .. QUEUE_SIZE /\ m + i - 1 \in 0 .. QUEUE_SIZE
        BY <1>1
      <4> QED
        BY <4>1, SlotOf
    <3>2. /\ head' \in 0 .. QUEUE_SIZE - 1 /\ head \in 0 .. QUEUE_SIZE - 1
          /\ i - 1 \in 0 .. QUEUE_SIZE
      BY <1>1 DEF TypeOK, Slots
    <3>3. (head' + (i - 1)) % QUEUE_SIZE
            = IF head' + (i - 1) < QUEUE_SIZE THEN head' + (i - 1)
              ELSE head' + (i - 1) - QUEUE_SIZE
      BY <1>1, <3>2, Modulo
    <3>4. (head' + (i - 1)) % QUEUE_SIZE = (head + (m + i - 1)) % QUEUE_SIZE
      <4>1. head' = IF head + m < QUEUE_SIZE THEN head + m ELSE head + m - QUEUE_SIZE
        BY <1>2, <3>1
      <4> QED
        BY <1>1, <3>1, <3>2, <3>3, <4>1
    <3>5. m + i \in 1 .. count /\ (m + i) - 1 = m + i - 1
      BY <1>1
    <3>6. Contents[m + i] = items[(head + (m + i - 1)) % QUEUE_SIZE]
      BY <1>3, <3>5 DEF Peek
    <3> QED
      BY <3>4, <3>6
  <2> QED
    BY <2>1, <2>2
<1>6. Contents' = SubSeq(Contents, m + 1, count)
  <2>1. \A i \in m + 1 .. count : Contents[i] \in Events
    BY <1>1, <1>3, ElementOfSeq
  <2>2. /\ SubSeq(Contents, m + 1, count) \in Seq(Events)
        /\ Len(SubSeq(Contents, m + 1, count))
             = IF m + 1 <= count THEN count - (m + 1) + 1 ELSE 0
        /\ \A i \in 1 .. count - (m + 1) + 1 :
             SubSeq(Contents, m + 1, count)[i] = Contents[m + 1 + i - 1]
    BY <1>1, <2>1, SubSeqProperties
  <2>3. /\ Contents' \in Seq(Events) /\ Len(Contents') = count - m
        /\ \A i \in 1 .. count - m : Contents'[i] = Contents[m + i]
    BY <1>1, <1>5, <2>1
  <2>4. /\ Len(SubSeq(Contents, m + 1, count)) = count - m
        /\ \A i \in 1 .. count - m :
             SubSeq(Contents, m + 1, count)[i] = Contents[m + i]
    BY <1>1, <2>2
  <2> QED
    BY <2>2, <2>3, <2>4, SeqEqual
<1>7. Fifo!DropFirst(m)
  BY <1>3, <1>4, <1>6 DEF Fifo!DropFirst
<1>8. m \in 0 .. QUEUE_SIZE
  BY <1>1
<1> QED
  BY <1>2, <1>7, <1>8

(***************************************************************************)
(* The ring is a bounded first-in first-out queue.  The refinement reads   *)
(* the queue off the ring as hp_event_queue_peek does; every operation on  *)
(* the ring is the same operation on the queue, or leaves it as it is.     *)
(***************************************************************************)
THEOREM RingImplementsFifo == Spec => ImplementsFifo
<1> USE RingAssumption
<1>1. Init => Fifo!FifoInit
  <2> SUFFICES ASSUME Init PROVE Fifo!FifoInit
    OBVIOUS
  <2>1. Contents = <<>>
    BY DEF Init, Contents
  <2> QED
    BY <2>1 DEF Init, Fifo!FifoInit
<1>2. TypeOK /\ TypeOK' /\ [Next]_vars => [Fifo!FifoNext]_(Fifo!fifoVars)
  <2> SUFFICES ASSUME TypeOK, TypeOK', [Next]_vars
               PROVE  [Fifo!FifoNext]_(Fifo!fifoVars)
    OBVIOUS
  <2>1. ASSUME NEW event \in Events, Push(event)
        PROVE  Fifo!FifoNext
    BY <2>1, PushAppends DEF Fifo!FifoNext
  <2>2. ASSUME NEW event \in Events, PushFull(event)
        PROVE  Fifo!FifoNext
    <3>1. Contents' = Contents /\ overflowed' = TRUE /\ count = QUEUE_SIZE
      BY <2>2 DEF PushFull, Contents, Peek, TypeOK, RingAssumption
    <3>2. /\ Contents \in Seq(Events) /\ Len(Contents) = QUEUE_SIZE
          /\ QUEUE_SIZE \in Nat
      BY <3>1, ContentsType DEF RingAssumption
    <3>3. SubSeq(Contents \o <<event>>, 1, QUEUE_SIZE) = Contents
      <4>1. /\ Contents \o <<event>> \in Seq(Events)
            /\ Len(Contents \o <<event>>) = QUEUE_SIZE + 1
            /\ \A i \in 1 .. QUEUE_SIZE : (Contents \o <<event>>)[i] = Contents[i]
        BY <3>2
      <4>2. \A i \in 1 .. QUEUE_SIZE : (Contents \o <<event>>)[i] \in Events
        BY <3>2, <4>1, ElementOfSeq
      <4>3. /\ SubSeq(Contents \o <<event>>, 1, QUEUE_SIZE) \in Seq(Events)
            /\ Len(SubSeq(Contents \o <<event>>, 1, QUEUE_SIZE)) = QUEUE_SIZE
            /\ \A i \in 1 .. QUEUE_SIZE :
                 SubSeq(Contents \o <<event>>, 1, QUEUE_SIZE)[i]
                   = (Contents \o <<event>>)[i]
        BY <3>2, <4>1, <4>2
      <4> QED
        BY <3>2, <4>1, <4>3, SeqEqual
    <3>4. /\ Fifo!Least(Len(Contents) + Len(<<event>>), QUEUE_SIZE) = QUEUE_SIZE
          /\ Len(Contents) + Len(<<event>>) > QUEUE_SIZE
      BY <3>2 DEF Fifo!Least
    <3>5. Fifo!PushAll(<<event>>)
      BY <3>1, <3>3, <3>4 DEF Fifo!PushAll
    <3> QED
      BY <3>5 DEF Fifo!FifoNext
  <2>3. ASSUME NEW n \in 0 .. MaxDrop, Drop(n)
        PROVE  Fifo!FifoNext
    <3>1. n \in Nat
      BY DEF RingAssumption
    <3> QED
      BY <2>3, <3>1, DropRemoves DEF Fifo!FifoNext
  <2>4. CASE ClearOverflow
    BY <2>4 DEF ClearOverflow, Contents, Peek, Fifo!FifoNext
  <2>5. CASE UNCHANGED vars
    BY <2>5 DEF vars, Contents, Peek, Fifo!fifoVars
  <2> QED
    BY <2>1, <2>2, <2>3, <2>4, <2>5 DEF Next
<1> QED
  BY <1>1, <1>2, RingTypeCorrect, PTL DEF Spec, ImplementsFifo, Fifo!FifoSpec
=============================================================================
