-------------------------- MODULE EdgeBufferProofs --------------------------
(***************************************************************************)
(* The edge buffer between the interrupt handler and the main loop, for    *)
(* every size of the ring and every number of pins: it is a bounded        *)
(* first-in first-out queue, nothing overwrites the entry that is being    *)
(* taken, and no change of a pin is forgotten as long as fewer interrupts  *)
(* than the ring has slots come in the window of an overflow check.        *)
(***************************************************************************)
EXTENDS EdgeBuffer, TLAPS, SequenceTheorems, WellFoundedInduction

\* How many entries wait in the ring.
Count == (edge_head - edge_tail) % EDGE_BUFFER_SIZE

\* The interrupts in a window do not fill the ring.
WindowIsShort == MaxInWindow < EDGE_BUFFER_SIZE

-----------------------------------------------------------------------------
(***************************************************************************)
(* Slots                                                                   *)
(***************************************************************************)

\* Adding up to N to a slot wraps around once.
LEMMA SlotAfter ==
  ASSUME NEW N \in Nat \ {0}, NEW h \in 0 .. N - 1, NEW k \in 0 .. N
  PROVE  (h + k) % N = IF h + k < N THEN h + k ELSE h + k - N
<1>1. PICK x \in Nat : x = h + k /\ x < 2 * N
  OBVIOUS
<1>2. x % N = IF x < N THEN x ELSE x - N
  BY <1>1
<1> QED
  BY <1>1, <1>2

\* The way from one slot to another wraps around once.
LEMMA SlotsBetween ==
  ASSUME NEW N \in Nat \ {0}, NEW h \in 0 .. N - 1, NEW t \in 0 .. N - 1
  PROVE  (h - t) % N = IF t <= h THEN h - t ELSE h - t + N
<1>1. PICK x \in Int : x = h - t /\ x < N /\ -x < N
  OBVIOUS
<1>2. x % N = IF 0 <= x THEN x ELSE x + N
  BY <1>1
<1> QED
  BY <1>1, <1>2

\* The next slot, and how many entries wait.
LEMMA SlotLaws ==
  ASSUME EdgeBufferAssumption, TypeOK
  PROVE  /\ \A i \in Slots : NextSlot(i) = IF i + 1 < EDGE_BUFFER_SIZE THEN i + 1 ELSE 0
         /\ Count = IF edge_tail <= edge_head THEN edge_head - edge_tail
                    ELSE edge_head - edge_tail + EDGE_BUFFER_SIZE
         /\ Count \in Slots
         /\ Count = 0 <=> edge_tail = edge_head
<1> DEFINE N == EDGE_BUFFER_SIZE
<1>1. N \in Nat \ {0} /\ edge_head \in 0 .. N - 1 /\ edge_tail \in 0 .. N - 1
  BY DEF EdgeBufferAssumption, TypeOK, Slots
<1>2. Count = IF edge_tail <= edge_head THEN edge_head - edge_tail
              ELSE edge_head - edge_tail + N
  BY <1>1, SlotsBetween DEF Count
<1>3. \A i \in 0 .. N - 1 : NextSlot(i) = IF i + 1 < N THEN i + 1 ELSE 0
  <2> TAKE i \in 0 .. N - 1
  <2>1. i \in 0 .. N - 1 /\ 1 \in 0 .. N
    BY <1>1
  <2> HIDE DEF N
  <2>2. (i + 1) % N = IF i + 1 < N THEN i + 1 ELSE i + 1 - N
    BY <1>1, <2>1, SlotAfter
  <2> QED
    BY <1>1, <2>1, <2>2 DEF NextSlot, N
<1> QED
  BY <1>1, <1>2, <1>3 DEF Slots

-----------------------------------------------------------------------------
(***************************************************************************)
(* The indices stay inside the array, and the loop, the handler and the    *)
(* counters keep to their values.                                          *)
(***************************************************************************)
THEOREM EdgeBufferTypeCorrect == Spec => []TypeOK
<1> USE EdgeBufferAssumption
<1>1. Init => TypeOK
  <2> SUFFICES ASSUME Init PROVE TypeOK
    OBVIOUS
  <2>1. PICK p \in Pins : /\ edge = [gpio |-> p, level |-> FALSE]
                          /\ edge_buffer = [i \in Slots |-> edge]
    BY DEF Init
  <2>2. edge \in Edges /\ edge_buffer \in [Slots -> Edges]
    BY <2>1 DEF Edges
  <2>3. irq \in [gpio : {{}} \cup {{q} : q \in Pins}, mask : SUBSET {"rise", "fall"}]
    BY DEF Init, NoIrq
  <2>4. /\ edge_head \in Slots /\ edge_tail \in Slots
        /\ changes \in 0 .. MaxChanges /\ window \in 0 .. MaxInWindow
    BY DEF Init, Slots, EdgeBufferAssumption
  <2>5. wire \in [Pins -> BOOLEAN] /\ latched \in [Pins -> SUBSET {"rise", "fall"}]
    BY DEF Init
  <2> QED
    BY <2>2, <2>3, <2>4, <2>5 DEF Init, TypeOK, Loop
<1>2. TypeOK /\ [Next]_vars => TypeOK'
  <2> SUFFICES ASSUME TypeOK, [Next]_vars PROVE TypeOK'
    OBVIOUS
  <2>1. \A i \in Slots : NextSlot(i) \in Slots
    BY SlotLaws DEF Slots, EdgeBufferAssumption
  <2>2. ASSUME NEW p \in Pins, Change(p)
        PROVE  TypeOK'
    <3>1. wire' \in [Pins -> BOOLEAN] /\ latched' \in [Pins -> SUBSET {"rise", "fall"}]
      BY <2>2 DEF Change, TypeOK
    <3>2. changes' \in 0 .. MaxChanges
      BY <2>2 DEF Change, TypeOK, EdgeBufferAssumption
    <3> QED
      BY <2>2, <3>1, <3>2 DEF Change, TypeOK, ringVars, mainVars
  <2>3. ASSUME NEW p \in Pins, Interrupt(p)
        PROVE  TypeOK'
    <3>1. window' \in 0 .. MaxInWindow
      BY <2>3 DEF Interrupt, TypeOK, EdgeBufferAssumption
    <3>2. /\ latched' \in [Pins -> SUBSET {"rise", "fall"}]
          /\ irq' \in [gpio : {{}} \cup {{q} : q \in Pins}, mask : SUBSET {"rise", "fall"}]
      BY <2>3 DEF Interrupt, TypeOK
    <3> QED
      BY <2>3, <3>1, <3>2 DEF Interrupt, TypeOK, ringVars, mainVars
  <2>4. CASE GpioEdgeIrq
    <3>1. PICK p \in irq.gpio : PushEdge([gpio |-> p, level |-> EdgeLevel(p, irq.mask)])
      BY <2>4 DEF GpioEdgeIrq
    <3>2. p \in Pins
      BY <3>1 DEF TypeOK
    <3>3. EdgeLevel(p, irq.mask) \in BOOLEAN
      <4>1. wire[p] \in BOOLEAN
        BY <3>2 DEF TypeOK
      <4>2. ("rise" \in irq.mask) \in BOOLEAN
        OBVIOUS
      <4> QED
        BY <4>1, <4>2, Zenon DEF EdgeLevel
    <3>4. [gpio |-> p, level |-> EdgeLevel(p, irq.mask)] \in Edges
      BY <3>2, <3>3 DEF Edges
    <3>5. /\ edge_buffer' \in [Slots -> Edges] /\ edge_head' \in Slots
          /\ edge_tail' \in Slots /\ edge_overflow' \in BOOLEAN
      <4> DEFINE e == [gpio |-> p, level |-> EdgeLevel(p, irq.mask)]
      <4>1. e \in Edges /\ PushEdge(e)
        BY <3>1, <3>4
      <4> HIDE DEF e
      <4>2. CASE NextSlot(edge_head) = edge_tail
        BY <4>1, <4>2 DEF PushEdge, TypeOK
      <4>3. CASE NextSlot(edge_head) # edge_tail
        BY <2>1, <4>1, <4>3 DEF PushEdge, TypeOK
      <4> QED
        BY <4>2, <4>3
    <3> QED
      BY <2>4, <3>5 DEF GpioEdgeIrq, NoIrq, TypeOK, pinVars, mainVars
  <2>5. CASE Main
    <3>1. CASE TudTask
      <4>1. latched' \in [Pins -> SUBSET {"rise", "fall"}] /\ tracked' \subseteq Pins
        BY <3>1 DEF TudTask, TypeOK
      <4> QED
        BY <3>1, <4>1 DEF TudTask, TypeOK, ringVars, Loop
    <3>2. CASE PopCopy
      BY <3>2 DEF PopCopy, TypeOK, pinVars, ringVars, Loop
    <3>3. CASE PopAdvance
      <4>1. known' \in [Pins -> BOOLEAN]
        BY <3>3 DEF PopAdvance, TypeOK, Edges
      <4> QED
        BY <2>1, <3>3, <4>1 DEF PopAdvance, TypeOK, pinVars, Loop
    <3>4. CASE PopEmpty
      BY <3>4 DEF PopEmpty, TypeOK, pinVars, ringVars, Loop, EdgeBufferAssumption
    <3>5. CASE TakeOverflow
      BY <3>5 DEF TakeOverflow, TypeOK, pinVars, Loop
    <3>6. CASE Resync
      <4>1. known' \in [Pins -> BOOLEAN]
        BY <3>6 DEF Resync, TypeOK
      <4> QED
        BY <3>6, <4>1 DEF Resync, TypeOK, pinVars, ringVars, Loop
    <3>7. CASE EngineTask
      <4>1. known' \in [Pins -> BOOLEAN] /\ tracked' \subseteq Pins
        BY <3>7 DEF EngineTask, TypeOK
      <4> QED
        BY <3>7, <4>1 DEF EngineTask, TypeOK, pinVars, ringVars, Loop
    <3> QED
      BY <2>5, <3>1, <3>2, <3>3, <3>4, <3>5, <3>6, <3>7 DEF Main
  <2>6. CASE UNCHANGED vars
    BY <2>6 DEF vars, pinVars, ringVars, mainVars, TypeOK
  <2> QED
    BY <2>2, <2>3, <2>4, <2>5, <2>6 DEF Next, Isr
<1> QED
  BY <1>1, <1>2, PTL DEF Spec

-----------------------------------------------------------------------------
(***************************************************************************)
(* The ring as a sequence                                                  *)
(***************************************************************************)

\* A function on an interval from 1 is a sequence.
LEMMA SequenceOf ==
  ASSUME NEW S, NEW n \in Nat, NEW s \in [1 .. n -> S]
  PROVE  s \in Seq(S) /\ Len(s) = n
OBVIOUS

\* The slot of an entry.
LEMMA SlotOfEntry ==
  ASSUME EdgeBufferAssumption, TypeOK, NEW i \in 1 .. Count + 1
  PROVE  /\ (edge_tail + i - 1) % EDGE_BUFFER_SIZE
              = IF edge_tail + i - 1 < EDGE_BUFFER_SIZE THEN edge_tail + i - 1
                ELSE edge_tail + i - 1 - EDGE_BUFFER_SIZE
         /\ (edge_tail + i - 1) % EDGE_BUFFER_SIZE \in Slots
<1> DEFINE N == EDGE_BUFFER_SIZE
<1>1. /\ N \in Nat \ {0} /\ edge_tail \in 0 .. N - 1 /\ Count \in 0 .. N - 1
  BY SlotLaws DEF EdgeBufferAssumption, TypeOK, Slots
<1>2. i - 1 \in 0 .. N /\ edge_tail + i - 1 = edge_tail + (i - 1)
  BY <1>1
<1> HIDE DEF N
<1>3. (edge_tail + (i - 1)) % N = IF edge_tail + (i - 1) < N THEN edge_tail + (i - 1)
                                  ELSE edge_tail + (i - 1) - N
  BY <1>1, <1>2, SlotAfter
<1> QED
  BY <1>1, <1>2, <1>3 DEF N, Slots

\* What the ring holds is a sequence of entries, shorter than the ring.
LEMMA ContentsType ==
  ASSUME EdgeBufferAssumption, TypeOK
  PROVE  /\ Contents \in Seq(Edges) /\ Len(Contents) = Count
         /\ Count \in Nat /\ Count < EDGE_BUFFER_SIZE
         /\ \A i \in 1 .. Count :
              Contents[i] = edge_buffer[(edge_tail + i - 1) % EDGE_BUFFER_SIZE]
<1>1. Count \in Nat /\ Count < EDGE_BUFFER_SIZE
  BY SlotLaws DEF EdgeBufferAssumption, Slots
<1>2. \A i \in 1 .. Count :
        edge_buffer[(edge_tail + i - 1) % EDGE_BUFFER_SIZE] \in Edges
  <2> TAKE i \in 1 .. Count
  <2>1. (edge_tail + i - 1) % EDGE_BUFFER_SIZE \in Slots
    BY <1>1, SlotOfEntry
  <2> QED
    BY <2>1 DEF TypeOK
<1>3. Contents = [i \in 1 .. Count |->
                    edge_buffer[(edge_tail + i - 1) % EDGE_BUFFER_SIZE]]
  BY DEF Contents, Count
<1> HIDE DEF Count
<1>4. Contents \in [1 .. Count -> Edges]
  BY <1>2, <1>3
<1> QED
  BY <1>1, <1>3, <1>4

\* An entry the handler stores becomes the last one.
LEMMA PushAppends ==
  ASSUME EdgeBufferAssumption, TypeOK, TypeOK', NEW e \in Edges,
         PushEdge(e), NextSlot(edge_head) # edge_tail
  PROVE  Contents' = Append(Contents, e) /\ Count' = Count + 1
<1> DEFINE N == EDGE_BUFFER_SIZE
           slot(i) == (edge_tail + i - 1) % N
<1>1. /\ edge_buffer' = [edge_buffer EXCEPT ![edge_head] = e]
      /\ edge_head' = NextSlot(edge_head) /\ edge_tail' = edge_tail
  BY DEF PushEdge
<1>2. /\ N \in Nat \ {0}
      /\ edge_tail \in 0 .. N - 1 /\ edge_head \in 0 .. N - 1
      /\ edge_head' = IF edge_head + 1 < N THEN edge_head + 1 ELSE 0
      /\ Count = IF edge_tail <= edge_head THEN edge_head - edge_tail
                 ELSE edge_head - edge_tail + N
      /\ Count \in 0 .. N - 1
  BY <1>1, SlotLaws DEF EdgeBufferAssumption, TypeOK, Slots
<1>3. Count' = IF edge_tail <= edge_head' THEN edge_head' - edge_tail
               ELSE edge_head' - edge_tail + N
  <2>1. edge_head' \in 0 .. N - 1
    BY <1>2
  <2>2. (edge_head' - edge_tail) % N
          = IF edge_tail <= edge_head' THEN edge_head' - edge_tail
            ELSE edge_head' - edge_tail + N
    BY <1>2, <2>1, SlotsBetween
  <2> QED
    BY <1>1, <2>2 DEF Count
<1>4. Count' = Count + 1
  <2>1. edge_head' # edge_tail
    BY <1>1
  <2> QED
    BY <1>2, <1>3, <2>1
<1>5. \A i \in 1 .. Count + 1 :
        slot(i) = IF edge_tail + i - 1 < N THEN edge_tail + i - 1
                  ELSE edge_tail + i - 1 - N
  BY SlotOfEntry
<1>6. slot(Count + 1) = edge_head /\ \A i \in 1 .. Count : slot(i) # edge_head
  <2> HIDE DEF slot
  <2>1. slot(Count + 1) = edge_head
    BY <1>2, <1>5
  <2>2. ASSUME NEW i \in 1 .. Count
        PROVE  slot(i) # edge_head
    BY <1>2, <1>5
  <2> QED
    BY <2>1, <2>2
<1>7. /\ Contents \in Seq(Edges) /\ Len(Contents) = Count
      /\ \A i \in 1 .. Count : Contents[i] = edge_buffer[slot(i)]
  BY ContentsType
<1>8. Contents' = [i \in 1 .. Count' |-> edge_buffer'[slot(i)]]
  BY <1>1 DEF Contents, Count
<1>9. \A i \in 1 .. Count + 1 : slot(i) \in Slots
  BY SlotOfEntry
<1>10. /\ \A i \in 1 .. Count : edge_buffer'[slot(i)] = Contents[i]
       /\ edge_buffer'[slot(Count + 1)] = e
  <2> HIDE DEF slot
  <2>1. Count + 1 \in 1 .. Count + 1 /\ \A i \in 1 .. Count : i \in 1 .. Count + 1
    BY <1>2
  <2> QED
    BY <1>1, <1>6, <1>7, <1>9, <2>1 DEF TypeOK
<1>11. /\ Append(Contents, e) \in Seq(Edges) /\ Len(Append(Contents, e)) = Count + 1
       /\ \A i \in 1 .. Count : Append(Contents, e)[i] = Contents[i]
       /\ Append(Contents, e)[Count + 1] = e
  BY <1>7, AppendProperties
<1>12. /\ Contents' \in Seq(Edges) /\ Len(Contents') = Count + 1
       /\ \A i \in 1 .. Count + 1 : Contents'[i] = Append(Contents, e)[i]
  <2> HIDE DEF slot, Count
  <2>1. \A i \in 1 .. Count + 1 : edge_buffer'[slot(i)] = Append(Contents, e)[i]
    BY <1>2, <1>10, <1>11
  <2>2. \A i \in 1 .. Count + 1 : Append(Contents, e)[i] \in Edges
    BY <1>2, <1>11, ElementOfSeq
  <2>3. Contents' = [i \in 1 .. Count + 1 |-> edge_buffer'[slot(i)]]
    BY <1>4, <1>8
  <2>4. Contents' \in [1 .. Count + 1 -> Edges]
    BY <2>1, <2>2, <2>3
  <2>5. Count + 1 \in Nat
    BY <1>2
  <2>6. Contents' \in Seq(Edges) /\ Len(Contents') = Count + 1
    BY <2>4, <2>5, SequenceOf
  <2> QED
    BY <2>1, <2>3, <2>6
<1>13. Contents' = Append(Contents, e)
  BY <1>11, <1>12, SeqEqual
<1> QED
  BY <1>4, <1>13

\* Moving the tail takes the first entry away.
LEMMA AdvanceRemoves ==
  ASSUME EdgeBufferAssumption, TypeOK, TypeOK', edge_tail # edge_head,
         edge_tail' = NextSlot(edge_tail), UNCHANGED <<edge_buffer, edge_head>>
  PROVE  /\ Contents # <<>> /\ Contents[1] = edge_buffer[edge_tail]
         /\ Contents' = Tail(Contents) /\ Count' = Count - 1
<1> DEFINE N == EDGE_BUFFER_SIZE
           slot(i) == (edge_tail + i - 1) % N
<1>1. /\ N \in Nat \ {0}
      /\ edge_tail \in 0 .. N - 1 /\ edge_head \in 0 .. N - 1
      /\ edge_tail' = IF edge_tail + 1 < N THEN edge_tail + 1 ELSE 0
      /\ Count = IF edge_tail <= edge_head THEN edge_head - edge_tail
                 ELSE edge_head - edge_tail + N
      /\ Count \in 1 .. N - 1
  BY SlotLaws DEF EdgeBufferAssumption, TypeOK, Slots
<1>2. Count' = IF edge_tail' <= edge_head THEN edge_head - edge_tail'
               ELSE edge_head - edge_tail' + N
  <2>1. edge_tail' \in 0 .. N - 1
    BY <1>1
  <2>2. (edge_head - edge_tail') % N
          = IF edge_tail' <= edge_head THEN edge_head - edge_tail'
            ELSE edge_head - edge_tail' + N
    BY <1>1, <2>1, SlotsBetween
  <2> QED
    BY <2>2 DEF Count
<1>3. Count' = Count - 1
  BY <1>1, <1>2
<1>4. /\ Contents \in Seq(Edges) /\ Len(Contents) = Count
      /\ \A i \in 1 .. Count : Contents[i] = edge_buffer[slot(i)]
  BY ContentsType
<1>5. \A i \in 1 .. Count : slot(i) = IF edge_tail + i - 1 < N THEN edge_tail + i - 1
                                      ELSE edge_tail + i - 1 - N
  BY <1>1, SlotOfEntry
<1>6. Contents # <<>> /\ Contents[1] = edge_buffer[edge_tail]
  <2> HIDE DEF slot
  <2>1. slot(1) = edge_tail
    BY <1>1, <1>5
  <2> QED
    BY <1>1, <1>4, <2>1
<1>7. /\ Tail(Contents) \in Seq(Edges) /\ Len(Tail(Contents)) = Count - 1
      /\ \A i \in 1 .. Count - 1 : Tail(Contents)[i] = Contents[i + 1]
  BY <1>4, <1>6, HeadTailProperties
<1>8. ASSUME NEW i \in 1 .. Count - 1
      PROVE  (edge_tail' + i - 1) % N = slot(i + 1)
  <2>1. i - 1 \in 0 .. N /\ edge_tail' \in 0 .. N - 1 /\ i + 1 \in 1 .. Count
    BY <1>1
  <2> HIDE DEF N
  <2>2. (edge_tail' + (i - 1)) % N
          = IF edge_tail' + (i - 1) < N THEN edge_tail' + (i - 1)
            ELSE edge_tail' + (i - 1) - N
    BY <1>1, <2>1, SlotAfter
  <2>3. edge_tail' + (i - 1) = edge_tail' + i - 1
    BY <1>1
  <2> HIDE DEF slot
  <2> QED
    BY <1>1, <1>5, <2>1, <2>2, <2>3
<1>9. Contents' = [i \in 1 .. Count' |-> edge_buffer[(edge_tail' + i - 1) % N]]
  BY DEF Contents, Count
<1>10. Contents' = Tail(Contents)
  <2> HIDE DEF slot, Count
  <2>1. \A i \in 1 .. Count - 1 :
          edge_buffer[(edge_tail' + i - 1) % N] = Tail(Contents)[i]
    <3> TAKE i \in 1 .. Count - 1
    <3>1. i + 1 \in 1 .. Count
      BY <1>1
    <3> QED
      BY <1>4, <1>7, <1>8, <3>1
  <2>2. \A i \in 1 .. Count - 1 : Tail(Contents)[i] \in Edges
    BY <1>1, <1>7, ElementOfSeq
  <2>3. Contents' \in [1 .. Count - 1 -> Edges]
    BY <1>3, <1>9, <2>1, <2>2
  <2>4. /\ Contents' \in Seq(Edges) /\ Len(Contents') = Count - 1
        /\ \A i \in 1 .. Count - 1 : Contents'[i] = Tail(Contents)[i]
    <3>1. Count - 1 \in Nat
      BY <1>1
    <3>2. Contents' \in Seq(Edges) /\ Len(Contents') = Count - 1
      BY <2>3, <3>1, SequenceOf
    <3> QED
      BY <1>3, <1>9, <2>1, <3>2
  <2> QED
    BY <1>7, <2>4, SeqEqual
<1> QED
  BY <1>3, <1>6, <1>10

\* A ring without room holds one entry less than it has slots.
LEMMA FullRing ==
  ASSUME EdgeBufferAssumption, TypeOK
  PROVE  NextSlot(edge_head) = edge_tail <=> Count = EDGE_BUFFER_SIZE - 1
<1>1. /\ EDGE_BUFFER_SIZE \in Nat \ {0}
      /\ edge_tail \in 0 .. EDGE_BUFFER_SIZE - 1 /\ edge_head \in 0 .. EDGE_BUFFER_SIZE - 1
  BY DEF EdgeBufferAssumption, TypeOK, Slots
<1>2. /\ NextSlot(edge_head) = IF edge_head + 1 < EDGE_BUFFER_SIZE THEN edge_head + 1 ELSE 0
      /\ Count = IF edge_tail <= edge_head THEN edge_head - edge_tail
                 ELSE edge_head - edge_tail + EDGE_BUFFER_SIZE
  BY SlotLaws DEF TypeOK
<1> QED
  BY <1>1, <1>2

\* What the handler stores is an entry.
LEMMA HandlerEntry ==
  ASSUME TypeOK, GpioEdgeIrq
  PROVE  \E p \in Pins :
           /\ irq.gpio = {p}
           /\ [gpio |-> p, level |-> EdgeLevel(p, irq.mask)] \in Edges
           /\ PushEdge([gpio |-> p, level |-> EdgeLevel(p, irq.mask)])
<1>1. PICK p \in irq.gpio : PushEdge([gpio |-> p, level |-> EdgeLevel(p, irq.mask)])
  BY DEF GpioEdgeIrq
<1>2. p \in Pins /\ irq.gpio = {p}
  BY DEF TypeOK
<1>3. EdgeLevel(p, irq.mask) \in BOOLEAN
  <2>1. wire[p] \in BOOLEAN
    BY <1>2 DEF TypeOK
  <2>2. ("rise" \in irq.mask) \in BOOLEAN
    OBVIOUS
  <2> QED
    BY <2>1, <2>2, Zenon DEF EdgeLevel
<1>4. [gpio |-> p, level |-> EdgeLevel(p, irq.mask)] \in Edges
  BY <1>2, <1>3 DEF Edges
<1> QED
  BY <1>1, <1>2, <1>4

-----------------------------------------------------------------------------
(***************************************************************************)
(* The main loop hands on the entry it removes: the handler, which may     *)
(* run between the copy and the move of the tail, writes another slot.     *)
(***************************************************************************)
THEOREM PoppedIsTheOldest == Spec => []PoppedIsOldest
<1> USE EdgeBufferAssumption
<1>1. Init => PoppedIsOldest
  BY DEF Init, PoppedIsOldest
<1>2. TypeOK /\ PoppedIsOldest /\ [Next]_vars => PoppedIsOldest'
  <2> SUFFICES ASSUME TypeOK, PoppedIsOldest, [Next]_vars PROVE PoppedIsOldest'
    OBVIOUS
  <2>1. ASSUME NEW p \in Pins, Change(p) \/ Interrupt(p)
        PROVE  PoppedIsOldest'
    BY <2>1 DEF Change, Interrupt, PoppedIsOldest, ringVars, mainVars
  <2>2. CASE GpioEdgeIrq
    <3>1. PICK p \in Pins : PushEdge([gpio |-> p, level |-> EdgeLevel(p, irq.mask)])
      BY <2>2, HandlerEntry
    <3> DEFINE e == [gpio |-> p, level |-> EdgeLevel(p, irq.mask)]
    <3>2. PushEdge(e)
      BY <3>1
    <3> HIDE DEF e
    <3>3. loop' = loop /\ edge' = edge
      BY <2>2 DEF GpioEdgeIrq, mainVars
    <3> QED
      BY <3>2, <3>3 DEF PushEdge, PoppedIsOldest, TypeOK, Slots
  <2>3. CASE PopCopy
    BY <2>3 DEF PopCopy, PoppedIsOldest, ringVars
  <2>4. CASE \/ TudTask \/ PopAdvance \/ PopEmpty \/ TakeOverflow \/ Resync
             \/ EngineTask
    <3>1. loop' # "advance"
      BY <2>4 DEF TudTask, PopAdvance, PopEmpty, TakeOverflow, Resync, EngineTask
    <3> QED
      BY <3>1 DEF PoppedIsOldest
  <2>5. CASE UNCHANGED vars
    BY <2>5 DEF vars, ringVars, mainVars, PoppedIsOldest
  <2> QED
    BY <2>1, <2>2, <2>3, <2>4, <2>5 DEF Next, Isr, Main
<1> QED
  BY <1>1, <1>2, EdgeBufferTypeCorrect, PTL DEF Spec

-----------------------------------------------------------------------------
\* An entry of the handler is pushed, or dropped with the flag raised.
LEMMA HandlerPushes ==
  ASSUME EdgeBufferAssumption, TypeOK, TypeOK', NEW e \in Edges, PushEdge(e)
  PROVE  Fifo!PushAll(<<e>>)
<1> DEFINE size == EDGE_BUFFER_SIZE - 1
<1>1. /\ Contents \in Seq(Edges) /\ Len(Contents) = Count
      /\ Count \in 0 .. size /\ size \in Nat
  BY ContentsType DEF EdgeBufferAssumption
<1>2. /\ Append(Contents, e) = Contents \o <<e>>
      /\ Append(Contents, e) \in Seq(Edges)
      /\ Len(Append(Contents, e)) = Count + 1
      /\ \A i \in 1 .. Count : Append(Contents, e)[i] = Contents[i]
  BY <1>1, AppendIsConcat, AppendProperties
<1>3. Fifo!Least(Len(Contents) + Len(<<e>>), size)
        = IF Count < size THEN Count + 1 ELSE size
  BY <1>1 DEF Fifo!Least
<1>4. CASE NextSlot(edge_head) = edge_tail
  <2>1. Count = size
    BY <1>4, FullRing
  <2>2. Contents' = Contents /\ edge_overflow' = TRUE
    BY <1>4 DEF PushEdge, Contents
  <2>3. SubSeq(Append(Contents, e), 1, size) = Contents
    <3> HIDE DEF size
    <3>1. size \in Int /\ \A i \in 1 .. size : Append(Contents, e)[i] \in Edges
      BY <1>1, <1>2, <2>1, ElementOfSeq
    <3>2. /\ SubSeq(Append(Contents, e), 1, size) \in Seq(Edges)
          /\ Len(SubSeq(Append(Contents, e), 1, size)) = size
          /\ \A i \in 1 .. size :
               SubSeq(Append(Contents, e), 1, size)[i] = Append(Contents, e)[i]
      BY <1>1, <1>2, <2>1, <3>1
    <3> QED
      BY <1>1, <1>2, <2>1, <3>2, SeqEqual
  <2>4. Len(Contents) + Len(<<e>>) > size
    BY <1>1, <2>1
  <2>5. Fifo!Least(Len(Contents) + Len(<<e>>), size) = size
    BY <1>1, <1>3, <2>1
  <2> QED
    BY <1>2, <2>2, <2>3, <2>4, <2>5 DEF Fifo!PushAll
<1>5. CASE NextSlot(edge_head) # edge_tail
  <2>1. Count < size
    BY <1>1, <1>5, FullRing
  <2>2. Contents' = Append(Contents, e) /\ edge_overflow' = edge_overflow
    BY <1>5, PushAppends DEF PushEdge
  <2>3. SubSeq(Append(Contents, e), 1, Count + 1) = Append(Contents, e)
    BY <1>2, SubSeqFull
  <2>4. ~(Len(Contents) + Len(<<e>>) > size)
    BY <1>1, <2>1
  <2> QED
    BY <1>2, <1>3, <2>1, <2>2, <2>3, <2>4 DEF Fifo!PushAll, TypeOK
<1> QED
  BY <1>4, <1>5

(***************************************************************************)
(* Handler and main loop, each writing its own index without a lock, make  *)
(* a bounded first-in first-out queue with one place less than the ring    *)
(* has slots.                                                              *)
(***************************************************************************)
THEOREM EdgeBufferImplementsFifo == Spec => ImplementsFifo
<1> USE EdgeBufferAssumption
<1>1. Init => Fifo!FifoInit
  <2> SUFFICES ASSUME Init PROVE Fifo!FifoInit
    OBVIOUS
  <2>1. Contents = <<>>
    <3>1. (edge_head - edge_tail) % EDGE_BUFFER_SIZE = 0
      BY DEF Init, EdgeBufferAssumption
    <3> QED
      BY <3>1 DEF Contents
  <2> QED
    BY <2>1 DEF Init, Fifo!FifoInit
<1>2. TypeOK /\ TypeOK' /\ PoppedIsOldest /\ [Next]_vars
        => [Fifo!FifoNext]_(Fifo!fifoVars)
  <2> SUFFICES ASSUME TypeOK, TypeOK', PoppedIsOldest, [Next]_vars
               PROVE  [Fifo!FifoNext]_(Fifo!fifoVars)
    OBVIOUS
  <2>1. CASE GpioEdgeIrq
    <3>1. PICK e \in Edges : PushEdge(e)
      BY <2>1, HandlerEntry
    <3>2. Fifo!PushAll(<<e>>)
      BY <3>1, HandlerPushes
    <3> QED
      BY <3>2 DEF Fifo!FifoNext
  <2>2. CASE PopAdvance
    <3>1. /\ edge_tail' = NextSlot(edge_tail) /\ edge_tail # edge_head
          /\ UNCHANGED <<edge_buffer, edge_head, edge_overflow>>
      BY <2>2 DEF PopAdvance, At, PoppedIsOldest
    <3>2. /\ Contents # <<>> /\ Contents' = Tail(Contents)
          /\ Contents \in Seq(Edges) /\ Len(Contents) = Count
          /\ Count \in Nat /\ Count < EDGE_BUFFER_SIZE
      BY <3>1, AdvanceRemoves, ContentsType
    <3>3. 1 <= Count /\ 1 \in 0 .. EDGE_BUFFER_SIZE - 1
      BY <3>2, EmptySeq DEF EdgeBufferAssumption
    <3>4. Fifo!Least(1, Len(Contents)) + 1 = 2
      BY <3>2, <3>3 DEF Fifo!Least
    <3>5. Fifo!DropFirst(1)
      BY <3>2, <3>4, TailIsSubSeq DEF Fifo!DropFirst
    <3> QED
      BY <3>1, <3>3, <3>5 DEF Fifo!FifoNext
  <2>3. CASE TakeOverflow
    <3>1. Contents' = Contents /\ edge_overflow' = FALSE
      BY <2>3 DEF TakeOverflow, Contents
    <3> QED
      BY <3>1 DEF Fifo!FifoNext
  <2>4. ASSUME UNCHANGED ringVars
        PROVE  UNCHANGED Fifo!fifoVars
    BY <2>4 DEF ringVars, Contents, Fifo!fifoVars
  <2>5. CASE \/ TudTask \/ PopCopy \/ PopEmpty \/ Resync \/ EngineTask
    <3>1. UNCHANGED ringVars
      BY <2>5 DEF TudTask, PopCopy, PopEmpty, Resync, EngineTask
    <3> QED
      BY <2>4, <3>1
  <2>6. ASSUME NEW p \in Pins, Change(p) \/ Interrupt(p)
        PROVE  UNCHANGED Fifo!fifoVars
    BY <2>4, <2>6 DEF Change, Interrupt
  <2>7. CASE UNCHANGED vars
    BY <2>4, <2>7 DEF vars
  <2> QED
    BY <2>1, <2>2, <2>3, <2>5, <2>6, <2>7 DEF Next, Isr, Main
<1> QED
  BY <1>1, <1>2, EdgeBufferTypeCorrect, PoppedIsTheOldest, PTL
     DEF Spec, ImplementsFifo, Fifo!FifoSpec

-----------------------------------------------------------------------------
(***************************************************************************)
(* What waiting entries lead to                                            *)
(***************************************************************************)

\* There is an entry of the pin.
Has(s, p) == \E i \in 1 .. Len(s) : s[i].gpio = p

\* The last entry of the pin, if there is one, shows the level v.
Leads(s, p, v) ==
  \A i \in 1 .. Len(s) :
    (s[i].gpio = p /\ \A j \in 1 .. Len(s) : s[j].gpio = p => j <= i) => s[i].level = v

\* A non-empty set of places in a sequence has a last one.
LEMMA LastPlace ==
  ASSUME NEW n \in Nat, NEW S \in SUBSET (1 .. n), S # {}
  PROVE  \E i \in S : \A j \in S : j <= i
<1> DEFINE R == OpToRel(<, Nat)
           T == {n - i : i \in S}
<1>1. IsWellFoundedOn(R, Nat)
  BY NatLessThanWellFounded
<1>2. \A k, m \in Nat : <<m, k>> \notin R => k <= m
  BY DEF OpToRel
<1> HIDE DEF R
<1>3. T \subseteq Nat /\ T # {}
  <2>1. \A i \in S : n - i \in Nat
    OBVIOUS
  <2>2. PICK i \in S : TRUE
    OBVIOUS
  <2>3. n - i \in T
    BY <2>2
  <2> QED
    BY <2>1, <2>3
<1>4. \E k \in T : \A m \in T : <<m, k>> \notin R
  <2> HIDE DEF T
  <2> QED
    BY <1>1, <1>3, WFMin
<1>5. PICK k \in T : \A m \in T : k <= m
  <2> HIDE DEF T
  <2> QED
    BY <1>2, <1>3, <1>4
<1>6. PICK i \in S : k = n - i
  BY <1>5
<1>7. \A j \in S : n - i <= n - j
  BY <1>5, <1>6
<1> QED
  BY <1>6, <1>7

\* If the entries lead to a level, or the engine knows it and there are none,
\* then it will know that level.
LEMMA LeadsToKnow ==
  ASSUME EdgeBufferAssumption, TypeOK, NEW p \in Pins,
         Leads(Contents, p, wire[p]), ~Has(Contents, p) => known[p] = wire[p]
  PROVE  WillKnow(p) = wire[p]
<1> DEFINE S == {i \in DOMAIN Contents : Contents[i].gpio = p}
           last == CHOOSE i \in S : \A j \in S : j <= i
<1>1. /\ Contents \in Seq(Edges) /\ Len(Contents) \in Nat
      /\ DOMAIN Contents = 1 .. Len(Contents)
  BY ContentsType
<1>2. WillKnow(p) = IF S = {} THEN known[p] ELSE Contents[last].level
  BY DEF WillKnow
<1>3. CASE S = {}
  <2>1. ~Has(Contents, p)
    BY <1>1, <1>3 DEF Has
  <2> QED
    BY <1>2, <1>3, <2>1
<1>4. CASE S # {}
  <2>1. \E i \in S : \A j \in S : j <= i
    <3>1. S \in SUBSET (1 .. Len(Contents))
      BY <1>1
    <3> HIDE DEF S
    <3> QED
      BY <1>1, <1>4, <3>1, LastPlace
  <2>2. last \in S /\ \A j \in S : j <= last
    <3> HIDE DEF S
    <3> QED
      BY <2>1
  <2>3. /\ last \in 1 .. Len(Contents) /\ Contents[last].gpio = p
        /\ \A j \in 1 .. Len(Contents) : Contents[j].gpio = p => j <= last
    <3> HIDE DEF last
    <3> QED
      BY <1>1, <2>2
  <2>4. Contents[last].level = wire[p]
    <3> HIDE DEF last
    <3> QED
      BY <2>3 DEF Leads
  <2> QED
    BY <1>2, <1>4, <2>4
<1> QED
  BY <1>3, <1>4

\* A new entry decides for its own pin and leaves the others alone.
LEMMA LeadsAppend ==
  ASSUME NEW s \in Seq(Edges), NEW e \in Edges, NEW p \in Pins, NEW v
  PROVE  /\ e.gpio = p => Has(Append(s, e), p)
         /\ e.gpio = p /\ e.level = v => Leads(Append(s, e), p, v)
         /\ e.gpio # p /\ Leads(s, p, v) => Leads(Append(s, e), p, v)
         /\ e.gpio # p => (Has(Append(s, e), p) <=> Has(s, p))
<1> DEFINE t == Append(s, e)
           n == Len(s)
<1>1. /\ n \in Nat /\ Len(t) = n + 1 /\ t[n + 1] = e
      /\ \A i \in 1 .. n : t[i] = s[i]
  BY AppendProperties
<1> HIDE DEF t
<1>2. e.gpio = p => Has(t, p)
  BY <1>1 DEF Has
<1>3. e.gpio = p /\ e.level = v => Leads(t, p, v)
  BY <1>1 DEF Leads
<1>4. e.gpio # p /\ Leads(s, p, v) => Leads(t, p, v)
  <2> SUFFICES ASSUME e.gpio # p, Leads(s, p, v), NEW i \in 1 .. Len(t),
                      t[i].gpio = p, \A j \in 1 .. Len(t) : t[j].gpio = p => j <= i
               PROVE  t[i].level = v
    BY DEF Leads
  <2>1. i \in 1 .. n /\ t[i] = s[i]
    BY <1>1
  <2>2. \A j \in 1 .. n : s[j].gpio = p => j <= i
    BY <1>1
  <2> QED
    BY <2>1, <2>2 DEF Leads
<1>5. e.gpio # p => (Has(t, p) <=> Has(s, p))
  BY <1>1 DEF Has
<1> QED
  BY <1>2, <1>3, <1>4, <1>5 DEF t

\* Without its first entry a sequence leads to the same, unless that entry
\* was the last of its pin: then it shows the level.
LEMMA LeadsTail ==
  ASSUME NEW s \in Seq(Edges), s # <<>>, NEW p \in Pins, NEW v, Leads(s, p, v)
  PROVE  /\ Leads(Tail(s), p, v)
         /\ Has(s, p) /\ ~Has(Tail(s), p) => s[1].gpio = p /\ s[1].level = v
         /\ ~Has(s, p) => s[1].gpio # p
<1> DEFINE t == Tail(s)
           n == Len(s)
<1>1. /\ n \in Nat \ {0} /\ Len(t) = n - 1
      /\ \A i \in 1 .. n - 1 : t[i] = s[i + 1]
  BY EmptySeq, HeadTailProperties
<1> HIDE DEF t
<1>2. \A j \in 2 .. n : j - 1 \in 1 .. n - 1 /\ t[j - 1] = s[j]
  <2> TAKE j \in 2 .. n
  <2>1. j - 1 \in 1 .. n - 1 /\ (j - 1) + 1 = j
    BY <1>1
  <2> QED
    BY <1>1, <2>1
<1>3. Leads(t, p, v)
  <2> SUFFICES ASSUME NEW i \in 1 .. n - 1,
                      t[i].gpio = p, \A j \in 1 .. n - 1 : t[j].gpio = p => j <= i
               PROVE  t[i].level = v
    BY <1>1 DEF Leads
  <2>1. i + 1 \in 1 .. n /\ t[i] = s[i + 1]
    BY <1>1
  <2>2. \A j \in 1 .. n : s[j].gpio = p => j <= i + 1
    <3> TAKE j \in 1 .. n
    <3>1. CASE j = 1
      BY <3>1
    <3>2. CASE j # 1
      <4>1. j \in 2 .. n
        BY <1>1, <3>2
      <4>2. s[j].gpio = p => j - 1 <= i
        BY <1>2, <4>1
      <4> QED
        BY <4>1, <4>2
    <3> QED
      BY <3>1, <3>2
  <2> QED
    BY <2>1, <2>2 DEF Leads
<1>4. Has(s, p) /\ ~Has(t, p) => s[1].gpio = p /\ s[1].level = v
  <2> SUFFICES ASSUME Has(s, p), ~Has(t, p)
               PROVE  s[1].gpio = p /\ s[1].level = v
    OBVIOUS
  <2>1. \A j \in 2 .. n : s[j].gpio # p
    BY <1>1, <1>2 DEF Has
  <2>2. s[1].gpio = p /\ \A j \in 1 .. n : s[j].gpio = p => j <= 1
    BY <1>1, <2>1 DEF Has
  <2> QED
    BY <1>1, <2>2 DEF Leads
<1>5. ~Has(s, p) => s[1].gpio # p
  BY <1>1 DEF Has
<1> QED
  BY <1>3, <1>4, <1>5 DEF t

-----------------------------------------------------------------------------
(***************************************************************************)
(* The invariant behind NothingForgotten                                   *)
(***************************************************************************)

\* No edge of the pin waits in the GPIO block or in the handler.
Quiet(p) == latched[p] = {} /\ p \notin irq.gpio

\* What is latched, and what the handler is about to store, agrees with the
\* value the pin has now unless a newer edge is latched.
Latches ==
  \A p \in Pins :
    /\ latched[p] = {"rise"} => wire[p] = TRUE
    /\ latched[p] = {"fall"} => wire[p] = FALSE
    /\ p \in irq.gpio /\ latched[p] = {} => EdgeLevel(p, irq.mask) = wire[p]

\* Since the ring was found empty, no more entries came than interrupts.
Room ==
  loop = "take_overflow" => Count + (IF irq = NoIrq THEN 0 ELSE 1) <= window

\* Since the ring was found empty nothing was dropped.
Complete == \/ loop = "take_overflow"
            \/ loop \in {"resync", "task"} /\ ~edge_overflow

\* Then the entries lead to the values of the pins, tracked or not.
Fresh ==
  Complete => \A p \in Pins : Quiet(p) => Leads(Contents, p, wire[p])

\* NothingForgotten, said of the entries.
Remembered ==
  (~edge_overflow /\ loop # "resync") =>
    \A p \in tracked : Quiet(p) => /\ Leads(Contents, p, wire[p])
                                   /\ ~Has(Contents, p) => known[p] = wire[p]

EdgeInv == TypeOK /\ PoppedIsOldest /\ Latches /\ Room /\ Fresh /\ Remembered

\* The ring is unchanged, and with it what the entries lead to.
LEMMA SameContents ==
  ASSUME UNCHANGED <<edge_buffer, edge_head, edge_tail>>
  PROVE  Contents' = Contents /\ Count' = Count
BY DEF Contents, Count

\* Before the first edge all is known.
LEMMA InitEdges ==
  ASSUME EdgeBufferAssumption, TypeOK, Init
  PROVE  EdgeInv
<1>1. \A p \in Pins : latched[p] = {} /\ p \notin irq.gpio
  BY DEF Init, NoIrq
<1>2. Latches
  BY <1>1 DEF Latches
<1>3. Len(Contents) = 0
  BY SlotLaws, ContentsType DEF Init
<1>4. Remembered
  BY <1>3 DEF Remembered, Leads, Init
<1> QED
  BY <1>2, <1>4 DEF EdgeInv, Init, PoppedIsOldest, Room, Fresh, Complete

\* A pin changes: the edge is latched, so that nothing is claimed of it.
LEMMA ChangeStep ==
  ASSUME EdgeBufferAssumption, EdgeInv, TypeOK', NEW q \in Pins, Change(q)
  PROVE  Latches' /\ Room' /\ Fresh' /\ Remembered'
<1>1. /\ wire' = [wire EXCEPT ![q] = ~@]
      /\ latched' = [latched EXCEPT ![q] = @ \cup {IF wire[q] THEN "fall" ELSE "rise"}]
      /\ UNCHANGED <<irq, edge_buffer, edge_head, edge_tail, edge_overflow, loop,
                    known, tracked, window>>
  BY DEF Change, ringVars, mainVars
<1>2. Contents' = Contents /\ Count' = Count
  BY <1>1, SameContents
<1>3. \A p \in Pins \ {q} : wire'[p] = wire[p] /\ latched'[p] = latched[p]
  BY <1>1 DEF EdgeInv, TypeOK
<1>4. latched'[q] # {}
  BY <1>1 DEF EdgeInv, TypeOK
<1>5. \A p \in Pins : Quiet(p)' => p # q /\ Quiet(p) /\ wire'[p] = wire[p]
  BY <1>1, <1>3, <1>4 DEF Quiet
<1>6. Latches'
  <2> SUFFICES ASSUME NEW p \in Pins
               PROVE  /\ latched'[p] = {"rise"} => wire'[p] = TRUE
                      /\ latched'[p] = {"fall"} => wire'[p] = FALSE
                      /\ p \in irq'.gpio /\ latched'[p] = {}
                           => EdgeLevel(p, irq.mask)' = wire'[p]
    BY <1>1 DEF Latches
  <2>1. CASE p = q
    <3>1. wire'[q] = ~wire[q] /\ wire[q] \in BOOLEAN
      BY <1>1 DEF EdgeInv, TypeOK
    <3>2. wire[q] = TRUE => "fall" \in latched'[q]
      BY <1>1 DEF EdgeInv, TypeOK
    <3>3. wire[q] = FALSE => "rise" \in latched'[q]
      BY <1>1 DEF EdgeInv, TypeOK
    <3>4. latched'[q] = {"rise"} => wire'[q] = TRUE
      <4>1. latched'[q] = {"rise"} => wire[q] # TRUE
        BY <3>2
      <4> QED
        BY <3>1, <4>1, Zenon
    <3>5. latched'[q] = {"fall"} => wire'[q] = FALSE
      <4>1. latched'[q] = {"fall"} => wire[q] # FALSE
        BY <3>3
      <4> QED
        BY <3>1, <4>1, Zenon
    <3> QED
      BY <1>4, <2>1, <3>4, <3>5, Zenon
  <2>2. CASE p # q
    <3>1. wire'[p] = wire[p] /\ latched'[p] = latched[p] /\ irq' = irq
      BY <1>1, <1>3, <2>2
    <3>2. EdgeLevel(p, irq.mask)' = EdgeLevel(p, irq.mask)
      BY <3>1 DEF EdgeLevel
    <3> QED
      BY <3>1, <3>2 DEF EdgeInv, Latches
  <2> QED
    BY <2>1, <2>2
<1>7. Room'
  BY <1>1, <1>2 DEF EdgeInv, Room
<1>8. Fresh'
  BY <1>1, <1>2, <1>5 DEF EdgeInv, Fresh, Complete
<1>9. Remembered'
  BY <1>1, <1>2, <1>5 DEF EdgeInv, Remembered, TypeOK
<1> QED
  BY <1>6, <1>7, <1>8, <1>9

\* An interrupt moves the edges of a pin from the GPIO block to the handler.
LEMMA InterruptStep ==
  ASSUME EdgeBufferAssumption, EdgeInv, TypeOK', NEW q \in Pins, Interrupt(q)
  PROVE  Latches' /\ Room' /\ Fresh' /\ Remembered'
<1>1. /\ irq = NoIrq /\ latched[q] # {}
      /\ irq' = [gpio |-> {q}, mask |-> latched[q]]
      /\ latched' = [latched EXCEPT ![q] = {}]
      /\ window' = IF loop = "take_overflow" THEN window + 1 ELSE window
      /\ UNCHANGED <<wire, edge_buffer, edge_head, edge_tail, edge_overflow, loop,
                    known, tracked>>
  BY DEF Interrupt, ringVars, mainVars
<1>2. Contents' = Contents /\ Count' = Count
  BY <1>1, SameContents
<1>3. irq'.gpio = {q} /\ irq'.mask = latched[q] /\ irq.gpio = {}
  BY <1>1 DEF NoIrq
<1>4. /\ latched'[q] = {}
      /\ \A p \in Pins \ {q} : latched'[p] = latched[p]
  BY <1>1 DEF EdgeInv, TypeOK
<1>5. \A p \in Pins : Quiet(p)' => p # q /\ Quiet(p)
  BY <1>3, <1>4 DEF Quiet
<1>6. Latches'
  <2>1. EdgeLevel(q, latched[q]) = wire[q]
    <3>1. latched[q] \in {{"rise"}, {"fall"}, {"rise", "fall"}} /\ wire[q] \in BOOLEAN
      BY <1>1 DEF EdgeInv, TypeOK
    <3>2. CASE latched[q] = {"rise"}
      <4>1. wire[q] = TRUE
        BY <3>2 DEF EdgeInv, Latches
      <4> QED
        BY <3>2, <4>1 DEF EdgeLevel
    <3>3. CASE latched[q] = {"fall"}
      <4>1. wire[q] = FALSE
        BY <3>3 DEF EdgeInv, Latches
      <4>2. "rise" \notin latched[q] /\ latched[q] # {"rise", "fall"}
        BY <3>3
      <4>3. EdgeLevel(q, latched[q]) = ("rise" \in latched[q])
        BY <4>2, Zenon DEF EdgeLevel
      <4>4. ("rise" \in latched[q]) = FALSE
        BY <4>2
      <4> QED
        BY <4>1, <4>3, <4>4, Zenon
    <3>4. CASE latched[q] = {"rise", "fall"}
      BY <3>4 DEF EdgeLevel
    <3> QED
      BY <3>1, <3>2, <3>3, <3>4
  <2>2. EdgeLevel(q, irq.mask)' = wire'[q]
    BY <1>1, <1>3, <2>1 DEF EdgeLevel
  <2> SUFFICES ASSUME NEW p \in Pins
               PROVE  /\ latched'[p] = {"rise"} => wire'[p] = TRUE
                      /\ latched'[p] = {"fall"} => wire'[p] = FALSE
                      /\ p \in irq'.gpio /\ latched'[p] = {}
                           => EdgeLevel(p, irq.mask)' = wire'[p]
    BY DEF Latches
  <2>3. CASE p = q
    BY <1>4, <2>2, <2>3
  <2>4. CASE p # q
    BY <1>1, <1>3, <1>4, <2>4 DEF EdgeInv, Latches
  <2> QED
    BY <2>3, <2>4
<1>7. Room'
  <2> SUFFICES ASSUME loop = "take_overflow"
               PROVE  Count + 1 <= window + 1
    BY <1>1, <1>2, ContentsType DEF Room, EdgeInv, TypeOK
  <2>1. Count <= window /\ Count \in Nat /\ window \in Nat
    BY <1>1, ContentsType DEF EdgeInv, Room, TypeOK
  <2> QED
    BY <2>1
<1>8. Fresh'
  BY <1>1, <1>2, <1>5 DEF EdgeInv, Fresh, Complete
<1>9. Remembered'
  BY <1>1, <1>2, <1>5 DEF EdgeInv, Remembered, TypeOK
<1> QED
  BY <1>6, <1>7, <1>8, <1>9

\* The handler stores the value the pin has, unless a newer edge is latched.
\* A ring without room is noticed later, except where the flag has been looked
\* at: there the window is short enough for the ring.
LEMMA HandlerStep ==
  ASSUME EdgeBufferAssumption, WindowIsShort, EdgeInv, TypeOK', GpioEdgeIrq
  PROVE  Latches' /\ Room' /\ Fresh' /\ Remembered'
<1>1. PICK q \in Pins :
        /\ irq.gpio = {q}
        /\ [gpio |-> q, level |-> EdgeLevel(q, irq.mask)] \in Edges
        /\ PushEdge([gpio |-> q, level |-> EdgeLevel(q, irq.mask)])
  BY HandlerEntry DEF EdgeInv
<1> DEFINE e == [gpio |-> q, level |-> EdgeLevel(q, irq.mask)]
<1>2. e.gpio = q /\ e.level = EdgeLevel(q, irq.mask) /\ e \in Edges /\ PushEdge(e)
  BY <1>1
<1> HIDE DEF e
<1>3. /\ irq' = NoIrq /\ irq'.gpio = {} /\ irq # NoIrq
      /\ UNCHANGED <<wire, latched, loop, known, tracked, window>>
  BY <1>1 DEF GpioEdgeIrq, pinVars, mainVars, NoIrq
<1>4. Latches'
  BY <1>3 DEF EdgeInv, Latches
<1>5. latched[q] = {} => e.level = wire[q]
  BY <1>1, <1>2 DEF EdgeInv, Latches
<1>6. \A p \in Pins : /\ Quiet(p)' /\ p = q => latched[q] = {}
                      /\ Quiet(p)' /\ p # q => Quiet(p)
  BY <1>1, <1>3 DEF Quiet
<1>7. CASE NextSlot(edge_head) = edge_tail
  <2>1. /\ edge_overflow' = TRUE
        /\ UNCHANGED <<edge_buffer, edge_head, edge_tail>>
    BY <1>2, <1>7 DEF PushEdge
  <2>2. loop # "take_overflow"
    <3>1. Count = EDGE_BUFFER_SIZE - 1
      BY <1>7, FullRing DEF EdgeInv
    <3>2. loop = "take_overflow" => Count + 1 <= window
      BY <1>3 DEF EdgeInv, Room
    <3>3. /\ EDGE_BUFFER_SIZE \in Nat /\ window \in Nat /\ MaxInWindow \in Nat
          /\ window <= MaxInWindow /\ MaxInWindow < EDGE_BUFFER_SIZE
      BY DEF EdgeInv, TypeOK, EdgeBufferAssumption, WindowIsShort
    <3> QED
      BY <3>1, <3>2, <3>3
  <2> QED
    BY <1>3, <1>4, <2>1, <2>2 DEF Room, Fresh, Complete, Remembered
<1>8. CASE NextSlot(edge_head) # edge_tail
  <2>1. /\ Contents' = Append(Contents, e) /\ Count' = Count + 1
        /\ edge_overflow' = edge_overflow
    BY <1>2, <1>8, PushAppends DEF PushEdge, EdgeInv
  <2>2. Contents \in Seq(Edges) /\ Count \in Nat
    BY ContentsType DEF EdgeInv
  <2>3. Room'
    BY <1>3, <2>1, <2>2 DEF EdgeInv, Room
  <2>4. ASSUME NEW p \in Pins, Quiet(p)', p # q => Leads(Contents, p, wire[p])
        PROVE  Leads(Contents', p, wire'[p])
    <3>1. CASE p = q
      BY <1>2, <1>3, <1>5, <1>6, <2>1, <2>2, <2>4, <3>1, LeadsAppend
    <3>2. CASE p # q
      BY <1>2, <1>3, <2>1, <2>2, <2>4, <3>2, LeadsAppend
    <3> QED
      BY <3>1, <3>2
  <2>5. Fresh'
    <3> SUFFICES ASSUME Complete', NEW p \in Pins, Quiet(p)'
                 PROVE  Leads(Contents', p, wire'[p])
      BY DEF Fresh
    <3>1. Complete
      BY <1>3, <2>1 DEF Complete
    <3>2. p # q => Leads(Contents, p, wire[p])
      BY <1>6, <3>1 DEF EdgeInv, Fresh
    <3> QED
      BY <2>4, <3>2
  <2>6. Remembered'
    <3> SUFFICES ASSUME ~edge_overflow', loop' # "resync", NEW p \in tracked', Quiet(p)'
                 PROVE  /\ Leads(Contents', p, wire'[p])
                        /\ ~Has(Contents', p) => known'[p] = wire'[p]
      BY DEF Remembered
    <3>1. p \in Pins /\ p \in tracked
      BY <1>3 DEF EdgeInv, TypeOK
    <3>2. p # q => /\ Leads(Contents, p, wire[p])
                   /\ ~Has(Contents, p) => known[p] = wire[p]
      BY <1>3, <1>6, <2>1, <3>1 DEF EdgeInv, Remembered
    <3>3. ~Has(Contents', p) => p # q /\ ~Has(Contents, p)
      BY <1>2, <2>1, <2>2, <3>1, LeadsAppend
    <3> QED
      BY <1>3, <2>4, <3>1, <3>2, <3>3
  <2> QED
    BY <1>4, <2>3, <2>5, <2>6
<1> QED
  BY <1>7, <1>8

\* Main-loop steps that leave the ring as it is.
LEMMA LoopStep ==
  ASSUME EdgeBufferAssumption, EdgeInv, TypeOK',
         \/ TudTask \/ PopCopy \/ PopEmpty \/ TakeOverflow \/ Resync \/ EngineTask
  PROVE  Latches' /\ Room' /\ Fresh' /\ Remembered'
<1>1. /\ UNCHANGED <<edge_buffer, edge_head, edge_tail, wire, irq>>
      /\ irq = NoIrq /\ irq.gpio = {}
  BY DEF TudTask, PopCopy, PopEmpty, TakeOverflow, Resync, EngineTask, ringVars,
         pinVars, At, NoIrq
<1>2. Contents' = Contents /\ Count' = Count
  BY <1>1, SameContents
<1>3. CASE TudTask
  <2>1. /\ loop = "tud_task" /\ loop' = "pop"
        /\ edge_overflow' = edge_overflow /\ known' = known
    BY <1>3 DEF TudTask, At, ringVars
  <2>2. /\ tracked' \subseteq tracked
        /\ \A p \in Pins : latched'[p] = latched[p] \/ latched'[p] = {}
        /\ \A p \in tracked' : latched'[p] = latched[p]
    BY <1>3 DEF TudTask, EdgeInv, TypeOK
  <2>3. Latches'
    BY <1>1, <2>2 DEF EdgeInv, Latches
  <2>4. Remembered'
    BY <1>1, <1>2, <2>1, <2>2 DEF EdgeInv, Remembered, Quiet
  <2> QED
    BY <2>1, <2>3, <2>4 DEF Room, Fresh, Complete
<1>5. CASE PopCopy
  <2>1. /\ loop = "pop" /\ loop' = "advance"
        /\ UNCHANGED <<edge_overflow, known, tracked, latched>>
    BY <1>5 DEF PopCopy, At, ringVars, pinVars
  <2>2. Remembered'
    BY <1>1, <1>2, <2>1 DEF EdgeInv, Remembered, Quiet
  <2>3. Latches'
    BY <1>1, <2>1 DEF EdgeInv, Latches
  <2> QED
    BY <2>1, <2>2, <2>3 DEF Room, Fresh, Complete
<1>6. CASE PopEmpty
  <2>1. /\ loop = "pop" /\ loop' = "take_overflow" /\ window' = 0
        /\ edge_tail = edge_head
        /\ UNCHANGED <<edge_overflow, known, tracked, latched>>
    BY <1>6 DEF PopEmpty, At, ringVars, pinVars
  <2>2. Count = 0 /\ Len(Contents) = 0
    BY <2>1, SlotLaws, ContentsType DEF EdgeInv
  <2>3. Remembered'
    BY <1>1, <1>2, <2>1 DEF EdgeInv, Remembered, Quiet
  <2>4. Fresh'
    BY <1>2, <2>2 DEF Fresh, Leads
  <2>5. Latches'
    BY <1>1, <2>1 DEF EdgeInv, Latches
  <2> QED
    BY <1>1, <1>2, <2>1, <2>2, <2>3, <2>4, <2>5 DEF Room
<1>7. CASE TakeOverflow
  <2>1. /\ loop = "take_overflow" /\ ~edge_overflow'
        /\ loop' = IF edge_overflow THEN "resync" ELSE "task"
        /\ UNCHANGED <<known, tracked, latched>>
    BY <1>7 DEF TakeOverflow, At, pinVars
  <2>2. Fresh'
    BY <1>1, <1>2, <2>1 DEF EdgeInv, Fresh, Complete, Quiet
  <2>3. Remembered'
    BY <1>1, <1>2, <2>1 DEF EdgeInv, Remembered, Quiet
  <2>4. Latches'
    BY <1>1, <2>1 DEF EdgeInv, Latches
  <2> QED
    BY <2>1, <2>2, <2>3, <2>4 DEF Room
<1>8. CASE Resync
  <2>1. /\ loop = "resync" /\ loop' = "task" /\ edge_overflow' = edge_overflow
        /\ \A p \in tracked : known'[p] = wire[p]
        /\ UNCHANGED <<tracked, latched>>
    BY <1>8 DEF Resync, At, ringVars, pinVars, EdgeInv, TypeOK
  <2>2. Fresh'
    BY <1>1, <1>2, <2>1 DEF EdgeInv, Fresh, Complete, Quiet
  <2>3. Remembered'
    BY <1>1, <1>2, <2>1 DEF EdgeInv, Fresh, Complete, Remembered, Quiet, TypeOK
  <2>4. Latches'
    BY <1>1, <2>1 DEF EdgeInv, Latches
  <2> QED
    BY <2>1, <2>2, <2>3, <2>4 DEF Room
<1>9. CASE EngineTask
  <2>1. /\ loop = "task" /\ loop' = "tud_task"
        /\ UNCHANGED <<edge_overflow, latched>>
        /\ \A p \in tracked : known'[p] = known[p]
        /\ \A p \in tracked' \ tracked : known'[p] = wire[p]
    BY <1>9 DEF EngineTask, At, ringVars, pinVars, EdgeInv, TypeOK
  <2>2. Remembered'
    <3> SUFFICES ASSUME ~edge_overflow', NEW p \in tracked', Quiet(p)'
                 PROVE  /\ Leads(Contents', p, wire'[p])
                        /\ ~Has(Contents', p) => known'[p] = wire'[p]
      BY DEF Remembered
    <3>1. Quiet(p) /\ p \in Pins /\ ~edge_overflow
      BY <1>1, <2>1 DEF Quiet, TypeOK
    <3>2. CASE p \in tracked
      BY <1>1, <1>2, <2>1, <3>1, <3>2 DEF EdgeInv, Remembered
    <3>3. CASE p \notin tracked
      BY <1>1, <1>2, <2>1, <3>1, <3>3 DEF EdgeInv, Fresh, Complete
    <3> QED
      BY <3>2, <3>3
  <2>3. Latches'
    BY <1>1, <2>1 DEF EdgeInv, Latches
  <2> QED
    BY <2>1, <2>2, <2>3 DEF Room, Fresh, Complete
<1> QED
  BY <1>3, <1>5, <1>6, <1>7, <1>8, <1>9

\* Taking an entry hands its level to the engine.
LEMMA AdvanceStep ==
  ASSUME EdgeBufferAssumption, EdgeInv, TypeOK', PopAdvance
  PROVE  Latches' /\ Room' /\ Fresh' /\ Remembered'
<1>1. /\ loop = "advance" /\ loop' = "pop" /\ irq.gpio = {}
      /\ edge_tail' = NextSlot(edge_tail)
      /\ known' = IF edge.gpio \in tracked
                  THEN [known EXCEPT ![edge.gpio] = edge.level] ELSE known
      /\ UNCHANGED <<wire, latched, irq, edge_buffer, edge_head, edge_overflow,
                    tracked>>
  BY DEF PopAdvance, At, pinVars, NoIrq
<1>2. edge_tail # edge_head /\ edge = edge_buffer[edge_tail]
  BY <1>1 DEF EdgeInv, PoppedIsOldest
<1>3. /\ Contents \in Seq(Edges) /\ Contents # <<>> /\ Contents[1] = edge
      /\ Contents' = Tail(Contents)
  BY <1>1, <1>2, AdvanceRemoves, ContentsType DEF EdgeInv
<1>4. Latches'
  BY <1>1 DEF EdgeInv, Latches
<1>5. Remembered'
  <2> SUFFICES ASSUME ~edge_overflow', NEW p \in tracked', Quiet(p)'
               PROVE  /\ Leads(Contents', p, wire'[p])
                      /\ ~Has(Contents', p) => known'[p] = wire'[p]
    BY DEF Remembered
  <2>1. Quiet(p) /\ p \in Pins /\ p \in tracked /\ ~edge_overflow
    BY <1>1 DEF Quiet, TypeOK
  <2>2. /\ Leads(Contents, p, wire[p])
        /\ ~Has(Contents, p) => known[p] = wire[p]
    BY <1>1, <2>1 DEF EdgeInv, Remembered
  <2>3. /\ Leads(Contents', p, wire[p])
        /\ Has(Contents, p) /\ ~Has(Contents', p)
             => edge.gpio = p /\ edge.level = wire[p]
        /\ ~Has(Contents, p) => edge.gpio # p
    BY <1>3, <2>1, <2>2, LeadsTail
  <2>4. /\ edge.gpio = p => known'[p] = edge.level
        /\ edge.gpio # p => known'[p] = known[p]
    BY <1>1, <2>1 DEF EdgeInv, TypeOK
  <2> QED
    BY <1>1, <2>2, <2>3, <2>4
<1> QED
  BY <1>1, <1>4, <1>5 DEF Room, Fresh, Complete

(***************************************************************************)
(* No change is forgotten, as long as fewer interrupts than the ring has   *)
(* slots come between the pop that finds it empty and the look at the      *)
(* overflow flag: what waits in the ring leads the engine to the value of  *)
(* every tracked pin that no waiting edge or resynchronisation will set    *)
(* right.  Room is what the hypothesis is for: in that window the handler  *)
(* must not drop an edge behind older ones.                                *)
(***************************************************************************)
THEOREM NothingIsForgotten ==
  ASSUME WindowIsShort
  PROVE  Spec => []NothingForgotten
<1> USE EdgeBufferAssumption
<1>1. TypeOK /\ Init => EdgeInv
  BY InitEdges
<1>2. EdgeInv /\ TypeOK' /\ PoppedIsOldest' /\ [Next]_vars => EdgeInv'
  <2> SUFFICES ASSUME EdgeInv, TypeOK', PoppedIsOldest', [Next]_vars
               PROVE  Latches' /\ Room' /\ Fresh' /\ Remembered'
    BY DEF EdgeInv
  <2>1. ASSUME NEW p \in Pins, Change(p)
        PROVE  Latches' /\ Room' /\ Fresh' /\ Remembered'
    BY <2>1, ChangeStep
  <2>2. ASSUME NEW p \in Pins, Interrupt(p)
        PROVE  Latches' /\ Room' /\ Fresh' /\ Remembered'
    BY <2>2, InterruptStep
  <2>3. CASE GpioEdgeIrq
    BY <2>3, HandlerStep
  <2>4. CASE \/ TudTask \/ PopCopy \/ PopEmpty \/ TakeOverflow \/ Resync \/ EngineTask
    BY <2>4, LoopStep
  <2>5. CASE PopAdvance
    BY <2>5, AdvanceStep
  <2>6. CASE UNCHANGED vars
    <3>1. UNCHANGED <<wire, latched, irq, edge_buffer, edge_head, edge_tail,
                      edge_overflow, loop, known, tracked, window>>
      BY <2>6 DEF vars, pinVars, ringVars, mainVars
    <3>2. Contents' = Contents /\ Count' = Count
      BY <3>1, SameContents
    <3>3. Latches' /\ Room'
      BY <3>1, <3>2 DEF EdgeInv, Latches, Room, EdgeLevel
    <3>4. Fresh' /\ Remembered'
      BY <3>1, <3>2 DEF EdgeInv, Fresh, Complete, Remembered, Quiet
    <3> QED
      BY <3>3, <3>4
  <2> QED
    BY <2>1, <2>2, <2>3, <2>4, <2>5, <2>6 DEF Next, Isr, Main
<1>3. EdgeInv => NothingForgotten
  <2> SUFFICES ASSUME EdgeInv, ~edge_overflow, loop # "resync", NEW p \in tracked,
                      latched[p] = {}, p \notin irq.gpio
               PROVE  WillKnow(p) = wire[p]
    BY DEF NothingForgotten
  <2>1. p \in Pins /\ Quiet(p)
    BY DEF EdgeInv, TypeOK, Quiet
  <2> QED
    BY <2>1, LeadsToKnow DEF EdgeInv, Remembered
<1> QED
  BY <1>1, <1>2, <1>3, EdgeBufferTypeCorrect, PoppedIsTheOldest, PTL DEF Spec
=============================================================================
