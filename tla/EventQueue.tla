----------------------------- MODULE EventQueue -----------------------------
(***************************************************************************)
(* The ring buffer of firmware/core/src/event_queue.c: an array of         *)
(* QUEUE_SIZE slots, the slot of the oldest event and the number of        *)
(* events.  hp_event_queue_init leaves the slots as they are, so their     *)
(* first contents are arbitrary.                                           *)
(***************************************************************************)
EXTENDS Integers, Sequences

CONSTANTS
  Events,      \* what is queued
  QUEUE_SIZE,  \* HP_EVENT_QUEUE_SIZE (32)
  MaxDrop      \* the largest number of events a caller drops at once

ASSUME RingAssumption == QUEUE_SIZE \in Nat \ {0} /\ MaxDrop \in Nat

VARIABLES head, count, items, overflowed

vars == <<head, count, items, overflowed>>

Slots == 0 .. QUEUE_SIZE - 1

TypeOK ==
  /\ head \in Slots
  /\ count \in 0 .. QUEUE_SIZE
  /\ items \in [Slots -> Events]
  /\ overflowed \in BOOLEAN

Init ==
  /\ head = 0
  /\ count = 0
  /\ items \in [Slots -> Events]
  /\ overflowed = FALSE

\* Mutated forms of Push: one event too many fits; the slot is counted from
\* the start of the array.
PushOneMore(event) ==
  /\ count <= QUEUE_SIZE
  /\ items' = [items EXCEPT ![(head + count) % QUEUE_SIZE] = event]
  /\ count' = count + 1
  /\ UNCHANGED <<head, overflowed>>

PushFromStart(event) ==
  /\ count < QUEUE_SIZE
  /\ items' = [items EXCEPT ![count] = event]
  /\ count' = count + 1
  /\ UNCHANGED <<head, overflowed>>

Push(event) ==
  /\ count < QUEUE_SIZE
  /\ items' = [items EXCEPT ![(head + count) % QUEUE_SIZE] = event]
  /\ count' = count + 1
  /\ UNCHANGED <<head, overflowed>>

PushFull(event) ==
  /\ count >= QUEUE_SIZE
  /\ overflowed' = TRUE
  /\ UNCHANGED <<head, count, items>>

Peek(index) == items[(head + index) % QUEUE_SIZE]

Drop(n) ==
  LET dropped == IF n > count THEN count ELSE n
  IN  /\ head' = (head + dropped) % QUEUE_SIZE
      /\ count' = count - dropped
      /\ UNCHANGED <<items, overflowed>>

\* hp_engine_commit_report clears the flag once it has been reported.
ClearOverflow == overflowed' = FALSE /\ UNCHANGED <<head, count, items>>

Next ==
  \/ \E event \in Events : Push(event) \/ PushFull(event)
  \/ \E n \in 0 .. MaxDrop : Drop(n)
  \/ ClearOverflow

Spec == Init /\ [][Next]_vars

-----------------------------------------------------------------------------
\* The events in the order hp_event_queue_peek returns them.
Contents == [i \in 1 .. count |-> Peek(i - 1)]

Fifo == INSTANCE EdgeFifo WITH queue <- Contents

(***************************************************************************)
(* The ring is a bounded first-in first-out queue: seen through peek, a    *)
(* push appends and overwrites nothing that is still queued, wherever the  *)
(* head has wrapped to; a push on a full ring changes nothing but the      *)
(* flag; a drop removes from the front only.                               *)
(***************************************************************************)
ImplementsFifo == Fifo!FifoSpec
=============================================================================
