------------------------------ MODULE EdgeFifo ------------------------------
(***************************************************************************)
(* What the engine expects of its queue of edge events: a bounded first-in *)
(* first-out sequence that drops what does not fit and remembers that it   *)
(* did (firmware/core/include/hidpin/event_queue.h).  EventQueue is the    *)
(* ring buffer that implements it; Engine works on the sequence.           *)
(***************************************************************************)
EXTENDS Integers, Sequences

CONSTANTS
  Events,      \* what is queued
  QUEUE_SIZE   \* HP_EVENT_QUEUE_SIZE (32)

VARIABLES
  queue,       \* the queued events, oldest first
  overflowed   \* an event was dropped since the flag was last cleared

fifoVars == <<queue, overflowed>>

FifoTypeOK ==
  /\ queue \in Seq(Events)
  /\ Len(queue) <= QUEUE_SIZE
  /\ overflowed \in BOOLEAN

FifoInit == queue = <<>> /\ overflowed = FALSE

Least(a, b) == IF a <= b THEN a ELSE b

\* Pushing events one after another: those beyond the capacity are dropped.
PushAll(events) ==
  /\ queue' = SubSeq(queue \o events, 1,
                     Least(Len(queue) + Len(events), QUEUE_SIZE))
  /\ overflowed' = (overflowed \/ Len(queue) + Len(events) > QUEUE_SIZE)

\* Dropping n events from the head, or all of them if there are fewer.
DropFirst(n) == queue' = SubSeq(queue, Least(n, Len(queue)) + 1, Len(queue))

FifoNext ==
  \/ \E e \in Events : PushAll(<<e>>)
  \/ \E n \in 0 .. QUEUE_SIZE : DropFirst(n) /\ UNCHANGED overflowed
  \/ overflowed' = FALSE /\ UNCHANGED queue

FifoSpec == FifoInit /\ [][FifoNext]_fifoVars
=============================================================================
