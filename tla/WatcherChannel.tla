--------------------------- MODULE WatcherChannel ---------------------------
(***************************************************************************)
(* The two sides of a Rust Watcher (rust/src/watch.rs): the thread that    *)
(* owns the device and the application's threads, which take events, run   *)
(* operations on the watcher thread and close it.  They share a mutex and  *)
(* one condition variable; a section under the mutex is one step.          *)
(*                                                                         *)
(* Of the device side only what the channel depends on is kept: whether a  *)
(* connection and a timer exist, the events a step emits, and that it may  *)
(* stop the watcher.  Events are numbered in the order they happen.        *)
(***************************************************************************)
EXTENDS Integers, Sequences

CONSTANTS
  Receivers, Callers, Closers,   \* threads that take events, call set_outputs
                                 \* or set_target_pins, and close the watcher
  Watch,                         \* the watcher thread
  OUT_CAPACITY,                  \* events waiting for the application (16)
  MaxEmit,                       \* events that one step of the thread emits
  MaxEvents                      \* bound: events in a behaviour

ASSUME WatcherAssumption ==
  /\ Watch \notin Receivers
  /\ OUT_CAPACITY \in Nat \ {0}
  /\ MaxEmit \in Nat /\ MaxEvents \in Nat

VARIABLES
  out, requests, stopping, finished, error,   \* SharedState
  asleep,           \* the threads waiting for the condition variable
  pc,               \* where the watcher thread is
  pending, batch,   \* its events not yet in out, its requests in hand
  connected, timer, \* whether it has a connection, and a time to act at
  handle,           \* whether the join handle is still in the Watcher
  receiving, calling, closing,   \* where the application's threads are
  emitted, taken    \* how many events happened and were taken

sharedVars == <<out, requests, stopping, finished, error>>
threadVars == <<pc, pending, batch, connected, timer, emitted>>
appVars    == <<handle, receiving, calling, closing, taken>>
vars == <<sharedVars, asleep, threadVars, appVars>>

Places == {"top", "serve", "work", "check", "read", "closed", "failed", "ended"}

TypeOK ==
  /\ out \in Seq(1 .. MaxEvents) /\ pending \in Seq(1 .. MaxEvents)
  /\ requests \in Seq(Callers) /\ batch \in Seq(Callers)
  /\ stopping \in BOOLEAN /\ finished \in BOOLEAN /\ error \in BOOLEAN
  /\ asleep \subseteq Receivers \cup {Watch}
  /\ pc \in Places
  /\ connected \in BOOLEAN /\ timer \in BOOLEAN /\ handle \in BOOLEAN
  /\ receiving \in [Receivers -> {"idle", "in_recv", "ended"}]
  /\ calling \in [Callers -> {"ready", "waiting", "answered", "refused"}]
  /\ closing \in [Closers -> {"ready", "signalled", "joining", "done"}]
  /\ emitted \in 0 .. MaxEvents /\ taken \in 0 .. MaxEvents
  /\ ~finished => Len(out) <= OUT_CAPACITY

\* The first scan is due at once.
Init ==
  /\ out = <<>> /\ requests = <<>>
  /\ stopping = FALSE /\ finished = FALSE /\ error = FALSE
  /\ asleep = {}
  /\ pc = "top" /\ pending = <<>> /\ batch = <<>>
  /\ connected = FALSE /\ timer = TRUE /\ handle = TRUE
  /\ receiving = [r \in Receivers |-> "idle"]
  /\ calling = [c \in Callers |-> "ready"]
  /\ closing = [c \in Closers |-> "ready"]
  /\ emitted = 0 /\ taken = 0

NotifyAll == asleep' = {}

\* The next n events.
Happened(n) == [i \in 1 .. n |-> emitted + i]

\* At most n events happen.
EmitUpTo(n) ==
  \E k \in 0 .. n :
    /\ emitted + k <= MaxEvents
    /\ emitted' = emitted + k
    /\ pending' = pending \o Happened(k)

-----------------------------------------------------------------------------
(***************************************************************************)
(* The watcher thread: main_loop.                                          *)
(***************************************************************************)
At(place) == pc = place /\ Watch \notin asleep

Lesser(a, b) == IF a <= b THEN a ELSE b

\* Mutated form of Room: out takes everything.
RoomUnbounded == Len(pending)

\* The pending events for which out has room.
Room == Lesser(Len(pending), OUT_CAPACITY - Len(out))

\* Mutated form of Batch: requests are left for the next turn while events
\* wait for room.
BatchUnlessPending == IF Len(pending) > Room THEN <<>> ELSE requests
Batch == requests

\* The section at the top of the loop.
HandOver ==
  /\ At("top")
  /\ out' = out \o SubSeq(pending, 1, Room)
  /\ pending' = SubSeq(pending, Room + 1, Len(pending))
  /\ IF Room > 0 THEN NotifyAll ELSE UNCHANGED asleep
  /\ IF stopping
     THEN pc' = "closed" /\ UNCHANGED <<requests, batch>>
     ELSE /\ batch' = Batch
          /\ requests' = SubSeq(requests, Len(Batch) + 1, Len(requests))
          /\ pc' = IF Batch # <<>> THEN "serve" ELSE "work"
  /\ UNCHANGED <<stopping, finished, error, connected, timer, emitted, appVars>>

\* set_outputs or set_target on behalf of a caller, which gets its answer;
\* set_target may write the target, and so set a timer and report outputs
\* that were reset, or leave it to a timer.
Serve ==
  /\ At("serve")
  /\ calling' = [calling EXCEPT ![Head(batch)] = "answered"]
  /\ batch' = Tail(batch)
  /\ pc' = IF Tail(batch) = <<>> THEN "top" ELSE "serve"
  /\ \/ connected /\ EmitUpTo(1) /\ timer' \in BOOLEAN
     \/ UNCHANGED <<pending, emitted, timer>>
  /\ UNCHANGED <<sharedVars, asleep, connected, handle, receiving, closing, taken>>

\* What an attempt to connect, a restoration of the target, a settle timeout
\* or a report does to the connection; without one a scan is always due.
Handled ==
  /\ pc' \in {"top", "failed"}
  /\ connected' \in BOOLEAN /\ timer' \in BOOLEAN
  /\ ~connected' => timer'
  /\ EmitUpTo(MaxEmit)
  /\ UNCHANGED <<sharedVars, asleep, batch, appVars>>

TimerDue == At("work") /\ timer /\ Handled

NothingDue ==
  /\ At("work")
  /\ pc' = IF pending # <<>> \/ ~connected THEN "check" ELSE "read"
  /\ UNCHANGED <<sharedVars, asleep, pending, batch, connected, timer, emitted,
                 appVars>>

\* Mutated form of Busy: only requests and a close count.
BusyWithRequests == requests # <<>> \/ stopping
Busy == \/ requests # <<>>
        \/ stopping
        \/ pending # <<>> /\ Len(out) < OUT_CAPACITY

\* With events that find no room, or no connection, the thread sleeps.
Sleep ==
  /\ At("check")
  /\ asleep' = IF Busy THEN asleep ELSE asleep \cup {Watch}
  /\ pc' = "top"
  /\ UNCHANGED <<sharedVars, pending, batch, connected, timer, emitted, appVars>>

SleepTimeout ==
  /\ Watch \in asleep /\ timer
  /\ asleep' = asleep \ {Watch}
  /\ UNCHANGED <<sharedVars, threadVars, appVars>>

\* A read of the device that timed out, lost it or got a report.
Read == At("read") /\ Handled

\* The end of run after a close.
FinishClosed ==
  /\ At("closed")
  /\ out' = <<>> /\ pending' = <<>>
  /\ finished' = TRUE
  /\ UNCHANGED error

\* Mutated forms of FinishFailed: what is pending is forgotten, or goes first.
FinishFailedAtOnce ==
  /\ At("failed")
  /\ UNCHANGED out /\ pending' = <<>>
  /\ error' = TRUE /\ finished' = TRUE
FinishFailedReordered ==
  /\ At("failed")
  /\ out' = pending \o out /\ pending' = <<>>
  /\ error' = TRUE /\ finished' = TRUE

\* The end of run after a fatal error: what happened before is delivered.
FinishFailed ==
  /\ At("failed")
  /\ out' = out \o pending /\ pending' = <<>>
  /\ error' = TRUE /\ finished' = TRUE

\* Requests still queued are dropped with their reply senders.
Dropped(queued) ==
  [c \in Callers |-> IF \E i \in DOMAIN queued : queued[i] = c
                     THEN "refused" ELSE calling[c]]

Finish ==
  /\ FinishClosed \/ FinishFailed
  /\ calling' = Dropped(requests)
  /\ requests' = <<>>
  /\ connected' = FALSE
  /\ pc' = "ended"
  /\ NotifyAll
  /\ UNCHANGED <<stopping, batch, timer, emitted, handle, receiving, closing,
                 taken>>

WatchThread == \/ HandOver \/ Serve \/ TimerDue \/ NothingDue
               \/ Sleep \/ SleepTimeout \/ Read \/ Finish

-----------------------------------------------------------------------------
(***************************************************************************)
(* The application's threads.                                              *)
(***************************************************************************)
\* Mutated form of TakeNotifies: room in out wakes nobody.
TakeNotifiesNobody == UNCHANGED asleep
TakeNotifies == NotifyAll

\* One turn of the loop in take, for a receiver that calls recv or
\* recv_timeout, or was woken in it.
Take(r) ==
  /\ r \notin asleep /\ receiving[r] # "ended"
  /\ \/ /\ out # <<>>
        /\ out' = Tail(out)
        /\ taken' = Head(out)
        /\ receiving' = [receiving EXCEPT ![r] = "idle"]
        /\ TakeNotifies
     \/ /\ out = <<>> /\ finished
        /\ receiving' = [receiving EXCEPT ![r] = "ended"]
        /\ UNCHANGED <<out, taken, asleep>>
     \/ /\ out = <<>> /\ ~finished
        /\ receiving' = [receiving EXCEPT ![r] = "in_recv"]
        /\ asleep' = asleep \cup {r}
        /\ UNCHANGED <<out, taken>>
  /\ UNCHANGED <<requests, stopping, finished, error, threadVars, handle,
                 calling, closing>>

\* recv_timeout finds its deadline past; it looks at out once more first.
TakeTimeout(r) ==
  /\ receiving[r] = "in_recv" /\ out = <<>> /\ ~finished
  /\ receiving' = [receiving EXCEPT ![r] = "idle"]
  /\ asleep' = asleep \ {r}
  /\ UNCHANGED <<sharedVars, threadVars, handle, calling, closing, taken>>

Call(c) ==
  /\ calling[c] = "ready"
  /\ IF finished \/ stopping
     THEN /\ calling' = [calling EXCEPT ![c] = "refused"]
          /\ UNCHANGED <<requests, asleep>>
     ELSE /\ calling' = [calling EXCEPT ![c] = "waiting"]
          /\ requests' = Append(requests, c)
          /\ NotifyAll
  /\ UNCHANGED <<out, stopping, finished, error, threadVars, handle, receiving,
                 closing, taken>>

\* Mutated form of CloseNotifies: a close wakes nobody.
CloseNotifiesNobody == UNCHANGED asleep
CloseNotifies == NotifyAll

\* close signals the thread, takes the join handle and joins; without the
\* handle, which another close has taken, it returns at once.
CloseSignal(c) ==
  /\ closing[c] = "ready"
  /\ closing' = [closing EXCEPT ![c] = "signalled"]
  /\ stopping' = TRUE
  /\ CloseNotifies
  /\ UNCHANGED <<out, requests, finished, error, threadVars, handle, receiving,
                 calling, taken>>

CloseTakeHandle(c) ==
  /\ closing[c] = "signalled"
  /\ closing' = [closing EXCEPT ![c] = IF handle THEN "joining" ELSE "done"]
  /\ handle' = FALSE
  /\ UNCHANGED <<sharedVars, asleep, threadVars, receiving, calling, taken>>

CloseJoin(c) ==
  /\ closing[c] = "joining" /\ pc = "ended"
  /\ closing' = [closing EXCEPT ![c] = "done"]
  /\ UNCHANGED <<sharedVars, asleep, threadVars, handle, receiving, calling,
                 taken>>

Close(c) == CloseSignal(c) \/ CloseTakeHandle(c) \/ CloseJoin(c)

Next ==
  \/ WatchThread
  \/ \E r \in Receivers : Take(r) \/ TakeTimeout(r)
  \/ \E c \in Callers : Call(c)
  \/ \E c \in Closers : Close(c)

Spec == Init /\ [][Next]_vars

(***************************************************************************)
(* The threads are scheduled.  Nothing makes the application take events,  *)
(* make a call or close the watcher; a close or a recv that has begun goes *)
(* on.                                                                     *)
(***************************************************************************)
FairSpec ==
  /\ Spec
  /\ WF_vars(WatchThread)
  /\ \A r \in Receivers : WF_vars(receiving[r] = "in_recv" /\ Take(r))
  /\ \A c \in Closers : WF_vars(CloseTakeHandle(c) \/ CloseJoin(c))

-----------------------------------------------------------------------------
(***************************************************************************)
(* No event is lost, duplicated or overtaken between the step it happened  *)
(* in and the application: what waits are the events after the last one    *)
(* taken, in order.  Only a close drops events.                            *)
(***************************************************************************)
EventsInOrder ==
  ~(finished /\ ~error)
    => out \o pending = [i \in 1 .. emitted - taken |-> taken + i]

(***************************************************************************)
(* A thread sleeps only when there is nothing for it to do, so no wake-up  *)
(* is lost: the watcher thread with no request, no close and no room for   *)
(* its events (or none), a receiver with no event and a watcher that runs. *)
(***************************************************************************)
SleepersHaveNothingToDo ==
  /\ Watch \in asleep =>
       /\ requests = <<>> /\ ~stopping /\ ~finished
       /\ pending = <<>> \/ Len(out) = OUT_CAPACITY
  /\ \A r \in Receivers \cap asleep : out = <<>> /\ ~finished

(***************************************************************************)
(* A receiver hears the end of a watcher that failed only after its last   *)
(* event: every event that happened before the error comes first.  A close *)
(* of a running watcher drops the events that wait; it is not meant here.  *)
(***************************************************************************)
EndIsHeardLast ==
  \A r \in Receivers : receiving[r] = "ended" /\ error => taken = emitted

(***************************************************************************)
(* An operation returns, answered or refused, whether or not anyone takes  *)
(* events and whenever the watcher stops: it is safe to call from the      *)
(* thread that receives the events (HOST_API.md section 9.2).              *)
(***************************************************************************)
CallsReturn ==
  \A c \in Callers : calling[c] = "waiting" ~> calling[c] # "waiting"

(***************************************************************************)
(* A close returns, whatever the watcher thread is doing or waiting for,   *)
(* with the event queue full and nobody taking from it.                    *)
(***************************************************************************)
ClosesReturn ==
  \A c \in Closers : closing[c] # "ready" ~> closing[c] = "done"

(***************************************************************************)
(* A recv returns once there is something to return: while events wait on  *)
(* either side of the queue, or the watcher has stopped, nobody waits.     *)
(***************************************************************************)
RecvReturns ==
  \A r \in Receivers :
    (receiving[r] = "in_recv" /\ (taken < emitted \/ finished))
      ~> (receiving[r] # "in_recv" \/ (taken = emitted /\ ~finished))
=============================================================================
