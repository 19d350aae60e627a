---------------------------- MODULE WatcherProofs ----------------------------
(***************************************************************************)
(* Safety of the Watcher (WatcherChannel) for any number of threads of the *)
(* application, any capacity of the event queue and any number of events.  *)
(***************************************************************************)
EXTENDS WatcherChannel, TLAPS, SequenceTheorems

\* How the phases of the watcher thread bind the shared state: it is finished
\* once, after which it owns nothing, and it sleeps only before its loop.
Phases ==
  /\ finished <=> pc = "ended"
  /\ error => finished
  /\ finished => pending = <<>> /\ requests = <<>>
  /\ finished /\ ~error => out = <<>>
  /\ pc = "serve" => batch # <<>>
  /\ Watch \in asleep => pc = "top"
  /\ \A r \in Receivers : receiving[r] = "ended" => finished /\ out = <<>>

-----------------------------------------------------------------------------
\* What is left of a sequence is a sequence.
LEMMA Parts ==
  ASSUME NEW S, NEW s \in Seq(S), NEW m \in Nat, m <= Len(s)
  PROVE  /\ SubSeq(s, 1, m) \in Seq(S) /\ Len(SubSeq(s, 1, m)) = m
         /\ SubSeq(s, m + 1, Len(s)) \in Seq(S)
         /\ SubSeq(s, 1, m) \o SubSeq(s, m + 1, Len(s)) = s
<1>1. Len(s) \in Nat
  BY LenProperties
<1>2. \A i \in 1 .. m : s[i] \in S
  BY <1>1, ElementOfSeq
<1>3. \A i \in m + 1 .. Len(s) : s[i] \in S
  BY <1>1, ElementOfSeq
<1>4. SubSeq(s, 1, m) \in Seq(S) /\ Len(SubSeq(s, 1, m)) = m
  BY <1>2, SubSeqProperties
<1>5. SubSeq(s, m + 1, Len(s)) \in Seq(S)
  BY <1>1, <1>3, SubSeqProperties
<1>6. SubSeq(s, 1, m) \o SubSeq(s, m + 1, Len(s)) = SubSeq(s, 1, Len(s))
  <2>1. /\ 1 \in 1 .. Len(s) + 1 /\ m \in 1 - 1 .. Len(s)
        /\ Len(s) \in m .. Len(s)
    BY <1>1
  <2> QED
    BY <2>1, ConcatAdjacentSubSeq
<1> QED
  BY <1>4, <1>5, <1>6, SubSeqFull

\* Moving the front of p to the end of s moves no element.
LEMMA MovingKeeps ==
  ASSUME NEW S, NEW s \in Seq(S), NEW p \in Seq(S), NEW m \in Nat, m <= Len(p)
  PROVE  (s \o SubSeq(p, 1, m)) \o SubSeq(p, m + 1, Len(p)) = s \o p
<1>1. PICK front, back : /\ front = SubSeq(p, 1, m)
                         /\ back = SubSeq(p, m + 1, Len(p))
  OBVIOUS
<1>2. front \in Seq(S) /\ back \in Seq(S) /\ front \o back = p
  BY <1>1, Parts
<1>3. (s \o front) \o back = s \o (front \o back)
  <2>1. s \in Seq(S) /\ front \in Seq(S) /\ back \in Seq(S)
    BY <1>2
  <2> QED
    BY ONLY <2>1, SMTT(20)
<1> QED
  BY ONLY <1>1, <1>2, <1>3, ZenonT(30)

\* The events of one step are events.
LEMMA HappenedType ==
  ASSUME NEW k \in Nat, emitted \in Nat, MaxEvents \in Nat, emitted + k <= MaxEvents
  PROVE  /\ Happened(k) \in Seq(1 .. MaxEvents) /\ Len(Happened(k)) = k
         /\ \A i \in 1 .. k : Happened(k)[i] = emitted + i
<1>1. \A i \in 1 .. k : emitted + i \in 1 .. MaxEvents
  OBVIOUS
<1>2. Happened(k) \in [1 .. k -> 1 .. MaxEvents]
  BY <1>1 DEF Happened
<1> QED
  BY <1>2 DEF Happened

\* What emitting does.
LEMMA Emits ==
  ASSUME WatcherAssumption, TypeOK, NEW n \in Nat, EmitUpTo(n)
  PROVE  /\ emitted' \in 0 .. MaxEvents
         /\ pending' \in Seq(1 .. MaxEvents)
         /\ \E k \in Nat : /\ emitted' = emitted + k
                           /\ emitted + k <= MaxEvents
                           /\ pending' = pending \o Happened(k)
<1>1. PICK k \in 0 .. n : /\ emitted + k <= MaxEvents
                          /\ emitted' = emitted + k
                          /\ pending' = pending \o Happened(k)
  BY DEF EmitUpTo
<1>2. Happened(k) \in Seq(1 .. MaxEvents)
  BY <1>1, HappenedType DEF TypeOK, WatcherAssumption
<1>3. pending' \in Seq(1 .. MaxEvents)
  BY <1>1, <1>2, ConcatProperties DEF TypeOK
<1> QED
  BY <1>1, <1>3 DEF TypeOK, WatcherAssumption

\* The room in out before the watcher has finished.
LEMMA RoomFits ==
  ASSUME WatcherAssumption, TypeOK, ~finished
  PROVE  /\ Room \in Nat /\ Room <= Len(pending)
         /\ Len(out) + Room <= OUT_CAPACITY
<1>1. Len(pending) \in Nat /\ Len(out) \in Nat /\ Len(out) <= OUT_CAPACITY
  BY LenProperties DEF TypeOK
<1> QED
  BY <1>1 DEF WatcherAssumption, Room, Lesser

\* What the section at the top of the loop does to the queues.
LEMMA HandsOver ==
  ASSUME WatcherAssumption, TypeOK, ~finished, HandOver
  PROVE  /\ out' \in Seq(1 .. MaxEvents) /\ Len(out') <= OUT_CAPACITY
         /\ pending' \in Seq(1 .. MaxEvents)
         /\ requests' \in Seq(Callers) /\ batch' \in Seq(Callers)
         /\ out' \o pending' = out \o pending
         /\ Room = 0 => out' = out
<1> DEFINE moved == SubSeq(pending, 1, Room)
           kept  == SubSeq(pending, Room + 1, Len(pending))
<1>1. /\ Room \in Nat /\ Room <= Len(pending)
      /\ Len(out) + Room <= OUT_CAPACITY
  BY RoomFits
<1>2. /\ out \in Seq(1 .. MaxEvents) /\ pending \in Seq(1 .. MaxEvents)
      /\ requests \in Seq(Callers) /\ batch \in Seq(Callers)
  BY DEF TypeOK
<1>3. /\ moved \in Seq(1 .. MaxEvents) /\ Len(moved) = Room
      /\ kept \in Seq(1 .. MaxEvents) /\ moved \o kept = pending
  BY <1>1, <1>2, Parts
<1>4. out' = out \o moved /\ pending' = kept
  BY DEF HandOver
<1>5. out' \in Seq(1 .. MaxEvents) /\ Len(out') = Len(out) + Room
  BY <1>2, <1>3, <1>4, ConcatProperties
<1>6. out' \o pending' = out \o pending
  BY <1>1, <1>2, <1>4, MovingKeeps
<1>7. requests' \in Seq(Callers) /\ batch' \in Seq(Callers)
  <2>1. Len(requests) \in Nat /\ Len(requests) <= Len(requests)
    BY <1>2, LenProperties
  <2>2. SubSeq(requests, Len(requests) + 1, Len(requests)) \in Seq(Callers)
    BY <1>2, <2>1, Parts
  <2> QED
    BY <1>2, <2>2 DEF HandOver, Batch
<1>8. Room = 0 => out' = out
  <2> SUFFICES ASSUME Room = 0 PROVE out' = out
    OBVIOUS
  <2>1. moved = <<>>
    BY <1>3, EmptySeq
  <2> QED
    BY <1>2, <1>4, <2>1, ConcatEmptySeq
<1> QED
  BY <1>1, <1>3, <1>4, <1>5, <1>6, <1>7, <1>8

-----------------------------------------------------------------------------
\* Every step keeps the types and the phases.
LEMMA TypeStep ==
  ASSUME WatcherAssumption, TypeOK, Phases, [Next]_vars
  PROVE  TypeOK' /\ Phases'
<1>1. CASE UNCHANGED vars
  BY <1>1 DEF TypeOK, Phases, vars, sharedVars, threadVars, appVars
<1>2. CASE HandOver
  <2>1. ~finished
    BY <1>2 DEF HandOver, At, Phases
  <2>2. /\ out' \in Seq(1 .. MaxEvents) /\ Len(out') <= OUT_CAPACITY
        /\ pending' \in Seq(1 .. MaxEvents)
        /\ requests' \in Seq(Callers) /\ batch' \in Seq(Callers)
    BY <1>2, <2>1, HandsOver
  <2>3. /\ pc' \in {"closed", "serve", "work"}
        /\ pc' = "serve" => batch' # <<>>
        /\ Watch \notin asleep' /\ asleep' \subseteq asleep
        /\ UNCHANGED <<stopping, finished, error, connected, timer, emitted, appVars>>
    BY <1>2 DEF HandOver, At, NotifyAll
  <2> QED
    BY <2>1, <2>2, <2>3 DEF TypeOK, Phases, Places, appVars
<1>3. CASE Serve
  <2>1. batch # <<>> /\ ~finished /\ Watch \notin asleep
    BY <1>3 DEF Serve, At, Phases
  <2>2. batch' \in Seq(Callers) /\ Head(batch) \in Callers
    BY <1>3, <2>1, HeadTailProperties DEF Serve, TypeOK
  <2>3. emitted' \in 0 .. MaxEvents /\ pending' \in Seq(1 .. MaxEvents)
    <3>1. CASE EmitUpTo(1)
      BY <3>1, Emits
    <3>2. CASE UNCHANGED <<pending, emitted>>
      BY <3>2 DEF TypeOK
    <3> QED
      BY <1>3, <3>1, <3>2 DEF Serve
  <2>4. /\ pc' \in {"top", "serve"}
        /\ pc' = "serve" => batch' # <<>>
        /\ timer' \in BOOLEAN
        /\ calling' = [calling EXCEPT ![Head(batch)] = "answered"]
        /\ UNCHANGED <<out, requests, asleep, connected, handle, receiving,
                       closing, taken>>
        /\ stopping' \in BOOLEAN /\ finished' \in BOOLEAN /\ error' \in BOOLEAN
        /\ ~finished' /\ ~error'
    BY <1>3, <2>1 DEF Serve, TypeOK, Phases, sharedVars
  <2>5. calling' \in [Callers -> {"ready", "waiting", "answered", "refused"}]
    BY <2>2, <2>4 DEF TypeOK
  <2>6. TypeOK'
    <3>1. /\ out' \in Seq(1 .. MaxEvents) /\ requests' \in Seq(Callers)
          /\ asleep' \subseteq Receivers \cup {Watch}
          /\ connected' \in BOOLEAN /\ handle' \in BOOLEAN
          /\ taken' \in 0 .. MaxEvents
          /\ Len(out') <= OUT_CAPACITY
      BY <2>1, <2>4 DEF TypeOK
    <3>2. /\ receiving' \in [Receivers -> {"idle", "in_recv", "ended"}]
          /\ closing' \in [Closers -> {"ready", "signalled", "joining", "done"}]
      BY <2>4 DEF TypeOK
    <3> QED
      BY <2>2, <2>3, <2>4, <2>5, <3>1, <3>2 DEF TypeOK, Places
  <2>7. Phases'
    BY <2>1, <2>4 DEF Phases
  <2> QED
    BY <2>6, <2>7
<1>4. CASE TimerDue \/ Read
  <2>1. Handled /\ ~finished /\ Watch \notin asleep
    BY <1>4 DEF TimerDue, Read, At, Phases
  <2>2. emitted' \in 0 .. MaxEvents /\ pending' \in Seq(1 .. MaxEvents)
    BY <2>1, Emits DEF Handled, WatcherAssumption
  <2> QED
    BY <2>1, <2>2 DEF Handled, TypeOK, Phases, Places, sharedVars, appVars
<1>5. CASE NothingDue
  BY <1>5 DEF NothingDue, At, TypeOK, Phases, Places, sharedVars, appVars
<1>6. CASE Sleep
  BY <1>6 DEF Sleep, At, TypeOK, Phases, Places, sharedVars, appVars
<1>7. CASE SleepTimeout
  BY <1>7 DEF SleepTimeout, TypeOK, Phases, sharedVars, threadVars, appVars
<1>8. CASE Finish
  <2>1. ~finished /\ ~error /\ Watch \notin asleep
    BY <1>8 DEF Finish, FinishClosed, FinishFailed, At, Phases
  <2>2. /\ out' \in Seq(1 .. MaxEvents) /\ pending' = <<>>
        /\ error' \in BOOLEAN
        /\ ~error' => out' = <<>>
    <3>1. out \o pending \in Seq(1 .. MaxEvents)
      BY ConcatProperties DEF TypeOK
    <3>2. CASE FinishClosed
      BY <3>2, EmptySeq DEF FinishClosed, TypeOK
    <3>3. CASE FinishFailed
      BY <3>1, <3>3 DEF FinishFailed
    <3> QED
      BY <1>8, <3>2, <3>3 DEF Finish
  <2>3. calling' \in [Callers -> {"ready", "waiting", "answered", "refused"}]
    BY <1>8 DEF Finish, Dropped, TypeOK
  <2>4. /\ requests' = <<>> /\ pc' = "ended" /\ asleep' = {} /\ connected' \in BOOLEAN
        /\ finished' \in BOOLEAN /\ finished' /\ stopping' \in BOOLEAN
        /\ UNCHANGED <<batch, timer, emitted, handle, receiving,
                       closing, taken>>
    BY <1>8 DEF Finish, FinishClosed, FinishFailed, NotifyAll, TypeOK
  <2>5. pending' \in Seq(1 .. MaxEvents) /\ requests' \in Seq(Callers)
    BY <2>2, <2>4, EmptySeq
  <2>6. TypeOK'
    BY <2>2, <2>3, <2>4, <2>5 DEF TypeOK, Places
  <2>7. Phases'
    BY <2>1, <2>2, <2>4 DEF Phases
  <2> QED
    BY <2>6, <2>7
<1>9. ASSUME NEW r \in Receivers, Take(r)
      PROVE  TypeOK' /\ Phases'
  <2>1. CASE out # <<>>
    <3>1. /\ out' \in Seq(1 .. MaxEvents) /\ Len(out') <= Len(out)
          /\ taken' \in 1 .. MaxEvents
      <4>1. out' = Tail(out) /\ taken' = Head(out)
        BY <1>9, <2>1 DEF Take
      <4>2. out \in Seq(1 .. MaxEvents)
        BY DEF TypeOK
      <4>3. Len(out) \in Nat
        BY <4>2, LenProperties
      <4> QED
        BY <2>1, <4>1, <4>2, <4>3, HeadTailProperties
    <3>2. /\ receiving' = [receiving EXCEPT ![r] = "idle"] /\ asleep' = {}
          /\ UNCHANGED <<requests, stopping, finished, error, threadVars,
                         handle, calling, closing>>
      BY <1>9, <2>1 DEF Take, TakeNotifies, NotifyAll
    <3>3. finished => error
      BY <2>1 DEF Phases
    <3>4. Len(out') \in Nat /\ Len(out) \in Nat
      BY <3>1, LenProperties DEF TypeOK
    <3>5. \A s \in Receivers : receiving[s] # "ended"
      BY <2>1 DEF Phases
    <3> QED
      BY <3>1, <3>2, <3>3, <3>4, <3>5 DEF TypeOK, Phases, threadVars, WatcherAssumption
  <2>2. CASE out = <<>>
    <3>1. /\ UNCHANGED <<out, taken>>
          /\ UNCHANGED <<requests, stopping, finished, error, threadVars,
                         handle, calling, closing>>
          /\ asleep' \in {asleep, asleep \cup {r}}
          /\ \/ receiving' = [receiving EXCEPT ![r] = "ended"] /\ finished
             \/ receiving' = [receiving EXCEPT ![r] = "in_recv"]
      BY <1>9, <2>2 DEF Take
    <3> QED
      BY <2>2, <3>1 DEF TypeOK, Phases, threadVars, WatcherAssumption
  <2> QED
    BY <2>1, <2>2
<1>10. ASSUME NEW r \in Receivers, TakeTimeout(r)
       PROVE  TypeOK' /\ Phases'
  BY <1>10 DEF TakeTimeout, TypeOK, Phases, sharedVars, threadVars
<1>11. ASSUME NEW c \in Callers, Call(c)
       PROVE  TypeOK' /\ Phases'
  <2>1. Append(requests, c) \in Seq(Callers)
    BY AppendProperties DEF TypeOK
  <2> QED
    BY <1>11, <2>1 DEF Call, NotifyAll, TypeOK, Phases, threadVars
<1>12. ASSUME NEW c \in Closers, Close(c)
       PROVE  TypeOK' /\ Phases'
  <2>1. CASE CloseSignal(c)
    BY <2>1 DEF CloseSignal, CloseNotifies, NotifyAll, TypeOK, Phases, threadVars
  <2>2. CASE CloseTakeHandle(c)
    BY <2>2 DEF CloseTakeHandle, TypeOK, Phases, sharedVars, threadVars
  <2>3. CASE CloseJoin(c)
    BY <2>3 DEF CloseJoin, TypeOK, Phases, sharedVars, threadVars
  <2> QED
    BY <1>12, <2>1, <2>2, <2>3 DEF Close
<1> QED
  BY <1>1, <1>2, <1>3, <1>4, <1>5, <1>6, <1>7, <1>8, <1>9, <1>10, <1>11, <1>12
     DEF Next, WatchThread

(***************************************************************************)
(* The queue of events keeps to its capacity while the watcher runs; the   *)
(* flags, queues and threads are where the phases of main_loop allow.      *)
(***************************************************************************)
THEOREM WatcherTypeCorrect == Spec => []TypeOK /\ []Phases
<1> USE WatcherAssumption
<1>1. Init => TypeOK /\ Phases
  <2> SUFFICES ASSUME Init PROVE TypeOK /\ Phases
    OBVIOUS
  <2>1. /\ out \in Seq(1 .. MaxEvents) /\ pending \in Seq(1 .. MaxEvents)
        /\ requests \in Seq(Callers) /\ batch \in Seq(Callers)
        /\ Len(out) = 0
    BY EmptySeq DEF Init
  <2>2. /\ receiving \in [Receivers -> {"idle", "in_recv", "ended"}]
        /\ calling \in [Callers -> {"ready", "waiting", "answered", "refused"}]
        /\ closing \in [Closers -> {"ready", "signalled", "joining", "done"}]
    BY DEF Init
  <2>3. /\ stopping \in BOOLEAN /\ finished \in BOOLEAN /\ error \in BOOLEAN
        /\ connected \in BOOLEAN /\ timer \in BOOLEAN /\ handle \in BOOLEAN
        /\ asleep = {} /\ pc = "top"
    BY DEF Init
  <2>4. emitted \in 0 .. MaxEvents /\ taken \in 0 .. MaxEvents
    BY DEF Init, WatcherAssumption
  <2>5. TypeOK
    BY <2>1, <2>2, <2>3, <2>4 DEF TypeOK, Places, WatcherAssumption
  <2>6. Phases
    BY DEF Init, Phases
  <2> QED
    BY <2>5, <2>6
<1>2. TypeOK /\ Phases /\ [Next]_vars => TypeOK' /\ Phases'
  BY TypeStep
<1> QED
  BY <1>1, <1>2, PTL DEF Spec

-----------------------------------------------------------------------------
\* Whatever gives a sleeping thread something to do wakes it.
LEMMA SleepersStep ==
  ASSUME WatcherAssumption, TypeOK, Phases, SleepersHaveNothingToDo, [Next]_vars
  PROVE  SleepersHaveNothingToDo'
<1>1. CASE UNCHANGED vars
  BY <1>1 DEF SleepersHaveNothingToDo, vars, sharedVars, threadVars
<1>2. CASE HandOver
  <2>1. ~finished /\ Watch \notin asleep
    BY <1>2 DEF HandOver, At, Phases
  <2>2. (Room = 0 => out' = out) /\ Room \in Nat
    BY <1>2, <2>1, HandsOver, RoomFits
  <2>3. asleep' = {} \/ (asleep' = asleep /\ out' = out)
    BY <1>2, <2>2 DEF HandOver, NotifyAll
  <2>4. finished' = finished
    BY <1>2 DEF HandOver
  <2> QED
    BY <2>1, <2>3, <2>4 DEF SleepersHaveNothingToDo
<1>3. CASE Serve \/ TimerDue \/ Read \/ NothingDue
  <2>1. Watch \notin asleep /\ UNCHANGED <<out, finished, asleep>>
    BY <1>3 DEF Serve, TimerDue, Read, NothingDue, Handled, At, sharedVars
  <2> QED
    BY <2>1 DEF SleepersHaveNothingToDo
<1>4. CASE Sleep
  <2>1. /\ UNCHANGED <<out, requests, stopping, finished, pending>>
        /\ asleep' = IF Busy THEN asleep ELSE asleep \cup {Watch}
    BY <1>4 DEF Sleep, sharedVars
  <2>2. ~finished
    BY <1>4 DEF Sleep, At, Phases
  <2>3. Len(out) <= OUT_CAPACITY /\ Len(out) \in Nat
    BY <2>2, LenProperties DEF TypeOK
  <2>4. CASE Busy
    BY <2>1, <2>4 DEF SleepersHaveNothingToDo
  <2>5. CASE ~Busy
    <3>1. /\ requests = <<>> /\ ~stopping
          /\ pending = <<>> \/ Len(out) = OUT_CAPACITY
      BY <2>3, <2>5 DEF Busy, WatcherAssumption
    <3>2. \A r \in Receivers : r \in asleep' => r \in asleep
      BY <2>1 DEF WatcherAssumption
    <3> QED
      BY <2>1, <2>2, <3>1, <3>2 DEF SleepersHaveNothingToDo
  <2> QED
    BY <2>4, <2>5
<1>5. CASE SleepTimeout
  BY <1>5 DEF SleepTimeout, SleepersHaveNothingToDo, sharedVars, threadVars
<1>6. CASE Finish
  BY <1>6 DEF Finish, NotifyAll, SleepersHaveNothingToDo
<1>7. ASSUME NEW r \in Receivers, Take(r)
      PROVE  SleepersHaveNothingToDo'
  <2>1. /\ UNCHANGED <<requests, stopping, finished, pending>>
        /\ \/ asleep' = {}
           \/ asleep' = asleep /\ out' = out
           \/ asleep' = asleep \cup {r} /\ out' = out /\ out = <<>> /\ ~finished
    BY <1>7 DEF Take, TakeNotifies, NotifyAll, threadVars
  <2>2. Watch # r
    BY DEF WatcherAssumption
  <2> QED
    BY <2>1, <2>2 DEF SleepersHaveNothingToDo
<1>8. ASSUME NEW r \in Receivers, TakeTimeout(r)
      PROVE  SleepersHaveNothingToDo'
  BY <1>8 DEF TakeTimeout, SleepersHaveNothingToDo, sharedVars, threadVars
<1>9. ASSUME NEW c \in Callers, Call(c)
      PROVE  SleepersHaveNothingToDo'
  BY <1>9 DEF Call, NotifyAll, SleepersHaveNothingToDo, threadVars
<1>10. ASSUME NEW c \in Closers, Close(c)
       PROVE  SleepersHaveNothingToDo'
  BY <1>10 DEF Close, CloseSignal, CloseTakeHandle, CloseJoin, CloseNotifies,
               NotifyAll, SleepersHaveNothingToDo, sharedVars, threadVars
<1> QED
  BY <1>1, <1>2, <1>3, <1>4, <1>5, <1>6, <1>7, <1>8, <1>9, <1>10
     DEF Next, WatchThread

(***************************************************************************)
(* No wake-up is lost: a thread waits for the condition variable (take and *)
(* main_loop of watch.rs) only while it has nothing to do, since every     *)
(* section that gives it something to do notifies.                         *)
(***************************************************************************)
THEOREM NoLostWakeUp == Spec => []SleepersHaveNothingToDo
<1> USE WatcherAssumption
<1>1. Init => SleepersHaveNothingToDo
  BY DEF Init, SleepersHaveNothingToDo
<1>2. TypeOK /\ Phases /\ SleepersHaveNothingToDo /\ [Next]_vars
        => SleepersHaveNothingToDo'
  BY SleepersStep
<1> QED
  BY <1>1, <1>2, WatcherTypeCorrect, PTL DEF Spec

-----------------------------------------------------------------------------
\* The numbers of the events after event t, up to event e.
After(t, e) == [i \in 1 .. e - t |-> t + i]

\* They are a sequence of e - t numbers.
LEMMA AfterType ==
  ASSUME NEW t \in Nat, NEW e \in Nat, t <= e
  PROVE  /\ After(t, e) \in Seq(Nat) /\ Len(After(t, e)) = e - t
         /\ \A i \in 1 .. e - t : After(t, e)[i] = t + i
<1>1. After(t, e) \in [1 .. e - t -> Nat] /\ e - t \in Nat
  BY DEF After
<1> QED
  BY <1>1 DEF After

\* Appending the next k events to the ones that wait.
LEMMA AfterGrows ==
  \A t, e, k \in Nat : \A h \in Seq(Nat) :
    t <= e /\ Len(h) = k /\ (\A i \in 1 .. k : h[i] = e + i)
      => After(t, e) \o h = After(t, e + k)
<1> SUFFICES ASSUME NEW t \in Nat, NEW e \in Nat, NEW k \in Nat, NEW h \in Seq(Nat),
                    t <= e, Len(h) = k, \A i \in 1 .. k : h[i] = e + i
             PROVE  After(t, e) \o h = After(t, e + k)
  OBVIOUS
<1> DEFINE lhs == After(t, e) \o h
           rhs == After(t, e + k)
<1>1. /\ After(t, e) \in Seq(Nat) /\ Len(After(t, e)) = e - t
      /\ \A i \in 1 .. e - t : After(t, e)[i] = t + i
  BY AfterType
<1>2. /\ rhs \in Seq(Nat) /\ Len(rhs) = e + k - t
      /\ \A i \in 1 .. e + k - t : rhs[i] = t + i
  <2>1. e + k \in Nat /\ t <= e + k
    OBVIOUS
  <2> HIDE DEF rhs
  <2>2. \A f \in Nat : t <= f => /\ After(t, f) \in Seq(Nat)
                                /\ Len(After(t, f)) = f - t
                                /\ \A i \in 1 .. f - t : After(t, f)[i] = t + i
    BY AfterType
  <2> QED
    BY <2>1, <2>2 DEF rhs
<1>3. /\ lhs \in Seq(Nat) /\ Len(lhs) = e - t + k
      /\ \A i \in 1 .. e - t + k :
           lhs[i] = IF i <= e - t THEN After(t, e)[i] ELSE h[i - (e - t)]
  <2>1. /\ lhs \in Seq(Nat) /\ Len(lhs) = Len(After(t, e)) + Len(h)
        /\ \A i \in 1 .. Len(After(t, e)) + Len(h) :
             lhs[i] = IF i <= Len(After(t, e)) THEN After(t, e)[i]
                                               ELSE h[i - Len(After(t, e))]
    BY <1>1, ConcatProperties
  <2> HIDE DEF lhs
  <2> QED
    BY <1>1, <2>1
<1>4. ASSUME NEW i \in 1 .. e - t + k
      PROVE  lhs[i] = t + i
  <2>1. CASE i <= e - t
    BY <1>1, <1>3, <2>1
  <2>2. CASE ~(i <= e - t)
    <3>1. i - (e - t) \in 1 .. k /\ e + (i - (e - t)) = t + i
      BY <2>2
    <3> QED
      BY <1>3, <2>2, <3>1
  <2> QED
    BY <2>1, <2>2
<1>5. Len(lhs) = Len(rhs)
  BY <1>2, <1>3
<1>6. \A i \in 1 .. Len(lhs) : lhs[i] = rhs[i]
  BY <1>2, <1>3, <1>4
<1> HIDE DEF lhs, rhs
<1>7. lhs = rhs
  BY <1>2, <1>3, <1>5, <1>6, SeqEqual
<1> QED
  BY <1>7 DEF lhs, rhs

\* Taking the first of the events that wait.
LEMMA AfterTaken ==
  ASSUME NEW t \in Nat, NEW e \in Nat, t <= e,
         NEW s \in Seq(Nat), NEW q \in Seq(Nat), s # <<>>, s \o q = After(t, e)
  PROVE  Head(s) = t + 1 /\ t + 1 <= e /\ Tail(s) \o q = After(t + 1, e)
<1> DEFINE lhs == Tail(s) \o q
           rhs == After(t + 1, e)
<1>1. /\ Len(s) \in Nat \ {0} /\ Len(q) \in Nat
      /\ Head(s) = s[1] /\ Tail(s) \in Seq(Nat) /\ Len(Tail(s)) = Len(s) - 1
      /\ \A i \in 1 .. Len(s) - 1 : Tail(s)[i] = s[i + 1]
  BY EmptySeq, LenProperties, HeadTailProperties
<1>2. /\ Len(s \o q) = Len(s) + Len(q)
      /\ \A i \in 1 .. Len(s) + Len(q) :
           (s \o q)[i] = IF i <= Len(s) THEN s[i] ELSE q[i - Len(s)]
  BY ConcatProperties
<1>3. /\ Len(s) + Len(q) = e - t
      /\ \A i \in 1 .. e - t : (s \o q)[i] = t + i
  <2>1. /\ Len(After(t, e)) = e - t
        /\ \A i \in 1 .. e - t : After(t, e)[i] = t + i
    BY AfterType
  <2> QED
    BY <1>2, <2>1
<1>4. t + 1 <= e
  BY <1>1, <1>3
<1>5. Head(s) = t + 1
  BY <1>1, <1>2, <1>3
<1>6. /\ rhs \in Seq(Nat) /\ Len(rhs) = e - (t + 1)
      /\ \A i \in 1 .. e - (t + 1) : rhs[i] = t + 1 + i
  <2>1. \A u \in Nat : u <= e => /\ After(u, e) \in Seq(Nat)
                                /\ Len(After(u, e)) = e - u
                                /\ \A i \in 1 .. e - u : After(u, e)[i] = u + i
    BY AfterType
  <2> HIDE DEF rhs
  <2> QED
    BY <1>4, <2>1 DEF rhs
<1>7. /\ lhs \in Seq(Nat) /\ Len(lhs) = Len(s) - 1 + Len(q)
      /\ \A i \in 1 .. Len(s) - 1 + Len(q) :
           lhs[i] = IF i <= Len(s) - 1 THEN Tail(s)[i] ELSE q[i - (Len(s) - 1)]
  BY <1>1, ConcatProperties
<1>8. Len(lhs) = Len(rhs)
  BY <1>1, <1>3, <1>6, <1>7
<1>9. ASSUME NEW i \in 1 .. e - (t + 1)
      PROVE  lhs[i] = t + 1 + i
  <2>1. /\ i + 1 \in 1 .. e - t /\ i \in 1 .. Len(s) - 1 + Len(q)
        /\ (s \o q)[i + 1] = t + (i + 1)
    BY <1>1, <1>3
  <2>2. CASE i <= Len(s) - 1
    BY <1>1, <1>2, <1>3, <1>7, <2>1, <2>2
  <2>3. CASE ~(i <= Len(s) - 1)
    <3>1. i + 1 - Len(s) = i - (Len(s) - 1) /\ ~(i + 1 <= Len(s))
      BY <1>1, <2>3
    <3> QED
      BY <1>1, <1>2, <1>3, <1>7, <2>1, <2>3, <3>1
  <2> QED
    BY <2>2, <2>3
<1>10. \A i \in 1 .. Len(lhs) : lhs[i] = rhs[i]
  BY <1>6, <1>8, <1>9
<1> HIDE DEF lhs, rhs
<1>11. lhs = rhs
  BY <1>6, <1>7, <1>8, <1>10, SeqEqual
<1> QED
  BY <1>4, <1>5, <1>11 DEF lhs, rhs

\* What is in order, and that nothing is taken before it happened.
Ordered ==
  /\ taken <= emitted
  /\ ~(finished /\ ~error) => out \o pending = After(taken, emitted)

\* That is EventsInOrder and one fact more.
LEMMA OrderedMeans == EventsInOrder /\ taken <= emitted <=> Ordered
  BY DEF EventsInOrder, Ordered, After

\* Events that happen go behind those that wait.
LEMMA EmittingKeepsOrder ==
  ASSUME WatcherAssumption, TypeOK, Ordered, ~finished,
         NEW n \in Nat, EmitUpTo(n), UNCHANGED <<out, finished, error, taken>>
  PROVE  Ordered'
<1>1. PICK k \in Nat : /\ emitted' = emitted + k /\ emitted + k <= MaxEvents
                       /\ pending' = pending \o Happened(k)
  BY Emits
<1>2. /\ emitted \in Nat /\ taken \in Nat /\ MaxEvents \in Nat
      /\ out \in Seq(Nat) /\ pending \in Seq(Nat)
  <2>1. 1 .. MaxEvents \subseteq Nat
    OBVIOUS
  <2> QED
    BY <2>1, SeqMonotonic DEF TypeOK, WatcherAssumption
<1>3. /\ Happened(k) \in Seq(Nat) /\ Len(Happened(k)) = k
      /\ \A i \in 1 .. k : Happened(k)[i] = emitted + i
  <2>1. 1 .. MaxEvents \subseteq Nat
    OBVIOUS
  <2>2. /\ Happened(k) \in Seq(1 .. MaxEvents) /\ Len(Happened(k)) = k
        /\ \A i \in 1 .. k : Happened(k)[i] = emitted + i
    BY <1>1, <1>2, HappenedType
  <2> QED
    BY <2>1, <2>2, SeqMonotonic
<1>4. taken <= emitted /\ out \o pending = After(taken, emitted)
  BY DEF Ordered
<1>5. After(taken, emitted) \o Happened(k) = After(taken, emitted + k)
  <2>1. ASSUME NEW h \in Seq(Nat), Len(h) = k, \A i \in 1 .. k : h[i] = emitted + i
        PROVE  After(taken, emitted) \o h = After(taken, emitted + k)
    <3>1. emitted \in Nat /\ taken \in Nat /\ k \in Nat /\ taken <= emitted
      BY <1>2, <1>4
    <3> QED
      BY ONLY <2>1, <3>1, AfterGrows, h \in Seq(Nat), ZenonT(60)
  <2> QED
    BY <1>3, <2>1
<1>6. out \o (pending \o Happened(k)) = (out \o pending) \o Happened(k)
  <2>1. out \in Seq(Nat) /\ pending \in Seq(Nat) /\ Happened(k) \in Seq(Nat)
    BY <1>2, <1>3
  <2> QED
    BY ONLY <2>1, SMTT(20)
<1>7. out' \o pending' = After(taken', emitted')
  BY <1>1, <1>4, <1>5, <1>6
<1>8. taken' <= emitted'
  BY <1>1, <1>2, <1>4
<1> QED
  BY <1>7, <1>8 DEF Ordered

\* Every step keeps the order.
LEMMA OrderedStep ==
  ASSUME WatcherAssumption, TypeOK, Phases, Ordered, [Next]_vars
  PROVE  Ordered'
<1> DEFINE Still == UNCHANGED <<out, pending, finished, error, emitted, taken>>
<1>1. CASE Still
  BY <1>1 DEF Ordered
<1>2. CASE HandOver
  <2>1. ~finished
    BY <1>2 DEF HandOver, At, Phases
  <2>2. out' \o pending' = out \o pending
    BY <1>2, <2>1, HandsOver
  <2>3. UNCHANGED <<finished, error, emitted, taken>>
    BY <1>2 DEF HandOver, appVars
  <2> QED
    BY <2>2, <2>3 DEF Ordered
<1>3. CASE Serve
  <2>1. ~finished /\ UNCHANGED <<out, finished, error, taken>>
    BY <1>3 DEF Serve, At, Phases, sharedVars
  <2>2. CASE EmitUpTo(1)
    BY <2>1, <2>2, EmittingKeepsOrder
  <2>3. CASE UNCHANGED <<pending, emitted>>
    BY <1>1, <2>1, <2>3
  <2> QED
    BY <1>3, <2>2, <2>3 DEF Serve
<1>4. CASE TimerDue \/ Read
  <2>1. ~finished /\ UNCHANGED <<out, finished, error, taken>> /\ EmitUpTo(MaxEmit)
    BY <1>4 DEF TimerDue, Read, Handled, At, Phases, sharedVars, appVars
  <2> QED
    BY <2>1, EmittingKeepsOrder DEF WatcherAssumption
<1>5. CASE Finish
  <2>1. UNCHANGED <<emitted, taken>>
    BY <1>5 DEF Finish
  <2>2. ~finished /\ ~error
    BY <1>5 DEF Finish, FinishClosed, FinishFailed, At, Phases
  <2>3. CASE FinishClosed
    BY <2>1, <2>2, <2>3 DEF FinishClosed, Ordered
  <2>4. CASE FinishFailed
    <3>1. out' \o pending' = out \o pending
      <4>1. out \o pending \in Seq(1 .. MaxEvents)
        BY ConcatProperties DEF TypeOK
      <4> QED
        BY <2>4, <4>1, ConcatEmptySeq DEF FinishFailed
    <3> QED
      BY <2>1, <2>2, <3>1 DEF Ordered
  <2> QED
    BY <1>5, <2>3, <2>4 DEF Finish
<1>6. ASSUME NEW r \in Receivers, Take(r), out # <<>>
      PROVE  Ordered'
  <2>1. /\ out' = Tail(out) /\ taken' = Head(out)
        /\ UNCHANGED <<pending, finished, error, emitted>>
    BY <1>6 DEF Take, threadVars
  <2>2. ~(finished /\ ~error)
    BY <1>6 DEF Phases
  <2>3. taken <= emitted /\ out \o pending = After(taken, emitted)
    BY <2>2 DEF Ordered
  <2>4. /\ emitted \in Nat /\ taken \in Nat
        /\ out \in Seq(Nat) /\ pending \in Seq(Nat)
    <3>1. 1 .. MaxEvents \subseteq Nat
      BY DEF WatcherAssumption
    <3> QED
      BY <3>1, SeqMonotonic DEF TypeOK, WatcherAssumption
  <2>5. /\ Head(out) = taken + 1 /\ taken + 1 <= emitted
        /\ Tail(out) \o pending = After(taken + 1, emitted)
    BY <1>6, <2>3, <2>4, AfterTaken
  <2> QED
    BY <2>1, <2>5 DEF Ordered
<1>7. CASE NothingDue \/ Sleep \/ SleepTimeout
  BY <1>1, <1>7 DEF NothingDue, Sleep, SleepTimeout, sharedVars, threadVars, appVars
<1>8. ASSUME NEW r \in Receivers, (Take(r) /\ out = <<>>) \/ TakeTimeout(r)
      PROVE  Ordered'
  BY <1>1, <1>8 DEF Take, TakeTimeout, sharedVars, threadVars
<1>9. ASSUME NEW c \in Callers, Call(c)
      PROVE  Ordered'
  BY <1>1, <1>9 DEF Call, threadVars
<1>10. ASSUME NEW c \in Closers, Close(c)
       PROVE  Ordered'
  BY <1>1, <1>10 DEF Close, CloseSignal, CloseTakeHandle, CloseJoin, sharedVars,
                     threadVars
<1>11. CASE UNCHANGED vars
  BY <1>1, <1>11 DEF vars, sharedVars, threadVars, appVars
<1> QED
  BY <1>2, <1>3, <1>4, <1>5, <1>6, <1>7, <1>8, <1>9, <1>10, <1>11
     DEF Next, WatchThread

(* OrderedStep keeps Ordered along every behaviour. *)
LEMMA OrderedAlways == Spec => []Ordered
<1> USE WatcherAssumption
<1>1. Init => Ordered
  <2> SUFFICES ASSUME Init PROVE Ordered
    OBVIOUS
  <2>1. out \o pending = <<>> /\ taken = 0 /\ emitted = 0
    BY DEF Init
  <2>2. After(0, 0) = <<>>
    BY AfterType, EmptySeq
  <2> QED
    BY <2>1, <2>2 DEF Ordered
<1>2. TypeOK /\ Phases /\ Ordered /\ [Next]_vars => Ordered'
  BY OrderedStep
<1> QED
  BY <1>1, <1>2, WatcherTypeCorrect, PTL DEF Spec

(***************************************************************************)
(* Every event the watcher thread reports is taken once and in its turn,   *)
(* unless a close drops it (main_loop and take of watch.rs).               *)
(***************************************************************************)
THEOREM EventsStayInOrder == Spec => []EventsInOrder
<1>1. TypeOK /\ Phases /\ Ordered => EventsInOrder
  BY OrderedMeans
<1> QED
  BY <1>1, OrderedAlways, WatcherTypeCorrect, PTL

(***************************************************************************)
(* A receiver is told of the end of a watcher that failed only after its   *)
(* last event was taken, those included that the thread still held back    *)
(* when it failed (run and take of watch.rs).                              *)
(***************************************************************************)
THEOREM EndComesLast == Spec => []EndIsHeardLast
<1> USE WatcherAssumption
<1>1. TypeOK /\ Phases /\ Ordered => EndIsHeardLast
  <2> SUFFICES ASSUME TypeOK, Phases, Ordered,
                      NEW r \in Receivers, receiving[r] = "ended", error
               PROVE  taken = emitted
    BY DEF EndIsHeardLast
  <2>1. out = <<>> /\ pending = <<>> /\ taken <= emitted
    BY DEF Phases, Ordered
  <2>2. out \o pending = After(taken, emitted)
    BY DEF Ordered
  <2>3. Len(out \o pending) = 0
    BY <2>1
  <2>4. taken \in Nat /\ emitted \in Nat
    BY DEF TypeOK, WatcherAssumption
  <2>5. Len(After(taken, emitted)) = emitted - taken
    BY <2>1, <2>4, AfterType
  <2> QED
    BY <2>1, <2>2, <2>3, <2>4, <2>5
<1> QED
  BY <1>1, OrderedAlways, WatcherTypeCorrect, PTL
=============================================================================
